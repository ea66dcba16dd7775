-------------------------- MODULE ServerConnProofs --------------------------
(***************************************************************************)
(* Proofs about ServerConn for any number of servers and windows, and for  *)
(* every choice of commands, events and hazards unless a theorem has a     *)
(* condition.  ServerConnMC is extended for the loop of                    *)
(* window_check_servers() as it is written.                                *)
(***************************************************************************)
EXTENDS ServerConnMC, SequenceLemmas, FiniteSetTheorems

-----------------------------------------------------------------------------
(* The client, as the record the handlers pass to each other *)

Windows == UNION {[D -> -1..(N - 1)] : D \in (SUBSET WindowNo) \ {{}}}

Clients == [sl : [ServerNo -> Server], win : Windows, primary : -1..(N - 1), attached : BOOLEAN]

(* c with r as the entry of server s *)
Put(c, s, r) == [c EXCEPT !.sl[s] = r]

(* The parts of a client. *)
LEMMA ClientParts ==
  ASSUME NEW c \in Clients
  PROVE  /\ c.sl \in [ServerNo -> Server] /\ c.win \in Windows
         /\ c.primary \in -1..(N - 1) /\ c.attached \in BOOLEAN
         /\ \A s \in ServerNo : c.sl[s] \in Server
  BY DEF Clients

(* The windows. *)
LEMMA WindowParts ==
  ASSUME NEW f \in Windows
  PROVE  /\ DOMAIN f \in (SUBSET WindowNo) \ {{}}
         /\ \A w \in DOMAIN f : f[w] \in -1..(N - 1)
         /\ f \in [DOMAIN f -> -1..(N - 1)]
  BY DEF Windows

(* What makes windows. *)
LEMMA WindowsOf ==
  ASSUME NEW D \in (SUBSET WindowNo) \ {{}}, NEW f \in [D -> -1..(N - 1)]
  PROVE  f \in Windows
  BY DEF Windows

(* The fields of an entry of the server list. *)
LEMMA ServerFields ==
  ASSUME NEW r \in Server
  PROVE  /\ r.open \in BOOLEAN /\ r.logged_in \in BOOLEAN /\ r.connected \in BOOLEAN
         /\ r.reconnect \in BOOLEAN /\ r.try_once \in BOOLEAN /\ r.connect_wait \in BOOLEAN
         /\ r.server_change_pending \in 0..2 /\ r.old_server \in -2..(N - 1)
         /\ r.req_server \in -1..(N - 1) /\ r.server_change_refnum \in -1..W
         /\ r.retries \in 0..RetryCap /\ r.c_server \in -2..(N - 1)
  BY DEF Server

(* Changing one entry changes nothing else. *)
LEMMA PutClient ==
  ASSUME NEW c \in Clients, NEW s \in ServerNo, NEW r \in Server
  PROVE  /\ Put(c, s, r) \in Clients
         /\ Put(c, s, r).sl[s] = r
         /\ \A t \in ServerNo \ {s} : Put(c, s, r).sl[t] = c.sl[t]
         /\ Put(c, s, r).win = c.win /\ Put(c, s, r).primary = c.primary
         /\ Put(c, s, r).attached = c.attached
  BY DEF Put, Clients

(* Numbers that occur in the entries. *)
LEMMA Bounds ==
  /\ N \in Nat \ {0} /\ W \in Nat \ {0} /\ RetryCap \in Nat \ {0}
  /\ -1 \in -1..(N - 1) /\ -1 \in -2..(N - 1) /\ -2 \in -2..(N - 1) /\ -1 \in -1..W
  /\ 0 \in 0..(N - 1) /\ 0 \in -1..(N - 1) /\ 0 \in -2..(N - 1) /\ 0 \in -1..W
  /\ \A s \in ServerNo : s \in Int /\ s \in -1..(N - 1) /\ s \in -2..(N - 1)
  /\ \A w \in WindowNo : w \in -1..W
  /\ 0 \in 0..RetryCap
  <1>1. RetryCap \in Nat \ {0}
    BY ServerConnAssumption DEF RetryCap
  <1> QED BY <1>1, ServerConnAssumption DEF ServerNo, WindowNo

-----------------------------------------------------------------------------
(* Open servers and their windows *)

(* Every open server has a window of V, unless it is part of a switch. *)
HasOwn(c, V) ==
    \A s \in ServerNo :
       c.sl[s].open => \/ \E w \in DOMAIN c.win \cap V : c.win[w] = s
                       \/ c.sl[s].server_change_pending # 0

(* From c to d no window changes its server, and no server is opened or *)
(* drops out of a switch, but for those that join one.                  *)
Kept(c, d) ==
    /\ d.win = c.win /\ d.primary = c.primary /\ d.attached = c.attached
    /\ \A s \in ServerNo :
          d.sl[s].open =>
             \/ d.sl[s].server_change_pending # 0
             \/ c.sl[s].open /\ d.sl[s].server_change_pending = c.sl[s].server_change_pending

LEMMA KeptHasOwn ==
  ASSUME NEW c, NEW d, NEW V, Kept(c, d), HasOwn(c, V)
  PROVE  HasOwn(d, V)
  BY DEF Kept, HasOwn

LEMMA KeptTrans ==
  ASSUME NEW c, NEW d, NEW e, Kept(c, d), Kept(d, e)
  PROVE  Kept(c, e)
  BY DEF Kept

LEMMA KeptSelf == ASSUME NEW c PROVE Kept(c, c)
  BY DEF Kept

(* An entry that changes in this way. *)
Keeps(q, r) ==
    r.open => \/ r.server_change_pending # 0
              \/ q.open /\ r.server_change_pending = q.server_change_pending

LEMMA PutKept ==
  ASSUME NEW c \in Clients, NEW s \in ServerNo, NEW r \in Server, Keeps(c.sl[s], r)
  PROVE  Put(c, s, r) \in Clients /\ Kept(c, Put(c, s, r))
  <1> DEFINE d == Put(c, s, r)
  <1>1. /\ d \in Clients /\ d.sl[s] = r /\ \A t \in ServerNo \ {s} : d.sl[t] = c.sl[t]
        /\ d.win = c.win /\ d.primary = c.primary /\ d.attached = c.attached
    BY PutClient
  <1> HIDE DEF d
  <1>2. Kept(c, d)
    BY <1>1 DEF Kept, Keeps
  <1> QED BY <1>1, <1>2 DEF d

-----------------------------------------------------------------------------
(* Closing *)

(* the entry of a server that has been closed *)
Reset(r, no, zero) == [r EXCEPT !.open = no, !.logged_in = no, !.connected = no,
                                !.reconnect = no, !.try_once = no,
                                !.server_change_pending = zero]

Closed(r) == Reset(r, FALSE, 0)

LEMMA ResetEntry ==
  ASSUME NEW r \in Server, NEW no \in BOOLEAN, NEW zero \in 0..2
  PROVE  Reset(r, no, zero) \in Server
  BY DEF Reset, Server

LEMMA ClosedEntry ==
  ASSUME NEW r \in Server
  PROVE  /\ Closed(r) \in Server /\ ~ Closed(r).open /\ ~ Closed(r).reconnect
         /\ Closed(r).old_server = r.old_server /\ Closed(r).req_server = r.req_server
         /\ Closed(r).c_server = r.c_server /\ Closed(r).retries = r.retries
         /\ Closed(r).server_change_refnum = r.server_change_refnum
  <1>1. Closed(r) \in Server
    <2>1. FALSE \in BOOLEAN /\ 0 \in 0..2
      OBVIOUS
    <2>2. Reset(r, FALSE, 0) \in Server
      BY <2>1, ResetEntry, Zenon
    <2> QED BY <2>2 DEF Closed
  <1>2. /\ ~ Closed(r).open /\ ~ Closed(r).reconnect
        /\ Closed(r).old_server = r.old_server /\ Closed(r).req_server = r.req_server
    BY DEF Closed, Reset, Server
  <1>3. /\ Closed(r).c_server = r.c_server /\ Closed(r).retries = r.retries
        /\ Closed(r).server_change_refnum = r.server_change_refnum
    BY DEF Closed, Reset, Server
  <1> QED BY <1>1, <1>2, <1>3

LEMMA CloseIsPut ==
  ASSUME NEW c, NEW s \in ServerNo
  PROVE  close_server(c, s) = Put(c, s, Closed(c.sl[s]))
  BY DEF close_server, Put, Closed, Reset

(* close_server() *)
LEMMA CloseServer ==
  ASSUME NEW c \in Clients, NEW s
  PROVE  /\ close_server(c, s) \in Clients /\ Kept(c, close_server(c, s))
         /\ s \in ServerNo => /\ ~ close_server(c, s).sl[s].open
                              /\ close_server(c, s).sl[s] = Closed(c.sl[s])
         /\ \A t \in ServerNo : t # s => close_server(c, s).sl[t] = c.sl[t]
  <1> DEFINE d == close_server(c, s)
  <1>1. CASE s \notin ServerNo
    <2>1. d = c
      BY <1>1 DEF close_server
    <2> HIDE DEF d
    <2> QED BY <1>1, <2>1, KeptSelf DEF d
  <1>2. CASE s \in ServerNo
    <2>1. c.sl[s] \in Server
      BY <1>2, ClientParts
    <2>2. Closed(c.sl[s]) \in Server /\ ~ Closed(c.sl[s]).open /\ Keeps(c.sl[s], Closed(c.sl[s]))
      BY <2>1, ClosedEntry DEF Keeps
    <2>3. d = Put(c, s, Closed(c.sl[s]))
      BY <1>2, CloseIsPut
    <2> HIDE DEF d
    <2>4. d \in Clients /\ Kept(c, d)
      BY <1>2, <2>2, <2>3, PutKept
    <2>5. d.sl[s] = Closed(c.sl[s]) /\ \A t \in ServerNo : t # s => d.sl[t] = c.sl[t]
      BY <1>2, <2>2, <2>3, PutClient
    <2> QED BY <2>2, <2>4, <2>5 DEF d
  <1> QED BY <1>1, <1>2

(* Several servers at once. *)
LEMMA CloseSeveral ==
  ASSUME NEW c \in Clients, NEW S
  PROVE  /\ CloseAll(c, S) \in Clients /\ Kept(c, CloseAll(c, S))
         /\ \A s \in ServerNo : CloseAll(c, S).sl[s] = IF s \in S THEN Closed(c.sl[s]) ELSE c.sl[s]
  <1> DEFINE d == CloseAll(c, S)
             f == [s \in ServerNo |-> IF s \in S THEN close_server(c, s).sl[s] ELSE c.sl[s]]
  <1>1. \A s \in ServerNo : c.sl[s] \in Server
    BY ClientParts
  <1>2. \A s \in ServerNo : close_server(c, s).sl[s] = Closed(c.sl[s])
    BY CloseServer
  <1>3. \A s \in ServerNo : f[s] = IF s \in S THEN Closed(c.sl[s]) ELSE c.sl[s]
    BY <1>2
  <1>4. f \in [ServerNo -> Server]
    BY <1>1, <1>3, ClosedEntry
  <1>5. d = [c EXCEPT !.sl = f]
    BY DEF CloseAll
  <1> HIDE DEF f
  <1>6. d \in Clients /\ d.sl = f /\ d.win = c.win /\ d.primary = c.primary /\ d.attached = c.attached
    BY <1>4, <1>5 DEF Clients
  <1> HIDE DEF d
  <1>7. \A s \in ServerNo : d.sl[s] = IF s \in S THEN Closed(c.sl[s]) ELSE c.sl[s]
    BY <1>3, <1>6
  <1>8. \A s \in ServerNo : ~ Closed(c.sl[s]).open
    BY <1>1, ClosedEntry
  <1>9. Kept(c, d)
    BY <1>6, <1>7, <1>8 DEF Kept
  <1> QED BY <1>6, <1>7, <1>9 DEF d

(* close_unattached_servers() *)
LEMMA CloseUnattached ==
  ASSUME NEW c \in Clients
  PROVE  close_unattached_servers(c) \in Clients /\ Kept(c, close_unattached_servers(c))
  BY CloseSeveral DEF close_unattached_servers

-----------------------------------------------------------------------------
(* Asking for a connection *)

(* One field of an entry. *)
LEMMA FieldChanges ==
  ASSUME NEW r \in Server, NEW b \in BOOLEAN
  PROVE  /\ [r EXCEPT !.reconnect = b] \in Server /\ Keeps(r, [r EXCEPT !.reconnect = b])
         /\ [r EXCEPT !.connected = b] \in Server /\ Keeps(r, [r EXCEPT !.connected = b])
         /\ [r EXCEPT !.connect_wait = b] \in Server /\ Keeps(r, [r EXCEPT !.connect_wait = b])
  <1>1. /\ [r EXCEPT !.reconnect = b] \in Server
        /\ [r EXCEPT !.connected = b] \in Server
        /\ [r EXCEPT !.connect_wait = b] \in Server
    BY DEF Server
  <1>2. Keeps(r, [r EXCEPT !.reconnect = b])
    BY DEF Server, Keeps
  <1>3. Keeps(r, [r EXCEPT !.connected = b])
    BY DEF Server, Keeps
  <1>4. Keeps(r, [r EXCEPT !.connect_wait = b])
    BY DEF Server, Keeps
  <1> QED BY <1>1, <1>2, <1>3, <1>4

LEMMA NumberChanges ==
  ASSUME NEW r \in Server, NEW o \in -2..(N - 1), NEW q \in -1..(N - 1), NEW n \in 0..RetryCap
  PROVE  /\ [r EXCEPT !.old_server = o] \in Server /\ Keeps(r, [r EXCEPT !.old_server = o])
         /\ [r EXCEPT !.req_server = q] \in Server /\ Keeps(r, [r EXCEPT !.req_server = q])
         /\ [r EXCEPT !.retries = n] \in Server /\ Keeps(r, [r EXCEPT !.retries = n])
  <1>1. /\ [r EXCEPT !.old_server = o] \in Server
        /\ [r EXCEPT !.req_server = q] \in Server
        /\ [r EXCEPT !.retries = n] \in Server
    BY DEF Server
  <1>2. Keeps(r, [r EXCEPT !.old_server = o])
    BY DEF Server, Keeps
  <1>3. Keeps(r, [r EXCEPT !.req_server = q])
    BY DEF Server, Keeps
  <1>4. Keeps(r, [r EXCEPT !.retries = n])
    BY DEF Server, Keeps
  <1> QED BY <1>1, <1>2, <1>3, <1>4

(* The entry get_connected() makes. *)
AskFor(r, yes, req, old, ref, n) ==
    [r EXCEPT !.reconnect = yes, !.req_server = req, !.old_server = old,
              !.server_change_refnum = ref, !.retries = n]

LEMMA AskForEntry ==
  ASSUME NEW r \in Server, NEW yes \in BOOLEAN, NEW req \in -1..(N - 1), NEW old \in -2..(N - 1),
         NEW ref \in -1..W, NEW n \in 0..RetryCap
  PROVE  AskFor(r, yes, req, old, ref, n) \in Server /\ Keeps(r, AskFor(r, yes, req, old, ref, n))
  <1>1. AskFor(r, yes, req, old, ref, n) \in Server
    BY DEF AskFor, Server
  <1>2. Keeps(r, AskFor(r, yes, req, old, ref, n))
    BY DEF AskFor, Keeps, Server
  <1> QED BY <1>1, <1>2

LEMMA AskConnects ==
  ASSUME NEW c \in Clients, NEW s, NEW old
  PROVE  AskConnect(c, s, old) \in Clients /\ Kept(c, AskConnect(c, s, old))
  <1>1. CASE s \notin ServerNo
    <2>1. AskConnect(c, s, old) = c
      BY <1>1 DEF AskConnect
    <2> QED BY <2>1, KeptSelf
  <1>2. CASE s \in ServerNo
    <2> DEFINE o == IF Registered(c, old) THEN old ELSE -1
               r == AskFor(c.sl[s], TRUE, s, o, -1, 0)
    <2>1. AskConnect(c, s, old) = Put(c, s, r)
      BY <1>2 DEF AskConnect, Put, AskFor
    <2>2. o \in -2..(N - 1) /\ s \in -1..(N - 1) /\ -1 \in -1..W /\ 0 \in 0..RetryCap
      BY <1>2, Bounds DEF Registered
    <2>3. c.sl[s] \in Server /\ TRUE \in BOOLEAN
      BY <1>2, ClientParts
    <2> HIDE DEF o
    <2>4. r \in Server /\ Keeps(c.sl[s], r)
      BY <2>2, <2>3, AskForEntry, Zenon
    <2> HIDE DEF r
    <2> QED BY <1>2, <2>1, <2>4, PutKept
  <1> QED BY <1>1, <1>2

LEMMA Closes ==
  ASSUME NEW c \in Clients, NEW s
  PROVE  CloseUnlessRegistered(c, s) \in Clients /\ Kept(c, CloseUnlessRegistered(c, s))
  BY CloseServer, KeptSelf DEF CloseUnlessRegistered

(* get_connected() *)
LEMMA GetConnected ==
  ASSUME NEW c \in Clients, NEW s, NEW old
  PROVE  get_connected(c, s, old) \in Clients /\ Kept(c, get_connected(c, s, old))
  <1> DEFINE a == CloseUnlessRegistered(c, find_old_server(c, old))
             b == CloseUnlessRegistered(a, old)
             d == AskConnect(b, s, old)
  <1>1. a \in Clients /\ Kept(c, a)
    BY Closes
  <1>2. b \in Clients /\ Kept(a, b)
    BY <1>1, Closes
  <1>3. d \in Clients /\ Kept(b, d)
    BY <1>2, AskConnects
  <1>4. get_connected(c, s, old) = IF InProgress(c) THEN c ELSE d
    BY DEF get_connected, Abandon
  <1> HIDE DEF a, b, d
  <1>5. Kept(c, d)
    BY <1>1, <1>2, <1>3, KeptTrans
  <1> QED BY <1>3, <1>4, <1>5, KeptSelf

-----------------------------------------------------------------------------
(* Opening a socket *)

(* The entries connect_to_server_by_refnum() makes. *)
Opening(r, yes, old, one) ==
    [r EXCEPT !.open = yes, !.connect_wait = yes, !.c_server = old,
              !.server_change_pending = one]

LEMMA OpeningEntry ==
  ASSUME NEW r \in Server, NEW yes \in BOOLEAN, NEW old \in -2..(N - 1), NEW one \in 0..2
  PROVE  /\ Opening(r, yes, old, one) \in Server
         /\ one # 0 => Keeps(r, Opening(r, yes, old, one))
  <1>1. Opening(r, yes, old, one) \in Server
    BY DEF Opening, Server
  <1>2. Opening(r, yes, old, one).server_change_pending = one
    BY DEF Opening, Server
  <1> QED BY <1>1, <1>2 DEF Keeps

Leaving(r, two) == [r EXCEPT !.server_change_pending = two]

LEMMA LeavingEntry ==
  ASSUME NEW r \in Server, NEW two \in 0..2
  PROVE  Leaving(r, two) \in Server /\ (two # 0 => Keeps(r, Leaving(r, two)))
  <1>1. Leaving(r, two) \in Server /\ Leaving(r, two).server_change_pending = two
    BY DEF Leaving, Server
  <1> QED BY <1>1 DEF Keeps

LEMMA Connects ==
  ASSUME NEW c \in Clients, NEW s \in ServerNo, NEW old \in -2..(N - 1), NEW ok
  PROVE  /\ connect_to_server_by_refnum(c, s, old, ok) \in Clients
         /\ Kept(c, connect_to_server_by_refnum(c, s, old, ok))
  <1> DEFINE p == Opening(c.sl[s], TRUE, old, 1)
             b == Put(c, s, p)
             q == Leaving(b.sl[old], 2)
             d == Put(b, old, q)
             e == connect_to_server_by_refnum(c, s, old, ok)
  <1>1. e = IF c.sl[s].open \/ ~ ok THEN c ELSE IF old \in ServerNo THEN d ELSE b
    BY DEF connect_to_server_by_refnum, Put, Opening, Leaving
  <1>2. c.sl[s] \in Server
    BY ClientParts
  <1>3. p \in Server /\ Keeps(c.sl[s], p)
    <2>1. TRUE \in BOOLEAN /\ 1 \in 0..2 /\ 1 # 0
      OBVIOUS
    <2> QED BY <1>2, <2>1, OpeningEntry, Zenon
  <1> HIDE DEF p
  <1>4. b \in Clients /\ Kept(c, b)
    BY <1>3, PutKept
  <1> HIDE DEF b
  <1>5. old \in ServerNo => d \in Clients /\ Kept(b, d)
    <2> SUFFICES ASSUME old \in ServerNo PROVE d \in Clients /\ Kept(b, d)
      OBVIOUS
    <2>1. b.sl[old] \in Server
      BY <1>4, ClientParts
    <2>2. q \in Server /\ Keeps(b.sl[old], q)
      BY <2>1, LeavingEntry
    <2> HIDE DEF q
    <2> QED BY <1>4, <2>2, PutKept
  <1> HIDE DEF d, e
  <1>6. e \in Clients /\ Kept(c, e)
    BY <1>1, <1>4, <1>5, KeptTrans, KeptSelf
  <1> QED BY <1>6 DEF e

-----------------------------------------------------------------------------
(* Going on to the next server *)

(* A server that is not open follows the one that isn't. *)
LEMMA NextServerNo ==
  ASSUME NEW c \in Clients, NEW i \in ServerNo, ~ c.sl[i].open
  PROVE  next_server(c, i) \in ServerNo /\ ~ c.sl[next_server(c, i)].open
  <1> DEFINE steps == {j \in 1..N : ~ c.sl[(i + j) % N].open}
             k == CHOOSE m \in steps : \A j \in steps : m <= j
  <1>1. N \in Nat \ {0} /\ i \in 0..(N - 1)
    BY Bounds DEF ServerNo
  <1>2. (i + N) % N = i
    BY <1>1
  <1>3. steps # {} /\ steps \in SUBSET Nat
    <2>1. N \in steps
      <3>1. N \in 1..N
        BY <1>1
      <3>2. ~ c.sl[(i + N) % N].open
        BY <1>2
      <3> QED BY <3>1, <3>2, Zenon
    <2>2. steps \subseteq 1..N
      OBVIOUS
    <2>3. 1..N \subseteq Nat
      BY <1>1
    <2> HIDE DEF steps
    <2> QED BY <2>1, <2>2, <2>3, Zenon
  <1>4. k \in steps
    <2> HIDE DEF steps
    <2>1. \E m \in steps : \A j \in steps : m <= j
      BY <1>3, LeastElement
    <2> QED BY <2>1
  <1>5. next_server(c, i) = (i + k) % N
    BY DEF next_server
  <1>6. k \in 1..N /\ ~ c.sl[(i + k) % N].open
    BY <1>4
  <1> HIDE DEF k
  <1>7. (i + k) % N \in 0..(N - 1)
    BY <1>1, <1>6
  <1> QED BY <1>5, <1>6, <1>7 DEF ServerNo

(* The entries of a server that takes over and of the one that hands over. *)
TakeOver(r, yes, n, req, old, ref, cs) ==
    [r EXCEPT !.reconnect = yes, !.retries = n, !.req_server = req, !.old_server = old,
              !.server_change_refnum = ref, !.c_server = cs]

GiveUp(r, no, n, minus) ==
    [r EXCEPT !.reconnect = no, !.retries = n, !.old_server = minus, !.req_server = minus,
              !.connect_wait = no, !.c_server = minus]

LEMMA TakeOverEntry ==
  ASSUME NEW r \in Server, NEW yes \in BOOLEAN, NEW n \in 0..RetryCap, NEW req \in -1..(N - 1),
         NEW old \in -2..(N - 1), NEW ref \in -1..W, NEW cs \in -2..(N - 1)
  PROVE  /\ TakeOver(r, yes, n, req, old, ref, cs) \in Server
         /\ Keeps(r, TakeOver(r, yes, n, req, old, ref, cs))
         /\ TakeOver(r, yes, n, req, old, ref, cs).open = r.open
  <1>1. TakeOver(r, yes, n, req, old, ref, cs) \in Server
    BY DEF TakeOver, Server
  <1>2. Keeps(r, TakeOver(r, yes, n, req, old, ref, cs))
        /\ TakeOver(r, yes, n, req, old, ref, cs).open = r.open
    BY DEF TakeOver, Server, Keeps
  <1> QED BY <1>1, <1>2

LEMMA GiveUpEntry ==
  ASSUME NEW r \in Server, NEW no \in BOOLEAN, NEW n \in 0..RetryCap, NEW minus \in -1..(N - 1)
  PROVE  GiveUp(r, no, n, minus) \in Server /\ Keeps(r, GiveUp(r, no, n, minus))
  <1>1. minus \in -2..(N - 1)
    BY Bounds
  <1>2. GiveUp(r, no, n, minus) \in Server
    BY <1>1 DEF GiveUp, Server
  <1>3. Keeps(r, GiveUp(r, no, n, minus))
    BY DEF GiveUp, Server, Keeps
  <1> QED BY <1>2, <1>3

LEMMA HandsOver ==
  ASSUME NEW c \in Clients, NEW i \in ServerNo, NEW nxt \in ServerNo, nxt # i
  PROVE  HandOver(c, i, nxt) \in Clients /\ Kept(c, HandOver(c, i, nxt))
  <1> DEFINE o == c.sl[i]
             p == TakeOver(c.sl[nxt], TRUE, 0, o.req_server, o.old_server,
                           o.server_change_refnum, o.c_server)
             b == Put(c, nxt, p)
             q == GiveUp(b.sl[i], FALSE, 0, -1)
             d == Put(b, i, q)
  <1>1. HandOver(c, i, nxt) = d
    BY DEF HandOver, Put, TakeOver, GiveUp
  <1>2. /\ c.sl[nxt] \in Server /\ o \in Server
        /\ TRUE \in BOOLEAN /\ FALSE \in BOOLEAN /\ 0 \in 0..RetryCap /\ -1 \in -1..(N - 1)
    BY ClientParts, Bounds
  <1>3. /\ o.req_server \in -1..(N - 1) /\ o.old_server \in -2..(N - 1)
        /\ o.server_change_refnum \in -1..W /\ o.c_server \in -2..(N - 1)
    BY <1>2, ServerFields
  <1> HIDE DEF o
  <1>4. p \in Server /\ Keeps(c.sl[nxt], p)
    BY <1>2, <1>3, TakeOverEntry, Zenon
  <1> HIDE DEF p
  <1>5. b \in Clients /\ Kept(c, b)
    BY <1>4, PutKept
  <1> HIDE DEF b
  <1>6. b.sl[i] \in Server
    BY <1>5, ClientParts
  <1>7. q \in Server /\ Keeps(b.sl[i], q)
    BY <1>2, <1>6, GiveUpEntry, Zenon
  <1> HIDE DEF q
  <1>8. d \in Clients /\ Kept(b, d)
    BY <1>5, <1>7, PutKept
  <1> HIDE DEF d
  <1> QED BY <1>1, <1>5, <1>8, KeptTrans

(* One more attempt. *)
LEMMA CountsRetry ==
  ASSUME NEW c \in Clients, NEW i \in ServerNo
  PROVE  /\ Retried(c, i) \in Clients /\ Kept(c, Retried(c, i))
         /\ Retried(c, i).sl[i].open = c.sl[i].open
  <1> DEFINE n == IF c.sl[i].retries < RetryCap THEN c.sl[i].retries + 1 ELSE RetryCap
             r == [c.sl[i] EXCEPT !.retries = n]
  <1>1. Retried(c, i) = Put(c, i, r)
    BY DEF Retried, Put
  <1>2. c.sl[i] \in Server /\ c.sl[i].retries \in 0..RetryCap /\ RetryCap \in Nat
    BY ClientParts, ServerFields, Bounds
  <1>3. n \in 0..RetryCap
    BY <1>2
  <1> HIDE DEF n
  <1>4. r \in Server /\ Keeps(c.sl[i], r) /\ r.open = c.sl[i].open
    <2>1. 0 \in -2..(N - 1) /\ 0 \in -1..(N - 1)
      BY Bounds
    <2>2. r \in Server /\ Keeps(c.sl[i], r)
      BY <1>2, <1>3, <2>1, NumberChanges
    <2>3. r.open = c.sl[i].open
      BY <1>2 DEF Server
    <2> QED BY <2>2, <2>3
  <1> HIDE DEF r
  <1>5. Put(c, i, r) \in Clients /\ Kept(c, Put(c, i, r))
    BY <1>4, PutKept
  <1>6. Put(c, i, r).sl[i] = r
    BY <1>4, PutClient
  <1> QED BY <1>1, <1>4, <1>5, <1>6

(* advance_server() *)
LEMMA Advances ==
  ASSUME NEW c \in Clients, NEW i \in ServerNo, ~ c.sl[i].open
  PROVE  /\ advance_server(c, i).client \in Clients
         /\ advance_server(c, i).server \in ServerNo \cup {-1}
         /\ Kept(c, advance_server(c, i).client)
  <1> DEFINE c1  == Retried(c, i)
             nxt == IF c1.sl[i].retries >= MaxReconnect THEN next_server(c1, i) ELSE i
             c2  == IF nxt = i THEN c1 ELSE HandOver(c1, i, nxt)
             c3  == close_server(c2, nxt)
             adv == advance_server(c, i)
  <1>1. adv = IF GivesUp(c2, nxt) THEN [client |-> c3, server |-> -1]
                                  ELSE [client |-> c2, server |-> nxt]
    BY DEF advance_server
  <1>2. c1 \in Clients /\ Kept(c, c1) /\ ~ c1.sl[i].open
    BY CountsRetry
  <1> HIDE DEF c1
  <1>3. nxt \in ServerNo
    BY <1>2, NextServerNo
  <1> HIDE DEF nxt
  <1>4. c2 \in Clients /\ Kept(c1, c2)
    BY <1>2, <1>3, HandsOver, KeptSelf
  <1> HIDE DEF c2
  <1>5. c3 \in Clients /\ Kept(c2, c3)
    BY <1>4, CloseServer
  <1> HIDE DEF c3, adv
  <1>6. Kept(c, c2) /\ Kept(c, c3)
    BY <1>2, <1>4, <1>5, KeptTrans
  <1>7. adv.client \in Clients /\ adv.server \in ServerNo \cup {-1} /\ Kept(c, adv.client)
    BY <1>1, <1>3, <1>4, <1>5, <1>6
  <1> QED BY <1>7 DEF adv

-----------------------------------------------------------------------------
(* window_check_servers() *)

(* The windows when its loop has ended. *)
WindowsAfter(c) == [w \in DOMAIN c.win |-> WinAt(c, w, N)]

LEMMA WindowsAfterType ==
  ASSUME NEW c \in Clients
  PROVE  WindowsAfter(c) \in Windows /\ DOMAIN WindowsAfter(c) = DOMAIN c.win
  <1>1. /\ DOMAIN c.win \in (SUBSET WindowNo) \ {{}} /\ c.primary \in -1..(N - 1)
        /\ \A w \in DOMAIN c.win : c.win[w] \in -1..(N - 1)
    BY ClientParts, WindowParts
  <1>2. \A w \in DOMAIN c.win : WinAt(c, w, N) \in -1..(N - 1)
    BY <1>1 DEF WinAt
  <1>3. WindowsAfter(c) \in [DOMAIN c.win -> -1..(N - 1)]
    BY <1>2 DEF WindowsAfter
  <1> QED BY <1>1, <1>3, WindowsOf

(* A window that is with an open server when the loop arrives there stays. *)
LEMMA StaysAtOpen ==
  ASSUME NEW c \in Clients, NEW w \in DOMAIN c.win, NEW s \in ServerNo, c.sl[s].open,
         WinAt(c, w, s) = s \/ c.win[w] = s
  PROVE  WindowsAfter(c)[w] = s
  <1>1. N \in Nat /\ s \in 0..(N - 1) /\ c.win[w] \in -1..(N - 1)
    BY Bounds, ClientParts, WindowParts DEF ServerNo
  <1>2. WinAt(c, w, N) = s
    <2>1. CASE c.win[w] = s
      BY <2>1 DEF WinAt
    <2>2. CASE c.win[w] # s
      <3>1. c.win[w] \in 0..(s - 1) /\ ~ c.sl[c.win[w]].open /\ c.primary = s
        BY <2>2 DEF WinAt
      <3>2. c.win[w] \in 0..(N - 1)
        BY <1>1, <3>1
      <3> QED BY <3>1, <3>2 DEF WinAt
    <2> QED BY <2>1, <2>2
  <1> QED BY <1>2 DEF WindowsAfter

(* The greatest of a set of servers. *)
LEMMA GreatestServer ==
  ASSUME NEW S \in SUBSET ServerNo, S # {}
  PROVE  (CHOOSE s \in S : \A t \in S : t <= s) \in S
  <1>1. N - 1 \in Nat /\ S \in SUBSET 0..(N - 1)
    BY Bounds DEF ServerNo
  <1>2. \E s \in S : \A t \in S : t <= s
    <2>1. Max(S) \in S /\ \A t \in S : t <= Max(S)
      BY <1>1, GreatestElement
    <2> QED BY <2>1
  <1> QED BY <1>2

(* A new primary server changes no entry, and takes no window of an open server. *)
LEMMA TakesOver ==
  ASSUME NEW b \in Clients, NEW prime \in -1..(N - 1)
  PROVE  /\ NewPrimary(b, prime) \in Clients
         /\ NewPrimary(b, prime).sl = b.sl /\ DOMAIN NewPrimary(b, prime).win = DOMAIN b.win
         /\ NewPrimary(b, prime).attached = b.attached
         /\ \A w \in DOMAIN b.win, s \in ServerNo :
               b.win[w] = s /\ b.sl[s].open => NewPrimary(b, prime).win[w] = s
  <1> DEFINE f == [w \in DOMAIN b.win |-> IF b.win[w] = b.primary THEN prime ELSE b.win[w]]
             d == [b EXCEPT !.win = f, !.primary = prime]
             e == NewPrimary(b, prime)
  <1>1. e = IF Open(b, b.primary) THEN b ELSE d
    BY DEF NewPrimary
  <1>2. /\ DOMAIN b.win \in (SUBSET WindowNo) \ {{}}
        /\ \A w \in DOMAIN b.win : b.win[w] \in -1..(N - 1)
    BY ClientParts, WindowParts
  <1>3. f \in Windows /\ DOMAIN f = DOMAIN b.win
    <2>1. f \in [DOMAIN b.win -> -1..(N - 1)]
      BY <1>2
    <2> HIDE DEF f
    <2> QED BY <1>2, <2>1, WindowsOf
  <1>4. ASSUME NEW w \in DOMAIN b.win, NEW s \in ServerNo, b.win[w] = s, b.sl[s].open,
               ~ Open(b, b.primary)
        PROVE  f[w] = s
    BY <1>4 DEF Open
  <1> HIDE DEF f
  <1>5. d \in Clients /\ d.sl = b.sl /\ d.win = f /\ d.attached = b.attached
    BY <1>3 DEF Clients
  <1> HIDE DEF d, e
  <1>6. CASE Open(b, b.primary)
    <2>1. e = b
      BY <1>1, <1>6
    <2> QED BY <2>1 DEF e
  <1>7. CASE ~ Open(b, b.primary)
    <2>1. e = d
      BY <1>1, <1>7
    <2> QED BY <1>3, <1>4, <1>5, <1>7, <2>1 DEF e
  <1> QED BY <1>6, <1>7

LEMMA WindowCheck ==
  ASSUME NEW c \in Clients
  PROVE  /\ window_check_servers(c) \in Clients
         /\ DOMAIN window_check_servers(c).win = DOMAIN c.win
         /\ HasOwn(window_check_servers(c), WindowNo)
         /\ \A V : HasOwn(c, V) => HasOwn(window_check_servers(c), V)
         /\ \A s \in ServerNo : window_check_servers(c).sl[s] \in {c.sl[s], Closed(c.sl[s])}
  <1> DEFINE served == {s \in ServerNo : Open(c, s) /\ HasWindowAt(c, s, s)}
             prime  == IF served = {} THEN -1
                       ELSE CHOOSE s \in served : \A t \in served : t <= s
             gone   == {s \in ServerNo : ClosedByCheck(c, s)}
             a      == [c EXCEPT !.win = WindowsAfter(c), !.attached = served # {}]
             b      == CloseAll(a, gone)
             d      == NewPrimary(b, prime)
  <1>1. window_check_servers(c) = d
    BY DEF window_check_servers, WindowsAfter
  <1>2. prime \in -1..(N - 1)
    <2>1. served \in SUBSET ServerNo
      OBVIOUS
    <2> HIDE DEF served
    <2> QED BY <2>1, GreatestServer, Bounds
  <1>3. WindowsAfter(c) \in Windows /\ DOMAIN WindowsAfter(c) = DOMAIN c.win
    BY WindowsAfterType
  <1>4. a \in Clients /\ a.sl = c.sl /\ a.win = WindowsAfter(c)
    <2>1. (served # {}) \in BOOLEAN
      OBVIOUS
    <2> HIDE DEF served
    <2> QED BY <1>3, <2>1 DEF Clients
  <1> HIDE DEF a, prime, served
  <1>5. /\ b \in Clients /\ b.win = a.win
        /\ \A s \in ServerNo : b.sl[s] = IF s \in gone THEN Closed(a.sl[s]) ELSE a.sl[s]
    BY <1>4, CloseSeveral DEF Kept
  <1> HIDE DEF b
  <1>6. /\ d \in Clients /\ d.sl = b.sl /\ DOMAIN d.win = DOMAIN b.win
        /\ \A w \in DOMAIN b.win, s \in ServerNo : b.win[w] = s /\ b.sl[s].open => d.win[w] = s
    BY <1>2, <1>5, TakesOver
  <1> HIDE DEF d
  <1>7. DOMAIN d.win = DOMAIN c.win
    BY <1>3, <1>4, <1>5, <1>6
  <1>8. \A s \in ServerNo : c.sl[s] \in Server /\ ~ Closed(c.sl[s]).open
    BY ClientParts, ClosedEntry
  <1>9. ASSUME NEW s \in ServerNo, d.sl[s].open
        PROVE  /\ d.sl[s] = c.sl[s] /\ ~ ClosedByCheck(c, s)
               /\ \A w \in DOMAIN c.win : WinAt(c, w, s) = s \/ c.win[w] = s => d.win[w] = s
    <2>1. s \notin gone /\ d.sl[s] = c.sl[s]
      BY <1>4, <1>5, <1>6, <1>8, <1>9
    <2>2. ASSUME NEW w \in DOMAIN c.win, WinAt(c, w, s) = s \/ c.win[w] = s
          PROVE  d.win[w] = s
      <3>1. WindowsAfter(c)[w] = s
        BY <1>9, <2>1, <2>2, StaysAtOpen
      <3> QED BY <1>3, <1>4, <1>5, <1>6, <1>9, <3>1
    <2> QED BY <2>1, <2>2
  <1>10. HasOwn(d, WindowNo)
    <2> SUFFICES ASSUME NEW s \in ServerNo, d.sl[s].open
                 PROVE  \/ \E w \in DOMAIN d.win \cap WindowNo : d.win[w] = s
                        \/ d.sl[s].server_change_pending # 0
      BY DEF HasOwn
    <2>1. d.sl[s] = c.sl[s] /\ ~ ClosedByCheck(c, s)
      BY <1>9
    <2>2. CASE HasWindowAt(c, s, s)
      <3>1. PICK w \in DOMAIN c.win : WinAt(c, w, s) = s
        BY <2>2 DEF HasWindowAt
      <3>2. d.win[w] = s
        BY <1>9, <3>1
      <3>3. w \in WindowNo
        BY ClientParts, WindowParts
      <3> QED BY <1>7, <3>2, <3>3
    <2>3. CASE ~ HasWindowAt(c, s, s)
      BY <2>1, <2>3 DEF ClosedByCheck, Open
    <2> QED BY <2>2, <2>3
  <1>11. ASSUME NEW V, HasOwn(c, V) PROVE HasOwn(d, V)
    <2> SUFFICES ASSUME NEW s \in ServerNo, d.sl[s].open
                 PROVE  \/ \E w \in DOMAIN d.win \cap V : d.win[w] = s
                        \/ d.sl[s].server_change_pending # 0
      BY DEF HasOwn
    <2>1. d.sl[s] = c.sl[s]
      BY <1>9
    <2>2. \/ \E w \in DOMAIN c.win \cap V : c.win[w] = s
          \/ c.sl[s].server_change_pending # 0
      BY <1>11, <2>1 DEF HasOwn
    <2> QED BY <1>7, <1>9, <2>1, <2>2
  <1>12. \A s \in ServerNo : d.sl[s] \in {c.sl[s], Closed(c.sl[s])}
    BY <1>4, <1>5, <1>6
  <1> QED BY <1>1, <1>6, <1>7, <1>10, <1>11, <1>12

-----------------------------------------------------------------------------
(* The handlers *)

(* A client in which every open server has a window. *)
Good(c) == c \in Clients /\ HasOwn(c, WindowNo)

LEMMA KeptGood ==
  ASSUME NEW c, NEW d \in Clients, Good(c), Kept(c, d)
  PROVE  Good(d)
  BY KeptHasOwn DEF Good

LEMMA CheckedGood ==
  ASSUME NEW c \in Clients
  PROVE  /\ Good(window_check_servers(c))
         /\ DOMAIN window_check_servers(c).win = DOMAIN c.win
  BY WindowCheck DEF Good

(* set_window_server() *)
LEMMA SetsWindow ==
  ASSUME NEW c \in Clients, NEW ref, NEW s \in ServerNo, NEW cur \in DOMAIN c.win
  PROVE  Good(set_window_server(c, ref, s, cur))
  <1>1. s \in -1..(N - 1)
    BY Bounds
  <1>2. /\ DOMAIN c.win \in (SUBSET WindowNo) \ {{}} /\ c.win \in [DOMAIN c.win -> -1..(N - 1)]
        /\ \A w \in DOMAIN c.win : c.win[w] \in -1..(N - 1)
    BY ClientParts, WindowParts
  <1>3. CASE ref = -1
    <2> DEFINE f == [w \in DOMAIN c.win |-> IF c.win[w] = c.primary THEN s ELSE c.win[w]]
               a == [c EXCEPT !.win = f]
               b == window_check_servers(a)
               d == [b EXCEPT !.primary = s]
    <2>1. set_window_server(c, ref, s, cur) = d
      BY <1>3 DEF set_window_server
    <2>2. f \in [DOMAIN c.win -> -1..(N - 1)]
      BY <1>1, <1>2
    <2> HIDE DEF f
    <2>3. f \in Windows
      BY <1>2, <2>2, WindowsOf
    <2>4. a \in Clients
      BY <2>3 DEF Clients
    <2> HIDE DEF a
    <2>5. b \in Clients /\ HasOwn(b, WindowNo)
      BY <2>4, CheckedGood DEF Good
    <2> HIDE DEF b
    <2>6. d \in Clients /\ d.sl = b.sl /\ d.win = b.win
      BY <1>1, <2>5 DEF Clients
    <2> HIDE DEF d
    <2>7. HasOwn(d, WindowNo)
      BY <2>5, <2>6 DEF HasOwn
    <2> QED BY <2>1, <2>6, <2>7 DEF Good
  <1>4. CASE ref # -1
    <2> DEFINE v == IF ref \in DOMAIN c.win THEN ref ELSE cur
               f == [c.win EXCEPT ![v] = s]
               a == [c EXCEPT !.win = f]
    <2>1. set_window_server(c, ref, s, cur) = window_check_servers(a)
      BY <1>4 DEF set_window_server
    <2>2. f \in [DOMAIN c.win -> -1..(N - 1)]
      BY <1>1, <1>2
    <2> HIDE DEF f
    <2>3. f \in Windows
      BY <1>2, <2>2, WindowsOf
    <2>4. a \in Clients
      BY <2>3 DEF Clients
    <2> HIDE DEF a
    <2> QED BY <2>1, <2>4, CheckedGood
  <1> QED BY <1>3, <1>4

(* /SERVER +i, and whatever reconnects in the same way *)
LEMMA AddsServer ==
  ASSUME NEW c, Good(c), NEW s \in ServerNo, NEW cur \in DOMAIN c.win, NEW ok
  PROVE  Good(AddServer(c, s, cur, ok))
  <1> DEFINE c1 == connect_to_server_by_refnum(c, s, -1, ok)
             d  == set_window_server(c1, 0, s, cur)
  <1>1. AddServer(c, s, cur, ok) = IF ConnectFails(c, s, ok) THEN c ELSE d
    BY DEF AddServer
  <1>2. c1 \in Clients /\ c1.win = c.win
    BY Connects, Bounds DEF Good, Kept
  <1> HIDE DEF c1
  <1>3. Good(d)
    BY <1>2, SetsWindow
  <1> HIDE DEF d
  <1> QED BY <1>1, <1>3

(* try_connect() *)
LEMMA TriesToConnect ==
  ASSUME NEW c, Good(c), NEW s \in ServerNo, NEW ok
  PROVE  Good(try_connect(c, s, ok))
  <1> DEFINE old == c.sl[s].old_server
             b   == connect_to_server_by_refnum(c, s, old, ok)
             yes == b.sl[s].reconnect \/ ConnectFails(c, s, ok)
             r   == [b.sl[s] EXCEPT !.reconnect = yes]
  <1>1. try_connect(c, s, ok) = Put(b, s, r)
    BY DEF try_connect, Put
  <1>2. old \in -2..(N - 1)
    BY ClientParts, ServerFields DEF Good
  <1> HIDE DEF old
  <1>3. b \in Clients /\ Kept(c, b)
    BY <1>2, Connects DEF Good
  <1> HIDE DEF b
  <1>4. b.sl[s] \in Server
    BY <1>3, ClientParts
  <1>5. yes \in BOOLEAN
    OBVIOUS
  <1> HIDE DEF yes
  <1>6. r \in Server /\ Keeps(b.sl[s], r)
    BY <1>4, <1>5, FieldChanges
  <1> HIDE DEF r
  <1>7. Put(b, s, r) \in Clients /\ Kept(b, Put(b, s, r))
    BY <1>3, <1>6, PutKept
  <1> QED BY <1>1, <1>3, <1>7, KeptGood

(* Setting the flag that asks for a connection, or clearing it. *)
LEMMA SetsReconnect ==
  ASSUME NEW c \in Clients, NEW s \in ServerNo, NEW b \in BOOLEAN
  PROVE  /\ [c EXCEPT !.sl[s].reconnect = b] \in Clients
         /\ Kept(c, [c EXCEPT !.sl[s].reconnect = b])
         /\ [c EXCEPT !.sl[s].connected = b] \in Clients
         /\ Kept(c, [c EXCEPT !.sl[s].connected = b])
         /\ [c EXCEPT !.sl[s].connect_wait = b] \in Clients
         /\ Kept(c, [c EXCEPT !.sl[s].connect_wait = b])
  <1> DEFINE p == [c.sl[s] EXCEPT !.reconnect = b]
             q == [c.sl[s] EXCEPT !.connected = b]
             r == [c.sl[s] EXCEPT !.connect_wait = b]
  <1>1. /\ [c EXCEPT !.sl[s].reconnect = b] = Put(c, s, p)
        /\ [c EXCEPT !.sl[s].connected = b] = Put(c, s, q)
        /\ [c EXCEPT !.sl[s].connect_wait = b] = Put(c, s, r)
    BY DEF Put
  <1>2. c.sl[s] \in Server
    BY ClientParts
  <1>3. /\ p \in Server /\ Keeps(c.sl[s], p) /\ q \in Server /\ Keeps(c.sl[s], q)
        /\ r \in Server /\ Keeps(c.sl[s], r)
    BY <1>2, FieldChanges
  <1> HIDE DEF p, q, r
  <1>4. Put(c, s, p) \in Clients /\ Kept(c, Put(c, s, p))
    BY <1>3, PutKept
  <1>5. Put(c, s, q) \in Clients /\ Kept(c, Put(c, s, q))
    BY <1>3, PutKept
  <1>6. Put(c, s, r) \in Clients /\ Kept(c, Put(c, s, r))
    BY <1>3, PutKept
  <1> QED BY <1>1, <1>4, <1>5, <1>6

(* reconnect_server() *)
LEMMA Reconnects ==
  ASSUME NEW c, Good(c), NEW s \in ServerNo, NEW ok
  PROVE  Good(reconnect_server(c, s, ok))
  <1> DEFINE a   == close_server(c, s)
             adv == advance_server(a, s)
             e   == adv.client
             n   == adv.server
             f   == [e EXCEPT !.sl[n].reconnect = FALSE]
             g   == window_check_servers(f)
             h   == try_connect(g, n, ok)
  <1>1. reconnect_server(c, s, ok) = IF n = -1 THEN e ELSE h
    BY DEF reconnect_server
  <1>2. a \in Clients /\ Kept(c, a) /\ ~ a.sl[s].open
    BY CloseServer DEF Good
  <1> HIDE DEF a
  <1>3. e \in Clients /\ n \in ServerNo \cup {-1} /\ Kept(a, e)
    BY <1>2, Advances
  <1> HIDE DEF adv, e, n
  <1>4. Good(e)
    BY <1>2, <1>3, KeptGood
  <1>5. CASE n = -1
    BY <1>1, <1>4, <1>5
  <1>6. CASE n # -1
    <2>1. n \in ServerNo
      BY <1>3, <1>6
    <2>2. f \in Clients
      BY <1>3, <2>1, SetsReconnect
    <2> HIDE DEF f
    <2>3. Good(g)
      BY <2>2, CheckedGood
    <2> HIDE DEF g
    <2>4. Good(h)
      BY <2>1, <2>3, TriesToConnect
    <2> HIDE DEF h
    <2> QED BY <1>1, <1>6, <2>4
  <1> QED BY <1>5, <1>6

(* The entry of a server we have logged in to. *)
Welcomed(r, yes, no, minus, zero) ==
    [r EXCEPT !.logged_in = yes, !.try_once = no, !.old_server = minus,
              !.server_change_pending = zero]

LEMMA WelcomedEntry ==
  ASSUME NEW r \in Server, NEW yes \in BOOLEAN, NEW no \in BOOLEAN,
         NEW minus \in -2..(N - 1), NEW zero \in 0..2
  PROVE  Welcomed(r, yes, no, minus, zero) \in Server
  BY DEF Welcomed, Server

(* finalize_server_connect() *)
LEMMA Finalizes ==
  ASSUME NEW c \in Clients, NEW s \in ServerNo, NEW cur \in DOMAIN c.win
  PROVE  Good(finalize_server_connect(c, s, cur))
  <1> DEFINE old == c.sl[s].c_server
             p   == [c.sl[old] EXCEPT !.old_server = -1]
             a   == Put(c, old, p)
             b   == LeaveOld(c, s)
             q   == Welcomed(b.sl[s], TRUE, FALSE, -1, 0)
             d   == Put(b, s, q)
             ref == c.sl[s].server_change_refnum
             e   == set_window_server(d, ref, s, cur)
             r   == [e.sl[s] EXCEPT !.req_server = 0]
  <1>1. finalize_server_connect(c, s, cur) = Put(e, s, r)
    BY DEF finalize_server_connect, LoggedIn, Put, Welcomed
  <1>2. b = IF old \in ServerNo /\ old # s THEN close_server(a, old) ELSE c
    BY DEF LeaveOld, Put
  <1>3. 0 \in -1..(N - 1) /\ -1 \in -2..(N - 1) /\ 0 \in 0..RetryCap /\ 0 \in 0..2
        /\ TRUE \in BOOLEAN /\ FALSE \in BOOLEAN
    BY Bounds
  <1> HIDE DEF b
  <1>4. b \in Clients /\ b.win = c.win
    <2>1. CASE old \in ServerNo /\ old # s
      <3>1. c.sl[old] \in Server
        BY <2>1, ClientParts
      <3>2. p \in Server
        BY <1>3, <3>1, NumberChanges
      <3> HIDE DEF p
      <3>3. a \in Clients /\ a.win = c.win
        BY <2>1, <3>2, PutClient
      <3> HIDE DEF a
      <3>4. close_server(a, old) \in Clients /\ close_server(a, old).win = a.win
        BY <3>3, CloseServer DEF Kept
      <3> QED BY <1>2, <2>1, <3>3, <3>4
    <2>2. CASE ~ (old \in ServerNo /\ old # s)
      BY <1>2, <2>2
    <2> QED BY <2>1, <2>2
  <1>5. b.sl[s] \in Server
    BY <1>4, ClientParts
  <1>6. q \in Server
    BY <1>3, <1>5, WelcomedEntry, Zenon
  <1> HIDE DEF q
  <1>7. d \in Clients /\ d.win = c.win
    BY <1>4, <1>6, PutClient
  <1> HIDE DEF d, ref
  <1>8. Good(e)
    BY <1>7, SetsWindow
  <1> HIDE DEF e
  <1>9. e \in Clients /\ e.sl[s] \in Server
    BY <1>8, ClientParts DEF Good
  <1>10. r \in Server /\ Keeps(e.sl[s], r)
    BY <1>3, <1>9, NumberChanges
  <1> HIDE DEF r
  <1>11. Put(e, s, r) \in Clients /\ Kept(e, Put(e, s, r))
    BY <1>9, <1>10, PutKept
  <1> QED BY <1>1, <1>8, <1>11, KeptGood

(* The end of a connection. *)
LEMMA EndsConnection ==
  ASSUME NEW c, Good(c), NEW s \in ServerNo
  PROVE  Good(ConnectionClosed(c, s))
  <1> DEFINE a == close_server(c, s)
             o == IF c.sl[s].connect_wait THEN a.sl[s].old_server ELSE s
             p == [a.sl[s] EXCEPT !.reconnect = TRUE]
             b == Put(a, s, p)
             q == [b.sl[s] EXCEPT !.old_server = o]
             d == Put(b, s, q)
  <1>1. a \in Clients /\ Kept(c, a)
    BY CloseServer DEF Good
  <1>2. s \in DOMAIN a.sl /\ a.sl[s] \in Server
    BY <1>1, ClientParts
  <1>3. ConnectionClosed(c, s) = IF c.sl[s].try_once THEN a ELSE d
    <2> DEFINE e == [a EXCEPT !.sl[s].reconnect = TRUE,
                              !.sl[s].old_server = IF c.sl[s].connect_wait THEN @ ELSE s]
    <2>1. ConnectionClosed(c, s) = IF c.sl[s].try_once THEN a ELSE e
      BY DEF ConnectionClosed
    <2> HIDE DEF a
    <2>2. e = d
      BY <1>2 DEF Put, Server
    <2> QED BY <2>1, <2>2
  <1> HIDE DEF a
  <1>4. o \in -2..(N - 1)
    BY <1>2, ServerFields, Bounds
  <1> HIDE DEF o
  <1>5. p \in Server /\ Keeps(a.sl[s], p)
    BY <1>2, FieldChanges
  <1> HIDE DEF p
  <1>6. b \in Clients /\ Kept(a, b)
    BY <1>1, <1>5, PutKept
  <1> HIDE DEF b
  <1>7. b.sl[s] \in Server
    BY <1>6, ClientParts
  <1>8. q \in Server /\ Keeps(b.sl[s], q)
    <2>1. 0 \in -1..(N - 1) /\ 0 \in 0..RetryCap
      BY Bounds
    <2> QED BY <1>4, <1>7, <2>1, NumberChanges
  <1> HIDE DEF q
  <1>9. d \in Clients /\ Kept(b, d)
    BY <1>6, <1>8, PutKept
  <1> HIDE DEF d
  <1>10. Good(a) /\ Good(b)
    BY <1>1, <1>6, KeptGood
  <1> QED BY <1>3, <1>9, <1>10, KeptGood

(* What closing a server makes of the client. *)
LEMMA ClosesGood ==
  ASSUME NEW c, Good(c), NEW s
  PROVE  Good(close_server(c, s)) /\ close_server(c, s).win = c.win
  BY CloseServer, KeptGood DEF Good, Kept

LEMMA AsksGood ==
  ASSUME NEW c, Good(c), NEW s, NEW old
  PROVE  Good(get_connected(c, s, old))
  BY GetConnected, KeptGood DEF Good

LEMMA DeniesPermission ==
  ASSUME NEW c, Good(c), NEW s \in ServerNo
  PROVE  Good(NoPermission(c, s))
  <1>1. close_server(c, s) \in Clients
    BY ClosesGood DEF Good
  <1>2. Good(window_check_servers(close_server(c, s)))
    BY <1>1, CheckedGood
  <1> QED BY <1>2, AsksGood DEF NoPermission

LEMMA SurvivesKill ==
  ASSUME NEW c, Good(c), NEW s \in ServerNo, NEW by \in {"server", "local", "remote"},
         NEW cur \in DOMAIN c.win, NEW ok
  PROVE  Good(Killed(c, s, by, cur, ok))
  <1> DEFINE a == window_check_servers(close_server(c, s))
  <1>1. Good(a) /\ DOMAIN a.win = DOMAIN c.win
    <2>1. close_server(c, s) \in Clients /\ close_server(c, s).win = c.win
      BY ClosesGood DEF Good
    <2> QED BY <2>1, CheckedGood
  <1>2. (s + 1) % N \in ServerNo
    <2>1. N \in Nat \ {0} /\ s + 1 \in Nat
      BY Bounds DEF ServerNo
    <2> QED BY <2>1 DEF ServerNo
  <1>3. Killed(c, s, by, cur, ok) \in {a, AddServer(a, s, cur, ok), AddServer(a, (s + 1) % N, cur, ok)}
    BY DEF Killed
  <1> HIDE DEF a
  <1>4. Good(AddServer(a, s, cur, ok)) /\ Good(AddServer(a, (s + 1) % N, cur, ok))
    BY <1>1, <1>2, AddsServer
  <1> QED BY <1>1, <1>3, <1>4

(* server_disconnect(), for the windows V that had servers of their own before *)
LEMMA Disconnects ==
  ASSUME NEW c \in Clients, NEW s
  PROVE  /\ Good(server_disconnect(c, s)) /\ DOMAIN server_disconnect(c, s).win = DOMAIN c.win
         /\ \A V : HasOwn(close_server(c, s), V) => HasOwn(server_disconnect(c, s), V)
  <1> DEFINE a == close_server(c, s)
             b == window_check_servers(a)
             d == window_check_servers(b)
  <1>1. server_disconnect(c, s) = d
    BY DEF server_disconnect
  <1>2. a \in Clients /\ a.win = c.win
    BY CloseServer DEF Kept
  <1> HIDE DEF a
  <1>3. b \in Clients /\ DOMAIN b.win = DOMAIN a.win /\ \A V : HasOwn(a, V) => HasOwn(b, V)
    BY <1>2, WindowCheck
  <1> HIDE DEF b
  <1>4. Good(d) /\ DOMAIN d.win = DOMAIN b.win /\ \A V : HasOwn(b, V) => HasOwn(d, V)
    BY <1>3, WindowCheck DEF Good
  <1> HIDE DEF d
  <1>5. \A V : HasOwn(a, V) => HasOwn(d, V)
    BY <1>3, <1>4
  <1> QED BY <1>1, <1>2, <1>3, <1>4, <1>5 DEF a

-----------------------------------------------------------------------------
(* The invariant *)

(* Where the pass over the servers is. *)
Control == /\ pass \in {"input", "server", "idle"}
           /\ scan \in 0..N
           /\ watched \in SUBSET ServerNo
           /\ prompts \in SUBSET ServerNo

(* Every open server has a window in every state, not only between passes. *)
SInv == Good(Client) /\ Control

LEMMA SInvImplies ==
  ASSUME SInv
  PROVE  TypeOK /\ EveryOpenServerHasWindow
  <1>1. /\ Client.sl = sl /\ Client.win = win /\ Client.primary = primary
        /\ Client.attached = attached
    BY DEF Client
  <1>2. Client \in Clients /\ HasOwn(Client, WindowNo)
    BY DEF SInv, Good
  <1>3. TypeOK
    <2>1. /\ sl \in [ServerNo -> Server] /\ win \in Windows
          /\ primary \in -1..(N - 1) /\ attached \in BOOLEAN
      BY <1>1, <1>2, ClientParts
    <2>2. DOMAIN win \in (SUBSET WindowNo) \ {{}} /\ \A w \in DOMAIN win : win[w] \in -1..(N - 1)
      BY <2>1, WindowParts
    <2> QED BY <2>1, <2>2 DEF TypeOK, SInv, Control
  <1>4. EveryOpenServerHasWindow
    BY <1>1, <1>2 DEF HasOwn, EveryOpenServerHasWindow
  <1> QED BY <1>3, <1>4

(* The parts of the present client. *)
LEMMA ClientIs ==
  ASSUME SInv
  PROVE  /\ Good(Client) /\ Client \in Clients
         /\ Client.sl = sl /\ Client.win = win /\ Client.primary = primary
         /\ sl \in [ServerNo -> Server] /\ win \in Windows
         /\ DOMAIN win \in (SUBSET WindowNo) \ {{}}
         /\ \A w \in DOMAIN win : win[w] \in -1..(N - 1) /\ w \in WindowNo
  <1>1. Good(Client) /\ Client \in Clients
    BY DEF SInv, Good
  <1>2. Client.sl = sl /\ Client.win = win /\ Client.primary = primary
    BY DEF Client
  <1>3. sl \in [ServerNo -> Server] /\ win \in Windows
    BY <1>1, <1>2, ClientParts
  <1>4. DOMAIN win \in (SUBSET WindowNo) \ {{}} /\ \A w \in DOMAIN win : win[w] \in -1..(N - 1)
    BY <1>3, WindowParts
  <1> QED BY <1>1, <1>2, <1>3, <1>4

(* A step that leaves the client as a good c. *)
LEMMA BecomesGood ==
  ASSUME NEW c, Good(c), Becomes(c)
  PROVE  Good(Client)'
  <1>1. c = [sl |-> c.sl, win |-> c.win, primary |-> c.primary, attached |-> c.attached]
    BY DEF Good, Clients
  <1>2. Client' = c
    BY <1>1 DEF Becomes, Client
  <1> QED BY <1>2

(* A turn of the pass over the servers. *)
LEMMA TurnPreserves ==
  ASSUME SInv, NEW s \in ServerNo, NEW c, Good(c), EndTurn(s, c),
         prompts' = prompts \/ prompts' = prompts \cup {s}
  PROVE  SInv'
  <1>1. Good(Client)'
    BY BecomesGood DEF EndTurn
  <1>2. scan' \in 0..N
    <2>1. s \in 0..(N - 1) /\ N \in Nat /\ scan' = s + 1
      BY Bounds DEF EndTurn, ServerNo
    <2> QED BY <2>1
  <1>3. watched' \in SUBSET ServerNo /\ pass' = pass /\ prompts' \in SUBSET ServerNo
    BY DEF SInv, Control, EndTurn
  <1> QED BY <1>1, <1>2, <1>3 DEF SInv, Control

(* A command. *)
LEMMA CommandPreserves ==
  ASSUME SInv, NEW name, NEW c, Good(c), Command(name, c), prompts' \in SUBSET prompts
  PROVE  SInv'
  <1>1. Good(Client)'
    BY BecomesGood DEF Command
  <1> QED BY <1>1 DEF SInv, Control, Command

(* The initial entry. *)
LEMMA InitialEntry ==
  ASSUME NEW no \in BOOLEAN, NEW yes \in BOOLEAN, NEW old \in -2..(N - 1), NEW ref \in -1..W
  PROVE  /\ [open |-> no, logged_in |-> no, connected |-> no,
             reconnect |-> no, try_once |-> no,
             server_change_pending |-> 0, old_server |-> 0, req_server |-> 0,
             server_change_refnum |-> 0, retries |-> 0, connect_wait |-> no,
             c_server |-> 0] \in Server
         /\ \A r \in Server : [r EXCEPT !.reconnect = yes, !.old_server = old,
                                        !.server_change_refnum = ref] \in Server
  <1>1. /\ 0 \in 0..2 /\ 0 \in -2..(N - 1) /\ 0 \in -1..(N - 1) /\ 0 \in -1..W
        /\ 0 \in 0..RetryCap
    BY Bounds
  <1> QED BY <1>1 DEF Server

LEMMA ServerInit ==
  ASSUME Init
  PROVE  SInv
  <1> DEFINE asked == [NewServer EXCEPT !.reconnect = TRUE, !.old_server = -1,
                                        !.server_change_refnum = -1]
  <1>1. NewServer \in Server /\ asked \in Server
    <2>1. /\ FALSE \in BOOLEAN /\ TRUE \in BOOLEAN /\ -1 \in -2..(N - 1) /\ -1 \in -1..W
          /\ 0 \in 0..RetryCap
      BY Bounds
    <2>2. NewServer \in Server
      BY <2>1, InitialEntry, Zenon DEF NewServer
    <2> QED BY <2>1, <2>2, InitialEntry, Zenon
  <1>2. ~ NewServer.open /\ ~ asked.open
    BY DEF NewServer
  <1>3. PICK auto_connect \in BOOLEAN :
          sl = [s \in ServerNo |-> IF s = 0 /\ auto_connect THEN asked ELSE NewServer]
    BY DEF Init
  <1> HIDE DEF asked
  <1>4. sl \in [ServerNo -> Server] /\ \A s \in ServerNo : ~ sl[s].open
    BY <1>1, <1>2, <1>3
  <1>5. win \in Windows
    <2>1. {1} \in (SUBSET WindowNo) \ {{}} /\ -1 \in -1..(N - 1)
      <3>1. 1 \in WindowNo
        BY ServerConnAssumption DEF WindowNo
      <3> QED BY <3>1, Bounds
    <2>2. win \in [{1} -> -1..(N - 1)]
      BY <2>1 DEF Init
    <2> QED BY <2>1, <2>2, WindowsOf
  <1>6. primary \in -1..(N - 1) /\ attached \in BOOLEAN
    BY Bounds DEF Init
  <1>7. Client \in Clients
    BY <1>4, <1>5, <1>6 DEF Client, Clients
  <1>8. HasOwn(Client, WindowNo)
    BY <1>4 DEF HasOwn, Client
  <1>9. Control
    BY Bounds DEF Init, Control
  <1> QED BY <1>7, <1>8, <1>9 DEF SInv, Good

-----------------------------------------------------------------------------
(* The passes *)

LEMMA PassBegins ==
  ASSUME SInv, NEW kind \in {"server", "idle"}, NEW late \in SUBSET ServerNo, StartPass(kind, late)
  PROVE  SInv'
  <1> DEFINE f == [s \in ServerNo |->
                     IF s \in late THEN [sl[s] EXCEPT !.open = FALSE, !.reconnect = TRUE] ELSE sl[s]]
             d == [Client EXCEPT !.sl = f]
  <1>1. /\ Good(Client) /\ Client \in Clients /\ Client.sl = sl
        /\ \A s \in ServerNo : sl[s] \in Server
    BY ClientIs
  <1>2. ASSUME NEW s \in ServerNo
        PROVE  /\ [sl[s] EXCEPT !.open = FALSE, !.reconnect = TRUE] \in Server
               /\ ~ [sl[s] EXCEPT !.open = FALSE, !.reconnect = TRUE].open
    <2>1. sl[s] \in Server
      BY <1>1
    <2> QED BY <2>1 DEF Server
  <1>3. f \in [ServerNo -> Server] /\ \A s \in ServerNo : f[s].open => f[s] = sl[s]
    BY <1>1, <1>2
  <1>4. sl' = f
    BY DEF StartPass
  <1> HIDE DEF f
  <1>5. /\ d \in Clients /\ d.sl = f /\ d.win = Client.win /\ d.primary = Client.primary
        /\ d.attached = Client.attached
    BY <1>1, <1>3 DEF Clients
  <1>6. Becomes(d)
    BY <1>4, <1>5 DEF Becomes, StartPass, Client
  <1> HIDE DEF d
  <1>7. Kept(Client, d)
    BY <1>1, <1>3, <1>5 DEF Kept
  <1>8. Good(Client)'
    BY <1>1, <1>5, <1>6, <1>7, KeptGood, BecomesGood
  <1>9. Control'
    <2>1. 0 \in 0..N
      BY Bounds
    <2>2. {s \in ServerNo \ late : sl[s].open} \in SUBSET ServerNo /\ {} \in SUBSET ServerNo
      OBVIOUS
    <2> QED BY <2>1, <2>2 DEF SInv, Control, StartPass
  <1> QED BY <1>8, <1>9 DEF SInv

LEMMA PassEnds ==
  ASSUME SInv, EndPass
  PROVE  SInv'
  <1> DEFINE d == IF pass = "server" /\ ~ Open(Client, primary)
                  THEN window_check_servers(Client) ELSE Client
  <1>1. Good(d)
    BY ClientIs, CheckedGood
  <1>2. Becomes(d)
    BY DEF EndPass
  <1> HIDE DEF d
  <1>3. Good(Client)'
    BY <1>1, <1>2, BecomesGood
  <1>4. Control'
    <2>1. 0 \in 0..N
      BY Bounds
    <2> QED BY <2>1 DEF SInv, Control, EndPass
  <1> QED BY <1>3, <1>4 DEF SInv

(* Logging in to a server. *)
LEMMA LogsInGood ==
  ASSUME SInv, NEW s \in ServerNo, NEW cur \in DOMAIN win
  PROVE  Good(LogIn(s, cur))
  <1> DEFINE a == [Client EXCEPT !.sl[s].connect_wait = FALSE]
  <1>1. a \in Clients /\ Kept(Client, a)
    BY ClientIs, SetsReconnect
  <1>2. LogIn(s, cur) = finalize_server_connect(a, s, cur)
    BY DEF LogIn
  <1> HIDE DEF a
  <1>3. DOMAIN a.win = DOMAIN win
    BY <1>1, ClientIs DEF Kept
  <1> QED BY <1>1, <1>2, <1>3, Finalizes

LEMMA TurnsPreserve ==
  ASSUME SInv, NEW s \in ServerNo, Turn(s)
  PROVE  SInv'
  <1>1. Good(Client) /\ Client \in Clients /\ Client.win = win
    BY ClientIs
  <1>2. CASE TurnNothing(s)
    BY <1>1, <1>2, TurnPreserves DEF TurnNothing
  <1>3. CASE TurnWelcome(s)
    <2> DEFINE d == [Client EXCEPT !.sl[s].connected = TRUE]
    <2>1. d \in Clients /\ Kept(Client, d)
      BY <1>1, SetsReconnect
    <2>2. EndTurn(s, d) /\ prompts' = prompts
      BY <1>3 DEF TurnWelcome
    <2> HIDE DEF d
    <2> QED BY <1>1, <2>1, <2>2, KeptGood, TurnPreserves
  <1>4. CASE TurnNoPermission(s)
    BY <1>1, <1>4, DeniesPermission, TurnPreserves DEF TurnNoPermission
  <1>5. CASE TurnPassword(s)
    BY <1>1, <1>5, ClosesGood, TurnPreserves DEF TurnPassword
  <1>6. ASSUME NEW ok \in BOOLEAN, TurnReconnect(s, ok) PROVE SInv'
    <2> DEFINE a == [Client EXCEPT !.sl[s].reconnect = FALSE]
    <2>1. a \in Clients /\ Kept(Client, a)
      BY <1>1, SetsReconnect
    <2>2. EndTurn(s, reconnect_server(a, s, ok)) /\ prompts' = prompts
      BY <1>6 DEF TurnReconnect
    <2> HIDE DEF a
    <2>3. Good(reconnect_server(a, s, ok))
      BY <1>1, <2>1, KeptGood, Reconnects
    <2> QED BY <2>2, <2>3, TurnPreserves
  <1>7. ASSUME NEW cur \in DOMAIN win, TurnLogIn(s, cur) PROVE SInv'
    BY <1>7, LogsInGood, TurnPreserves DEF TurnLogIn
  <1>8. ASSUME NEW cur \in DOMAIN win, NEW login \in BOOLEAN, TurnClosed(s, login, cur) PROVE SInv'
    <2>1. Good(Reading(s, login, cur))
      BY <1>1, LogsInGood DEF Reading
    <2>2. Good(ConnectionClosed(Reading(s, login, cur), s))
      BY <2>1, EndsConnection
    <2>3. EndTurn(s, ConnectionClosed(Reading(s, login, cur), s)) /\ prompts' = prompts
      BY <1>8 DEF TurnClosed
    <2> QED BY <2>2, <2>3, TurnPreserves
  <1>9. ASSUME NEW cur \in DOMAIN win, NEW by \in {"server", "local", "remote"}, NEW ok \in BOOLEAN,
               TurnKilled(s, by, cur, ok)
        PROVE  SInv'
    <2>1. Good(Killed(Client, s, by, cur, ok))
      BY <1>1, SurvivesKill
    <2>2. EndTurn(s, Killed(Client, s, by, cur, ok)) /\ prompts' = prompts
      BY <1>9 DEF TurnKilled
    <2> QED BY <2>1, <2>2, TurnPreserves
  <1> QED BY <1>2, <1>3, <1>4, <1>5, <1>6, <1>7, <1>8, <1>9 DEF Turn

-----------------------------------------------------------------------------
(* The commands *)

(* Taking its server from a window that no server needs. *)
LEMMA Detaches ==
  ASSUME NEW c \in Clients, NEW cur \in DOMAIN c.win, HasOwn(c, WindowNo \ {cur})
  PROVE  Good([c EXCEPT !.win[cur] = -1])
  <1> DEFINE f == [c.win EXCEPT ![cur] = -1]
             d == [c EXCEPT !.win[cur] = -1]
  <1>1. /\ DOMAIN c.win \in (SUBSET WindowNo) \ {{}} /\ c.win \in [DOMAIN c.win -> -1..(N - 1)]
        /\ -1 \in -1..(N - 1)
    BY ClientParts, WindowParts, Bounds
  <1>2. f \in [DOMAIN c.win -> -1..(N - 1)] /\ \A w \in DOMAIN c.win : w # cur => f[w] = c.win[w]
    BY <1>1
  <1> HIDE DEF f
  <1>3. f \in Windows /\ DOMAIN f = DOMAIN c.win
    BY <1>1, <1>2, WindowsOf
  <1>4. d \in Clients /\ d.sl = c.sl /\ d.win = f
    BY <1>3 DEF Clients, f
  <1> HIDE DEF d
  <1>5. HasOwn(d, WindowNo)
    BY <1>2, <1>3, <1>4 DEF HasOwn
  <1> QED BY <1>4, <1>5 DEF Good, d

(* A closed server needs no window. *)
LEMMA ClosedNeedsNone ==
  ASSUME NEW c, Good(c), NEW cur \in DOMAIN c.win
  PROVE  HasOwn(close_server(c, c.win[cur]), WindowNo \ {cur})
  <1> DEFINE a == close_server(c, c.win[cur])
  <1>1. Good(a) /\ a.win = c.win
    BY ClosesGood
  <1>2. c.win[cur] \in ServerNo => ~ a.sl[c.win[cur]].open
    BY CloseServer DEF Good
  <1> HIDE DEF a
  <1> SUFFICES ASSUME NEW s \in ServerNo, a.sl[s].open
               PROVE  \/ \E w \in DOMAIN a.win \cap (WindowNo \ {cur}) : a.win[w] = s
                      \/ a.sl[s].server_change_pending # 0
    BY DEF HasOwn, a
  <1>3. \/ \E w \in DOMAIN a.win \cap WindowNo : a.win[w] = s
        \/ a.sl[s].server_change_pending # 0
    BY <1>1 DEF Good, HasOwn
  <1>4. c.win[cur] # s
    BY <1>2
  <1> QED BY <1>1, <1>3, <1>4

LEMMA DisconPreserves ==
  ASSUME SInv, NEW cur \in DOMAIN win, WindowDiscon(cur)
  PROVE  SInv'
  <1> DEFINE a == IF win[cur] = -1 THEN Client ELSE server_disconnect(Client, win[cur])
             d == [a EXCEPT !.win[cur] = -1]
  <1>1. /\ Good(Client) /\ Client \in Clients /\ Client.win = win
        /\ DOMAIN win \in (SUBSET WindowNo) \ {{}}
    BY ClientIs
  <1>2. a \in Clients /\ DOMAIN a.win = DOMAIN win
    BY <1>1, Disconnects DEF Good
  <1>3. HasOwn(a, WindowNo \ {cur})
    <2>1. CASE win[cur] = -1
      <3>1. a = Client
        BY <2>1
      <3>2. \A s \in ServerNo : s # -1
        BY DEF ServerNo
      <3> QED BY <1>1, <2>1, <3>1, <3>2 DEF Good, HasOwn
    <2>2. CASE win[cur] # -1
      BY <1>1, <2>2, ClosedNeedsNone, Disconnects
    <2> QED BY <2>1, <2>2
  <1>4. Command("discon", d) /\ prompts' = prompts
    BY DEF WindowDiscon
  <1> HIDE DEF a
  <1>5. Good(d)
    BY <1>2, <1>3, Detaches
  <1> HIDE DEF d
  <1> QED BY <1>4, <1>5, CommandPreserves

LEMMA NewWindowPreserves ==
  ASSUME SInv, NEW cur \in DOMAIN win, NEW w \in WindowNo, NewWindow(w, cur)
  PROVE  SInv'
  <1> DEFINE D == DOMAIN win \cup {w}
             f == [v \in D |-> IF v = w THEN win[cur] ELSE win[v]]
             d == [Client EXCEPT !.win = f]
  <1>1. /\ Good(Client) /\ Client \in Clients /\ Client.win = win /\ w \notin DOMAIN win
        /\ DOMAIN win \in (SUBSET WindowNo) \ {{}} /\ \A v \in DOMAIN win : win[v] \in -1..(N - 1)
    BY ClientIs DEF NewWindow
  <1>2. D \in (SUBSET WindowNo) \ {{}} /\ f \in [D -> -1..(N - 1)] /\ \A v \in DOMAIN win : f[v] = win[v]
    <2>1. cur \in DOMAIN win /\ w \in WindowNo
      OBVIOUS
    <2>2. D \in (SUBSET WindowNo) \ {{}}
      BY <1>1, <2>1
    <2>3. \A v \in D : (IF v = w THEN win[cur] ELSE win[v]) \in -1..(N - 1)
      BY <1>1, <2>1
    <2>4. \A v \in DOMAIN win : v # w
      BY <1>1
    <2> HIDE DEF D
    <2>5. f \in [D -> -1..(N - 1)]
      BY <2>3
    <2>6. \A v \in DOMAIN win : f[v] = win[v]
      BY <2>4 DEF D
    <2> QED BY <2>2, <2>5, <2>6
  <1>3. Command("new", d) /\ prompts' = prompts
    BY DEF NewWindow
  <1>4. DOMAIN f = D /\ DOMAIN win \subseteq D
    OBVIOUS
  <1> HIDE DEF D, f
  <1>5. f \in Windows
    BY <1>2, WindowsOf
  <1>6. d \in Clients /\ d.sl = Client.sl /\ d.win = f
    BY <1>1, <1>5 DEF Clients
  <1> HIDE DEF d
  <1>7. HasOwn(d, WindowNo)
    BY <1>1, <1>2, <1>4, <1>6 DEF HasOwn, Good
  <1> QED BY <1>3, <1>6, <1>7, CommandPreserves DEF Good

LEMMA KillWindowPreserves ==
  ASSUME SInv, NEW w \in WindowNo, KillWindow(w)
  PROVE  SInv'
  <1> DEFINE D == DOMAIN win \ {w}
             f == [v \in D |-> win[v]]
             d == [Client EXCEPT !.win = f]
  <1>1. /\ Client \in Clients /\ DOMAIN win \in (SUBSET WindowNo) \ {{}}
        /\ \A v \in DOMAIN win : win[v] \in -1..(N - 1)
    BY ClientIs
  <1>2. D \in (SUBSET WindowNo) \ {{}} /\ f \in [D -> -1..(N - 1)]
    BY <1>1 DEF KillWindow
  <1>3. Command("kill", window_check_servers(d)) /\ prompts' = prompts
    BY DEF KillWindow
  <1> HIDE DEF D, f
  <1>4. f \in Windows
    BY <1>2, WindowsOf
  <1>5. d \in Clients
    BY <1>1, <1>4 DEF Clients
  <1> HIDE DEF d
  <1> QED BY <1>3, <1>5, CheckedGood, CommandPreserves

(* The entry of a server a window is going to be connected to. *)
ForWindow(r, minus, yes, ref) ==
    [r EXCEPT !.old_server = minus, !.try_once = yes, !.server_change_refnum = ref]

LEMMA ForWindowEntry ==
  ASSUME NEW r \in Server, NEW minus \in -2..(N - 1), NEW yes \in BOOLEAN, NEW ref \in -1..W
  PROVE  ForWindow(r, minus, yes, ref) \in Server /\ Keeps(r, ForWindow(r, minus, yes, ref))
  <1>1. ForWindow(r, minus, yes, ref) \in Server
    BY DEF ForWindow, Server
  <1>2. Keeps(r, ForWindow(r, minus, yes, ref))
    BY DEF ForWindow, Server, Keeps
  <1> QED BY <1>1, <1>2

LEMMA WindowServerPreserves ==
  ASSUME SInv, NEW cur \in DOMAIN win, NEW i \in ServerNo, NEW ok \in BOOLEAN,
         WindowServer(i, cur, ok)
  PROVE  SInv'
  <1> DEFINE a == close_unattached_servers(Client)
             r == ForWindow(a.sl[i], -2, TRUE, cur)
             b == Put(a, i, r)
             d == connect_to_server_by_refnum(b, i, -1, ok)
  <1>1. Command("window server", window_check_servers(d)) /\ prompts' = prompts
    BY DEF WindowServer, Put, ForWindow
  <1>2. a \in Clients
    BY ClientIs, CloseUnattached
  <1> HIDE DEF a
  <1>3. a.sl[i] \in Server /\ cur \in -1..W /\ -2 \in -2..(N - 1) /\ -1 \in -2..(N - 1) /\ TRUE \in BOOLEAN
    BY <1>2, ClientParts, ClientIs, Bounds
  <1>4. r \in Server
    BY <1>3, ForWindowEntry, Zenon
  <1> HIDE DEF r
  <1>5. b \in Clients
    BY <1>2, <1>4, PutClient
  <1> HIDE DEF b
  <1>6. d \in Clients
    BY <1>3, <1>5, Connects
  <1> HIDE DEF d
  <1> QED BY <1>1, <1>6, CheckedGood, CommandPreserves

LEMMA InputPreserves ==
  ASSUME SInv, Input
  PROVE  SInv'
  <1>1. /\ Good(Client) /\ Client \in Clients /\ Client.win = win
        /\ DOMAIN win \in (SUBSET WindowNo) \ {{}} /\ \A w \in DOMAIN win : win[w] \in -1..(N - 1)
    BY ClientIs
  <1>2. close_unattached_servers(Client) \in Clients /\ Good(close_unattached_servers(Client))
    BY <1>1, CloseUnattached, KeptGood
  <1>3. ASSUME NEW s \in ServerNo, MinusServer(s) PROVE SInv'
    <2>1. Good(window_check_servers(close_server(Client, s)))
      BY <1>1, ClosesGood, CheckedGood DEF Good
    <2> QED BY <1>3, <2>1, CommandPreserves DEF MinusServer
  <1>4. ASSUME NEW s \in ServerNo, Disconnect(s) PROVE SInv'
    <2>1. Good(server_disconnect(close_unattached_servers(Client), s))
      BY <1>2, Disconnects
    <2> QED BY <1>4, <2>1, CommandPreserves DEF Disconnect
  <1>5. ASSUME NEW s \in ServerNo, WriteFails(s) PROVE SInv'
    <2>1. Good(get_connected(close_server(Client, s), s, s))
      BY <1>1, ClosesGood, AsksGood
    <2>2. Good(Client)'
      BY <1>5, <2>1, BecomesGood DEF WriteFails
    <2> QED BY <1>5, <2>2 DEF SInv, Control, WriteFails
  <1>6. ASSUME NEW s \in ServerNo, NEW ok \in BOOLEAN, PasswordEntered(s, ok) PROVE SInv'
    <2>1. Good(connect_to_server_by_refnum(Client, s, -1, ok))
      BY <1>1, Connects, KeptGood, Bounds
    <2>2. prompts' \in SUBSET prompts
      BY <1>6 DEF PasswordEntered
    <2> QED BY <1>6, <2>1, <2>2, CommandPreserves DEF PasswordEntered
  <1>7. ASSUME NEW cur \in DOMAIN win, NextServer(cur) \/ PreviousServer(cur) PROVE SInv'
    <2>1. /\ Good(get_connected(Client, primary + 1, win[cur]))
          /\ Good(get_connected(Client, win[cur] - 1, win[cur]))
      BY <1>1, AsksGood
    <2> QED BY <1>7, <2>1, CommandPreserves DEF NextServer, PreviousServer
  <1>8. ASSUME NEW cur \in DOMAIN win, DisconnectNowhere(cur) PROVE SInv'
    <2>1. Good(window_check_servers(close_unattached_servers(Client)))
      BY <1>2, CheckedGood
    <2> QED BY <1>8, <2>1, CommandPreserves DEF DisconnectNowhere
  <1>9. ASSUME NEW cur \in DOMAIN win, NEW i \in ServerNo, ServerCommand(i, cur) PROVE SInv'
    <2>1. Good(get_connected(close_unattached_servers(Client), i, win[cur]))
      BY <1>2, AsksGood
    <2> QED BY <1>9, <2>1, CommandPreserves DEF ServerCommand
  <1>10. ASSUME NEW cur \in DOMAIN win, NEW i \in ServerNo, NEW ok \in BOOLEAN, PlusServer(i, cur, ok)
         PROVE  SInv'
    <2>1. Good(AddServer(Client, i, cur, ok))
      BY <1>1, AddsServer
    <2> QED BY <1>10, <2>1, CommandPreserves DEF PlusServer
  <1>11. ASSUME NEW cur \in DOMAIN win, NEW ok \in BOOLEAN, Reconnect(cur, ok) PROVE SInv'
    <2> DEFINE i == win[cur]
               a == window_check_servers(close_server(Client, i))
    <2>1. i \in ServerNo
      BY <1>1, <1>11 DEF Reconnect, ServerNo
    <2>2. Command("reconnect", AddServer(a, i, cur, ok)) /\ prompts' = prompts
      BY <1>11 DEF Reconnect
    <2>3. Good(a) /\ DOMAIN a.win = DOMAIN win
      BY <1>1, ClosesGood, CheckedGood DEF Good
    <2> HIDE DEF a, i
    <2>4. Good(AddServer(a, i, cur, ok))
      BY <2>1, <2>3, AddsServer
    <2> QED BY <2>2, <2>4, CommandPreserves
  <1> QED BY <1>3, <1>4, <1>5, <1>6, <1>7, <1>8, <1>9, <1>10, <1>11, KillWindowPreserves,
            DisconPreserves, NewWindowPreserves, WindowServerPreserves DEF Input

LEMMA ServerStep ==
  ASSUME SInv, [Next]_vars
  PROVE  SInv'
  <1>1. CASE Pass
    BY <1>1, PassBegins, PassEnds, TurnsPreserve DEF Pass
  <1>2. CASE Input
    BY <1>2, InputPreserves
  <1>3. CASE UNCHANGED vars
    BY <1>3 DEF vars, SInv, Good, HasOwn, Control, Client
  <1> QED BY <1>1, <1>2, <1>3 DEF Next

THEOREM ServerInvariant == Spec => []SInv
  BY ServerInit, ServerStep, PTL DEF Spec

(* The state has its types whatever the user and the servers do. *)
THEOREM TypeCorrect == Spec => []TypeOK
  BY SInvImplies, ServerInvariant, PTL

(***************************************************************************)
(* window_check_servers(): "Every open server must have at least one       *)
(* window associated with it", unless a switch is under way.  Whatever the *)
(* commands, the failures of servers and their order: the check is made    *)
(* wherever a window or a connection could break it.                       *)
(***************************************************************************)
THEOREM OpenServersHaveWindows == Spec => []EveryOpenServerHasWindow
  BY SInvImplies, ServerInvariant, PTL

-----------------------------------------------------------------------------
(* The client does not give up *)

(* If a server was attached there is a connection, or one is asked for. *)
Lively(c) == c.attached => \E s \in ServerNo : c.sl[s].open \/ c.sl[s].reconnect

(* From c to d no connection ends, and no request is dropped. *)
Grows(c, d) ==
    /\ d.attached = c.attached
    /\ \A s \in ServerNo : /\ c.sl[s].open => d.sl[s].open
                           /\ c.sl[s].reconnect => d.sl[s].reconnect

LEMMA GrowsLively ==
  ASSUME NEW c, NEW d, Lively(c), Grows(c, d)
  PROVE  Lively(d)
  BY DEF Lively, Grows

(* After a check the client is attached only if a server is open. *)
LEMMA CheckedLively ==
  ASSUME NEW c \in Clients
  PROVE  Lively(window_check_servers(c))
  <1> DEFINE served == {s \in ServerNo : Open(c, s) /\ HasWindowAt(c, s, s)}
             prime  == IF served = {} THEN -1
                       ELSE CHOOSE s \in served : \A t \in served : t <= s
             gone   == {s \in ServerNo : ClosedByCheck(c, s)}
             a      == [c EXCEPT !.win = WindowsAfter(c), !.attached = served # {}]
             b      == CloseAll(a, gone)
             d      == NewPrimary(b, prime)
  <1>1. window_check_servers(c) = d
    BY DEF window_check_servers, WindowsAfter
  <1>2. a \in Clients /\ a.sl = c.sl /\ a.attached = (served # {})
    <2>1. (served # {}) \in BOOLEAN /\ WindowsAfter(c) \in Windows
      BY WindowsAfterType
    <2> HIDE DEF served
    <2> QED BY <2>1 DEF Clients
  <1> HIDE DEF a, prime
  <1>3. /\ b.attached = a.attached
        /\ \A s \in ServerNo : b.sl[s] = IF s \in gone THEN Closed(a.sl[s]) ELSE a.sl[s]
    BY <1>2, CloseSeveral DEF Kept
  <1>4. d.sl = b.sl /\ d.attached = b.attached
    <2>1. b \in Clients
      BY <1>2, CloseSeveral
    <2> HIDE DEF b
    <2> QED BY <2>1 DEF NewPrimary, Clients
  <1> HIDE DEF b, d
  <1>5. ASSUME NEW s \in served PROVE d.sl[s].open
    <2>1. s \in ServerNo /\ c.sl[s].open /\ ~ ClosedByCheck(c, s)
      BY DEF Open, ClosedByCheck
    <2>2. s \notin gone
      BY <2>1
    <2> HIDE DEF gone, served
    <2> QED BY <1>2, <1>3, <1>4, <2>1, <2>2
  <1>6. d.attached => served # {}
    <2> HIDE DEF served
    <2> QED BY <1>2, <1>3, <1>4
  <1>7. Lively(d)
    BY <1>5, <1>6 DEF Lively
  <1> QED BY <1>1, <1>7

(* A connection is added to those there are. *)
LEMMA ConnectGrows ==
  ASSUME NEW c \in Clients, NEW s \in ServerNo, NEW old \in -2..(N - 1), NEW ok
  PROVE  Grows(c, connect_to_server_by_refnum(c, s, old, ok))
  <1> DEFINE p == Opening(c.sl[s], TRUE, old, 1)
             b == Put(c, s, p)
             q == Leaving(b.sl[old], 2)
             d == Put(b, old, q)
             e == connect_to_server_by_refnum(c, s, old, ok)
  <1>1. e = IF c.sl[s].open \/ ~ ok THEN c ELSE IF old \in ServerNo THEN d ELSE b
    BY DEF connect_to_server_by_refnum, Put, Opening, Leaving
  <1>2. c.sl[s] \in Server
    BY ClientParts
  <1>3. p \in Server /\ p.open /\ p.reconnect = c.sl[s].reconnect
    <2>1. TRUE \in BOOLEAN /\ 1 \in 0..2
      OBVIOUS
    <2>2. p \in Server
      BY <1>2, <2>1, OpeningEntry, Zenon
    <2>3. p.open /\ p.reconnect = c.sl[s].reconnect
      BY <1>2 DEF Opening, Server
    <2> QED BY <2>2, <2>3
  <1> HIDE DEF p
  <1>4. b \in Clients /\ Grows(c, b)
    <2>1. /\ b \in Clients /\ b.attached = c.attached /\ b.sl[s] = p
          /\ \A t \in ServerNo \ {s} : b.sl[t] = c.sl[t]
      BY <1>3, PutClient
    <2> HIDE DEF b
    <2> QED BY <1>3, <2>1 DEF Grows
  <1> HIDE DEF b
  <1>5. old \in ServerNo => Grows(b, d)
    <2> SUFFICES ASSUME old \in ServerNo PROVE Grows(b, d)
      OBVIOUS
    <2>1. b.sl[old] \in Server
      BY <1>4, ClientParts
    <2>2. q \in Server /\ q.open = b.sl[old].open /\ q.reconnect = b.sl[old].reconnect
      <3>1. q \in Server
        BY <2>1, LeavingEntry
      <3> QED BY <2>1, <3>1 DEF Leaving, Server
    <2> HIDE DEF q
    <2>3. /\ d.attached = b.attached /\ d.sl[old] = q
          /\ \A t \in ServerNo \ {old} : d.sl[t] = b.sl[t]
      BY <1>4, <2>2, PutClient
    <2> HIDE DEF d
    <2> QED BY <2>2, <2>3 DEF Grows
  <1> HIDE DEF d, e
  <1>6. Grows(c, e)
    BY <1>1, <1>4, <1>5 DEF Grows
  <1> QED BY <1>6 DEF e

(* try_connect() *)
LEMMA TryGrows ==
  ASSUME NEW c \in Clients, NEW s \in ServerNo, NEW ok
  PROVE  Grows(c, try_connect(c, s, ok))
  <1> DEFINE old == c.sl[s].old_server
             b   == connect_to_server_by_refnum(c, s, old, ok)
             yes == b.sl[s].reconnect \/ ConnectFails(c, s, ok)
             r   == [b.sl[s] EXCEPT !.reconnect = yes]
             d   == Put(b, s, r)
  <1>1. try_connect(c, s, ok) = d
    BY DEF try_connect, Put
  <1>2. old \in -2..(N - 1)
    BY ClientParts, ServerFields
  <1> HIDE DEF old
  <1>3. b \in Clients /\ Grows(c, b)
    BY <1>2, Connects, ConnectGrows
  <1> HIDE DEF b
  <1>4. b.sl[s] \in Server
    BY <1>3, ClientParts
  <1>5. yes \in BOOLEAN /\ (b.sl[s].reconnect => yes)
    OBVIOUS
  <1> HIDE DEF yes
  <1>6. r \in Server /\ r.open = b.sl[s].open /\ r.reconnect = yes
    <2>1. r \in Server
      BY <1>4, <1>5, FieldChanges
    <2> QED BY <1>4, <1>5, <2>1 DEF Server
  <1> HIDE DEF r
  <1>7. /\ d.attached = b.attached /\ d.sl[s] = r
        /\ \A t \in ServerNo \ {s} : d.sl[t] = b.sl[t]
    BY <1>3, <1>6, PutClient
  <1> HIDE DEF d
  <1> QED BY <1>1, <1>3, <1>5, <1>6, <1>7 DEF Grows

(* With AUTO_RECONNECT a server is tried again, or another one. *)
LEMMA RetriesLively ==
  ASSUME AutoReconnect, NEW c \in Clients, NEW s \in ServerNo, NEW ok
  PROVE  Lively(reconnect_server(c, s, ok))
  <1> DEFINE a   == close_server(c, s)
             adv == advance_server(a, s)
             e   == adv.client
             n   == adv.server
             f   == [e EXCEPT !.sl[n].reconnect = FALSE]
             g   == window_check_servers(f)
             h   == try_connect(g, n, ok)
  <1>1. reconnect_server(c, s, ok) = IF n = -1 THEN e ELSE h
    BY DEF reconnect_server
  <1>2. a \in Clients /\ ~ a.sl[s].open
    BY CloseServer
  <1>3. n \in ServerNo /\ e \in Clients
    <2>1. e \in Clients /\ n \in ServerNo \cup {-1}
      BY <1>2, Advances
    <2> DEFINE c1  == Retried(a, s)
               nxt == IF c1.sl[s].retries >= MaxReconnect THEN next_server(c1, s) ELSE s
               c2  == IF nxt = s THEN c1 ELSE HandOver(c1, s, nxt)
    <2>2. adv = [client |-> c2, server |-> nxt]
      BY DEF advance_server, GivesUp
    <2>3. nxt \in ServerNo
      <3>1. c1 \in Clients /\ ~ c1.sl[s].open
        BY <1>2, CountsRetry
      <3> HIDE DEF c1
      <3> QED BY <3>1, NextServerNo
    <2> HIDE DEF nxt, c1, c2
    <2> QED BY <2>1, <2>2, <2>3
  <1> HIDE DEF a, adv, e, n
  <1>4. n # -1
    BY <1>3 DEF ServerNo
  <1>5. f \in Clients
    BY <1>3, SetsReconnect
  <1> HIDE DEF f
  <1>6. g \in Clients /\ Lively(g)
    BY <1>5, CheckedGood, CheckedLively DEF Good
  <1> HIDE DEF g
  <1>7. Lively(h)
    BY <1>3, <1>6, TryGrows, GrowsLively
  <1> HIDE DEF h
  <1> QED BY <1>1, <1>4, <1>7

(* get_connected() leaves a request. *)
LEMMA AskLively ==
  ASSUME NEW c \in Clients, NEW s \in ServerNo, NEW old
  PROVE  Lively(get_connected(c, s, old))
  <1> DEFINE b == CloseUnlessRegistered(CloseUnlessRegistered(c, find_old_server(c, old)), old)
             o == IF Registered(b, old) THEN old ELSE -1
             r == AskFor(b.sl[s], TRUE, s, o, -1, 0)
             d == Put(b, s, r)
  <1>1. get_connected(c, s, old) = IF InProgress(c) THEN c ELSE d
    BY DEF get_connected, Abandon, AskConnect, Put, AskFor
  <1>2. b \in Clients
    BY Closes
  <1> HIDE DEF b
  <1>3. b.sl[s] \in Server
    BY <1>2, ClientParts
  <1>4. o \in -2..(N - 1) /\ s \in -1..(N - 1) /\ -1 \in -1..W /\ 0 \in 0..RetryCap /\ TRUE \in BOOLEAN
    BY Bounds DEF Registered
  <1> HIDE DEF o
  <1>5. r \in Server /\ r.reconnect
    <2>1. r \in Server
      BY <1>3, <1>4, AskForEntry, Zenon
    <2>2. r.reconnect
      BY <1>3 DEF AskFor, Server
    <2> QED BY <2>1, <2>2
  <1> HIDE DEF r
  <1>6. d.sl[s].reconnect
    BY <1>2, <1>5, PutClient
  <1> HIDE DEF d
  <1> QED BY <1>1, <1>6 DEF Lively, InProgress

(* set_window_server() *)
LEMMA SetsLively ==
  ASSUME NEW c \in Clients, NEW ref, NEW s \in ServerNo, NEW cur \in DOMAIN c.win
  PROVE  Lively(set_window_server(c, ref, s, cur))
  <1>1. s \in -1..(N - 1)
    BY Bounds
  <1>2. /\ DOMAIN c.win \in (SUBSET WindowNo) \ {{}} /\ c.win \in [DOMAIN c.win -> -1..(N - 1)]
        /\ \A w \in DOMAIN c.win : c.win[w] \in -1..(N - 1)
    BY ClientParts, WindowParts
  <1>3. CASE ref = -1
    <2> DEFINE f == [w \in DOMAIN c.win |-> IF c.win[w] = c.primary THEN s ELSE c.win[w]]
               a == [c EXCEPT !.win = f]
               b == window_check_servers(a)
               d == [b EXCEPT !.primary = s]
    <2>1. set_window_server(c, ref, s, cur) = d
      BY <1>3 DEF set_window_server
    <2>2. f \in [DOMAIN c.win -> -1..(N - 1)]
      BY <1>1, <1>2
    <2> HIDE DEF f
    <2>3. f \in Windows
      BY <1>2, <2>2, WindowsOf
    <2>4. a \in Clients
      BY <2>3 DEF Clients
    <2> HIDE DEF a
    <2>5. b \in Clients /\ Lively(b)
      BY <2>4, CheckedGood, CheckedLively DEF Good
    <2> HIDE DEF b
    <2>6. d.sl = b.sl /\ d.attached = b.attached
      BY <2>5 DEF Clients
    <2> HIDE DEF d
    <2> QED BY <2>1, <2>5, <2>6 DEF Lively
  <1>4. CASE ref # -1
    <2> DEFINE v == IF ref \in DOMAIN c.win THEN ref ELSE cur
               f == [c.win EXCEPT ![v] = s]
               a == [c EXCEPT !.win = f]
    <2>1. set_window_server(c, ref, s, cur) = window_check_servers(a)
      BY <1>4 DEF set_window_server
    <2>2. f \in [DOMAIN c.win -> -1..(N - 1)]
      BY <1>1, <1>2
    <2> HIDE DEF f
    <2>3. f \in Windows
      BY <1>2, <2>2, WindowsOf
    <2>4. a \in Clients
      BY <2>3 DEF Clients
    <2> HIDE DEF a
    <2> QED BY <2>1, <2>4, CheckedLively
  <1> QED BY <1>3, <1>4

LEMMA AddsLively ==
  ASSUME NEW c \in Clients, Lively(c), NEW s \in ServerNo, NEW cur \in DOMAIN c.win, NEW ok
  PROVE  Lively(AddServer(c, s, cur, ok))
  <1> DEFINE c1 == connect_to_server_by_refnum(c, s, -1, ok)
             d  == set_window_server(c1, 0, s, cur)
  <1>1. AddServer(c, s, cur, ok) = IF ConnectFails(c, s, ok) THEN c ELSE d
    BY DEF AddServer
  <1>2. c1 \in Clients /\ c1.win = c.win
    BY Connects, Bounds DEF Kept
  <1> HIDE DEF c1
  <1>3. Lively(d)
    BY <1>2, SetsLively
  <1> HIDE DEF d
  <1> QED BY <1>1, <1>3

(* do_idle_server() reads from no one, and in a pass of do_server() the client may be left
   without a server: its end makes good for that. *)
KInv ==
    /\ SInv
    /\ pass = "idle" => watched = {}
    /\ pass # "server" => Lively(Client)

LEMMA KInvImplies ==
  ASSUME KInv
  PROVE  KeptConnected
  BY DEF KInv, Lively, KeptConnected, AtRest, Client

LEMMA KInvInit ==
  ASSUME Init
  PROVE  KInv
  BY ServerInit DEF Init, KInv, Lively, Client

(* A step that makes the client a lively c. *)
LEMMA BecomesLively ==
  ASSUME NEW c \in Clients, Lively(c), Becomes(c)
  PROVE  Lively(Client)'
  <1>1. c = [sl |-> c.sl, win |-> c.win, primary |-> c.primary, attached |-> c.attached]
    BY DEF Clients
  <1>2. Client' = c
    BY <1>1 DEF Becomes, Client
  <1> QED BY <1>2

(* A command that does. *)
LEMMA CommandLively ==
  ASSUME KInv, SInv', NEW name, NEW c \in Clients, Lively(c), Command(name, c)
  PROVE  KInv'
  <1>1. Lively(Client)'
    BY BecomesLively DEF Command
  <1>2. pass' = pass /\ pass = "input"
    BY DEF Command
  <1> QED BY <1>1, <1>2 DEF KInv

LEMMA PassLively ==
  ASSUME AutoReconnect, KInv, SInv', Pass
  PROVE  KInv'
  <1>0. SInv
    BY DEF KInv
  <1>1. Client \in Clients /\ Client.sl = sl /\ Client.win = win /\ Client.attached = attached
    BY <1>0, ClientIs DEF Client
  <1>2. ASSUME NEW kind \in {"server", "idle"}, NEW late \in SUBSET ServerNo, StartPass(kind, late)
        PROVE  KInv'
    <2> DEFINE f == [s \in ServerNo |->
                       IF s \in late THEN [sl[s] EXCEPT !.open = FALSE, !.reconnect = TRUE] ELSE sl[s]]
    <2>1. sl' = f /\ attached' = attached /\ pass = "input"
      BY <1>2 DEF StartPass
    <2>2. \A s \in ServerNo : sl[s] \in Server
      BY <1>1, ClientParts
    <2>3. ASSUME NEW s \in ServerNo, sl[s].open \/ sl[s].reconnect
          PROVE  f[s].open \/ f[s].reconnect
      <3>1. sl[s] \in Server
        BY <2>2
      <3> QED BY <2>3, <3>1 DEF Server
    <2> HIDE DEF f
    <2>4. attached' => \E s \in ServerNo : sl'[s].open \/ sl'[s].reconnect
      BY <2>1, <2>3 DEF KInv, Lively, Client
    <2>5. Lively(Client)'
      BY <2>4 DEF Lively, Client
    <2>6. pass' = "idle" => watched' = {}
      BY <1>2 DEF StartPass
    <2> QED BY <2>5, <2>6 DEF KInv
  <1>3. ASSUME NEW s \in ServerNo, Turn(s), pass # "server" PROVE KInv'
    <2>1. pass' = pass /\ pass = "idle" /\ s \notin watched
      <3>1. pass' = pass /\ pass # "input"
        BY <1>3 DEF Turn, TurnNothing, TurnWelcome, TurnNoPermission, TurnPassword,
             TurnReconnect, TurnLogIn, TurnClosed, TurnKilled, EndTurn
      <3>2. pass = "idle"
        BY <1>0, <1>3, <3>1 DEF SInv, Control
      <3> QED BY <3>1, <3>2 DEF KInv
    <2>2. TurnNothing(s) \/ \E ok \in BOOLEAN : TurnReconnect(s, ok)
      BY <1>3, <2>1 DEF Turn, TurnWelcome, TurnNoPermission, TurnPassword, TurnLogIn, CanLogIn,
           TurnClosed, Readable, TurnKilled
    <2>3. Lively(Client)
      BY <2>1 DEF KInv
    <2>4. \E c \in Clients : Lively(c) /\ EndTurn(s, c)
      <3>1. CASE TurnNothing(s)
        BY <1>1, <2>3, <3>1 DEF TurnNothing
      <3>2. ASSUME NEW ok \in BOOLEAN, TurnReconnect(s, ok)
            PROVE  \E c \in Clients : Lively(c) /\ EndTurn(s, c)
        <4> DEFINE a == [Client EXCEPT !.sl[s].reconnect = FALSE]
                   c == reconnect_server(a, s, ok)
        <4>1. a \in Clients /\ Kept(Client, a)
          BY <1>1, SetsReconnect
        <4>2. EndTurn(s, c)
          BY <3>2 DEF TurnReconnect
        <4> HIDE DEF a
        <4>3. Good(c)
          BY <1>0, <4>1, KeptGood, Reconnects DEF SInv
        <4>4. Lively(c)
          BY <4>1, RetriesLively
        <4> QED BY <4>2, <4>3, <4>4 DEF Good
      <3> QED BY <2>2, <3>1, <3>2
    <2>5. PICK c \in Clients : Lively(c) /\ EndTurn(s, c)
      BY <2>4
    <2>6. Lively(Client)'
      BY <2>5, BecomesLively DEF EndTurn
    <2>7. watched' \subseteq watched
      BY <2>5 DEF EndTurn
    <2>8. watched' = {}
      BY <2>1, <2>7 DEF KInv
    <2> QED BY <2>6, <2>8 DEF KInv
  <1>4. ASSUME NEW s \in ServerNo, Turn(s), pass = "server" PROVE KInv'
    <2>1. pass' = pass
      BY <1>4 DEF Turn, TurnNothing, TurnWelcome, TurnNoPermission, TurnPassword,
           TurnReconnect, TurnLogIn, TurnClosed, TurnKilled, EndTurn
    <2> QED BY <1>4, <2>1 DEF KInv
  <1>5. CASE EndPass
    <2> DEFINE c == IF pass = "server" /\ ~ Open(Client, primary)
                    THEN window_check_servers(Client) ELSE Client
    <2>1. Becomes(c) /\ pass' = "input" /\ pass # "input"
      BY <1>5 DEF EndPass
    <2>2. c \in Clients /\ Lively(c)
      <3>1. CASE pass = "server" /\ ~ Open(Client, primary)
        BY <1>1, <3>1, CheckedGood, CheckedLively DEF Good
      <3>2. CASE pass = "server" /\ Open(Client, primary)
        BY <1>1, <3>2 DEF Open, Lively
      <3>3. CASE pass # "server"
        BY <1>1, <3>3 DEF KInv
      <3> QED BY <3>1, <3>2, <3>3
    <2> HIDE DEF c
    <2>3. Lively(Client)'
      BY <2>1, <2>2, BecomesLively
    <2> QED BY <2>1, <2>3 DEF KInv
  <1> QED BY <1>2, <1>3, <1>4, <1>5 DEF Pass

LEMMA InputLively ==
  ASSUME "next" \notin Commands, KInv, SInv', Input
  PROVE  KInv'
  <1>0. SInv /\ pass = "input"
    BY DEF KInv, Input, MinusServer, Disconnect, WriteFails, PasswordEntered, KillWindow,
         NextServer, PreviousServer, DisconnectNowhere, WindowDiscon, NewWindow, ServerCommand,
         PlusServer, WindowServer, Reconnect, Command
  <1>1. /\ Client \in Clients /\ Client.sl = sl /\ Client.win = win /\ Client.attached = attached
        /\ DOMAIN win \in (SUBSET WindowNo) \ {{}} /\ \A w \in DOMAIN win : win[w] \in -1..(N - 1)
        /\ Lively(Client)
    BY <1>0, ClientIs DEF Client, KInv
  <1>2. close_unattached_servers(Client) \in Clients
    BY <1>1, CloseUnattached
  <1>c. ASSUME NEW c \in Clients
        PROVE  window_check_servers(c) \in Clients /\ Lively(window_check_servers(c))
    BY CheckedGood, CheckedLively DEF Good
  <1>3. ASSUME NEW s \in ServerNo, MinusServer(s) PROVE KInv'
    <2>1. close_server(Client, s) \in Clients
      BY <1>1, CloseServer
    <2> QED BY <1>3, <1>c, <2>1, CommandLively DEF MinusServer
  <1>4. ASSUME NEW s \in ServerNo, Disconnect(s) PROVE KInv'
    <2> DEFINE c == close_server(close_unattached_servers(Client), s)
    <2>1. c \in Clients
      BY <1>2, CloseServer
    <2>2. Command("disconnect", window_check_servers(window_check_servers(c)))
      BY <1>4 DEF Disconnect, server_disconnect
    <2> HIDE DEF c
    <2> QED BY <1>c, <2>1, <2>2, CommandLively
  <1>5. ASSUME NEW s \in ServerNo, WriteFails(s) PROVE KInv'
    <2> DEFINE c == get_connected(close_server(Client, s), s, s)
    <2>1. close_server(Client, s) \in Clients
      BY <1>1, CloseServer
    <2>2. c \in Clients /\ Lively(c)
      BY <2>1, GetConnected, AskLively
    <2>3. Becomes(c) /\ pass' = "input"
      BY <1>5 DEF WriteFails
    <2> HIDE DEF c
    <2>4. Lively(Client)'
      BY <2>2, <2>3, BecomesLively
    <2> QED BY <2>3, <2>4 DEF KInv
  <1>6. ASSUME NEW s \in ServerNo, NEW ok \in BOOLEAN, PasswordEntered(s, ok) PROVE KInv'
    <2>1. -1 \in -2..(N - 1)
      BY Bounds
    <2>2. /\ connect_to_server_by_refnum(Client, s, -1, ok) \in Clients
          /\ Lively(connect_to_server_by_refnum(Client, s, -1, ok))
      BY <1>1, <2>1, Connects, ConnectGrows, GrowsLively
    <2> QED BY <1>6, <2>2, CommandLively DEF PasswordEntered
  <1>7. ASSUME NEW cur \in DOMAIN win, NextServer(cur) \/ PreviousServer(cur) PROVE FALSE
    BY <1>7 DEF NextServer, PreviousServer, Command
  <1>8. ASSUME NEW cur \in DOMAIN win, DisconnectNowhere(cur) PROVE KInv'
    BY <1>2, <1>8, <1>c, CommandLively DEF DisconnectNowhere
  <1>9. ASSUME NEW cur \in DOMAIN win, NEW i \in ServerNo, ServerCommand(i, cur) PROVE KInv'
    <2>1. /\ get_connected(close_unattached_servers(Client), i, win[cur]) \in Clients
          /\ Lively(get_connected(close_unattached_servers(Client), i, win[cur]))
      BY <1>2, GetConnected, AskLively
    <2> QED BY <1>9, <2>1, CommandLively DEF ServerCommand
  <1>10. ASSUME NEW cur \in DOMAIN win, NEW i \in ServerNo, NEW ok \in BOOLEAN, PlusServer(i, cur, ok)
         PROVE  KInv'
    <2>1. AddServer(Client, i, cur, ok) \in Clients /\ Lively(AddServer(Client, i, cur, ok))
      BY <1>0, <1>1, AddsServer, AddsLively DEF SInv, Good
    <2> QED BY <1>10, <2>1, CommandLively DEF PlusServer
  <1>11. ASSUME NEW cur \in DOMAIN win, NEW ok \in BOOLEAN, Reconnect(cur, ok) PROVE KInv'
    <2> DEFINE i == win[cur]
               a == window_check_servers(close_server(Client, i))
    <2>1. i \in ServerNo
      BY <1>1, <1>11 DEF Reconnect, ServerNo
    <2>2. Command("reconnect", AddServer(a, i, cur, ok))
      BY <1>11 DEF Reconnect
    <2>3. Good(a) /\ DOMAIN a.win = DOMAIN win /\ Lively(a)
      <3>1. close_server(Client, i) \in Clients /\ close_server(Client, i).win = win
        BY <1>1, CloseServer DEF Kept
      <3> QED BY <3>1, CheckedGood, CheckedLively
    <2> HIDE DEF a, i
    <2>4. AddServer(a, i, cur, ok) \in Clients /\ Lively(AddServer(a, i, cur, ok))
      BY <2>1, <2>3, AddsServer, AddsLively DEF Good
    <2> QED BY <2>2, <2>4, CommandLively
  <1>12. ASSUME NEW w \in WindowNo, KillWindow(w) PROVE KInv'
    <2> DEFINE D == DOMAIN win \ {w}
               f == [v \in D |-> win[v]]
               c == [Client EXCEPT !.win = f]
    <2>1. D \in (SUBSET WindowNo) \ {{}} /\ f \in [D -> -1..(N - 1)]
      BY <1>1, <1>12 DEF KillWindow
    <2>2. Command("kill", window_check_servers(c))
      BY <1>12 DEF KillWindow
    <2> HIDE DEF D, f
    <2>3. f \in Windows
      BY <2>1, WindowsOf
    <2>4. c \in Clients
      BY <1>1, <2>3 DEF Clients
    <2> HIDE DEF c
    <2> QED BY <1>c, <2>2, <2>4, CommandLively
  <1>13. ASSUME NEW cur \in DOMAIN win, NEW w \in WindowNo, NewWindow(w, cur) PROVE KInv'
    <2>1. sl' = sl /\ attached' = attached /\ pass' = "input"
      BY <1>1, <1>13 DEF NewWindow, Command, Becomes, Clients
    <2>2. Lively(Client)'
      BY <1>1, <2>1 DEF Lively, Client
    <2> QED BY <2>1, <2>2 DEF KInv
  <1>14. ASSUME NEW cur \in DOMAIN win, WindowDiscon(cur) PROVE KInv'
    <2> DEFINE a == IF win[cur] = -1 THEN Client ELSE server_disconnect(Client, win[cur])
               d == [a EXCEPT !.win[cur] = -1]
    <2>1. a \in Clients /\ Lively(a)
      <3>1. CASE win[cur] = -1
        BY <1>1, <3>1
      <3>2. CASE win[cur] # -1
        <4>1. close_server(Client, win[cur]) \in Clients
          BY <1>1, CloseServer
        <4>2. a = window_check_servers(window_check_servers(close_server(Client, win[cur])))
          BY <3>2 DEF server_disconnect
        <4> HIDE DEF a
        <4> QED BY <1>c, <4>1, <4>2
      <3> QED BY <3>1, <3>2
    <2>2. Becomes(d) /\ pass' = "input"
      BY <1>14 DEF WindowDiscon, Command
    <2> HIDE DEF a
    <2>3. d.sl = a.sl /\ d.attached = a.attached
      BY <2>1 DEF Clients
    <2>4. sl' = a.sl /\ attached' = a.attached
      BY <2>2, <2>3 DEF Becomes
    <2>5. Lively(Client)'
      BY <2>1, <2>4 DEF Lively, Client
    <2> QED BY <2>2, <2>5 DEF KInv
  <1>15. ASSUME NEW cur \in DOMAIN win, NEW i \in ServerNo, NEW ok \in BOOLEAN,
                WindowServer(i, cur, ok)
         PROVE  KInv'
    <2> DEFINE a == close_unattached_servers(Client)
               r == ForWindow(a.sl[i], -2, TRUE, cur)
               b == Put(a, i, r)
               d == connect_to_server_by_refnum(b, i, -1, ok)
    <2>1. Command("window server", window_check_servers(d))
      BY <1>15 DEF WindowServer, Put, ForWindow
    <2> HIDE DEF a
    <2>2. a.sl[i] \in Server /\ cur \in -1..W /\ -2 \in -2..(N - 1) /\ -1 \in -2..(N - 1) /\ TRUE \in BOOLEAN
      BY <1>0, <1>2, ClientParts, ClientIs, Bounds DEF a
    <2>3. r \in Server
      BY <2>2, ForWindowEntry, Zenon
    <2> HIDE DEF r
    <2>4. b \in Clients
      BY <1>2, <2>3, PutClient DEF a
    <2> HIDE DEF b
    <2>5. d \in Clients
      BY <2>2, <2>4, Connects
    <2> HIDE DEF d
    <2> QED BY <1>c, <2>1, <2>5, CommandLively
  <1> QED BY <1>3, <1>4, <1>5, <1>6, <1>7, <1>8, <1>9, <1>10, <1>11, <1>12, <1>13, <1>14, <1>15
       DEF Input

LEMMA KeptStep ==
  ASSUME AutoReconnect, "next" \notin Commands, KInv, [Next]_vars
  PROVE  KInv'
  <1>1. SInv'
    BY ServerStep DEF KInv
  <1>2. CASE Pass
    BY <1>1, <1>2, PassLively
  <1>3. CASE Input
    BY <1>1, <1>3, InputLively
  <1>4. CASE UNCHANGED vars
    BY <1>1, <1>4 DEF vars, KInv, Lively, Client
  <1> QED BY <1>2, <1>3, <1>4 DEF Next

(***************************************************************************)
(* get_connected() "traverses the server list trying to keep the user      *)
(* connected at all cost".  Without AUTO_RECONNECT it is meant to give up, *)
(* and /SERVER + at the end of the list asks for a server there is not.    *)
(***************************************************************************)
THEOREM StaysConnected ==
  ASSUME AutoReconnect, "next" \notin Commands
  PROVE  Spec => []KeptConnected
  <1>1. Init => KInv
    BY KInvInit
  <1>2. KInv /\ [Next]_vars => KInv'
    BY KeptStep
  <1>3. KInv => KeptConnected
    BY KInvImplies
  <1> QED BY <1>1, <1>2, <1>3, PTL DEF Spec

-----------------------------------------------------------------------------
(* All windows together *)

(* The commands and events that leave all windows with one server. *)
AllTogether ==
    /\ Commands \cap {"plus", "window server", "reconnect"} = {}
    /\ "killed" \notin Events

(* All windows are with the primary server, and if one is attached there is one. *)
Together(c) ==
    /\ \A w \in DOMAIN c.win : c.win[w] = c.primary
    /\ c.attached => c.primary # -1

LEMMA KeptTogether ==
  ASSUME NEW c, NEW d, Together(c), Kept(c, d)
  PROVE  Together(d)
  BY DEF Together, Kept

LEMMA CheckTogether ==
  ASSUME NEW c \in Clients, Together(c)
  PROVE  /\ Together(window_check_servers(c))
         /\ ~ Open(c, c.primary) => window_check_servers(c).primary = -1
  <1> DEFINE served == {s \in ServerNo : Open(c, s) /\ HasWindowAt(c, s, s)}
             prime  == IF served = {} THEN -1
                       ELSE CHOOSE s \in served : \A t \in served : t <= s
             gone   == {s \in ServerNo : ClosedByCheck(c, s)}
             a      == [c EXCEPT !.win = WindowsAfter(c), !.attached = served # {}]
             b      == CloseAll(a, gone)
             d      == NewPrimary(b, prime)
  <1>1. window_check_servers(c) = d
    BY DEF window_check_servers, WindowsAfter
  <1>2. \A w \in DOMAIN c.win : \A s : WinAt(c, w, s) = c.primary
    BY DEF WinAt, Together
  <1>3. served # {} => prime \in ServerNo
    <2>1. served \in SUBSET ServerNo
      OBVIOUS
    <2> HIDE DEF served
    <2> QED BY <2>1, GreatestServer
  <1>4. ~ Open(c, c.primary) => served = {}
    BY <1>2 DEF HasWindowAt
  <1>5. /\ a \in Clients /\ a.sl = c.sl /\ a.primary = c.primary /\ a.attached = (served # {})
        /\ a.win = WindowsAfter(c)
    <2>1. (served # {}) \in BOOLEAN /\ WindowsAfter(c) \in Windows
      BY WindowsAfterType
    <2> HIDE DEF served
    <2> QED BY <2>1 DEF Clients
  <1>6. served = {} => prime = -1
    OBVIOUS
  <1> HIDE DEF a, prime, served
  <1>7. /\ b \in Clients /\ b.win = a.win /\ b.primary = a.primary /\ b.attached = a.attached
        /\ \A s \in ServerNo : b.sl[s] = IF s \in gone THEN Closed(a.sl[s]) ELSE a.sl[s]
    BY <1>5, CloseSeveral DEF Kept
  <1> HIDE DEF b, gone
  <1>8. \A w \in DOMAIN b.win : b.win[w] = b.primary
    <2>1. DOMAIN b.win = DOMAIN c.win /\ \A w \in DOMAIN c.win : b.win[w] = WinAt(c, w, N)
      BY <1>5, <1>7 DEF WindowsAfter
    <2> QED BY <1>2, <1>5, <1>7, <2>1
  <1>9. \A s \in ServerNo : s # -1
    BY DEF ServerNo
  <1>10. CASE Open(b, b.primary)
    <2>1. d = b
      BY <1>10 DEF NewPrimary
    <2>2. b.primary # -1
      BY <1>9, <1>10 DEF Open
    <2>3. ~ Open(c, c.primary) => FALSE
      <3>1. b.primary \in ServerNo /\ b.sl[b.primary].open
        BY <1>10 DEF Open
      <3>2. c.sl[b.primary] \in Server
        BY <3>1, ClientParts
      <3>3. ~ Closed(c.sl[b.primary]).open
        BY <3>2, ClosedEntry
      <3> QED BY <1>5, <1>7, <3>1, <3>3 DEF Open
    <2> QED BY <1>1, <1>8, <2>1, <2>2, <2>3 DEF Together
  <1>11. CASE ~ Open(b, b.primary)
    <2> DEFINE f == [w \in DOMAIN b.win |-> IF b.win[w] = b.primary THEN prime ELSE b.win[w]]
    <2>1. d = [b EXCEPT !.win = f, !.primary = prime]
      BY <1>11 DEF NewPrimary
    <2>2. \A w \in DOMAIN f : f[w] = prime
      BY <1>8
    <2> HIDE DEF f, d
    <2>3. d.win = f /\ d.primary = prime /\ d.attached = (served # {})
      BY <1>5, <1>7, <2>1 DEF Clients
    <2>4. Together(d)
      BY <1>3, <1>9, <2>2, <2>3 DEF Together
    <2> QED BY <1>1, <1>4, <1>6, <2>3, <2>4 DEF d
  <1> QED BY <1>10, <1>11

(* All windows of the primary server, and so all of them, go to s. *)
LEMMA AllGo ==
  ASSUME NEW c \in Clients, Together(c), NEW s \in ServerNo, c.sl[s].open, NEW cur
  PROVE  /\ Together(set_window_server(c, -1, s, cur))
         /\ DOMAIN set_window_server(c, -1, s, cur).win = DOMAIN c.win
         /\ \A w \in DOMAIN c.win : set_window_server(c, -1, s, cur).win[w] = s
  <1> DEFINE f == [w \in DOMAIN c.win |-> IF c.win[w] = c.primary THEN s ELSE c.win[w]]
             a == [c EXCEPT !.win = f]
             g == WindowsAfter(a)
             served == {t \in ServerNo : Open(a, t) /\ HasWindowAt(a, t, t)}
             prime  == IF served = {} THEN -1
                       ELSE CHOOSE t \in served : \A u \in served : u <= t
             gone   == {t \in ServerNo : ClosedByCheck(a, t)}
             x == [a EXCEPT !.win = g, !.attached = served # {}]
             b == CloseAll(x, gone)
             d == NewPrimary(b, prime)
             e == [d EXCEPT !.primary = s]
  <1>1. set_window_server(c, -1, s, cur) = e
    BY DEF set_window_server, window_check_servers, WindowsAfter
  <1>2. s \in -1..(N - 1) /\ s # -1
    BY Bounds DEF ServerNo
  <1>3. /\ DOMAIN c.win \in (SUBSET WindowNo) \ {{}}
        /\ \A w \in DOMAIN c.win : c.win[w] = c.primary
    BY ClientParts, WindowParts DEF Together
  <1>4. DOMAIN f = DOMAIN c.win /\ \A w \in DOMAIN c.win : f[w] = s
    BY <1>3
  <1>5. f \in [DOMAIN c.win -> -1..(N - 1)]
    BY <1>2, <1>4
  <1> HIDE DEF f
  <1>6. f \in Windows
    BY <1>3, <1>5, WindowsOf
  <1>7. a \in Clients /\ a.sl = c.sl /\ a.win = f
    BY <1>6 DEF Clients
  <1> HIDE DEF a
  <1>8. \A w \in DOMAIN c.win : g[w] = s
    BY <1>4, <1>7, StaysAtOpen
  <1>9. g \in Windows /\ DOMAIN g = DOMAIN c.win
    BY <1>4, <1>7, WindowsAfterType
  <1>10. prime \in -1..(N - 1)
    <2>1. served \in SUBSET ServerNo
      OBVIOUS
    <2> HIDE DEF served
    <2> QED BY <2>1, GreatestServer, Bounds
  <1>11. s \notin gone
    <2>1. PICK w \in DOMAIN c.win : TRUE
      BY <1>3
    <2>2. WinAt(a, w, s) = s
      BY <1>4, <1>7, <2>1 DEF WinAt, ServerNo
    <2>3. HasWindowAt(a, s, s)
      BY <1>4, <1>7, <2>1, <2>2 DEF HasWindowAt
    <2> QED BY <2>3 DEF ClosedByCheck
  <1>12. x \in Clients /\ x.sl = a.sl /\ x.win = g
    <2>1. (served # {}) \in BOOLEAN
      OBVIOUS
    <2> HIDE DEF served, g
    <2> QED BY <1>7, <1>9, <2>1 DEF Clients
  <1> HIDE DEF x, prime, served, g, gone
  <1>13. b \in Clients /\ b.win = g /\ b.sl[s] = c.sl[s]
    <2>1. /\ b \in Clients /\ Kept(x, b)
          /\ \A t \in ServerNo : b.sl[t] = IF t \in gone THEN Closed(x.sl[t]) ELSE x.sl[t]
      BY <1>12, CloseSeveral
    <2> HIDE DEF b
    <2> QED BY <1>7, <1>11, <1>12, <2>1 DEF Kept
  <1> HIDE DEF b
  <1>14. /\ d \in Clients /\ DOMAIN d.win = DOMAIN c.win
         /\ \A w \in DOMAIN c.win : d.win[w] = s
    BY <1>8, <1>9, <1>10, <1>13, TakesOver
  <1> HIDE DEF d
  <1>15. e.win = d.win /\ e.primary = s
    BY <1>14 DEF Clients
  <1> HIDE DEF e
  <1>16. Together(e)
    BY <1>2, <1>14, <1>15 DEF Together
  <1> QED BY <1>1, <1>14, <1>15, <1>16

(* The servers that are open, asked for or in P are to take over all windows. *)
TakesAll(c, P) ==
    \A s \in ServerNo : c.sl[s].open \/ c.sl[s].reconnect \/ s \in P
                           => c.sl[s].server_change_refnum = -1

(* An entry that goes on with what it is to take over. *)
Fit(q, r) ==
    \/ r.server_change_refnum = -1
    \/ /\ r.server_change_refnum = q.server_change_refnum
       /\ r.open \/ r.reconnect => q.open \/ q.reconnect

Fits(c, d) == \A s \in ServerNo : Fit(c.sl[s], d.sl[s])

LEMMA FitsTakesAll ==
  ASSUME NEW c, NEW d, NEW P, TakesAll(c, P), Fits(c, d)
  PROVE  TakesAll(d, P)
  BY DEF TakesAll, Fits, Fit

LEMMA FitsSelf == ASSUME NEW c PROVE Fits(c, c)
  BY DEF Fits, Fit

LEMMA FitsTrans ==
  ASSUME NEW c, NEW d, NEW e, Fits(c, d), Fits(d, e)
  PROVE  Fits(c, e)
  BY DEF Fits, Fit

LEMMA PutFits ==
  ASSUME NEW c \in Clients, NEW s \in ServerNo, NEW r \in Server, Fit(c.sl[s], r)
  PROVE  Fits(c, Put(c, s, r))
  <1> DEFINE d == Put(c, s, r)
  <1>1. d.sl[s] = r /\ \A t \in ServerNo \ {s} : d.sl[t] = c.sl[t]
    BY PutClient
  <1> HIDE DEF d
  <1>2. Fits(c, d)
    BY <1>1 DEF Fits, Fit
  <1> QED BY <1>2 DEF d

(* Closing. *)
LEMMA CloseFits ==
  ASSUME NEW c \in Clients, NEW s
  PROVE  Fits(c, close_server(c, s))
  <1>1. \A t \in ServerNo : close_server(c, s).sl[t] \in {c.sl[t], Closed(c.sl[t])}
    BY CloseServer
  <1>2. \A t \in ServerNo : c.sl[t] \in Server
    BY ClientParts
  <1>3. \A t \in ServerNo : Fit(c.sl[t], c.sl[t]) /\ Fit(c.sl[t], Closed(c.sl[t]))
    BY <1>2, ClosedEntry DEF Fit
  <1> QED BY <1>1, <1>3 DEF Fits

LEMMA CloseUnattachedFits ==
  ASSUME NEW c \in Clients
  PROVE  Fits(c, close_unattached_servers(c))
  <1> DEFINE d == close_unattached_servers(c)
  <1>1. \A t \in ServerNo : d.sl[t] \in {c.sl[t], Closed(c.sl[t])}
    BY CloseSeveral DEF close_unattached_servers
  <1>2. \A t \in ServerNo : c.sl[t] \in Server
    BY ClientParts
  <1>3. \A t \in ServerNo : Fit(c.sl[t], c.sl[t]) /\ Fit(c.sl[t], Closed(c.sl[t]))
    BY <1>2, ClosedEntry DEF Fit
  <1> HIDE DEF d
  <1>4. Fits(c, d)
    BY <1>1, <1>3 DEF Fits
  <1> QED BY <1>4 DEF d

LEMMA CheckFits ==
  ASSUME NEW c \in Clients
  PROVE  Fits(c, window_check_servers(c))
  <1>1. \A t \in ServerNo : window_check_servers(c).sl[t] \in {c.sl[t], Closed(c.sl[t])}
    BY WindowCheck
  <1>2. \A t \in ServerNo : c.sl[t] \in Server
    BY ClientParts
  <1>3. \A t \in ServerNo : Fit(c.sl[t], c.sl[t]) /\ Fit(c.sl[t], Closed(c.sl[t]))
    BY <1>2, ClosedEntry DEF Fit
  <1> QED BY <1>1, <1>3 DEF Fits

(* get_connected() *)
LEMMA AskFits ==
  ASSUME NEW c \in Clients, NEW s, NEW old
  PROVE  Fits(c, get_connected(c, s, old))
  <1> DEFINE a == CloseUnlessRegistered(c, find_old_server(c, old))
             b == CloseUnlessRegistered(a, old)
             d == AskConnect(b, s, old)
  <1>1. a \in Clients /\ Fits(c, a)
    BY Closes, CloseFits, FitsSelf DEF CloseUnlessRegistered
  <1> HIDE DEF a
  <1>2. b \in Clients /\ Fits(a, b)
    BY <1>1, Closes, CloseFits, FitsSelf DEF CloseUnlessRegistered
  <1>3. get_connected(c, s, old) = IF InProgress(c) THEN c ELSE d
    BY DEF get_connected, Abandon, a
  <1> HIDE DEF b
  <1>4. Fits(b, d)
    <2>1. CASE s \notin ServerNo
      <3>1. d = b
        BY <2>1 DEF AskConnect
      <3> QED BY <3>1, FitsSelf
    <2>2. CASE s \in ServerNo
      <3> DEFINE o == IF Registered(b, old) THEN old ELSE -1
                 r == AskFor(b.sl[s], TRUE, s, o, -1, 0)
      <3>1. d = Put(b, s, r)
        BY <2>2 DEF AskConnect, Put, AskFor
      <3>2. o \in -2..(N - 1) /\ s \in -1..(N - 1) /\ -1 \in -1..W /\ 0 \in 0..RetryCap
        BY <2>2, Bounds DEF Registered
      <3>3. b.sl[s] \in Server /\ TRUE \in BOOLEAN
        BY <1>2, <2>2, ClientParts
      <3> HIDE DEF o, d
      <3>4. r \in Server
        BY <3>2, <3>3, AskForEntry, Zenon
      <3>5. Fit(b.sl[s], r)
        BY <3>3 DEF AskFor, Fit, Server
      <3> HIDE DEF r
      <3> QED BY <1>2, <2>2, <3>1, <3>4, <3>5, PutFits
    <2> QED BY <2>1, <2>2
  <1> HIDE DEF d
  <1>5. Fits(c, d)
    BY <1>1, <1>2, <1>4, FitsTrans
  <1> QED BY <1>3, <1>5, FitsSelf

(* A socket for a server that is to take over all windows. *)
LEMMA ConnectFits ==
  ASSUME NEW c \in Clients, NEW s \in ServerNo, NEW old \in -2..(N - 1), NEW ok,
         c.sl[s].server_change_refnum = -1
  PROVE  /\ Fits(c, connect_to_server_by_refnum(c, s, old, ok))
         /\ connect_to_server_by_refnum(c, s, old, ok).sl[s].server_change_refnum = -1
  <1> DEFINE p == Opening(c.sl[s], TRUE, old, 1)
             b == Put(c, s, p)
             q == Leaving(b.sl[old], 2)
             d == Put(b, old, q)
             e == connect_to_server_by_refnum(c, s, old, ok)
  <1>1. e = IF c.sl[s].open \/ ~ ok THEN c ELSE IF old \in ServerNo THEN d ELSE b
    BY DEF connect_to_server_by_refnum, Put, Opening, Leaving
  <1>2. c.sl[s] \in Server
    BY ClientParts
  <1>3. p \in Server /\ p.server_change_refnum = -1
    <2>1. TRUE \in BOOLEAN /\ 1 \in 0..2
      OBVIOUS
    <2>2. p \in Server
      BY <1>2, <2>1, OpeningEntry, Zenon
    <2>3. p.server_change_refnum = -1
      BY <1>2 DEF Opening, Server
    <2> QED BY <2>2, <2>3
  <1> HIDE DEF p
  <1>4. b \in Clients /\ Fits(c, b) /\ b.sl[s].server_change_refnum = -1
    BY <1>3, PutClient, PutFits DEF Fit
  <1> HIDE DEF b
  <1>5. old \in ServerNo => Fits(b, d) /\ d.sl[s].server_change_refnum = -1
    <2> SUFFICES ASSUME old \in ServerNo PROVE Fits(b, d) /\ d.sl[s].server_change_refnum = -1
      OBVIOUS
    <2>1. b.sl[old] \in Server
      BY <1>4, ClientParts
    <2>2. q \in Server /\ Fit(b.sl[old], q) /\ q.server_change_refnum = b.sl[old].server_change_refnum
      <3>1. q \in Server
        BY <2>1, LeavingEntry
      <3> QED BY <2>1, <3>1 DEF Leaving, Server, Fit
    <2> HIDE DEF q
    <2>3. Fits(b, d)
      BY <1>4, <2>2, PutFits
    <2>4. d.sl[s].server_change_refnum = -1
      BY <1>4, <2>2, PutClient
    <2> QED BY <2>3, <2>4
  <1> HIDE DEF d, e
  <1>6. Fits(c, e) /\ e.sl[s].server_change_refnum = -1
    BY <1>1, <1>4, <1>5, FitsTrans, FitsSelf
  <1> QED BY <1>6 DEF e

(* Setting a flag of an entry that takes over all windows. *)
LEMMA FlagFits ==
  ASSUME NEW c \in Clients, NEW s \in ServerNo, NEW b \in BOOLEAN,
         ~ b \/ c.sl[s].server_change_refnum = -1
  PROVE  Fits(c, [c EXCEPT !.sl[s].reconnect = b])
  <1> DEFINE p == [c.sl[s] EXCEPT !.reconnect = b]
  <1>1. [c EXCEPT !.sl[s].reconnect = b] = Put(c, s, p)
    BY DEF Put
  <1>2. c.sl[s] \in Server
    BY ClientParts
  <1>3. p \in Server
    BY <1>2, FieldChanges
  <1>4. Fit(c.sl[s], p)
    BY <1>2 DEF Fit, Server
  <1> HIDE DEF p
  <1> QED BY <1>1, <1>3, <1>4, PutFits

LEMMA OtherFlagsFit ==
  ASSUME NEW c \in Clients, NEW s \in ServerNo, NEW b \in BOOLEAN
  PROVE  /\ Fits(c, [c EXCEPT !.sl[s].connected = b])
         /\ Fits(c, [c EXCEPT !.sl[s].connect_wait = b])
  <1> DEFINE q == [c.sl[s] EXCEPT !.connected = b]
             r == [c.sl[s] EXCEPT !.connect_wait = b]
  <1>1. /\ [c EXCEPT !.sl[s].connected = b] = Put(c, s, q)
        /\ [c EXCEPT !.sl[s].connect_wait = b] = Put(c, s, r)
    BY DEF Put
  <1>2. c.sl[s] \in Server
    BY ClientParts
  <1>3. q \in Server /\ r \in Server
    BY <1>2, FieldChanges
  <1>4. Fit(c.sl[s], q)
    BY <1>2 DEF Fit, Server
  <1>5. Fit(c.sl[s], r)
    BY <1>2 DEF Fit, Server
  <1> HIDE DEF q, r
  <1> QED BY <1>1, <1>3, <1>4, <1>5, PutFits

(* Handing over. *)
LEMMA HandOverFits ==
  ASSUME NEW c \in Clients, NEW i \in ServerNo, NEW nxt \in ServerNo, nxt # i,
         c.sl[i].server_change_refnum = -1
  PROVE  /\ Fits(c, HandOver(c, i, nxt))
         /\ HandOver(c, i, nxt).sl[nxt].server_change_refnum = -1
         /\ HandOver(c, i, nxt).sl[i].req_server = -1
  <1> DEFINE o == c.sl[i]
             p == TakeOver(c.sl[nxt], TRUE, 0, o.req_server, o.old_server,
                           o.server_change_refnum, o.c_server)
             b == Put(c, nxt, p)
             q == GiveUp(b.sl[i], FALSE, 0, -1)
             d == Put(b, i, q)
  <1>1. HandOver(c, i, nxt) = d
    BY DEF HandOver, Put, TakeOver, GiveUp
  <1>2. /\ c.sl[nxt] \in Server /\ o \in Server
        /\ TRUE \in BOOLEAN /\ FALSE \in BOOLEAN /\ 0 \in 0..RetryCap /\ -1 \in -1..(N - 1)
    BY ClientParts, Bounds
  <1>3. /\ o.req_server \in -1..(N - 1) /\ o.old_server \in -2..(N - 1)
        /\ o.server_change_refnum \in -1..W /\ o.c_server \in -2..(N - 1)
        /\ o.server_change_refnum = -1
    BY <1>2, ServerFields
  <1> HIDE DEF o
  <1>4. p \in Server
    BY <1>2, <1>3, TakeOverEntry, Zenon
  <1>5. p.server_change_refnum = -1
    BY <1>2, <1>3 DEF TakeOver, Server
  <1> HIDE DEF p
  <1>6. b \in Clients /\ Fits(c, b) /\ b.sl[nxt].server_change_refnum = -1
    BY <1>4, <1>5, PutFits, PutClient DEF Fit
  <1> HIDE DEF b
  <1>7. b.sl[i] \in Server
    BY <1>6, ClientParts
  <1>8. q \in Server
    BY <1>2, <1>7, GiveUpEntry, Zenon
  <1>9. /\ q.server_change_refnum = b.sl[i].server_change_refnum /\ q.req_server = -1
        /\ q.open = b.sl[i].open /\ ~ q.reconnect
    BY <1>7 DEF GiveUp, Server
  <1> HIDE DEF q
  <1>10. Fit(b.sl[i], q)
    BY <1>9 DEF Fit
  <1>11. Fits(b, d)
    BY <1>6, <1>8, <1>10, PutFits
  <1>12. d.sl[nxt] = b.sl[nxt] /\ d.sl[i] = q
    BY <1>6, <1>8, PutClient
  <1> HIDE DEF d
  <1> QED BY <1>1, <1>6, <1>9, <1>11, <1>12, FitsTrans

LEMMA RetriedFits ==
  ASSUME NEW c \in Clients, NEW i \in ServerNo
  PROVE  /\ Fits(c, Retried(c, i))
         /\ Retried(c, i).sl[i].server_change_refnum = c.sl[i].server_change_refnum
         /\ Retried(c, i).sl[i].connect_wait = c.sl[i].connect_wait
         /\ Retried(c, i).sl[i].req_server = c.sl[i].req_server
  <1> DEFINE n == IF c.sl[i].retries < RetryCap THEN c.sl[i].retries + 1 ELSE RetryCap
             r == [c.sl[i] EXCEPT !.retries = n]
  <1>1. Retried(c, i) = Put(c, i, r)
    BY DEF Retried, Put
  <1>2. c.sl[i] \in Server /\ c.sl[i].retries \in 0..RetryCap /\ RetryCap \in Nat
    BY ClientParts, ServerFields, Bounds
  <1>3. n \in 0..RetryCap
    BY <1>2
  <1> HIDE DEF n
  <1>4. r \in Server
    <2>1. 0 \in -2..(N - 1) /\ 0 \in -1..(N - 1)
      BY Bounds
    <2> QED BY <1>2, <1>3, <2>1, NumberChanges
  <1>5. /\ r.server_change_refnum = c.sl[i].server_change_refnum /\ r.open = c.sl[i].open
        /\ r.reconnect = c.sl[i].reconnect /\ r.connect_wait = c.sl[i].connect_wait
        /\ r.req_server = c.sl[i].req_server
    BY <1>2 DEF Server
  <1> HIDE DEF r
  <1>6. Fit(c.sl[i], r)
    BY <1>5 DEF Fit
  <1>7. Fits(c, Put(c, i, r)) /\ Put(c, i, r).sl[i] = r
    BY <1>4, <1>6, PutFits, PutClient
  <1> QED BY <1>1, <1>5, <1>7

(* Still trying, or no longer the one that tries. *)
Still(r) == r.connect_wait \/ r.req_server = -1

(* advance_server() *)
LEMMA AdvanceFits ==
  ASSUME NEW c \in Clients, NEW i \in ServerNo, ~ c.sl[i].open,
         c.sl[i].server_change_refnum = -1
  PROVE  /\ Fits(c, advance_server(c, i).client)
         /\ advance_server(c, i).server # -1 =>
               advance_server(c, i).client.sl[advance_server(c, i).server].server_change_refnum = -1
         /\ Still(c.sl[i]) => Still(advance_server(c, i).client.sl[i])
  <1> DEFINE c1  == Retried(c, i)
             nxt == IF c1.sl[i].retries >= MaxReconnect THEN next_server(c1, i) ELSE i
             c2  == IF nxt = i THEN c1 ELSE HandOver(c1, i, nxt)
             c3  == close_server(c2, nxt)
             adv == advance_server(c, i)
  <1>1. adv = IF GivesUp(c2, nxt) THEN [client |-> c3, server |-> -1]
                                  ELSE [client |-> c2, server |-> nxt]
    BY DEF advance_server
  <1>2. /\ c1 \in Clients /\ Fits(c, c1) /\ ~ c1.sl[i].open /\ c1.sl[i].server_change_refnum = -1
        /\ Still(c.sl[i]) => Still(c1.sl[i])
    BY CountsRetry, RetriedFits DEF Still
  <1> HIDE DEF c1
  <1>3. nxt \in ServerNo
    BY <1>2, NextServerNo
  <1> HIDE DEF nxt
  <1>4. /\ c2 \in Clients /\ Fits(c1, c2) /\ c2.sl[nxt].server_change_refnum = -1
        /\ Still(c1.sl[i]) => Still(c2.sl[i])
    <2>1. CASE nxt = i
      BY <1>2, <2>1, FitsSelf
    <2>2. CASE nxt # i
      <3>1. c2 = HandOver(c1, i, nxt)
        BY <2>2
      <3> HIDE DEF c2
      <3> QED BY <1>2, <1>3, <2>2, <3>1, HandsOver, HandOverFits DEF Still
    <2> QED BY <2>1, <2>2
  <1> HIDE DEF c2
  <1>5. Fits(c2, c3) /\ (Still(c2.sl[i]) => Still(c3.sl[i]))
    <2>1. Fits(c2, c3)
      BY <1>4, CloseFits
    <2>2. c3.sl[i] = c2.sl[i] \/ c3.sl[i] = Closed(c2.sl[i])
      BY <1>3, <1>4, CloseServer
    <2>3. Still(c2.sl[i]) => Still(Closed(c2.sl[i]))
      <3>1. c2.sl[i] \in Server
        BY <1>4, ClientParts
      <3> QED BY <3>1 DEF Still, Closed, Reset, Server
    <2> QED BY <2>1, <2>2, <2>3
  <1> HIDE DEF c3, adv
  <1>6. Fits(c, c2) /\ Fits(c, c3)
    BY <1>2, <1>4, <1>5, FitsTrans
  <1>7. /\ Fits(c, adv.client) /\ (Still(c.sl[i]) => Still(adv.client.sl[i]))
        /\ adv.server # -1 => adv.client.sl[adv.server].server_change_refnum = -1
    BY <1>1, <1>2, <1>4, <1>5, <1>6
  <1> QED BY <1>7 DEF adv

(* A connection that is begun keeps what is being tried. *)
LEMMA ConnectStill ==
  ASSUME NEW c \in Clients, NEW s \in ServerNo, NEW old \in -2..(N - 1), NEW ok, NEW t \in ServerNo,
         Still(c.sl[t])
  PROVE  Still(connect_to_server_by_refnum(c, s, old, ok).sl[t])
  <1> DEFINE p == Opening(c.sl[s], TRUE, old, 1)
             b == Put(c, s, p)
             q == Leaving(b.sl[old], 2)
             d == Put(b, old, q)
             e == connect_to_server_by_refnum(c, s, old, ok)
  <1>1. e = IF c.sl[s].open \/ ~ ok THEN c ELSE IF old \in ServerNo THEN d ELSE b
    BY DEF connect_to_server_by_refnum, Put, Opening, Leaving
  <1>2. c.sl[s] \in Server
    BY ClientParts
  <1>3. p \in Server /\ Still(p)
    <2>1. TRUE \in BOOLEAN /\ 1 \in 0..2
      OBVIOUS
    <2>2. p \in Server
      BY <1>2, <2>1, OpeningEntry, Zenon
    <2>3. p.connect_wait
      BY <1>2 DEF Opening, Server
    <2> QED BY <2>2, <2>3 DEF Still
  <1> HIDE DEF p
  <1>4. b \in Clients /\ Still(b.sl[t])
    BY <1>3, PutClient
  <1> HIDE DEF b
  <1>5. old \in ServerNo => Still(d.sl[t])
    <2> SUFFICES ASSUME old \in ServerNo PROVE Still(d.sl[t])
      OBVIOUS
    <2>1. b.sl[old] \in Server
      BY <1>4, ClientParts
    <2>2. q \in Server /\ (Still(b.sl[old]) => Still(q))
      <3>1. q \in Server
        BY <2>1, LeavingEntry
      <3> QED BY <2>1, <3>1 DEF Leaving, Server, Still
    <2> HIDE DEF q
    <2> QED BY <1>4, <2>2, PutClient
  <1> HIDE DEF d, e
  <1>6. Still(e.sl[t])
    BY <1>1, <1>4, <1>5
  <1> QED BY <1>6 DEF e

(* reconnect_server() *)
LEMMA ReconnectTogether ==
  ASSUME NEW c \in Clients, NEW s \in ServerNo, NEW ok, c.sl[s].server_change_refnum = -1,
         Together(c)
  PROVE  /\ Together(reconnect_server(c, s, ok))
         /\ Fits(c, reconnect_server(c, s, ok))
         /\ Still(c.sl[s]) => Still(reconnect_server(c, s, ok).sl[s])
  <1> DEFINE a   == close_server(c, s)
             adv == advance_server(a, s)
             e   == adv.client
             n   == adv.server
             f   == [e EXCEPT !.sl[n].reconnect = FALSE]
             g   == window_check_servers(f)
             old == g.sl[n].old_server
             x   == connect_to_server_by_refnum(g, n, old, ok)
             yes == x.sl[n].reconnect \/ ConnectFails(g, n, ok)
             h   == [x EXCEPT !.sl[n].reconnect = yes]
             res == reconnect_server(c, s, ok)
  <1>1. res = IF n = -1 THEN e ELSE h
    BY DEF reconnect_server, try_connect
  <1>2. /\ a \in Clients /\ Kept(c, a) /\ ~ a.sl[s].open /\ Fits(c, a)
        /\ a.sl[s].server_change_refnum = -1 /\ (Still(c.sl[s]) => Still(a.sl[s]))
    <2>1. c.sl[s] \in Server /\ a.sl[s] = Closed(c.sl[s])
      BY ClientParts, CloseServer
    <2>2. /\ Closed(c.sl[s]).server_change_refnum = -1
          /\ Still(c.sl[s]) => Still(Closed(c.sl[s]))
      BY <2>1 DEF Still, Closed, Reset, Server
    <2> QED BY <2>1, <2>2, CloseServer, CloseFits
  <1> HIDE DEF a
  <1>3. /\ e \in Clients /\ n \in ServerNo \cup {-1} /\ Kept(a, e) /\ Fits(a, e)
        /\ n # -1 => e.sl[n].server_change_refnum = -1
        /\ Still(a.sl[s]) => Still(e.sl[s])
    BY <1>2, Advances, AdvanceFits
  <1> HIDE DEF adv, e, n, res
  <1>4. Together(e) /\ Fits(c, e) /\ (Still(c.sl[s]) => Still(e.sl[s]))
    BY <1>2, <1>3, KeptTogether, FitsTrans
  <1>5. CASE n = -1
    BY <1>1, <1>4, <1>5 DEF res
  <1>6. CASE n # -1
    <2>1. n \in ServerNo
      BY <1>3, <1>6
    <2>2. /\ f \in Clients /\ Kept(e, f) /\ Fits(e, f) /\ f.sl[n].server_change_refnum = -1
          /\ Still(e.sl[s]) => Still(f.sl[s])
      <3>1. f \in Clients /\ Kept(e, f) /\ Fits(e, f)
        BY <1>3, <2>1, SetsReconnect, FlagFits
      <3>2. f.sl[n].server_change_refnum = -1 /\ (Still(e.sl[s]) => Still(f.sl[s]))
        <4>1. e.sl[n] \in Server /\ e.sl[s] \in Server
          BY <1>3, <2>1, ClientParts
        <4>2. f = Put(e, n, [e.sl[n] EXCEPT !.reconnect = FALSE])
          BY DEF Put
        <4>3. [e.sl[n] EXCEPT !.reconnect = FALSE] \in Server
          BY <4>1, FieldChanges
        <4>4. /\ [e.sl[n] EXCEPT !.reconnect = FALSE].server_change_refnum = -1
              /\ Still(e.sl[n]) => Still([e.sl[n] EXCEPT !.reconnect = FALSE])
          BY <1>3, <1>6, <4>1 DEF Still, Server
        <4> DEFINE r == [e.sl[n] EXCEPT !.reconnect = FALSE]
        <4> HIDE DEF r, f
        <4>5. f = Put(e, n, r) /\ r \in Server /\ r.server_change_refnum = -1
              /\ (Still(e.sl[n]) => Still(r))
          BY <4>2, <4>3, <4>4 DEF r
        <4> QED BY <1>3, <2>1, <4>5, PutClient
      <3> QED BY <3>1, <3>2
    <2> HIDE DEF f
    <2>3. /\ g \in Clients /\ Together(g) /\ Fits(f, g) /\ g.sl[n].server_change_refnum = -1
          /\ Still(f.sl[s]) => Still(g.sl[s])
      <3>1. g \in Clients /\ Together(g) /\ Fits(f, g)
        BY <1>4, <2>2, KeptTogether, CheckedGood, CheckTogether, CheckFits DEF Good
      <3>2. /\ g.sl[n] \in {f.sl[n], Closed(f.sl[n])} /\ g.sl[s] \in {f.sl[s], Closed(f.sl[s])}
            /\ f.sl[n] \in Server /\ f.sl[s] \in Server
        BY <2>1, <2>2, WindowCheck, ClientParts
      <3>3. /\ Closed(f.sl[n]).server_change_refnum = f.sl[n].server_change_refnum
            /\ Still(f.sl[s]) => Still(Closed(f.sl[s]))
        BY <3>2 DEF Still, Closed, Reset, Server
      <3> HIDE DEF g
      <3> QED BY <2>2, <3>1, <3>2, <3>3
    <2> HIDE DEF g
    <2>4. old \in -2..(N - 1)
      BY <2>1, <2>3, ClientParts, ServerFields
    <2> HIDE DEF old
    <2>5. /\ x \in Clients /\ Kept(g, x) /\ Fits(g, x) /\ x.sl[n].server_change_refnum = -1
          /\ Still(g.sl[s]) => Still(x.sl[s])
      BY <2>1, <2>3, <2>4, Connects, ConnectFits, ConnectStill
    <2> HIDE DEF x
    <2>6. yes \in BOOLEAN
      OBVIOUS
    <2> HIDE DEF yes
    <2>7. /\ Kept(x, h) /\ Fits(x, h) /\ (Still(x.sl[s]) => Still(h.sl[s]))
      <3>1. Kept(x, h) /\ Fits(x, h)
        BY <2>1, <2>5, <2>6, SetsReconnect, FlagFits
      <3>2. Still(x.sl[s]) => Still(h.sl[s])
        <4> DEFINE r == [x.sl[n] EXCEPT !.reconnect = yes]
        <4>1. x.sl[n] \in Server
          BY <2>1, <2>5, ClientParts
        <4>2. h = Put(x, n, r)
          BY DEF Put
        <4>3. r \in Server
          BY <2>6, <4>1, FieldChanges
        <4>4. Still(x.sl[n]) => Still(r)
          BY <4>1 DEF Still, Server
        <4> HIDE DEF r, h
        <4> QED BY <2>1, <2>5, <4>2, <4>3, <4>4, PutClient
      <3> QED BY <3>1, <3>2
    <2> HIDE DEF h
    <2>8. Together(h)
      BY <2>3, <2>5, <2>7, KeptTogether
    <2>9. Fits(c, h)
      <3>1. Fits(c, f)
        BY <1>4, <2>2, FitsTrans
      <3>2. Fits(c, g)
        BY <2>3, <3>1, FitsTrans
      <3>3. Fits(c, x)
        BY <2>5, <3>2, FitsTrans
      <3> QED BY <2>7, <3>3, FitsTrans
    <2> QED BY <1>1, <1>4, <1>6, <2>2, <2>3, <2>5, <2>7, <2>8, <2>9 DEF res
  <1> QED BY <1>5, <1>6

(* The windows are set without a change of entries but for servers that are closed. *)
LEMMA SetFits ==
  ASSUME NEW c \in Clients, NEW s \in ServerNo, NEW cur
  PROVE  Fits(c, set_window_server(c, -1, s, cur))
  <1> DEFINE f == [w \in DOMAIN c.win |-> IF c.win[w] = c.primary THEN s ELSE c.win[w]]
             a == [c EXCEPT !.win = f]
             b == window_check_servers(a)
             d == [b EXCEPT !.primary = s]
  <1>1. set_window_server(c, -1, s, cur) = d
    BY DEF set_window_server
  <1>2. /\ DOMAIN c.win \in (SUBSET WindowNo) \ {{}} /\ s \in -1..(N - 1)
        /\ \A w \in DOMAIN c.win : c.win[w] \in -1..(N - 1)
    BY ClientParts, WindowParts, Bounds
  <1>3. f \in [DOMAIN c.win -> -1..(N - 1)]
    BY <1>2
  <1> HIDE DEF f
  <1>4. f \in Windows
    BY <1>2, <1>3, WindowsOf
  <1>5. a \in Clients /\ a.sl = c.sl
    BY <1>4 DEF Clients
  <1> HIDE DEF a
  <1>6. b \in Clients /\ Fits(a, b)
    BY <1>5, WindowCheck, CheckFits
  <1> HIDE DEF b
  <1>7. d.sl = b.sl
    BY <1>6 DEF Clients
  <1> HIDE DEF d
  <1> QED BY <1>1, <1>5, <1>6, <1>7 DEF Fits

(* finalize_server_connect() *)
LEMMA FinalizeTogether ==
  ASSUME NEW c \in Clients, Together(c), NEW s \in ServerNo, c.sl[s].open,
         c.sl[s].server_change_refnum = -1, NEW cur
  PROVE  /\ Together(finalize_server_connect(c, s, cur))
         /\ Fits(c, finalize_server_connect(c, s, cur))
         /\ \A w \in DOMAIN c.win : finalize_server_connect(c, s, cur).win[w] = s
  <1> DEFINE old == c.sl[s].c_server
             p   == [c.sl[old] EXCEPT !.old_server = -1]
             a   == Put(c, old, p)
             b   == LeaveOld(c, s)
             q   == Welcomed(b.sl[s], TRUE, FALSE, -1, 0)
             d   == Put(b, s, q)
             e   == set_window_server(d, -1, s, cur)
             r   == [e.sl[s] EXCEPT !.req_server = 0]
             res == Put(e, s, r)
  <1>1. finalize_server_connect(c, s, cur) = res
    BY DEF finalize_server_connect, LoggedIn, Put, Welcomed
  <1>2. b = IF old \in ServerNo /\ old # s THEN close_server(a, old) ELSE c
    BY DEF LeaveOld, Put
  <1>3. 0 \in -1..(N - 1) /\ -1 \in -2..(N - 1) /\ 0 \in 0..RetryCap /\ 0 \in 0..2
        /\ TRUE \in BOOLEAN /\ FALSE \in BOOLEAN
    BY Bounds
  <1> HIDE DEF b
  <1>4. b \in Clients /\ Kept(c, b) /\ Fits(c, b) /\ b.sl[s] = c.sl[s]
    <2>1. CASE old \in ServerNo /\ old # s
      <3>1. c.sl[old] \in Server
        BY <2>1, ClientParts
      <3>2. p \in Server /\ Keeps(c.sl[old], p)
        BY <1>3, <3>1, NumberChanges
      <3>3. Fit(c.sl[old], p)
        BY <3>1 DEF Fit, Server
      <3> HIDE DEF p
      <3>4. a \in Clients /\ Kept(c, a) /\ Fits(c, a) /\ a.sl[s] = c.sl[s]
        BY <2>1, <3>2, <3>3, PutClient, PutKept, PutFits
      <3> HIDE DEF a
      <3>5. /\ close_server(a, old) \in Clients /\ Kept(a, close_server(a, old))
            /\ Fits(a, close_server(a, old)) /\ close_server(a, old).sl[s] = a.sl[s]
        BY <2>1, <3>4, CloseServer, CloseFits
      <3> QED BY <1>2, <2>1, <3>4, <3>5, KeptTrans, FitsTrans
    <2>2. CASE ~ (old \in ServerNo /\ old # s)
      BY <1>2, <2>2, KeptSelf, FitsSelf
    <2> QED BY <2>1, <2>2
  <1>5. b.sl[s] \in Server
    BY <1>4, ClientParts
  <1>6. q \in Server
    BY <1>3, <1>5, WelcomedEntry, Zenon
  <1>7. /\ q.open = b.sl[s].open /\ q.reconnect = b.sl[s].reconnect
        /\ q.server_change_refnum = b.sl[s].server_change_refnum
    BY <1>5 DEF Welcomed, Server
  <1> HIDE DEF q
  <1>8. /\ d \in Clients /\ d.win = b.win /\ d.primary = b.primary /\ d.attached = b.attached
        /\ d.sl[s] = q /\ Fits(b, d)
    BY <1>4, <1>6, <1>7, PutClient, PutFits DEF Fit
  <1> HIDE DEF d
  <1>9. d.sl[s].open /\ Together(d) /\ d.win = c.win
    BY <1>4, <1>7, <1>8 DEF Kept, Together
  <1>10. Fits(c, d)
    BY <1>4, <1>8, FitsTrans
  <1>11. /\ e \in Clients /\ Together(e) /\ Fits(d, e)
         /\ \A w \in DOMAIN c.win : e.win[w] = s
    <2>1. DOMAIN d.win # {}
      BY <1>8, ClientParts, WindowParts
    <2>2. PICK v \in DOMAIN d.win : TRUE
      BY <2>1
    <2>3. set_window_server(d, -1, s, cur) = set_window_server(d, -1, s, v)
      BY DEF set_window_server
    <2>4. e \in Clients
      BY <1>8, <2>3, SetsWindow DEF Good
    <2> QED BY <1>8, <1>9, <2>4, AllGo, SetFits
  <1> HIDE DEF e
  <1>12. e.sl[s] \in Server
    BY <1>11, ClientParts
  <1>13. r \in Server /\ Keeps(e.sl[s], r)
    BY <1>3, <1>12, NumberChanges
  <1>14. Fit(e.sl[s], r)
    BY <1>12 DEF Fit, Server
  <1> HIDE DEF r
  <1>15. Kept(e, res) /\ Fits(e, res)
    BY <1>11, <1>13, <1>14, PutKept, PutFits
  <1> HIDE DEF res
  <1>16. Together(res) /\ res.win = e.win
    BY <1>11, <1>15, KeptTogether DEF Kept
  <1>17. Fits(c, res)
    BY <1>10, <1>11, <1>15, FitsTrans
  <1> QED BY <1>1, <1>11, <1>16, <1>17

(* The end of a connection. *)
LEMMA ClosedTogether ==
  ASSUME NEW c \in Clients, Together(c), NEW s \in ServerNo,
         c.sl[s].server_change_refnum = -1
  PROVE  /\ Together(ConnectionClosed(c, s)) /\ Fits(c, ConnectionClosed(c, s))
         /\ ConnectionClosed(c, s).win = c.win
         /\ ConnectionClosed(c, s).sl[s].connect_wait = c.sl[s].connect_wait
  <1> DEFINE a == close_server(c, s)
             o == IF c.sl[s].connect_wait THEN a.sl[s].old_server ELSE s
             p == [a.sl[s] EXCEPT !.reconnect = TRUE]
             b == Put(a, s, p)
             q == [b.sl[s] EXCEPT !.old_server = o]
             d == Put(b, s, q)
  <1>1. a \in Clients /\ Kept(c, a) /\ Fits(c, a)
    BY CloseServer, CloseFits
  <1>2. s \in DOMAIN a.sl /\ a.sl[s] \in Server
    BY <1>1, ClientParts
  <1>3. ConnectionClosed(c, s) = IF c.sl[s].try_once THEN a ELSE d
    <2> DEFINE e == [a EXCEPT !.sl[s].reconnect = TRUE,
                              !.sl[s].old_server = IF c.sl[s].connect_wait THEN @ ELSE s]
    <2>1. ConnectionClosed(c, s) = IF c.sl[s].try_once THEN a ELSE e
      BY DEF ConnectionClosed
    <2> HIDE DEF a
    <2>2. e = d
      BY <1>2 DEF Put, Server
    <2> QED BY <2>1, <2>2
  <1>4. a.sl[s].server_change_refnum = -1 /\ a.sl[s].connect_wait = c.sl[s].connect_wait
    <2>1. a.sl[s] = Closed(c.sl[s]) /\ c.sl[s] \in Server
      BY CloseServer, ClientParts
    <2> HIDE DEF a
    <2> QED BY <2>1 DEF Closed, Reset, Server
  <1> HIDE DEF a
  <1>5. o \in -2..(N - 1)
    BY <1>2, ServerFields, Bounds
  <1> HIDE DEF o
  <1>6. p \in Server /\ Keeps(a.sl[s], p)
    BY <1>2, FieldChanges
  <1>7. p.server_change_refnum = -1 /\ p.connect_wait = a.sl[s].connect_wait
    BY <1>2, <1>4 DEF Server
  <1> HIDE DEF p
  <1>8. b \in Clients /\ Kept(a, b) /\ Fits(a, b) /\ b.sl[s] = p
    BY <1>1, <1>6, <1>7, PutKept, PutFits, PutClient DEF Fit
  <1> HIDE DEF b
  <1>9. q \in Server /\ Keeps(b.sl[s], q)
    <2>1. 0 \in -1..(N - 1) /\ 0 \in 0..RetryCap /\ b.sl[s] \in Server
      BY <1>6, <1>8, Bounds
    <2> QED BY <1>5, <2>1, NumberChanges
  <1>10. q.server_change_refnum = -1 /\ q.connect_wait = p.connect_wait
    BY <1>6, <1>7, <1>8 DEF Server
  <1> HIDE DEF q
  <1>11. d \in Clients /\ Kept(b, d) /\ Fits(b, d) /\ d.sl[s] = q
    BY <1>8, <1>9, <1>10, PutKept, PutFits, PutClient DEF Fit
  <1> HIDE DEF d
  <1>12. Together(a) /\ Together(d) /\ a.win = c.win /\ d.win = c.win
    BY <1>1, <1>8, <1>11, KeptTogether DEF Kept
  <1>13. Fits(c, d)
    <2>1. Fits(c, b)
      BY <1>1, <1>8, FitsTrans
    <2> QED BY <1>11, <2>1, FitsTrans
  <1> QED BY <1>1, <1>3, <1>4, <1>7, <1>10, <1>11, <1>12, <1>13

(* server_disconnect() of the primary server leaves the windows without one. *)
LEMMA DisconnectTogether ==
  ASSUME NEW c \in Clients, Together(c), NEW s
  PROVE  /\ server_disconnect(c, s) \in Clients /\ Together(server_disconnect(c, s))
         /\ Fits(c, server_disconnect(c, s))
         /\ s = c.primary => server_disconnect(c, s).primary = -1
  <1> DEFINE a == close_server(c, s)
             b == window_check_servers(a)
             d == window_check_servers(b)
  <1>1. server_disconnect(c, s) = d
    BY DEF server_disconnect
  <1>2. /\ a \in Clients /\ Together(a) /\ Fits(c, a) /\ a.primary = c.primary
        /\ s = c.primary => ~ Open(a, a.primary)
    BY CloseServer, CloseFits, KeptTogether DEF Kept, Open
  <1> HIDE DEF a
  <1>3. /\ b \in Clients /\ Together(b) /\ Fits(a, b)
        /\ s = c.primary => b.primary = -1
    BY <1>2, WindowCheck, CheckTogether, CheckFits
  <1> HIDE DEF b
  <1>4. ~ Open(b, -1)
    BY DEF Open, ServerNo
  <1>5. /\ d \in Clients /\ Together(d) /\ Fits(b, d)
        /\ s = c.primary => d.primary = -1
    BY <1>3, <1>4, WindowCheck, CheckTogether, CheckFits
  <1> HIDE DEF d
  <1>6. Fits(c, d)
    <2>1. Fits(c, b)
      BY <1>2, <1>3, FitsTrans
    <2> QED BY <1>5, <2>1, FitsTrans
  <1> QED BY <1>1, <1>5, <1>6

(* The sockets that are watched are open. *)
Watching == /\ \A s \in watched : sl[s].open
            /\ pass = "input" => watched = {}

WInv == SInv /\ Watching /\ Together(Client) /\ TakesAll(Client, prompts)

LEMMA WInvImplies ==
  ASSUME WInv
  PROVE  PrimaryHasWindow
  <1>1. DOMAIN win # {}
    BY ClientIs DEF WInv
  <1> QED BY <1>1 DEF WInv, Together, Client, PrimaryHasWindow

LEMMA WInvInit ==
  ASSUME Init
  PROVE  WInv
  <1> DEFINE asked == [NewServer EXCEPT !.reconnect = TRUE, !.old_server = -1,
                                        !.server_change_refnum = -1]
  <1>1. SInv
    BY ServerInit
  <1>2. Watching
    BY DEF Init, Watching
  <1>3. Together(Client)
    BY DEF Init, Together, Client
  <1>4. ~ NewServer.open /\ ~ NewServer.reconnect /\ asked.server_change_refnum = -1
    BY DEF NewServer
  <1>5. PICK auto_connect \in BOOLEAN :
          sl = [s \in ServerNo |-> IF s = 0 /\ auto_connect THEN asked ELSE NewServer]
    BY DEF Init
  <1> HIDE DEF asked
  <1>6. TakesAll(Client, prompts)
    BY <1>4, <1>5 DEF Init, TakesAll, Client
  <1> QED BY <1>1, <1>2, <1>3, <1>6 DEF WInv

LEMMA BecomesTogether ==
  ASSUME SInv', Watching', NEW c \in Clients, Together(c), TakesAll(c, prompts'), Becomes(c)
  PROVE  WInv'
  <1>1. c = [sl |-> c.sl, win |-> c.win, primary |-> c.primary, attached |-> c.attached]
    BY DEF Clients
  <1>2. Client' = c
    BY <1>1 DEF Becomes, Client
  <1> QED BY <1>2 DEF WInv

(* A turn that comes to c. *)
LEMMA TurnTogether ==
  ASSUME WInv, SInv', NEW s \in ServerNo, NEW c \in Clients, Together(c), Fits(Client, c),
         EndTurn(s, c), prompts' = prompts
  PROVE  WInv'
  <1>1. Watching'
    BY DEF EndTurn, Becomes, Watching
  <1>2. TakesAll(c, prompts')
    BY FitsTakesAll DEF WInv
  <1> QED BY <1>1, <1>2, BecomesTogether DEF EndTurn

LEMMA CommandTogether ==
  ASSUME WInv, SInv', NEW name, NEW c \in Clients, Together(c), Fits(Client, c),
         Command(name, c), prompts' \in SUBSET prompts
  PROVE  WInv'
  <1>1. Watching'
    BY DEF Command, Watching, WInv
  <1>2. TakesAll(c, prompts')
    <2>1. TakesAll(c, prompts)
      BY FitsTakesAll DEF WInv
    <2> QED BY <2>1 DEF TakesAll
  <1> QED BY <1>1, <1>2, BecomesTogether DEF Command

(* Logging in. *)
LEMMA LogInTogether ==
  ASSUME WInv, NEW s \in ServerNo, sl[s].open, NEW cur \in DOMAIN win
  PROVE  /\ LogIn(s, cur) \in Clients /\ Together(LogIn(s, cur)) /\ Fits(Client, LogIn(s, cur))
         /\ \A w \in DOMAIN win : LogIn(s, cur).win[w] = s
  <1> DEFINE r == [Client.sl[s] EXCEPT !.connect_wait = FALSE]
             a == [Client EXCEPT !.sl[s].connect_wait = FALSE]
  <1>1. /\ SInv /\ Client \in Clients /\ Client.sl = sl /\ Client.win = win
        /\ Together(Client) /\ TakesAll(Client, prompts)
    BY ClientIs DEF WInv
  <1>2. a \in Clients /\ Kept(Client, a) /\ Fits(Client, a)
    BY <1>1, SetsReconnect, OtherFlagsFit
  <1>3. a.sl[s].open /\ a.sl[s].server_change_refnum = -1
    <2>1. a = Put(Client, s, r)
      BY DEF Put
    <2>2. Client.sl[s] \in Server /\ Client.sl[s].open /\ Client.sl[s].server_change_refnum = -1
      BY <1>1, ClientParts DEF TakesAll
    <2>3. r \in Server /\ r.open /\ r.server_change_refnum = -1
      <3>1. r \in Server
        BY <2>2, FieldChanges
      <3> QED BY <2>2, <3>1 DEF Server
    <2> HIDE DEF a, r
    <2> QED BY <1>1, <2>1, <2>3, PutClient
  <1>4. LogIn(s, cur) = finalize_server_connect(a, s, cur)
    BY DEF LogIn
  <1> HIDE DEF a
  <1>5. Together(a) /\ a.win = win
    BY <1>1, <1>2, KeptTogether DEF Kept
  <1>6. finalize_server_connect(a, s, cur) \in Clients
    BY <1>2, <1>5, Finalizes DEF Good
  <1>7. /\ Together(finalize_server_connect(a, s, cur))
        /\ Fits(a, finalize_server_connect(a, s, cur))
        /\ \A w \in DOMAIN a.win : finalize_server_connect(a, s, cur).win[w] = s
    BY <1>2, <1>3, <1>5, FinalizeTogether
  <1> QED BY <1>2, <1>4, <1>5, <1>6, <1>7, FitsTrans

(* The end of a connection, after a login in the same turn or not. *)
LEMMA ReadingTogether ==
  ASSUME WInv, NEW s \in ServerNo, NEW login \in BOOLEAN, NEW cur \in DOMAIN win,
         TurnClosed(s, login, cur)
  PROVE  /\ Reading(s, login, cur) \in Clients /\ Together(Reading(s, login, cur))
         /\ Fits(Client, Reading(s, login, cur))
         /\ Reading(s, login, cur).sl[s].server_change_refnum = -1
         /\ login => \A w \in DOMAIN win : Reading(s, login, cur).win[w] = s
  <1> DEFINE c == Reading(s, login, cur)
  <1>1. sl[s].open /\ c.sl[s].open
    BY DEF TurnClosed, Readable
  <1>2. /\ c \in Clients /\ Together(c) /\ Fits(Client, c)
        /\ login => \A w \in DOMAIN win : c.win[w] = s
    BY <1>1, LogInTogether, ClientIs, FitsSelf DEF WInv, Reading
  <1> HIDE DEF c
  <1>3. c.sl[s].server_change_refnum = -1
    <2>1. TakesAll(c, prompts)
      BY <1>2, FitsTakesAll DEF WInv
    <2> QED BY <1>1, <2>1 DEF TakesAll
  <1> QED BY <1>2, <1>3 DEF c

LEMMA TurnsTogether ==
  ASSUME AllTogether, WInv, SInv', NEW s \in ServerNo, Turn(s)
  PROVE  WInv'
  <1>1. /\ SInv /\ Client \in Clients /\ Client.win = win /\ Client.sl = sl
        /\ Together(Client) /\ TakesAll(Client, prompts)
    BY ClientIs DEF WInv
  <1>2. CASE TurnNothing(s)
    BY <1>1, <1>2, TurnTogether, FitsSelf DEF TurnNothing
  <1>3. CASE TurnWelcome(s)
    <2> DEFINE d == [Client EXCEPT !.sl[s].connected = TRUE]
    <2>1. d \in Clients /\ Kept(Client, d) /\ Fits(Client, d)
      BY <1>1, SetsReconnect, OtherFlagsFit
    <2>2. EndTurn(s, d) /\ prompts' = prompts
      BY <1>3 DEF TurnWelcome
    <2> HIDE DEF d
    <2> QED BY <1>1, <2>1, <2>2, KeptTogether, TurnTogether
  <1>4. CASE TurnNoPermission(s)
    <2> DEFINE a == close_server(Client, s)
               b == window_check_servers(a)
               d == get_connected(b, s + 1, s)
    <2>1. a \in Clients /\ Together(a) /\ Fits(Client, a)
      BY <1>1, CloseServer, CloseFits, KeptTogether
    <2>2. NoPermission(Client, s) = IF b.primary = s THEN d ELSE b
      BY DEF NoPermission
    <2> HIDE DEF a
    <2>3. b \in Clients /\ Together(b) /\ Fits(Client, b)
      BY <2>1, WindowCheck, CheckTogether, CheckFits, FitsTrans
    <2> HIDE DEF b
    <2>4. d \in Clients /\ Together(d) /\ Fits(Client, d)
      BY <2>3, GetConnected, AskFits, KeptTogether, FitsTrans
    <2> HIDE DEF d
    <2>5. /\ NoPermission(Client, s) \in Clients /\ Together(NoPermission(Client, s))
          /\ Fits(Client, NoPermission(Client, s))
      BY <2>2, <2>3, <2>4
    <2> QED BY <1>4, <2>5, TurnTogether DEF TurnNoPermission
  <1>5. CASE TurnPassword(s)
    <2> DEFINE a == close_server(Client, s)
    <2>1. a \in Clients /\ Together(a) /\ Fits(Client, a) /\ a.sl[s] = Closed(Client.sl[s])
      BY <1>1, CloseServer, CloseFits, KeptTogether
    <2>2. EndTurn(s, a) /\ prompts' = prompts \cup {s} /\ s \in watched
      BY <1>5 DEF TurnPassword
    <2>3. Client.sl[s].server_change_refnum = -1
      BY <1>1, <2>2 DEF WInv, Watching, TakesAll
    <2>4. a.sl[s].server_change_refnum = -1
      <3>1. Client.sl[s] \in Server
        BY <1>1, ClientParts
      <3> HIDE DEF a
      <3> QED BY <2>1, <2>3, <3>1, ClosedEntry
    <2> HIDE DEF a
    <2>5. TakesAll(a, prompts)
      BY <1>1, <2>1, FitsTakesAll
    <2>6. TakesAll(a, prompts')
      BY <2>2, <2>4, <2>5 DEF TakesAll
    <2>7. Watching'
      BY <2>2 DEF EndTurn, Becomes, Watching
    <2> QED BY <2>1, <2>2, <2>6, <2>7, BecomesTogether DEF EndTurn
  <1>6. ASSUME NEW ok \in BOOLEAN, TurnReconnect(s, ok) PROVE WInv'
    <2> DEFINE r == [Client.sl[s] EXCEPT !.reconnect = FALSE]
               a == [Client EXCEPT !.sl[s].reconnect = FALSE]
    <2>1. a \in Clients /\ Kept(Client, a) /\ Fits(Client, a)
      BY <1>1, SetsReconnect, FlagFits
    <2>2. EndTurn(s, reconnect_server(a, s, ok)) /\ prompts' = prompts /\ sl[s].reconnect
      BY <1>6 DEF TurnReconnect
    <2>3. a.sl[s].server_change_refnum = -1
      <3>1. a = Put(Client, s, r)
        BY DEF Put
      <3>2. Client.sl[s] \in Server /\ Client.sl[s].server_change_refnum = -1
        BY <1>1, <2>2, ClientParts DEF TakesAll
      <3>3. r \in Server /\ r.server_change_refnum = -1
        <4>1. r \in Server
          BY <3>2, FieldChanges
        <4> QED BY <3>2, <4>1 DEF Server
      <3> HIDE DEF a, r
      <3> QED BY <1>1, <3>1, <3>3, PutClient
    <2> HIDE DEF a
    <2>4. Good(a) /\ Together(a)
      BY <1>1, <2>1, KeptGood, KeptTogether DEF SInv
    <2>5. reconnect_server(a, s, ok) \in Clients
      BY <2>4, Reconnects DEF Good
    <2>6. Together(reconnect_server(a, s, ok)) /\ Fits(a, reconnect_server(a, s, ok))
      BY <2>1, <2>3, <2>4, ReconnectTogether
    <2> QED BY <2>1, <2>2, <2>5, <2>6, FitsTrans, TurnTogether
  <1>7. ASSUME NEW cur \in DOMAIN win, TurnLogIn(s, cur) PROVE WInv'
    BY <1>7, LogInTogether, TurnTogether DEF TurnLogIn, CanLogIn
  <1>8. ASSUME NEW cur \in DOMAIN win, NEW login \in BOOLEAN, TurnClosed(s, login, cur) PROVE WInv'
    <2> DEFINE c == Reading(s, login, cur)
               d == ConnectionClosed(c, s)
    <2>1. /\ c \in Clients /\ Together(c) /\ Fits(Client, c)
          /\ c.sl[s].server_change_refnum = -1
      BY <1>8, ReadingTogether
    <2>2. EndTurn(s, d) /\ prompts' = prompts
      BY <1>8 DEF TurnClosed
    <2>3. Good(c)
      BY <1>1, LogsInGood DEF Reading, SInv
    <2> HIDE DEF c
    <2>4. d \in Clients /\ Together(d) /\ Fits(c, d)
      BY <2>1, <2>3, ClosedTogether, EndsConnection DEF Good
    <2> HIDE DEF d
    <2> QED BY <2>1, <2>2, <2>4, FitsTrans, TurnTogether
  <1>9. ASSUME NEW cur \in DOMAIN win, NEW by \in {"server", "local", "remote"}, NEW ok \in BOOLEAN,
               TurnKilled(s, by, cur, ok)
        PROVE  FALSE
    BY <1>9 DEF TurnKilled, AllTogether
  <1> QED BY <1>2, <1>3, <1>4, <1>5, <1>6, <1>7, <1>8, <1>9 DEF Turn

LEMMA PassTogether ==
  ASSUME AllTogether, WInv, SInv', Pass
  PROVE  WInv'
  <1>1. /\ SInv /\ Client \in Clients /\ Client.win = win /\ Client.sl = sl
        /\ Together(Client) /\ TakesAll(Client, prompts)
    BY ClientIs DEF WInv
  <1>2. ASSUME NEW kind \in {"server", "idle"}, NEW late \in SUBSET ServerNo, StartPass(kind, late)
        PROVE  WInv'
    <2> DEFINE f == [s \in ServerNo |->
                       IF s \in late THEN [sl[s] EXCEPT !.open = FALSE, !.reconnect = TRUE] ELSE sl[s]]
    <2>1. /\ sl' = f /\ win' = win /\ primary' = primary /\ attached' = attached
          /\ prompts' = prompts /\ \A s \in late : sl[s].open
          /\ watched' \subseteq {s \in ServerNo \ late : sl[s].open} /\ pass' # "input"
      BY <1>2 DEF StartPass
    <2>2. \A s \in ServerNo : sl[s] \in Server
      BY <1>1, ClientParts
    <2>3. ASSUME NEW s \in ServerNo PROVE Fit(sl[s], f[s])
      <3>1. sl[s] \in Server /\ (s \in late => sl[s].open)
        BY <2>1, <2>2
      <3> QED BY <3>1 DEF Server, Fit
    <2>4. \A s \in ServerNo \ late : f[s] = sl[s]
      OBVIOUS
    <2> HIDE DEF f
    <2>5. Watching'
      BY <2>1, <2>4 DEF Watching
    <2>6. Together(Client)'
      BY <1>1, <2>1 DEF Together, Client
    <2>7. TakesAll(Client, prompts)'
      BY <1>1, <2>1, <2>3 DEF TakesAll, Client, Fit
    <2> QED BY <2>5, <2>6, <2>7 DEF WInv
  <1>3. CASE EndPass
    <2> DEFINE c == IF pass = "server" /\ ~ Open(Client, primary)
                    THEN window_check_servers(Client) ELSE Client
    <2>1. Becomes(c) /\ watched' = {} /\ prompts' = prompts
      BY <1>3 DEF EndPass
    <2>2. c \in Clients /\ Together(c) /\ Fits(Client, c)
      BY <1>1, WindowCheck, CheckTogether, CheckFits, FitsSelf
    <2> HIDE DEF c
    <2>3. TakesAll(c, prompts')
      BY <1>1, <2>1, <2>2, FitsTakesAll
    <2>4. Watching'
      BY <2>1 DEF Watching
    <2> QED BY <2>1, <2>2, <2>3, <2>4, BecomesTogether
  <1> QED BY <1>2, <1>3, TurnsTogether DEF Pass

LEMMA InputTogether ==
  ASSUME AllTogether, WInv, SInv', Input
  PROVE  WInv'
  <1>1. /\ SInv /\ Client \in Clients /\ Client.win = win /\ Client.sl = sl
        /\ Client.primary = primary /\ Together(Client) /\ TakesAll(Client, prompts)
        /\ DOMAIN win \in (SUBSET WindowNo) \ {{}} /\ \A w \in DOMAIN win : win[w] \in -1..(N - 1)
    BY ClientIs DEF WInv
  <1> DEFINE u == close_unattached_servers(Client)
  <1>2. u \in Clients /\ Together(u) /\ Fits(Client, u)
    BY <1>1, CloseUnattached, CloseUnattachedFits, KeptTogether
  <1>c. ASSUME NEW c \in Clients, Together(c)
        PROVE  /\ window_check_servers(c) \in Clients /\ Together(window_check_servers(c))
               /\ Fits(c, window_check_servers(c))
    <2>1. window_check_servers(c) \in Clients
      BY <1>c, WindowCheck
    <2>2. Together(window_check_servers(c))
      BY <1>c, CheckTogether
    <2>3. Fits(c, window_check_servers(c))
      BY <1>c, CheckFits
    <2> QED BY <2>1, <2>2, <2>3
  <1>3. ASSUME NEW s \in ServerNo, MinusServer(s) PROVE WInv'
    <2>1. /\ close_server(Client, s) \in Clients /\ Together(close_server(Client, s))
          /\ Fits(Client, close_server(Client, s))
      BY <1>1, CloseServer, CloseFits, KeptTogether
    <2> QED BY <1>3, <1>c, <2>1, FitsTrans, CommandTogether DEF MinusServer
  <1>4. ASSUME NEW s \in ServerNo, Disconnect(s) PROVE WInv'
    <2> HIDE DEF u
    <2>1. /\ server_disconnect(u, s) \in Clients /\ Together(server_disconnect(u, s))
          /\ Fits(Client, server_disconnect(u, s))
      BY <1>2, DisconnectTogether, FitsTrans
    <2>2. Command("disconnect", server_disconnect(u, s)) /\ prompts' = prompts
      BY <1>4 DEF Disconnect, u
    <2> QED BY <2>1, <2>2, CommandTogether
  <1>5. ASSUME NEW s \in ServerNo, WriteFails(s) PROVE WInv'
    <2> DEFINE a == close_server(Client, s)
               c == get_connected(a, s, s)
    <2>1. a \in Clients /\ Together(a) /\ Fits(Client, a)
      BY <1>1, CloseServer, CloseFits, KeptTogether
    <2>2. Becomes(c) /\ prompts' = prompts /\ watched' = watched /\ pass' = pass /\ pass = "input"
      BY <1>5 DEF WriteFails
    <2> HIDE DEF a
    <2>3. c \in Clients /\ Together(c) /\ Fits(Client, c)
      BY <2>1, GetConnected, AskFits, KeptTogether, FitsTrans
    <2> HIDE DEF c
    <2>4. TakesAll(c, prompts')
      BY <1>1, <2>2, <2>3, FitsTakesAll
    <2>5. Watching'
      BY <2>2 DEF WInv, Watching
    <2> QED BY <2>2, <2>3, <2>4, <2>5, BecomesTogether
  <1>6. ASSUME NEW s \in ServerNo, NEW ok \in BOOLEAN, PasswordEntered(s, ok) PROVE WInv'
    <2> DEFINE c == connect_to_server_by_refnum(Client, s, -1, ok)
    <2>1. -1 \in -2..(N - 1) /\ Client.sl[s].server_change_refnum = -1
      BY <1>1, <1>6, Bounds DEF TakesAll, PasswordEntered
    <2>2. Command("password", c) /\ prompts' \in SUBSET prompts
      BY <1>6 DEF PasswordEntered
    <2>3. c \in Clients /\ Together(c) /\ Fits(Client, c)
      BY <1>1, <2>1, Connects, ConnectFits, KeptTogether
    <2> HIDE DEF c
    <2> QED BY <2>2, <2>3, CommandTogether
  <1>7. ASSUME NEW cur \in DOMAIN win, NextServer(cur) \/ PreviousServer(cur) PROVE WInv'
    <2>1. \A s, o : /\ get_connected(Client, s, o) \in Clients /\ Together(get_connected(Client, s, o))
                    /\ Fits(Client, get_connected(Client, s, o))
      BY <1>1, GetConnected, AskFits, KeptTogether
    <2> QED BY <1>7, <2>1, CommandTogether DEF NextServer, PreviousServer
  <1>8. ASSUME NEW cur \in DOMAIN win, DisconnectNowhere(cur) PROVE WInv'
    <2> HIDE DEF u
    <2>1. Command("disconnect", window_check_servers(u)) /\ prompts' = prompts
      BY <1>8 DEF DisconnectNowhere, u
    <2> QED BY <1>2, <1>c, <2>1, FitsTrans, CommandTogether
  <1>9. ASSUME NEW cur \in DOMAIN win, NEW i \in ServerNo, ServerCommand(i, cur) PROVE WInv'
    <2> HIDE DEF u
    <2> DEFINE c == get_connected(u, i, win[cur])
    <2>1. c \in Clients /\ Together(c) /\ Fits(Client, c)
      BY <1>2, GetConnected, AskFits, KeptTogether, FitsTrans
    <2>2. Command("server", c) /\ prompts' = prompts
      BY <1>9 DEF ServerCommand, u
    <2> HIDE DEF c
    <2> QED BY <2>1, <2>2, CommandTogether
  <1>10. ASSUME NEW cur \in DOMAIN win, NEW i \in ServerNo, NEW ok \in BOOLEAN,
                PlusServer(i, cur, ok) \/ WindowServer(i, cur, ok) \/ Reconnect(cur, ok)
         PROVE  FALSE
    BY <1>10 DEF PlusServer, WindowServer, Reconnect, Command, AllTogether
  <1>11. ASSUME NEW cur \in DOMAIN win, NEW ok \in BOOLEAN, Reconnect(cur, ok) PROVE FALSE
    BY <1>11 DEF Reconnect, Command, AllTogether
  <1>12. ASSUME NEW w \in WindowNo, KillWindow(w) PROVE WInv'
    <2> DEFINE D == DOMAIN win \ {w}
               f == [v \in D |-> win[v]]
               c == [Client EXCEPT !.win = f]
    <2>1. D \in (SUBSET WindowNo) \ {{}} /\ f \in [D -> -1..(N - 1)]
      BY <1>1, <1>12 DEF KillWindow
    <2>2. Command("kill", window_check_servers(c)) /\ prompts' = prompts
      BY <1>12 DEF KillWindow
    <2>3. \A v \in DOMAIN f : f[v] = primary
      BY <1>1 DEF Together
    <2> HIDE DEF D, f
    <2>4. f \in Windows
      BY <2>1, WindowsOf
    <2>5. /\ c \in Clients /\ c.sl = Client.sl /\ c.win = f /\ c.primary = primary
          /\ c.attached = Client.attached
      BY <1>1, <2>4 DEF Clients
    <2> HIDE DEF c
    <2>6. Together(c) /\ Fits(Client, c)
      BY <1>1, <2>3, <2>5 DEF Together, Fits, Fit
    <2> QED BY <1>c, <2>2, <2>5, <2>6, FitsTrans, CommandTogether
  <1>13. ASSUME NEW cur \in DOMAIN win, NEW w \in WindowNo, NewWindow(w, cur) PROVE WInv'
    <2> DEFINE D == DOMAIN win \cup {w}
               f == [v \in D |-> IF v = w THEN win[cur] ELSE win[v]]
               c == [Client EXCEPT !.win = f]
    <2>1. D \in (SUBSET WindowNo) \ {{}}
      BY <1>1
    <2>2. \A v \in D : v # w => v \in DOMAIN win
      OBVIOUS
    <2>3. \A v \in DOMAIN win : win[v] = primary
      BY <1>1 DEF Together
    <2>4. \A v \in DOMAIN f : f[v] = primary /\ f[v] \in -1..(N - 1)
      BY <1>1, <2>2, <2>3
    <2>5. f \in [D -> -1..(N - 1)]
      BY <2>4
    <2>6. Command("new", c) /\ prompts' = prompts
      BY <1>13 DEF NewWindow
    <2> HIDE DEF D, f
    <2>7. f \in Windows
      BY <2>1, <2>5, WindowsOf
    <2>8. /\ c \in Clients /\ c.sl = Client.sl /\ c.win = f /\ c.primary = primary
          /\ c.attached = Client.attached
      BY <1>1, <2>7 DEF Clients
    <2> HIDE DEF c
    <2>9. Together(c) /\ Fits(Client, c)
      BY <1>1, <2>4, <2>8 DEF Together, Fits, Fit
    <2> QED BY <2>6, <2>8, <2>9, CommandTogether
  <1>14. ASSUME NEW cur \in DOMAIN win, WindowDiscon(cur) PROVE WInv'
    <2> DEFINE a == IF win[cur] = -1 THEN Client ELSE server_disconnect(Client, win[cur])
               f == [a.win EXCEPT ![cur] = -1]
               d == [a EXCEPT !.win[cur] = -1]
    <2>1. win[cur] = primary
      BY <1>1 DEF Together
    <2>2. a \in Clients /\ Together(a) /\ Fits(Client, a) /\ a.primary = -1
      <3>1. CASE win[cur] = -1
        BY <1>1, <2>1, <3>1, FitsSelf
      <3>2. CASE win[cur] # -1
        BY <1>1, <2>1, <3>2, DisconnectTogether
      <3> QED BY <3>1, <3>2
    <2>3. Command("discon", d) /\ prompts' = prompts
      BY <1>14 DEF WindowDiscon
    <2> HIDE DEF a
    <2>4. \A w \in DOMAIN a.win : a.win[w] = -1
      BY <2>2 DEF Together
    <2>5. f = a.win
      <3>1. a.win \in [DOMAIN a.win -> -1..(N - 1)]
        BY <2>2, ClientParts, WindowParts
      <3> QED BY <2>4, <3>1
    <2>6. d = [a EXCEPT !.win = f]
      OBVIOUS
    <2>7. d = a
      <3> HIDE DEF f, d
      <3> QED BY <2>2, <2>5, <2>6 DEF Clients
    <2> HIDE DEF d
    <2> QED BY <2>2, <2>3, <2>7, CommandTogether
  <1> QED BY <1>3, <1>4, <1>5, <1>6, <1>7, <1>8, <1>9, <1>10, <1>11, <1>12, <1>13, <1>14
       DEF Input

LEMMA TogetherStep ==
  ASSUME AllTogether, WInv, [Next]_vars
  PROVE  WInv'
  <1>1. SInv'
    BY ServerStep DEF WInv
  <1>2. CASE Pass
    BY <1>1, <1>2, PassTogether
  <1>3. CASE Input
    BY <1>1, <1>3, InputTogether
  <1>4. CASE UNCHANGED vars
    BY <1>1, <1>4 DEF vars, WInv, Watching, Together, TakesAll, Client
  <1> QED BY <1>2, <1>3, <1>4 DEF Next

(***************************************************************************)
(* The primary server is one with a window.  /SERVER +i, /WINDOW SERVER,   *)
(* /RECONNECT and a KILL give one window a server of its own, and then it  *)
(* need not be.                                                            *)
(***************************************************************************)
THEOREM PrimaryIsUsed ==
  ASSUME AllTogether
  PROVE  Spec => []PrimaryHasWindow
  <1>1. Init => WInv
    BY WInvInit
  <1>2. WInv /\ [Next]_vars => WInv'
    BY TogetherStep
  <1>3. WInv => PrimaryHasWindow
    BY WInvImplies
  <1> QED BY <1>1, <1>2, <1>3, PTL DEF Spec

(* A log in, even on a connection that ends in the same turn, takes all windows. *)
LEMMA LogInMovesAll ==
  ASSUME AllTogether, WInv, NEW s \in ServerNo, Turn(s), LogsIn(s)
  PROVE  \A w \in DOMAIN win : win'[w] = s
  <1>1. /\ SInv /\ Client \in Clients /\ Client.win = win /\ Client.sl = sl
        /\ Together(Client) /\ TakesAll(Client, prompts)
    BY ClientIs DEF WInv
  <1>2. /\ sl[s] \in Server /\ s \in DOMAIN sl /\ sl[s].open /\ ~ sl[s].logged_in
        /\ sl[s].connect_wait /\ ~ sl'[s].connect_wait /\ sl'[s].req_server = 0
    BY <1>1, ClientParts DEF LogsIn, Connecting
  <1>3. CASE TurnNothing(s)
    BY <1>1, <1>2, <1>3 DEF TurnNothing, EndTurn, Becomes
  <1>4. CASE TurnWelcome(s) \/ TurnNoPermission(s) \/ TurnPassword(s)
    BY <1>2, <1>4 DEF TurnWelcome, TurnNoPermission, TurnPassword
  <1>5. ASSUME NEW ok \in BOOLEAN, TurnReconnect(s, ok) PROVE FALSE
    <2> DEFINE a == [Client EXCEPT !.sl[s].reconnect = FALSE]
               c == reconnect_server(a, s, ok)
    <2>1. EndTurn(s, c) /\ sl[s].reconnect
      BY <1>5 DEF TurnReconnect
    <2>2. sl[s].server_change_refnum = -1
      BY <1>1, <2>1 DEF TakesAll
    <2>3. a \in Clients /\ Kept(Client, a)
      BY <1>1, SetsReconnect
    <2>4. a.sl[s] = [sl[s] EXCEPT !.reconnect = FALSE]
      BY <1>1, <1>2
    <2>5. a.sl[s].server_change_refnum = -1 /\ Still(a.sl[s])
      BY <1>2, <2>2, <2>4 DEF Server, Still
    <2>6. Together(a)
      BY <1>1, <2>3, KeptTogether
    <2> HIDE DEF a
    <2>7. Still(c.sl[s])
      BY <2>3, <2>5, <2>6, ReconnectTogether
    <2>8. sl' = c.sl
      BY <2>1 DEF EndTurn, Becomes
    <2> QED BY <1>2, <2>7, <2>8 DEF Still
  <1>6. ASSUME NEW cur \in DOMAIN win, TurnLogIn(s, cur)
        PROVE  \A w \in DOMAIN win : win'[w] = s
    BY <1>2, <1>6, LogInTogether DEF TurnLogIn, EndTurn, Becomes
  <1>7. ASSUME NEW cur \in DOMAIN win, NEW login \in BOOLEAN, TurnClosed(s, login, cur)
        PROVE  \A w \in DOMAIN win : win'[w] = s
    <2> DEFINE c == Reading(s, login, cur)
    <2>1. /\ c \in Clients /\ Together(c) /\ c.sl[s].server_change_refnum = -1
          /\ login => \A w \in DOMAIN win : c.win[w] = s
      BY <1>7, ReadingTogether
    <2>2. sl' = ConnectionClosed(c, s).sl /\ win' = ConnectionClosed(c, s).win
      BY <1>7 DEF TurnClosed, EndTurn, Becomes
    <2>3. ~ login => c = Client
      BY DEF Reading
    <2> HIDE DEF c
    <2>4. /\ ConnectionClosed(c, s).win = c.win
          /\ ConnectionClosed(c, s).sl[s].connect_wait = c.sl[s].connect_wait
      BY <2>1, ClosedTogether
    <2>5. login
      BY <1>1, <1>2, <2>2, <2>3, <2>4
    <2> QED BY <2>1, <2>2, <2>4, <2>5
  <1>8. ASSUME NEW cur \in DOMAIN win, NEW by \in {"server", "local", "remote"},
               NEW ok \in BOOLEAN, TurnKilled(s, by, cur, ok)
        PROVE  FALSE
    BY <1>8 DEF TurnKilled, AllTogether
  <1> QED BY <1>3, <1>4, <1>5, <1>6, <1>7, <1>8 DEF Turn

(* Only the turn of a server logs in to it. *)
LEMMA LogsInInTurn ==
  ASSUME SInv, [Next]_vars, NEW t \in ServerNo, LogsIn(t)
  PROVE  Turn(t)
  <1>1. pass = "server" /\ scan = t /\ sl[t].connect_wait /\ ~ sl'[t].connect_wait
    BY DEF LogsIn
  <1>2. ~ (UNCHANGED vars)
    BY <1>1 DEF vars
  <1>3. ~ Input
    <2>1. \A name, c : Command(name, c) => pass = "input"
      BY DEF Command
    <2> QED BY <1>1, <2>1 DEF Input, MinusServer, Disconnect, WriteFails, PasswordEntered,
             KillWindow, NextServer, PreviousServer, DisconnectNowhere, WindowDiscon, NewWindow,
             ServerCommand, PlusServer, WindowServer, Reconnect
  <1>4. ~ EndPass
    BY <1>1, ServerConnAssumption DEF EndPass, ServerNo
  <1>5. \A kind, late : ~ StartPass(kind, late)
    BY <1>1 DEF StartPass
  <1>6. ASSUME NEW s \in ServerNo, Turn(s) PROVE s = t
    BY <1>1, <1>6 DEF Turn, TurnNothing, TurnWelcome, TurnNoPermission, TurnPassword,
       TurnReconnect, TurnLogIn, TurnClosed, TurnKilled, EndTurn
  <1> QED BY <1>2, <1>3, <1>4, <1>5, <1>6 DEF Next, Pass

(***************************************************************************)
(* The windows of the server that is left go to the one that replaces it,  *)
(* for any number of servers and windows, any commands in any order but    *)
(* the three that give a window to a server of its own, and whatever the   *)
(* servers do but kill: finalize_server_connect() finds the request that   *)
(* moves all of them, however often it was handed from server to server.   *)
(***************************************************************************)
THEOREM WindowsFollow ==
  ASSUME AllTogether
  PROVE  Spec => SwitchMovesWindows
  <1>1. Init => WInv
    BY WInvInit
  <1>2. WInv /\ [Next]_vars => WInv'
    BY TogetherStep
  <1>3. WInv /\ [Next]_vars
          => [\A t \in ServerNo :
                LogsIn(t) /\ sl[t].c_server \in ServerNo =>
                   \A w \in DOMAIN win : win[w] = sl[t].c_server => win'[w] = t]_vars
    <2> SUFFICES ASSUME WInv, [Next]_vars, NEW t \in ServerNo, LogsIn(t)
                 PROVE  \A w \in DOMAIN win : win'[w] = t
      OBVIOUS
    <2>1. Turn(t)
      BY LogsInInTurn DEF WInv
    <2> QED BY <2>1, LogInMovesAll
  <1> QED BY <1>1, <1>2, <1>3, PTL DEF Spec, SwitchMovesWindows

-----------------------------------------------------------------------------
(* One switch at a time *)

(***************************************************************************)
(* The commands and events that leave a switch alone: no /SERVER while     *)
(* another one is under way and no end of file from a server that is being *)
(* left (these are the hazards), no /SERVER + and -, and no command or     *)
(* KILL that ends the connection there is or makes another beside it.      *)
(***************************************************************************)
OneAtATime ==
    /\ Commands \subseteq {"server", "new", "minus", "kill"}
    /\ Events \subseteq {"eof", "refuse", "welcome", "noperm", "passwd"}
    /\ Hazards = {}

(* the entry of a server we are logged in to, and of one that is to become one *)
On(r) == r.open /\ r.logged_in
Tried(r) == r.reconnect \/ (r.open /\ ~ r.logged_in)

(* the flags of an entry agree with each other *)
Sound(r) ==
    /\ r.connected => r.logged_in
    /\ r.logged_in => r.open
    /\ r.old_server # -2 /\ ~ r.try_once
    /\ r.open /\ ~ r.logged_in =>
          r.connect_wait /\ r.server_change_pending # 0 /\ r.c_server = r.old_server

(* n is the only server that is tried, and replaces the one there is *)
Leads(c, n) ==
    \A t \in ServerNo \ {n} :
       /\ ~ Tried(c.sl[t])
       /\ On(c.sl[t]) => c.sl[n].old_server = t /\ c.sl[t].connected

OneSwitch(c) ==
    \A s \in ServerNo : /\ Sound(c.sl[s])
                        /\ On(c.sl[s]) => c.primary = s
                        /\ Tried(c.sl[s]) => Leads(c, s)

(* a server that is left waits for one that is tried *)
Awaited(c) ==
    \A s \in ServerNo : On(c.sl[s]) /\ c.sl[s].server_change_pending = 2
                           => \E t \in ServerNo \ {s} : Tried(c.sl[t])

(* the registered connections of c but that to i are those of d *)
Stands(c, d, i) == \A t \in ServerNo \ {i} : c.sl[t].connected => d.sl[t].connected

(* an entry r that was q: closed, or as it was but for marks *)
Off(r) ==
    /\ ~ r.open /\ ~ r.logged_in /\ ~ r.connected /\ ~ r.reconnect /\ ~ r.try_once
    /\ r.old_server # -2

Like(q, r) ==
    /\ r.open = q.open /\ r.logged_in = q.logged_in /\ r.reconnect = q.reconnect
    /\ r.try_once = q.try_once /\ r.connect_wait = q.connect_wait
    /\ r.old_server = q.old_server /\ r.c_server = q.c_server
    /\ q.connected => r.connected
    /\ r.connected => r.logged_in
    /\ q.server_change_pending # 0 => r.server_change_pending # 0

Fewer(c, d) == \A s \in ServerNo : Off(d.sl[s]) \/ Like(c.sl[s], d.sl[s])

LEMMA FewerLeads ==
  ASSUME NEW c, NEW d, Fewer(c, d), NEW n \in ServerNo, Leads(c, n),
         d.sl[n].old_server = c.sl[n].old_server
  PROVE  Leads(d, n)
  <1> SUFFICES ASSUME NEW t \in ServerNo \ {n}
               PROVE  /\ ~ Tried(d.sl[t])
                      /\ On(d.sl[t]) => d.sl[n].old_server = t /\ d.sl[t].connected
    BY DEF Leads
  <1>1. /\ ~ Tried(c.sl[t]) /\ (On(c.sl[t]) => c.sl[n].old_server = t /\ c.sl[t].connected)
    BY DEF Leads
  <1>2. Off(d.sl[t]) \/ Like(c.sl[t], d.sl[t])
    BY DEF Fewer
  <1> QED BY <1>1, <1>2 DEF Off, Like, Tried, On

(* Nothing becomes wrong by closing connections. *)
LEMMA FewerSwitch ==
  ASSUME NEW c, NEW d, OneSwitch(c), Fewer(c, d),
         \A s \in ServerNo : On(d.sl[s]) => d.primary = c.primary
  PROVE  OneSwitch(d)
  <1> SUFFICES ASSUME NEW s \in ServerNo
               PROVE  /\ Sound(d.sl[s]) /\ (On(d.sl[s]) => d.primary = s)
                      /\ Tried(d.sl[s]) => Leads(d, s)
    BY DEF OneSwitch
  <1>1. /\ Sound(c.sl[s]) /\ (On(c.sl[s]) => c.primary = s)
        /\ Tried(c.sl[s]) => Leads(c, s)
    BY DEF OneSwitch
  <1>2. Off(d.sl[s]) \/ Like(c.sl[s], d.sl[s])
    BY DEF Fewer
  <1>3. Sound(d.sl[s])
    BY <1>1, <1>2 DEF Sound, Off, Like
  <1>4. On(d.sl[s]) => d.primary = s
    BY <1>1, <1>2 DEF Off, Like, On
  <1>5. Tried(d.sl[s]) => Tried(c.sl[s]) /\ d.sl[s].old_server = c.sl[s].old_server
    BY <1>2 DEF Off, Like, Tried
  <1>6. Tried(d.sl[s]) => Leads(d, s)
    BY <1>1, <1>5, FewerLeads
  <1> QED BY <1>3, <1>4, <1>6

(* One entry changes, of the only server that is tried. *)
LEMMA PutSwitch ==
  ASSUME NEW c \in Clients, OneSwitch(c), NEW i \in ServerNo, NEW r \in Server, Sound(r),
         On(r) => c.primary = i,
         \A t \in ServerNo \ {i} : ~ Tried(c.sl[t]),
         Tried(r) => \A t \in ServerNo \ {i} : On(c.sl[t]) => r.old_server = t /\ c.sl[t].connected
  PROVE  OneSwitch(Put(c, i, r))
  <1> DEFINE d == Put(c, i, r)
  <1>1. d.sl[i] = r /\ d.primary = c.primary /\ \A t \in ServerNo \ {i} : d.sl[t] = c.sl[t]
    BY PutClient
  <1> HIDE DEF d
  <1>2. ASSUME NEW s \in ServerNo \ {i}
        PROVE  Sound(d.sl[s]) /\ (On(d.sl[s]) => d.primary = s) /\ ~ Tried(d.sl[s])
    BY <1>1, <1>2 DEF OneSwitch
  <1>3. Tried(d.sl[i]) => Leads(d, i)
    BY <1>1 DEF Leads
  <1>4. OneSwitch(d)
    BY <1>1, <1>2, <1>3 DEF OneSwitch
  <1> QED BY <1>4 DEF d

(* closing *)
LEMMA ClosedOff ==
  ASSUME NEW r \in Server, r.old_server # -2
  PROVE  Off(Closed(r))
  <1>1. Closed(r).old_server = r.old_server
    BY ClosedEntry
  <1> QED BY <1>1 DEF Off, Closed, Reset, Server

LEMMA SoundLike ==
  ASSUME NEW r, Sound(r)
  PROVE  Like(r, r)
  BY DEF Sound, Like

LEMMA SwitchEntries ==
  ASSUME NEW c \in Clients, OneSwitch(c), NEW s \in ServerNo
  PROVE  /\ c.sl[s] \in Server /\ Sound(c.sl[s]) /\ Off(Closed(c.sl[s])) /\ Like(c.sl[s], c.sl[s])
  BY ClientParts, ClosedOff, SoundLike DEF OneSwitch, Sound

LEMMA CloseFewer ==
  ASSUME NEW c \in Clients, OneSwitch(c), NEW s
  PROVE  /\ Fewer(c, close_server(c, s)) /\ OneSwitch(close_server(c, s))
         /\ Stands(c, close_server(c, s), s)
  <1> DEFINE d == close_server(c, s)
  <1>1. /\ d \in Clients /\ d.primary = c.primary
        /\ s \in ServerNo => d.sl[s] = Closed(c.sl[s])
        /\ \A t \in ServerNo : t # s => d.sl[t] = c.sl[t]
    BY CloseServer DEF Kept
  <1> HIDE DEF d
  <1>2. Fewer(c, d)
    BY <1>1, SwitchEntries DEF Fewer
  <1>3. OneSwitch(d)
    BY <1>1, <1>2, FewerSwitch
  <1>4. Stands(c, d, s)
    BY <1>1 DEF Stands
  <1> QED BY <1>2, <1>3, <1>4 DEF d

(* An open server with a window passes the check, and stays primary if it is. *)
LEMMA CheckSpares ==
  ASSUME NEW c \in Clients, NEW s \in ServerNo, c.sl[s].open,
         NEW w \in DOMAIN c.win, c.win[w] = s
  PROVE  /\ window_check_servers(c).sl[s] = c.sl[s]
         /\ c.primary = s => window_check_servers(c).primary = s
  <1> DEFINE served == {t \in ServerNo : Open(c, t) /\ HasWindowAt(c, t, t)}
             prime  == IF served = {} THEN -1
                       ELSE CHOOSE t \in served : \A u \in served : u <= t
             gone   == {t \in ServerNo : ClosedByCheck(c, t)}
             a      == [c EXCEPT !.win = WindowsAfter(c), !.attached = served # {}]
             b      == CloseAll(a, gone)
             d      == NewPrimary(b, prime)
  <1>1. window_check_servers(c) = d
    BY DEF window_check_servers, WindowsAfter
  <1>2. s \notin gone
    <2>1. WinAt(c, w, s) = s
      BY DEF WinAt, ServerNo
    <2>2. HasWindowAt(c, s, s)
      BY <2>1 DEF HasWindowAt
    <2> QED BY <2>2 DEF ClosedByCheck
  <1>3. a \in Clients /\ a.sl = c.sl /\ a.primary = c.primary
    <2>1. (served # {}) \in BOOLEAN /\ WindowsAfter(c) \in Windows
      BY WindowsAfterType
    <2> HIDE DEF served
    <2> QED BY <2>1 DEF Clients
  <1> HIDE DEF a, prime, served, gone
  <1>4. b \in Clients /\ b.sl[s] = c.sl[s] /\ b.primary = c.primary
    BY <1>2, <1>3, CloseSeveral DEF Kept
  <1> HIDE DEF b
  <1>5. d.sl = b.sl /\ (b.primary = s => d = b)
    BY <1>4 DEF NewPrimary, Open, Clients
  <1> HIDE DEF d
  <1> QED BY <1>1, <1>4, <1>5

(* The check closes no server that we are logged in to. *)
LEMMA CheckSwitch ==
  ASSUME NEW c \in Clients, Together(c), OneSwitch(c)
  PROVE  /\ window_check_servers(c) \in Clients
         /\ OneSwitch(window_check_servers(c)) /\ Fewer(c, window_check_servers(c))
         /\ \A s \in ServerNo : On(c.sl[s]) => window_check_servers(c).sl[s] = c.sl[s]
         /\ \A s \in ServerNo : c.sl[s].connected => window_check_servers(c).sl[s].connected
  <1> DEFINE d == window_check_servers(c)
  <1>1. d \in Clients /\ \A s \in ServerNo : d.sl[s] \in {c.sl[s], Closed(c.sl[s])}
    BY WindowCheck
  <1>2. PICK w \in DOMAIN c.win : c.win[w] = c.primary
    BY ClientParts, WindowParts DEF Together
  <1>3. ASSUME NEW s \in ServerNo, On(c.sl[s])
        PROVE  d.sl[s] = c.sl[s] /\ d.primary = s
    <2>1. c.sl[s].open /\ c.primary = s
      BY <1>3 DEF OneSwitch, On
    <2> QED BY <1>2, <2>1, CheckSpares
  <1> HIDE DEF d
  <1>4. Fewer(c, d)
    BY <1>1, SwitchEntries DEF Fewer
  <1>5. ASSUME NEW s \in ServerNo, On(d.sl[s]) PROVE d.primary = c.primary
    <2>1. On(c.sl[s])
      BY <1>4, <1>5 DEF Fewer, Off, Like, On
    <2> QED BY <1>3, <2>1 DEF OneSwitch
  <1>6. OneSwitch(d)
    BY <1>4, <1>5, FewerSwitch
  <1>7. \A s \in ServerNo : c.sl[s].connected => On(c.sl[s])
    BY DEF OneSwitch, Sound, On
  <1>8. \A s \in ServerNo : c.sl[s].connected => d.sl[s].connected
    BY <1>3, <1>7
  <1> QED BY <1>1, <1>3, <1>4, <1>6, <1>8 DEF d

-----------------------------------------------------------------------------
(* A switch is begun and carried on *)

(* Setting or clearing the request of the server that is tried. *)
LEMMA RequestSwitch ==
  ASSUME NEW c \in Clients, OneSwitch(c), NEW n \in ServerNo, Leads(c, n), NEW b \in BOOLEAN
  PROVE  LET d == [c EXCEPT !.sl[n].reconnect = b]
         IN  /\ d \in Clients /\ Kept(c, d) /\ OneSwitch(d) /\ Leads(d, n)
             /\ d.sl[n].reconnect = b /\ d.sl[n].open = c.sl[n].open
             /\ d.sl[n].logged_in = c.sl[n].logged_in
             /\ d.sl[n].old_server = c.sl[n].old_server
             /\ \A t \in ServerNo : d.sl[t].connected = c.sl[t].connected
  <1> DEFINE r == [c.sl[n] EXCEPT !.reconnect = b]
             d == [c EXCEPT !.sl[n].reconnect = b]
  <1>1. d \in Clients /\ Kept(c, d) /\ d = Put(c, n, r)
    BY SetsReconnect DEF Put
  <1>2. c.sl[n] \in Server /\ Sound(c.sl[n])
    BY SwitchEntries
  <1>3. r \in Server
    BY <1>2, FieldChanges
  <1>4. /\ r.reconnect = b /\ r.open = c.sl[n].open /\ r.logged_in = c.sl[n].logged_in
        /\ r.connected = c.sl[n].connected /\ r.old_server = c.sl[n].old_server
        /\ r.try_once = c.sl[n].try_once /\ r.connect_wait = c.sl[n].connect_wait
        /\ r.c_server = c.sl[n].c_server
        /\ r.server_change_pending = c.sl[n].server_change_pending
    BY <1>2 DEF Server
  <1> HIDE DEF r
  <1>5. Sound(r) /\ (On(r) => c.primary = n)
    BY <1>2, <1>4 DEF Sound, On, OneSwitch
  <1>6. OneSwitch(d)
    BY <1>1, <1>3, <1>4, <1>5, PutSwitch DEF Leads
  <1> HIDE DEF d
  <1>7. d.sl[n] = r /\ \A t \in ServerNo \ {n} : d.sl[t] = c.sl[t]
    BY <1>1, <1>3, PutClient
  <1>8. Leads(d, n)
    BY <1>4, <1>7 DEF Leads
  <1> QED BY <1>1, <1>4, <1>6, <1>7, <1>8 DEF d

(* n is to be connected, and is not yet. *)
Ready(c, n) == OneSwitch(c) /\ Leads(c, n) /\ ~ c.sl[n].open

(* The socket of n is opened, and the server to be left is marked. *)
LEMMA OpenSwitch ==
  ASSUME NEW c \in Clients, NEW n \in ServerNo, Ready(c, n), NEW ok
  PROVE  LET x == connect_to_server_by_refnum(c, n, c.sl[n].old_server, ok)
         IN  /\ x \in Clients /\ OneSwitch(x) /\ Leads(x, n) /\ ~ On(x.sl[n])
             /\ ok => Tried(x.sl[n])
             /\ \A t \in ServerNo : c.sl[t].connected => x.sl[t].connected
  <1> DEFINE old == c.sl[n].old_server
             p == Opening(c.sl[n], TRUE, old, 1)
             b == Put(c, n, p)
             q == Leaving(b.sl[old], 2)
             d == Put(b, old, q)
             x == connect_to_server_by_refnum(c, n, old, ok)
  <1>1. x = IF ~ ok THEN c ELSE IF old \in ServerNo THEN d ELSE b
    BY DEF connect_to_server_by_refnum, Put, Opening, Leaving, Ready
  <1>2. /\ c.sl[n] \in Server /\ Sound(c.sl[n]) /\ ~ c.sl[n].open /\ ~ c.sl[n].logged_in
        /\ ~ c.sl[n].connected /\ old \in -2..(N - 1)
    BY SwitchEntries, ServerFields DEF Ready, Sound
  <1>3. p \in Server
    <2>1. TRUE \in BOOLEAN /\ 1 \in 0..2
      OBVIOUS
    <2> HIDE DEF old
    <2> QED BY <1>2, <2>1, OpeningEntry, Zenon
  <1>4. /\ p.open /\ p.logged_in = c.sl[n].logged_in /\ p.connected = c.sl[n].connected
        /\ p.old_server = c.sl[n].old_server /\ p.c_server = c.sl[n].old_server
        /\ p.connect_wait /\ p.server_change_pending = 1
        /\ p.try_once = c.sl[n].try_once
    BY <1>2 DEF Opening, Server
  <1> HIDE DEF p, x
  <1>5. Sound(p) /\ ~ On(p) /\ Tried(p)
    BY <1>2, <1>4 DEF Sound, On, Tried
  <1>6. OneSwitch(b)
    BY <1>3, <1>4, <1>5, PutSwitch DEF Ready, Leads
  <1>7. b \in Clients /\ b.sl[n] = p /\ \A t \in ServerNo \ {n} : b.sl[t] = c.sl[t]
    BY <1>3, PutClient
  <1> HIDE DEF b
  <1>8. /\ Leads(b, n) /\ ~ On(b.sl[n]) /\ Tried(b.sl[n])
        /\ \A t \in ServerNo : c.sl[t].connected => b.sl[t].connected
    BY <1>2, <1>4, <1>5, <1>7 DEF Ready, Leads
  <1>9. CASE old \in ServerNo
    <2>1. b.sl[old] \in Server /\ Sound(b.sl[old])
      BY <1>6, <1>7, <1>9, SwitchEntries
    <2>2. q \in Server /\ Like(b.sl[old], q) /\ q.old_server = b.sl[old].old_server
      <3>1. q \in Server
        BY <2>1, LeavingEntry
      <3>2. /\ q.open = b.sl[old].open /\ q.logged_in = b.sl[old].logged_in
            /\ q.reconnect = b.sl[old].reconnect /\ q.try_once = b.sl[old].try_once
            /\ q.connect_wait = b.sl[old].connect_wait /\ q.connected = b.sl[old].connected
            /\ q.old_server = b.sl[old].old_server /\ q.c_server = b.sl[old].c_server
            /\ q.server_change_pending = 2
        BY <2>1 DEF Leaving, Server
      <3> HIDE DEF q, old
      <3> QED BY <2>1, <3>1, <3>2 DEF Like, Sound
    <2> HIDE DEF q
    <2>3. /\ d \in Clients /\ d.sl[old] = q /\ d.primary = b.primary
          /\ \A t \in ServerNo \ {old} : d.sl[t] = b.sl[t]
      BY <1>7, <1>9, <2>2, PutClient
    <2> HIDE DEF d, old
    <2>4. Fewer(b, d) /\ \A t \in ServerNo : Like(b.sl[t], d.sl[t])
      BY <1>6, <1>7, <2>2, <2>3, SwitchEntries DEF Fewer
    <2>5. OneSwitch(d)
      BY <1>6, <2>3, <2>4, FewerSwitch
    <2>6. Leads(d, n)
      BY <1>8, <2>2, <2>3, <2>4, FewerLeads
    <2>7. /\ ~ On(d.sl[n]) /\ Tried(d.sl[n])
          /\ \A t \in ServerNo : b.sl[t].connected => d.sl[t].connected
      BY <1>8, <2>4 DEF Like, On, Tried
    <2> QED BY <1>1, <1>2, <1>8, <1>9, <2>3, <2>5, <2>6, <2>7 DEF Ready, On, x, old
  <1>10. CASE old \notin ServerNo
    BY <1>1, <1>2, <1>6, <1>7, <1>8, <1>10 DEF Ready, On, x
  <1> QED BY <1>9, <1>10

(* try_connect() *)
LEMMA TrySwitch ==
  ASSUME NEW c \in Clients, NEW n \in ServerNo, Ready(c, n), NEW ok
  PROVE  LET d == try_connect(c, n, ok)
         IN  /\ OneSwitch(d) /\ Tried(d.sl[n]) /\ ~ On(d.sl[n])
             /\ \A t \in ServerNo : c.sl[t].connected => d.sl[t].connected
  <1> DEFINE x   == connect_to_server_by_refnum(c, n, c.sl[n].old_server, ok)
             yes == x.sl[n].reconnect \/ ConnectFails(c, n, ok)
             d   == [x EXCEPT !.sl[n].reconnect = yes]
  <1>1. try_connect(c, n, ok) = d
    BY DEF try_connect
  <1>2. /\ x \in Clients /\ OneSwitch(x) /\ Leads(x, n) /\ ~ On(x.sl[n])
        /\ ok => Tried(x.sl[n])
        /\ \A t \in ServerNo : c.sl[t].connected => x.sl[t].connected
    BY OpenSwitch
  <1>3. yes \in BOOLEAN /\ (~ ok => yes) /\ (x.sl[n].reconnect => yes)
    BY DEF Ready, ConnectFails
  <1> HIDE DEF x, yes
  <1>4. /\ OneSwitch(d) /\ d.sl[n].reconnect = yes /\ d.sl[n].open = x.sl[n].open
        /\ d.sl[n].logged_in = x.sl[n].logged_in
        /\ \A t \in ServerNo : d.sl[t].connected = x.sl[t].connected
    BY <1>2, <1>3, RequestSwitch
  <1> HIDE DEF d
  <1> QED BY <1>1, <1>2, <1>3, <1>4 DEF Tried, On

(* One more attempt. *)
LEMMA RetriedSwitch ==
  ASSUME NEW c \in Clients, NEW i \in ServerNo, Ready(c, i)
  PROVE  /\ Ready(Retried(c, i), i)
         /\ Retried(c, i).sl[i].reconnect = c.sl[i].reconnect
         /\ \A t \in ServerNo : c.sl[t].connected => Retried(c, i).sl[t].connected
  <1> DEFINE n == IF c.sl[i].retries < RetryCap THEN c.sl[i].retries + 1 ELSE RetryCap
             r == [c.sl[i] EXCEPT !.retries = n]
             d == Retried(c, i)
  <1>1. d = Put(c, i, r)
    BY DEF Retried, Put
  <1>2. /\ c.sl[i] \in Server /\ Sound(c.sl[i]) /\ c.sl[i].retries \in 0..RetryCap /\ RetryCap \in Nat
        /\ OneSwitch(c) /\ Leads(c, i) /\ ~ c.sl[i].open
    BY SwitchEntries, ServerFields, Bounds DEF Ready
  <1>3. n \in 0..RetryCap
    BY <1>2
  <1> HIDE DEF n
  <1>4. r \in Server
    <2>1. 0 \in -2..(N - 1) /\ 0 \in -1..(N - 1)
      BY Bounds
    <2> QED BY <1>2, <1>3, <2>1, NumberChanges
  <1>5. /\ r.open = c.sl[i].open /\ r.logged_in = c.sl[i].logged_in
        /\ r.reconnect = c.sl[i].reconnect /\ r.try_once = c.sl[i].try_once
        /\ r.connect_wait = c.sl[i].connect_wait /\ r.connected = c.sl[i].connected
        /\ r.old_server = c.sl[i].old_server /\ r.c_server = c.sl[i].c_server
        /\ r.server_change_pending = c.sl[i].server_change_pending
    BY <1>2 DEF Server
  <1> HIDE DEF r, d
  <1>6. Like(c.sl[i], r)
    BY <1>2, <1>5 DEF Like, Sound
  <1>7. /\ d \in Clients /\ d.sl[i] = r /\ d.primary = c.primary
        /\ \A t \in ServerNo \ {i} : d.sl[t] = c.sl[t]
    BY <1>1, <1>4, PutClient
  <1>8. Fewer(c, d)
    BY <1>2, <1>6, <1>7, SwitchEntries DEF Fewer
  <1>9. OneSwitch(d) /\ Leads(d, i)
    BY <1>2, <1>5, <1>7, <1>8, FewerSwitch, FewerLeads
  <1> QED BY <1>2, <1>5, <1>7, <1>9 DEF d, Ready

(* nxt takes the place of i. *)
LEMMA HandOverSwitch ==
  ASSUME NEW c \in Clients, NEW i \in ServerNo, NEW nxt \in ServerNo, nxt # i,
         Ready(c, i), ~ c.sl[i].reconnect, ~ c.sl[nxt].open
  PROVE  /\ Ready(HandOver(c, i, nxt), nxt)
         /\ \A t \in ServerNo : c.sl[t].connected => HandOver(c, i, nxt).sl[t].connected
  <1> DEFINE o == c.sl[i]
             p == TakeOver(c.sl[nxt], TRUE, 0, o.req_server, o.old_server,
                           o.server_change_refnum, o.c_server)
             b == Put(c, nxt, p)
             q == GiveUp(b.sl[i], FALSE, 0, -1)
             d == Put(b, i, q)
  <1>1. HandOver(c, i, nxt) = d
    BY DEF HandOver, Put, TakeOver, GiveUp
  <1>2. /\ c.sl[nxt] \in Server /\ o \in Server
        /\ TRUE \in BOOLEAN /\ FALSE \in BOOLEAN /\ 0 \in 0..RetryCap /\ -1 \in -1..(N - 1)
    BY ClientParts, Bounds
  <1>3. /\ o.req_server \in -1..(N - 1) /\ o.old_server \in -2..(N - 1)
        /\ o.server_change_refnum \in -1..W /\ o.c_server \in -2..(N - 1)
    BY <1>2, ServerFields
  <1>4. /\ OneSwitch(c) /\ Leads(c, i) /\ ~ c.sl[i].open /\ Sound(c.sl[i]) /\ Sound(c.sl[nxt])
        /\ ~ c.sl[i].logged_in /\ ~ c.sl[i].connected
        /\ ~ c.sl[nxt].logged_in /\ ~ c.sl[nxt].connected
    BY DEF Ready, OneSwitch, Sound
  <1>5. p \in Server
    <2> HIDE DEF o
    <2> QED BY <1>2, <1>3, TakeOverEntry, Zenon
  <1>6. /\ p.open = c.sl[nxt].open /\ p.logged_in = c.sl[nxt].logged_in
        /\ p.connected = c.sl[nxt].connected /\ p.try_once = c.sl[nxt].try_once
        /\ p.reconnect /\ p.old_server = c.sl[i].old_server
    BY <1>2 DEF TakeOver, Server
  <1> HIDE DEF p, o
  <1>7. Sound(p) /\ ~ On(p) /\ Tried(p)
    BY <1>4, <1>6 DEF Sound, On, Tried
  <1>8. \A t \in ServerNo \ {nxt} : /\ ~ Tried(c.sl[t])
                                    /\ On(c.sl[t]) => p.old_server = t /\ c.sl[t].connected
    BY <1>4, <1>6 DEF Leads, Tried, On
  <1>9. OneSwitch(b)
    BY <1>4, <1>5, <1>7, <1>8, PutSwitch
  <1>10. b \in Clients /\ b.sl[nxt] = p /\ \A t \in ServerNo \ {nxt} : b.sl[t] = c.sl[t]
    BY <1>5, PutClient
  <1> HIDE DEF b
  <1>11. Leads(b, nxt)
    BY <1>7, <1>9, <1>10 DEF OneSwitch
  <1>12. b.sl[i] \in Server /\ b.sl[i] = c.sl[i]
    BY <1>10, ClientParts
  <1>13. q \in Server
    BY <1>2, <1>12, GiveUpEntry, Zenon
  <1>14. Off(q)
    <2>1. /\ q.open = b.sl[i].open /\ q.logged_in = b.sl[i].logged_in
          /\ q.connected = b.sl[i].connected /\ q.try_once = b.sl[i].try_once
          /\ ~ q.reconnect /\ q.old_server = -1
      BY <1>12 DEF GiveUp, Server
    <2> HIDE DEF q
    <2> QED BY <1>4, <1>12, <2>1 DEF Off, Sound
  <1> HIDE DEF q
  <1>15. /\ d \in Clients /\ d.sl[i] = q /\ d.primary = b.primary
         /\ \A t \in ServerNo \ {i} : d.sl[t] = b.sl[t]
    BY <1>10, <1>13, PutClient
  <1> HIDE DEF d
  <1>16. Fewer(b, d)
    BY <1>9, <1>10, <1>14, <1>15, SwitchEntries DEF Fewer
  <1>17. OneSwitch(d) /\ Leads(d, nxt)
    BY <1>9, <1>11, <1>15, <1>16, FewerSwitch, FewerLeads
  <1>18. \A t \in ServerNo : c.sl[t].connected => d.sl[t].connected
    BY <1>4, <1>10, <1>15
  <1> QED BY <1>1, <1>4, <1>6, <1>10, <1>15, <1>17, <1>18 DEF Ready

(* advance_server() *)
LEMMA AdvanceSwitch ==
  ASSUME NEW c \in Clients, NEW i \in ServerNo, Ready(c, i), ~ c.sl[i].reconnect
  PROVE  LET adv == advance_server(c, i)
         IN  /\ OneSwitch(adv.client)
             /\ adv.server # -1 => Ready(adv.client, adv.server)
             /\ AutoReconnect => adv.server # -1
             /\ \A t \in ServerNo : c.sl[t].connected => adv.client.sl[t].connected
  <1> DEFINE c1  == Retried(c, i)
             nxt == IF c1.sl[i].retries >= MaxReconnect THEN next_server(c1, i) ELSE i
             c2  == IF nxt = i THEN c1 ELSE HandOver(c1, i, nxt)
             c3  == close_server(c2, nxt)
             adv == advance_server(c, i)
  <1>1. adv = IF GivesUp(c2, nxt) THEN [client |-> c3, server |-> -1]
                                  ELSE [client |-> c2, server |-> nxt]
    BY DEF advance_server
  <1>2. /\ c1 \in Clients /\ Ready(c1, i) /\ ~ c1.sl[i].reconnect /\ ~ c1.sl[i].open
        /\ \A t \in ServerNo : c.sl[t].connected => c1.sl[t].connected
    BY CountsRetry, RetriedSwitch DEF Ready
  <1> HIDE DEF c1
  <1>3. nxt \in ServerNo /\ ~ c1.sl[nxt].open
    BY <1>2, NextServerNo
  <1> HIDE DEF nxt
  <1>4. /\ c2 \in Clients /\ Ready(c2, nxt)
        /\ \A t \in ServerNo : c1.sl[t].connected => c2.sl[t].connected
    BY <1>2, <1>3, HandsOver, HandOverSwitch
  <1> HIDE DEF c2
  <1>5. /\ OneSwitch(c2) /\ OneSwitch(c3)
        /\ \A t \in ServerNo : c2.sl[t].connected => c3.sl[t].connected
    <2>1. OneSwitch(c2) /\ ~ c2.sl[nxt].connected
      BY <1>3, <1>4 DEF Ready, OneSwitch, Sound
    <2>2. OneSwitch(c3) /\ Stands(c2, c3, nxt)
      BY <1>4, <2>1, CloseFewer
    <2> HIDE DEF c3
    <2> QED BY <2>1, <2>2 DEF Stands
  <1>6. AutoReconnect => ~ GivesUp(c2, nxt)
    BY DEF GivesUp
  <1>7. nxt # -1
    BY <1>3 DEF ServerNo
  <1> HIDE DEF c3, adv
  <1>8. /\ OneSwitch(adv.client) /\ (adv.server # -1 => Ready(adv.client, adv.server))
        /\ AutoReconnect => adv.server # -1
        /\ \A t \in ServerNo : c.sl[t].connected => adv.client.sl[t].connected
    BY <1>1, <1>2, <1>4, <1>5, <1>6, <1>7
  <1> QED BY <1>8 DEF adv

(* reconnect_server(), when s is the only server that is tried *)
LEMMA ReconnectSwitch ==
  ASSUME NEW c \in Clients, Together(c), NEW s \in ServerNo, OneSwitch(c), Leads(c, s), NEW ok
  PROVE  LET d == reconnect_server(c, s, ok)
         IN  OneSwitch(d) /\ Stands(c, d, s) /\ (AutoReconnect => Awaited(d))
  <1> DEFINE a   == close_server(c, s)
             adv == advance_server(a, s)
             e   == adv.client
             n   == adv.server
             f   == [e EXCEPT !.sl[n].reconnect = FALSE]
             g   == window_check_servers(f)
             h   == try_connect(g, n, ok)
             d   == reconnect_server(c, s, ok)
  <1>1. d = IF n = -1 THEN e ELSE h
    BY DEF reconnect_server
  <1>2. /\ a \in Clients /\ Kept(c, a) /\ ~ a.sl[s].open /\ ~ a.sl[s].reconnect
        /\ Ready(a, s) /\ Stands(c, a, s)
    <2>1. c.sl[s] \in Server /\ a.sl[s] = Closed(c.sl[s]) /\ a \in Clients /\ Kept(c, a)
      BY ClientParts, CloseServer
    <2>2. ~ a.sl[s].open /\ ~ a.sl[s].reconnect /\ a.sl[s].old_server = c.sl[s].old_server
      BY <2>1, ClosedEntry
    <2>3. Fewer(c, a) /\ OneSwitch(a) /\ Stands(c, a, s)
      BY CloseFewer
    <2> HIDE DEF a
    <2>4. Leads(a, s)
      BY <2>2, <2>3, FewerLeads
    <2> QED BY <2>1, <2>2, <2>3, <2>4 DEF Ready
  <1> HIDE DEF a
  <1>3. /\ e \in Clients /\ n \in ServerNo \cup {-1} /\ Kept(a, e) /\ OneSwitch(e)
        /\ n # -1 => Ready(e, n)
        /\ AutoReconnect => n # -1
        /\ \A t \in ServerNo : a.sl[t].connected => e.sl[t].connected
    BY <1>2, Advances, AdvanceSwitch
  <1> HIDE DEF adv, e, n, d
  <1>4. Together(e) /\ Stands(c, e, s)
    BY <1>2, <1>3, KeptTogether DEF Stands
  <1>5. CASE n = -1
    BY <1>1, <1>3, <1>4, <1>5 DEF d
  <1>6. CASE n # -1
    <2>1. n \in ServerNo /\ Ready(e, n)
      BY <1>3, <1>6
    <2>2. /\ f \in Clients /\ Kept(e, f) /\ OneSwitch(f) /\ Leads(f, n) /\ ~ f.sl[n].open
          /\ \A t \in ServerNo : f.sl[t].connected = e.sl[t].connected
      <3>1. e \in Clients /\ OneSwitch(e) /\ FALSE \in BOOLEAN
        BY <1>3
      <3>2. Leads(e, n) /\ ~ e.sl[n].open
        BY <2>1 DEF Ready
      <3> QED BY <2>1, <3>1, <3>2, RequestSwitch
    <2> HIDE DEF f
    <2>3. Together(f)
      BY <1>4, <2>2, KeptTogether
    <2>4. /\ g \in Clients /\ OneSwitch(g) /\ Fewer(f, g)
          /\ \A t \in ServerNo : f.sl[t].connected => g.sl[t].connected
      BY <2>2, <2>3, CheckSwitch
    <2>5. ~ g.sl[n].open /\ g.sl[n].old_server = f.sl[n].old_server
      <3>1. g.sl[n] \in {f.sl[n], Closed(f.sl[n])} /\ f.sl[n] \in Server
        BY <2>1, <2>2, WindowCheck, ClientParts
      <3>2. ~ Closed(f.sl[n]).open /\ Closed(f.sl[n]).old_server = f.sl[n].old_server
        BY <3>1, ClosedEntry
      <3> HIDE DEF g
      <3> QED BY <2>2, <3>1, <3>2
    <2> HIDE DEF g
    <2>6. Ready(g, n)
      BY <2>1, <2>2, <2>4, <2>5, FewerLeads DEF Ready
    <2>7. /\ OneSwitch(h) /\ Tried(h.sl[n]) /\ ~ On(h.sl[n])
          /\ \A t \in ServerNo : g.sl[t].connected => h.sl[t].connected
      BY <2>1, <2>4, <2>6, TrySwitch
    <2> HIDE DEF h
    <2>8. Stands(c, h, s)
      BY <1>4, <2>2, <2>4, <2>7 DEF Stands
    <2>9. Awaited(h)
      BY <2>1, <2>7 DEF Awaited
    <2> QED BY <1>1, <1>6, <2>7, <2>8, <2>9 DEF d
  <1> QED BY <1>5, <1>6

-----------------------------------------------------------------------------
(* The end of a switch *)

(* The windows go to an open server, and all that happens to others is that they are closed. *)
LEMMA SetKeeps ==
  ASSUME NEW c \in Clients, Together(c), NEW s \in ServerNo, c.sl[s].open, NEW cur
  PROVE  LET e == set_window_server(c, -1, s, cur)
         IN  /\ e \in Clients /\ e.primary = s /\ e.sl[s] = c.sl[s]
             /\ \A t \in ServerNo : e.sl[t] \in {c.sl[t], Closed(c.sl[t])}
  <1> DEFINE f == [w \in DOMAIN c.win |-> IF c.win[w] = c.primary THEN s ELSE c.win[w]]
             a == [c EXCEPT !.win = f]
             b == window_check_servers(a)
             e == [b EXCEPT !.primary = s]
  <1>1. set_window_server(c, -1, s, cur) = e
    BY DEF set_window_server
  <1>2. /\ DOMAIN c.win \in (SUBSET WindowNo) \ {{}} /\ s \in -1..(N - 1)
        /\ \A w \in DOMAIN c.win : c.win[w] = c.primary
    BY ClientParts, WindowParts, Bounds DEF Together
  <1>3. DOMAIN f = DOMAIN c.win /\ \A w \in DOMAIN c.win : f[w] = s
    BY <1>2
  <1>4. f \in [DOMAIN c.win -> -1..(N - 1)]
    BY <1>2, <1>3
  <1> HIDE DEF f
  <1>5. f \in Windows
    BY <1>2, <1>4, WindowsOf
  <1>6. a \in Clients /\ a.sl = c.sl /\ a.win = f
    BY <1>5 DEF Clients
  <1> HIDE DEF a
  <1>7. PICK w \in DOMAIN a.win : a.win[w] = s
    BY <1>2, <1>3, <1>6
  <1>8. b.sl[s] = a.sl[s]
    BY <1>6, <1>7, CheckSpares
  <1>9. b \in Clients /\ \A t \in ServerNo : b.sl[t] \in {a.sl[t], Closed(a.sl[t])}
    BY <1>6, WindowCheck
  <1> HIDE DEF b
  <1>10. e \in Clients /\ e.sl = b.sl /\ e.primary = s
    BY <1>2, <1>9 DEF Clients
  <1> HIDE DEF e
  <1> QED BY <1>1, <1>6, <1>8, <1>9, <1>10

LEMMA ClosedStaysOff ==
  ASSUME NEW r \in Server, Off(r)
  PROVE  Off(Closed(r))
  BY ClosedOff DEF Off

(* finalize_server_connect(), after which no other server is left *)
LEMMA FinalizeSwitch ==
  ASSUME NEW c \in Clients, Together(c), NEW s \in ServerNo, c.sl[s].open,
         c.sl[s].server_change_refnum = -1, NEW cur,
         \A t \in ServerNo \ {s} : /\ Sound(c.sl[t]) /\ ~ Tried(c.sl[t])
                                   /\ On(c.sl[t]) => c.sl[s].c_server = t
  PROVE  LET d == finalize_server_connect(c, s, cur)
         IN  /\ d.primary = s /\ \A t \in ServerNo \ {s} : Off(d.sl[t])
             /\ d.sl[s].open /\ d.sl[s].logged_in /\ ~ d.sl[s].try_once
             /\ d.sl[s].old_server = -1 /\ d.sl[s].server_change_pending = 0
             /\ d.sl[s].connect_wait = c.sl[s].connect_wait /\ d.sl[s].req_server = 0
  <1> DEFINE old == c.sl[s].c_server
             p   == [c.sl[old] EXCEPT !.old_server = -1]
             a   == Put(c, old, p)
             b   == LeaveOld(c, s)
             q   == Welcomed(b.sl[s], TRUE, FALSE, -1, 0)
             d   == Put(b, s, q)
             e   == set_window_server(d, -1, s, cur)
             r   == [e.sl[s] EXCEPT !.req_server = 0]
             res == Put(e, s, r)
  <1>1. finalize_server_connect(c, s, cur) = res
    BY DEF finalize_server_connect, LoggedIn, Put, Welcomed
  <1>2. b = IF old \in ServerNo /\ old # s THEN close_server(a, old) ELSE c
    BY DEF LeaveOld, Put
  <1>3. 0 \in -1..(N - 1) /\ -1 \in -2..(N - 1) /\ 0 \in 0..RetryCap /\ 0 \in 0..2
        /\ TRUE \in BOOLEAN /\ FALSE \in BOOLEAN
    BY Bounds
  <1>4. \A t \in ServerNo : c.sl[t] \in Server
    BY ClientParts
  <1>5. ASSUME NEW t \in ServerNo \ {s}, t # old PROVE Off(c.sl[t])
    BY <1>5 DEF Off, Sound, Tried, On
  <1> HIDE DEF b
  <1>6. /\ b \in Clients /\ Kept(c, b) /\ b.sl[s] = c.sl[s]
        /\ \A t \in ServerNo \ {s} : Off(b.sl[t])
    <2>1. CASE old \in ServerNo /\ old # s
      <3>1. p \in Server /\ Keeps(c.sl[old], p) /\ p.old_server = -1
        <4>1. p \in Server /\ Keeps(c.sl[old], p)
          BY <1>3, <1>4, <2>1, NumberChanges
        <4> QED BY <1>4, <2>1, <4>1 DEF Server
      <3> HIDE DEF p
      <3>2. a \in Clients /\ Kept(c, a) /\ a.sl[old] = p
            /\ \A t \in ServerNo \ {old} : a.sl[t] = c.sl[t]
        BY <2>1, <3>1, PutClient, PutKept
      <3> HIDE DEF a
      <3>3. /\ b \in Clients /\ Kept(a, b) /\ b.sl[old] = Closed(p)
            /\ \A t \in ServerNo : t # old => b.sl[t] = c.sl[t]
        <4>1. b = close_server(a, old) /\ old \in ServerNo
          BY <1>2, <2>1
        <4> HIDE DEF old
        <4> DEFINE x == close_server(a, old)
        <4>2. /\ x \in Clients /\ Kept(a, x) /\ x.sl[old] = Closed(a.sl[old])
              /\ \A t \in ServerNo : t # old => x.sl[t] = a.sl[t]
          <5>0. a \in Clients
            BY <3>2
          <5>1. x \in Clients /\ Kept(a, x)
            BY <5>0, CloseServer
          <5>2. x.sl[old] = Closed(a.sl[old])
            BY <4>1, <5>0, CloseServer
          <5>3. \A t \in ServerNo : t # old => x.sl[t] = a.sl[t]
            BY <5>0, CloseServer
          <5> QED BY <5>1, <5>2, <5>3
        <4> HIDE DEF x
        <4>3. b = x
          BY <4>1 DEF x
        <4> QED BY <3>2, <4>2, <4>3
      <3>4. Off(Closed(p))
        BY <3>1, ClosedOff
      <3> HIDE DEF old
      <3> QED BY <1>5, <2>1, <3>2, <3>3, <3>4, KeptTrans
    <2>2. CASE ~ (old \in ServerNo /\ old # s)
      BY <1>2, <1>5, <2>2, KeptSelf
    <2> QED BY <2>1, <2>2
  <1>7. b.sl[s] \in Server
    BY <1>6, ClientParts
  <1>8. q \in Server
    BY <1>3, <1>7, WelcomedEntry, Zenon
  <1>9. /\ q.open /\ q.logged_in /\ ~ q.try_once /\ q.old_server = -1
        /\ q.server_change_pending = 0 /\ q.connect_wait = c.sl[s].connect_wait
    BY <1>6, <1>7 DEF Welcomed, Server
  <1> HIDE DEF q
  <1>10. /\ d \in Clients /\ d.win = b.win /\ d.primary = b.primary /\ d.attached = b.attached
         /\ d.sl[s] = q /\ \A t \in ServerNo \ {s} : d.sl[t] = b.sl[t]
    BY <1>6, <1>8, PutClient
  <1> HIDE DEF d
  <1>11. Together(d)
    BY <1>6, <1>10 DEF Kept, Together
  <1>12. /\ e \in Clients /\ e.primary = s /\ e.sl[s] = q
         /\ \A t \in ServerNo : e.sl[t] \in {d.sl[t], Closed(d.sl[t])}
    BY <1>9, <1>10, <1>11, SetKeeps
  <1> HIDE DEF e
  <1>13. \A t \in ServerNo \ {s} : Off(e.sl[t])
    <2>1. \A t \in ServerNo : d.sl[t] \in Server
      BY <1>10, ClientParts
    <2> QED BY <1>6, <1>10, <1>12, <2>1, ClosedStaysOff
  <1>14. r \in Server
    BY <1>3, <1>8, <1>12, NumberChanges
  <1>15. /\ r.open /\ r.logged_in /\ ~ r.try_once /\ r.old_server = -1
         /\ r.server_change_pending = 0 /\ r.connect_wait = c.sl[s].connect_wait
         /\ r.req_server = 0
    BY <1>8, <1>9, <1>12 DEF Server
  <1> HIDE DEF r
  <1>16. /\ res.primary = s /\ res.sl[s] = r
         /\ \A t \in ServerNo \ {s} : res.sl[t] = e.sl[t]
    BY <1>12, <1>14, PutClient
  <1> HIDE DEF res
  <1> QED BY <1>1, <1>13, <1>15, <1>16

(* One server, the others off. *)
LEMMA AloneSwitch ==
  ASSUME NEW d, NEW s \in ServerNo, Sound(d.sl[s]), On(d.sl[s]) => d.primary = s,
         \A t \in ServerNo \ {s} : Off(d.sl[t])
  PROVE  OneSwitch(d)
  <1>1. \A t \in ServerNo \ {s} : Sound(d.sl[t]) /\ ~ On(d.sl[t]) /\ ~ Tried(d.sl[t])
    BY DEF Off, Sound, On, Tried
  <1>2. Leads(d, s)
    BY <1>1 DEF Leads
  <1> QED BY <1>1, <1>2 DEF OneSwitch

(* The switch that the log in to s ends: the server that is closed is the one to be left. *)
LEMMA LogInSwitch ==
  ASSUME WInv, OneSwitch(Client), NEW s \in ServerNo, sl[s].open, ~ sl[s].logged_in,
         NEW cur \in DOMAIN win
  PROVE  LET d == LogIn(s, cur)
         IN  /\ OneSwitch(d) /\ \A t \in ServerNo \ {s} : Off(d.sl[t])
             /\ On(d.sl[s]) /\ d.sl[s].server_change_pending = 0
             /\ ~ d.sl[s].connect_wait /\ d.sl[s].req_server = 0
             /\ \A t \in ServerNo \ {s} : sl[t].connected => sl[s].c_server = t
  <1> DEFINE r == [Client.sl[s] EXCEPT !.connect_wait = FALSE]
             a == [Client EXCEPT !.sl[s].connect_wait = FALSE]
             d == LogIn(s, cur)
  <1>1. /\ SInv /\ Client \in Clients /\ Client.sl = sl /\ Client.win = win
        /\ Together(Client) /\ TakesAll(Client, prompts)
    BY ClientIs DEF WInv
  <1>2. a \in Clients /\ Kept(Client, a) /\ a = Put(Client, s, r)
    BY <1>1, SetsReconnect DEF Put
  <1>3. /\ Client.sl[s] \in Server /\ Sound(Client.sl[s]) /\ Tried(Client.sl[s])
        /\ Client.sl[s].server_change_refnum = -1
    BY <1>1, SwitchEntries DEF TakesAll, Tried
  <1>4. Leads(Client, s) /\ Client.sl[s].c_server = Client.sl[s].old_server
    BY <1>1, <1>3 DEF OneSwitch, Sound
  <1>5. /\ r \in Server /\ r.open /\ r.server_change_refnum = -1 /\ ~ r.connect_wait
        /\ r.c_server = Client.sl[s].c_server
    <2>1. r \in Server
      BY <1>3, FieldChanges
    <2> QED BY <1>1, <1>3, <2>1 DEF Server
  <1>6. d = finalize_server_connect(a, s, cur)
    BY DEF LogIn
  <1> HIDE DEF a, r, d
  <1>7. a.sl[s] = r /\ \A t \in ServerNo \ {s} : a.sl[t] = sl[t]
    BY <1>1, <1>2, <1>5, PutClient
  <1>8. ASSUME NEW t \in ServerNo \ {s}
        PROVE  /\ Sound(a.sl[t]) /\ ~ Tried(a.sl[t])
               /\ On(a.sl[t]) => a.sl[s].c_server = t
    BY <1>1, <1>4, <1>5, <1>7 DEF OneSwitch, Leads
  <1>9. Together(a)
    BY <1>1, <1>2, KeptTogether
  <1>10. /\ d.primary = s /\ \A t \in ServerNo \ {s} : Off(d.sl[t])
         /\ d.sl[s].open /\ d.sl[s].logged_in /\ ~ d.sl[s].try_once
         /\ d.sl[s].old_server = -1 /\ d.sl[s].server_change_pending = 0
         /\ d.sl[s].connect_wait = a.sl[s].connect_wait /\ d.sl[s].req_server = 0
    BY <1>2, <1>5, <1>6, <1>7, <1>8, <1>9, FinalizeSwitch
  <1>11. Sound(d.sl[s]) /\ On(d.sl[s])
    BY <1>10 DEF Sound, On
  <1>12. OneSwitch(d)
    BY <1>10, <1>11, AloneSwitch
  <1>13. ASSUME NEW t \in ServerNo \ {s}, sl[t].connected PROVE sl[s].c_server = t
    <2>1. On(Client.sl[t])
      BY <1>1, <1>13 DEF OneSwitch, Sound, On
    <2> QED BY <1>1, <1>4, <2>1 DEF Leads
  <1> QED BY <1>5, <1>7, <1>10, <1>11, <1>12, <1>13 DEF d

(* The connection that ends is that of the only server tried, or nobody is tried. *)
LEMMA ClosedSwitch ==
  ASSUME NEW c \in Clients, OneSwitch(c), NEW s \in ServerNo,
         \A t \in ServerNo \ {s} :
            /\ ~ Tried(c.sl[t])
            /\ On(c.sl[t]) => /\ c.sl[s].connect_wait /\ c.sl[s].old_server = t
                              /\ c.sl[t].connected
  PROVE  LET d == ConnectionClosed(c, s)
         IN  /\ OneSwitch(d) /\ Awaited(d) /\ Stands(c, d, s)
             /\ d.sl[s].connect_wait = c.sl[s].connect_wait
             /\ d.sl[s].req_server = c.sl[s].req_server
  <1> DEFINE o == IF c.sl[s].connect_wait THEN c.sl[s].old_server ELSE s
             r == [Closed(c.sl[s]) EXCEPT !.reconnect = TRUE, !.old_server = o]
             d == ConnectionClosed(c, s)
  <1>1. c.sl[s] \in Server /\ Sound(c.sl[s])
    BY SwitchEntries
  <1>2. d = Put(c, s, r)
    <2> DEFINE a == close_server(c, s)
    <2>1. a = Put(c, s, Closed(c.sl[s])) /\ a.sl[s] = Closed(c.sl[s])
      BY CloseIsPut, CloseServer
    <2>2. Closed(c.sl[s]) \in Server /\ Closed(c.sl[s]).old_server = c.sl[s].old_server
      BY <1>1, ClosedEntry
    <2>3. d = [a EXCEPT !.sl[s].reconnect = TRUE,
                        !.sl[s].old_server = IF c.sl[s].connect_wait THEN @ ELSE s]
      BY <1>1 DEF ConnectionClosed, Sound
    <2> DEFINE q == Closed(c.sl[s])
               p == [q EXCEPT !.reconnect = TRUE, !.old_server = o]
    <2> HIDE DEF q, a, d
    <2>4. q \in Server /\ q.old_server = c.sl[s].old_server /\ a = Put(c, s, q) /\ a.sl[s] = q
      BY <2>1, <2>2 DEF q
    <2>5. s \in DOMAIN c.sl
      BY ClientParts
    <2>6. a.sl[s].old_server = c.sl[s].old_server /\ s \in DOMAIN a.sl
      BY <2>4, <2>5 DEF Put, Clients
    <2>7. d = Put(c, s, p)
      BY <2>3, <2>4, <2>5, <2>6 DEF Put, Clients, Server
    <2> QED BY <2>7 DEF q
  <1>3. Closed(c.sl[s]) \in Server /\ Off(Closed(c.sl[s]))
    BY <1>1, ClosedEntry, SwitchEntries
  <1>4. o \in -2..(N - 1) /\ o # -2
    BY <1>1, ServerFields, Bounds DEF Sound, ServerNo
  <1>5. /\ Closed(c.sl[s]).connect_wait = c.sl[s].connect_wait
        /\ Closed(c.sl[s]).req_server = c.sl[s].req_server
    BY <1>1 DEF Closed, Reset, Server
  <1> HIDE DEF d, o
  <1>6. /\ r \in Server /\ r.reconnect /\ r.old_server = o
        /\ ~ r.open /\ ~ r.logged_in /\ ~ r.connected /\ ~ r.try_once
        /\ r.connect_wait = c.sl[s].connect_wait /\ r.req_server = c.sl[s].req_server
    <2> DEFINE q == Closed(c.sl[s])
    <2>1. q \in Server /\ Off(q) /\ q.connect_wait = c.sl[s].connect_wait
          /\ q.req_server = c.sl[s].req_server
      BY <1>3, <1>5
    <2> HIDE DEF q
    <2>2. [q EXCEPT !.reconnect = TRUE, !.old_server = o] \in Server
      BY <1>4, <2>1 DEF Server
    <2>3. LET x == [q EXCEPT !.reconnect = TRUE, !.old_server = o]
          IN  /\ x.reconnect /\ x.old_server = o
              /\ x.open = q.open /\ x.logged_in = q.logged_in /\ x.connected = q.connected
              /\ x.try_once = q.try_once
              /\ x.connect_wait = q.connect_wait /\ x.req_server = q.req_server
      BY <2>1 DEF Server
    <2>4. r = [q EXCEPT !.reconnect = TRUE, !.old_server = o]
      BY DEF q
    <2> HIDE DEF r
    <2> QED BY <2>1, <2>2, <2>3, <2>4 DEF Off
  <1> HIDE DEF r
  <1>7. Sound(r) /\ ~ On(r) /\ Tried(r)
    BY <1>4, <1>6 DEF Sound, On, Tried
  <1>8. \A t \in ServerNo \ {s} : On(c.sl[t]) => r.old_server = t /\ c.sl[t].connected
    BY <1>6 DEF o
  <1>9. OneSwitch(d)
    BY <1>2, <1>6, <1>7, <1>8, PutSwitch
  <1>10. d.sl[s] = r /\ \A t \in ServerNo \ {s} : d.sl[t] = c.sl[t]
    BY <1>2, <1>6, PutClient
  <1>11. Awaited(d) /\ Stands(c, d, s)
    BY <1>7, <1>10 DEF Awaited, Stands
  <1> QED BY <1>6, <1>9, <1>10, <1>11 DEF d

-----------------------------------------------------------------------------
(* /SERVER *)

(* What is asked for replaces the server of the windows, if we are registered there. *)
LEMMA AskSwitch ==
  ASSUME NEW c \in Clients, OneSwitch(c), NEW i,
         \A t \in ServerNo : c.sl[t].open => c.sl[t].logged_in
  PROVE  LET d == get_connected(c, i, c.primary)
         IN  /\ OneSwitch(d)
             /\ \A t \in ServerNo : c.sl[t].connected => d.sl[t].connected
             /\ \A t \in ServerNo : d.sl[t].server_change_pending = 2
                                       => c.sl[t].server_change_pending = 2
  <1> DEFINE old == c.primary
             a == CloseUnlessRegistered(c, find_old_server(c, old))
             b == CloseUnlessRegistered(a, old)
             d == AskConnect(b, i, old)
  <1>1. get_connected(c, i, old) = IF InProgress(c) THEN c ELSE d
    BY DEF get_connected, Abandon
  <1>2. ASSUME NEW x \in Clients, OneSwitch(x), NEW s
        PROVE  LET y == CloseUnlessRegistered(x, s)
               IN  /\ y \in Clients /\ OneSwitch(y) /\ y.primary = x.primary
                   /\ \A t \in ServerNo : y.sl[t] \in {x.sl[t], Closed(x.sl[t])}
                   /\ \A t \in ServerNo : x.sl[t].connected => y.sl[t] = x.sl[t]
                   /\ s \in ServerNo /\ y.sl[s].open => y.sl[s].connected
    <2> DEFINE y == close_server(x, s)
    <2>1. CloseUnlessRegistered(x, s) = IF Registered(x, s) THEN x ELSE y
      BY DEF CloseUnlessRegistered
    <2>2. /\ y \in Clients /\ y.primary = x.primary /\ OneSwitch(y)
          /\ s \in ServerNo => ~ y.sl[s].open /\ y.sl[s] = Closed(x.sl[s])
          /\ \A t \in ServerNo : t # s => y.sl[t] = x.sl[t]
      BY <1>2, CloseServer, CloseFewer DEF Kept
    <2> HIDE DEF y
    <2>3. CASE Registered(x, s)
      BY <1>2, <2>1, <2>3 DEF Registered
    <2>4. CASE ~ Registered(x, s)
      BY <2>1, <2>2, <2>4 DEF Registered
    <2> QED BY <2>3, <2>4
  <1>3. /\ a \in Clients /\ OneSwitch(a) /\ a.primary = c.primary
        /\ \A t \in ServerNo : a.sl[t] \in {c.sl[t], Closed(c.sl[t])}
        /\ \A t \in ServerNo : c.sl[t].connected => a.sl[t] = c.sl[t]
    BY <1>2
  <1> HIDE DEF a
  <1>4. /\ b \in Clients /\ OneSwitch(b) /\ b.primary = a.primary
        /\ \A t \in ServerNo : b.sl[t] \in {a.sl[t], Closed(a.sl[t])}
        /\ \A t \in ServerNo : a.sl[t].connected => b.sl[t] = a.sl[t]
        /\ old \in ServerNo /\ b.sl[old].open => b.sl[old].connected
    BY <1>2, <1>3
  <1> HIDE DEF b
  <1>5. ASSUME NEW r \in Server
        PROVE  /\ ~ Closed(r).open /\ ~ Closed(r).reconnect
               /\ Closed(r).server_change_pending = 0
    BY <1>5 DEF Closed, Reset, Server
  <1>6. \A t \in ServerNo : a.sl[t] \in Server /\ c.sl[t] \in Server /\ b.sl[t] \in Server
    BY <1>3, <1>4, ClientParts
  <1>7. \A t \in ServerNo :
           /\ b.sl[t].open => c.sl[t].open /\ b.sl[t].logged_in = c.sl[t].logged_in
           /\ b.sl[t].reconnect => c.sl[t].reconnect
           /\ b.sl[t].server_change_pending = 2 => c.sl[t].server_change_pending = 2
           /\ c.sl[t].connected => b.sl[t].connected
    BY <1>3, <1>4, <1>5, <1>6
  <1>8. CASE InProgress(c)
    BY <1>1, <1>8
  <1>9. CASE ~ InProgress(c) /\ i \notin ServerNo
    <2>1. d = b
      BY <1>9 DEF AskConnect
    <2> HIDE DEF d
    <2> QED BY <1>1, <1>4, <1>7, <1>9, <2>1 DEF old
  <1>10. CASE ~ InProgress(c) /\ i \in ServerNo
    <2> DEFINE o == IF Registered(b, old) THEN old ELSE -1
               r == AskFor(b.sl[i], TRUE, i, o, -1, 0)
    <2>1. d = Put(b, i, r)
      BY <1>10 DEF AskConnect, Put, AskFor
    <2>2. o \in -2..(N - 1) /\ i \in -1..(N - 1) /\ -1 \in -1..W /\ 0 \in 0..RetryCap
          /\ TRUE \in BOOLEAN /\ o # -2
      BY <1>10, Bounds DEF Registered, ServerNo
    <2>3. \A t \in ServerNo : ~ Tried(b.sl[t])
      BY <1>7, <1>10 DEF Tried, InProgress
    <2>4. ASSUME NEW t \in ServerNo, On(b.sl[t]) PROVE o = t /\ b.sl[t].connected
      <3>1. t = old
        BY <1>3, <1>4, <2>4 DEF OneSwitch
      <3>2. b.sl[t].connected
        BY <1>4, <2>4, <3>1 DEF On
      <3> QED BY <3>1, <3>2 DEF Registered
    <2> HIDE DEF o, d
    <2>5. r \in Server
      BY <1>6, <1>10, <2>2, AskForEntry, Zenon
    <2>6. /\ r.open = b.sl[i].open /\ r.logged_in = b.sl[i].logged_in
          /\ r.connected = b.sl[i].connected /\ r.try_once = b.sl[i].try_once
          /\ r.old_server = o /\ r.server_change_pending = b.sl[i].server_change_pending
      BY <1>6, <1>10 DEF AskFor, Server
    <2> HIDE DEF r
    <2>7. Sound(b.sl[i]) /\ ~ Tried(b.sl[i]) /\ (On(b.sl[i]) => b.primary = i)
      BY <1>4, <1>10, <2>3 DEF OneSwitch
    <2>8. Sound(r) /\ (On(r) => b.primary = i)
      BY <2>2, <2>6, <2>7 DEF Sound, Tried, On
    <2>9. OneSwitch(d)
      BY <1>4, <1>10, <2>1, <2>3, <2>4, <2>5, <2>6, <2>8, PutSwitch
    <2>10. d.sl[i] = r /\ \A t \in ServerNo \ {i} : d.sl[t] = b.sl[t]
      BY <1>4, <1>10, <2>1, <2>5, PutClient
    <2> QED BY <1>1, <1>7, <1>10, <2>6, <2>9, <2>10 DEF old
  <1> QED BY <1>8, <1>9, <1>10

-----------------------------------------------------------------------------
(* The steps *)

(* One switch at a time; and do_idle_server() reads from no one. *)
XInv ==
    /\ WInv
    /\ OneSwitch(Client)
    /\ pass = "idle" => watched = {}

(* A registered connection to another server than s ends with the log in to s. *)
LeavesOnly(s) ==
    \A t \in ServerNo \ {s} :
       sl[t].connected /\ ~ sl'[t].connected => LogsIn(s) /\ sl[s].c_server = t

LEMMA BecomesClient ==
  ASSUME NEW c \in Clients, Becomes(c)
  PROVE  Client' = c
  <1>1. c = [sl |-> c.sl, win |-> c.win, primary |-> c.primary, attached |-> c.attached]
    BY DEF Clients
  <1> QED BY <1>1 DEF Becomes, Client

LEMMA XInvParts ==
  ASSUME XInv
  PROVE  /\ WInv /\ SInv /\ Client \in Clients /\ OneSwitch(Client)
         /\ Together(Client) /\ TakesAll(Client, prompts)
         /\ Client.sl = sl /\ Client.win = win /\ Client.primary = primary
         /\ \A s \in ServerNo : sl[s] \in Server /\ Sound(sl[s])
  <1>1. SInv /\ WInv /\ OneSwitch(Client) /\ Together(Client) /\ TakesAll(Client, prompts)
    BY DEF XInv, WInv
  <1>2. /\ Client \in Clients /\ Client.sl = sl /\ Client.win = win /\ Client.primary = primary
    BY <1>1, ClientIs
  <1>3. \A s \in ServerNo : sl[s] \in Server /\ Sound(sl[s])
    BY <1>1, <1>2, SwitchEntries
  <1> QED BY <1>1, <1>2, <1>3

(* A turn that comes to c and keeps the registered connections to others. *)
LEMMA TurnSwitch ==
  ASSUME XInv, NEW s \in ServerNo, NEW c \in Clients, EndTurn(s, c),
         OneSwitch(c), Stands(Client, c, s)
  PROVE  LeavesOnly(s) /\ OneSwitch(Client)' /\ Client' = c
  <1>1. Client' = c /\ sl' = c.sl
    BY BecomesClient DEF EndTurn, Becomes
  <1>2. Client.sl = sl
    BY XInvParts
  <1>3. LeavesOnly(s)
    BY <1>1, <1>2 DEF Stands, LeavesOnly
  <1> QED BY <1>1, <1>3

(* Nothing is marked that was not, and who is tried is tried still. *)
GoesOn(c, d) ==
    \A s \in ServerNo :
       /\ On(d.sl[s]) /\ d.sl[s].server_change_pending = 2
             => On(c.sl[s]) /\ c.sl[s].server_change_pending = 2
       /\ Tried(c.sl[s]) => Tried(d.sl[s])

LEMMA GoesOnAwaited ==
  ASSUME NEW c, NEW d, GoesOn(c, d), Awaited(c)
  PROVE  Awaited(d)
  BY DEF GoesOn, Awaited

(* The end of a connection, after a log in in the same turn or not. *)
LEMMA ClosedTurnSwitch ==
  ASSUME OneAtATime, XInv, NEW s \in ServerNo, NEW login \in BOOLEAN, NEW cur \in DOMAIN win,
         TurnClosed(s, login, cur)
  PROVE  LeavesOnly(s) /\ OneSwitch(Client)' /\ Awaited(Client)'
  <1> DEFINE c == Reading(s, login, cur)
             d == ConnectionClosed(c, s)
  <1>1. /\ WInv /\ SInv /\ Client \in Clients /\ OneSwitch(Client) /\ Client.sl = sl
        /\ Client.win = win
    BY XInvParts
  <1>2. /\ EndTurn(s, d) /\ c.sl[s].open /\ s \in watched /\ sl[s].open
        /\ BeingLeft(s) => "eof_in_switch" \in Hazards
    BY DEF TurnClosed, Readable
  <1>3. ~ BeingLeft(s)
    BY <1>2 DEF OneAtATime
  <1>4. c \in Clients /\ d \in Clients
    <2>1. Good(c)
      BY <1>1, LogsInGood DEF Reading, SInv
    <2> HIDE DEF c
    <2> QED BY <2>1, EndsConnection DEF Good
  <1>5. Becomes(d)
    BY <1>2 DEF EndTurn
  <1>6. CASE login
    <2>1. c = LogIn(s, cur) /\ ~ sl[s].logged_in
      BY <1>6 DEF Reading, TurnClosed, Readable, CanLogIn
    <2>2. /\ OneSwitch(c) /\ \A t \in ServerNo \ {s} : Off(c.sl[t])
          /\ ~ c.sl[s].connect_wait /\ c.sl[s].req_server = 0
          /\ \A t \in ServerNo \ {s} : sl[t].connected => sl[s].c_server = t
      BY <1>1, <1>2, <2>1, LogInSwitch
    <2> HIDE DEF c
    <2>3. \A t \in ServerNo \ {s} : ~ Tried(c.sl[t]) /\ ~ On(c.sl[t])
      BY <2>2 DEF Off, Tried, On
    <2>4. /\ OneSwitch(d) /\ Awaited(d)
          /\ ~ d.sl[s].connect_wait /\ d.sl[s].req_server = 0
      BY <1>4, <2>2, <2>3, ClosedSwitch
    <2> HIDE DEF d
    <2>5. Client' = d /\ sl' = d.sl
      BY <1>4, <1>5, BecomesClient DEF Becomes
    <2>6. LogsIn(s)
      <3>1. Sound(sl[s])
        BY XInvParts
      <3>2. pass = "server"
        BY <1>1, <1>2 DEF EndTurn, SInv, Control, XInv
      <3> QED BY <1>2, <2>1, <2>4, <2>5, <3>1, <3>2 DEF LogsIn, Connecting, EndTurn, Sound
    <2> QED BY <2>2, <2>4, <2>5, <2>6 DEF LeavesOnly
  <1>7. CASE ~ login
    <2>1. c = Client
      BY <1>7 DEF Reading
    <2>2. ASSUME NEW t \in ServerNo \ {s}
          PROVE  /\ ~ Tried(sl[t])
                 /\ On(sl[t]) => /\ sl[s].connect_wait /\ sl[s].old_server = t
                                 /\ sl[t].connected
      <3>1. CASE Tried(sl[s])
        <4>1. Leads(Client, s) /\ Sound(sl[s])
          BY <1>1, <3>1 DEF OneSwitch
        <4>2. ~ Tried(sl[t]) /\ (On(sl[t]) => sl[s].old_server = t /\ sl[t].connected)
          BY <1>1, <4>1 DEF Leads
        <4>3. On(sl[s]) /\ On(sl[t]) => FALSE
          BY <1>1 DEF OneSwitch
        <4>4. sl[s].connect_wait \/ On(sl[s])
          BY <1>2, <4>1 DEF Sound, On
        <4> QED BY <4>2, <4>3, <4>4
      <3>2. CASE ~ Tried(sl[s])
        <4>1. On(sl[s])
          BY <1>2, <3>2 DEF Tried, On
        <4>2. ~ On(sl[t])
          BY <1>1, <4>1 DEF OneSwitch
        <4>3. ASSUME Tried(sl[t]) PROVE FALSE
          <5>1. sl[t].old_server = s
            BY <1>1, <4>1, <4>3 DEF OneSwitch, Leads
          <5> QED BY <1>3, <4>3, <5>1 DEF BeingLeft, Tried
        <4> QED BY <4>2, <4>3
      <3> QED BY <3>1, <3>2
    <2> HIDE DEF c
    <2>3. OneSwitch(d) /\ Awaited(d) /\ Stands(Client, d, s)
      BY <1>1, <2>1, <2>2, ClosedSwitch
    <2> HIDE DEF d
    <2> QED BY <1>2, <1>4, <2>3, TurnSwitch
  <1> QED BY <1>6, <1>7

LEMMA TurnsSwitch ==
  ASSUME OneAtATime, XInv, NEW s \in ServerNo, Turn(s)
  PROVE  /\ LeavesOnly(s) /\ OneSwitch(Client)'
         /\ AutoReconnect /\ Awaited(Client) => Awaited(Client)'
  <1>1. /\ WInv /\ SInv /\ Client \in Clients /\ OneSwitch(Client) /\ Together(Client)
        /\ Client.sl = sl /\ Client.win = win /\ Client.primary = primary
        /\ \A t \in ServerNo : sl[t] \in Server /\ Sound(sl[t])
    BY XInvParts
  <1>2. CASE TurnNothing(s)
    BY <1>1, <1>2, TurnSwitch DEF TurnNothing, Stands
  <1>3. CASE TurnWelcome(s)
    <2> DEFINE r == [sl[s] EXCEPT !.connected = TRUE]
               d == [Client EXCEPT !.sl[s].connected = TRUE]
    <2>1. d = Put(Client, s, r) /\ EndTurn(s, d) /\ sl[s].logged_in
      BY <1>1, <1>3 DEF TurnWelcome, Put
    <2>2. r \in Server
      BY <1>1, FieldChanges
    <2>3. /\ r.connected /\ r.open = sl[s].open /\ r.logged_in = sl[s].logged_in
          /\ r.reconnect = sl[s].reconnect /\ r.try_once = sl[s].try_once
          /\ r.connect_wait = sl[s].connect_wait /\ r.old_server = sl[s].old_server
          /\ r.c_server = sl[s].c_server
          /\ r.server_change_pending = sl[s].server_change_pending
      BY <1>1 DEF Server
    <2> HIDE DEF r, d
    <2>p. /\ d \in Clients /\ d.sl[s] = r /\ d.primary = Client.primary
          /\ \A t \in ServerNo \ {s} : d.sl[t] = Client.sl[t]
      <3>1. Client \in Clients /\ d = Put(Client, s, r)
        BY <1>1, <2>1
      <3> QED BY <2>2, <3>1, PutClient
    <2>4. /\ d \in Clients /\ d.sl[s] = r /\ d.primary = Client.primary
          /\ \A t \in ServerNo \ {s} : d.sl[t] = sl[t]
      BY <1>1, <2>p
    <2>5. Like(sl[s], r)
      BY <2>1, <2>3 DEF Like
    <2>6. Fewer(Client, d)
      BY <1>1, <2>4, <2>5, SwitchEntries DEF Fewer
    <2>7. OneSwitch(d) /\ Stands(Client, d, s)
      BY <1>1, <2>4, <2>6, FewerSwitch DEF Stands
    <2>8. GoesOn(Client, d)
      BY <1>1, <2>3, <2>4 DEF GoesOn, On, Tried
    <2> QED BY <2>1, <2>4, <2>7, <2>8, TurnSwitch, GoesOnAwaited
  <1>4. CASE TurnNoPermission(s)
    <2> DEFINE a == close_server(Client, s)
               b == window_check_servers(a)
    <2>1. EndTurn(s, NoPermission(Client, s)) /\ sl[s].logged_in
      BY <1>4 DEF TurnNoPermission
    <2>2. On(sl[s]) /\ primary = s
      BY <1>1, <2>1 DEF OneSwitch, Sound, On
    <2>3. /\ a \in Clients /\ Together(a) /\ a.primary = s /\ ~ Open(a, s)
          /\ OneSwitch(a) /\ Fewer(Client, a) /\ Stands(Client, a, s)
      BY <1>1, <2>2, CloseServer, CloseFewer, KeptTogether DEF Kept, Open
    <2>4. \A t \in ServerNo : ~ On(a.sl[t])
      BY <2>3 DEF OneSwitch, On, Open
    <2>5. NoPermission(Client, s) = IF b.primary = s THEN get_connected(b, s + 1, s) ELSE b
      BY DEF NoPermission
    <2> HIDE DEF a
    <2>6. b.primary = -1
      BY <2>3, CheckTogether
    <2>7. /\ b \in Clients /\ OneSwitch(b) /\ Fewer(a, b)
          /\ \A t \in ServerNo : a.sl[t].connected => b.sl[t].connected
      BY <2>3, CheckSwitch
    <2> HIDE DEF b
    <2>8. NoPermission(Client, s) = b
      BY <2>5, <2>6 DEF ServerNo
    <2>9. Stands(Client, b, s) /\ Awaited(b)
      BY <2>3, <2>4, <2>7 DEF Stands, Awaited, Fewer, Off, Like, On
    <2> QED BY <2>1, <2>7, <2>8, <2>9, TurnSwitch
  <1>5. CASE TurnPassword(s)
    <2> DEFINE d == close_server(Client, s)
    <2>1. EndTurn(s, d) /\ sl[s].logged_in
      BY <1>5 DEF TurnPassword
    <2>2. primary = s
      BY <1>1, <2>1 DEF OneSwitch, Sound, On
    <2>3. /\ d \in Clients /\ OneSwitch(d) /\ Stands(Client, d, s)
          /\ d.primary = primary /\ ~ d.sl[s].open
      BY <1>1, CloseServer, CloseFewer DEF Kept
    <2> HIDE DEF d
    <2>4. Awaited(d)
      BY <2>2, <2>3 DEF OneSwitch, On, Awaited
    <2> QED BY <2>1, <2>3, <2>4, TurnSwitch
  <1>6. ASSUME NEW ok \in BOOLEAN, TurnReconnect(s, ok)
        PROVE  /\ LeavesOnly(s) /\ OneSwitch(Client)'
               /\ AutoReconnect => Awaited(Client)'
    <2> DEFINE a == [Client EXCEPT !.sl[s].reconnect = FALSE]
               d == reconnect_server(a, s, ok)
    <2>1. EndTurn(s, d) /\ Tried(sl[s])
      BY <1>6 DEF TurnReconnect, Tried
    <2>2. Leads(Client, s)
      BY <1>1, <2>1 DEF OneSwitch
    <2>r. FALSE \in BOOLEAN
      OBVIOUS
    <2>p. /\ a \in Clients /\ Kept(Client, a) /\ OneSwitch(a) /\ Leads(a, s)
          /\ \A t \in ServerNo : a.sl[t].connected = Client.sl[t].connected
      BY <1>1, <2>2, <2>r, RequestSwitch, Zenon
    <2>3. /\ a \in Clients /\ Kept(Client, a) /\ OneSwitch(a) /\ Leads(a, s)
          /\ \A t \in ServerNo : a.sl[t].connected = sl[t].connected
      <3> HIDE DEF a
      <3> QED BY <1>1, <2>p
    <2> HIDE DEF a
    <2>4. Together(a) /\ Good(a)
      BY <1>1, <2>3, KeptTogether, KeptGood DEF SInv
    <2>5. /\ d \in Clients /\ OneSwitch(d) /\ Stands(a, d, s)
          /\ AutoReconnect => Awaited(d)
      BY <2>3, <2>4, ReconnectSwitch, Reconnects DEF Good
    <2> HIDE DEF d
    <2>6. Stands(Client, d, s)
      BY <1>1, <2>3, <2>5 DEF Stands
    <2> QED BY <2>1, <2>5, <2>6, TurnSwitch
  <1>7. ASSUME NEW cur \in DOMAIN win, TurnLogIn(s, cur)
        PROVE  LeavesOnly(s) /\ OneSwitch(Client)' /\ Awaited(Client)'
    <2> DEFINE d == LogIn(s, cur)
    <2>1. EndTurn(s, d) /\ s \in watched /\ sl[s].open /\ ~ sl[s].logged_in
      BY <1>7 DEF TurnLogIn, CanLogIn
    <2>2. d \in Clients
      BY <1>1, LogsInGood DEF Good
    <2>3. /\ OneSwitch(d) /\ \A t \in ServerNo \ {s} : Off(d.sl[t])
          /\ d.sl[s].server_change_pending = 0
          /\ ~ d.sl[s].connect_wait /\ d.sl[s].req_server = 0
          /\ \A t \in ServerNo \ {s} : sl[t].connected => sl[s].c_server = t
      BY <1>1, <2>1, LogInSwitch
    <2> HIDE DEF d
    <2>4. Client' = d /\ sl' = d.sl
      BY <2>1, <2>2, BecomesClient DEF EndTurn, Becomes
    <2>5. pass = "server"
      BY <1>1, <2>1 DEF EndTurn, SInv, Control, XInv
    <2>6. LogsIn(s)
      BY <1>1, <2>1, <2>3, <2>4, <2>5 DEF LogsIn, Connecting, EndTurn, Sound
    <2>7. Awaited(d)
      BY <2>3 DEF Awaited, Off, On
    <2> QED BY <2>3, <2>4, <2>6, <2>7 DEF LeavesOnly
  <1>8. ASSUME NEW cur \in DOMAIN win, NEW by \in {"server", "local", "remote"}, NEW ok \in BOOLEAN,
               TurnKilled(s, by, cur, ok)
        PROVE  FALSE
    BY <1>8 DEF TurnKilled, OneAtATime
  <1> QED BY <1>2, <1>3, <1>4, <1>5, <1>6, <1>7, <1>8, ClosedTurnSwitch DEF Turn

(* The passes begin: an attempt that is dropped is made again. *)
LEMMA StartSwitch ==
  ASSUME XInv, NEW kind \in {"server", "idle"}, NEW late \in SUBSET ServerNo, StartPass(kind, late)
  PROVE  /\ OneSwitch(Client)' /\ (Awaited(Client) => Awaited(Client)')
         /\ pass' = "idle" => watched' = {}
         /\ \A t \in ServerNo : sl[t].connected => sl'[t].connected
  <1> DEFINE f == [s \in ServerNo |->
                     IF s \in late THEN [sl[s] EXCEPT !.open = FALSE, !.reconnect = TRUE] ELSE sl[s]]
             d == [Client EXCEPT !.sl = f]
  <1>1. /\ Client \in Clients /\ OneSwitch(Client) /\ Client.sl = sl
        /\ \A s \in ServerNo : sl[s] \in Server /\ Sound(sl[s])
    BY XInvParts
  <1>2. /\ sl' = f /\ \A s \in late : sl[s].open /\ ~ sl[s].logged_in
        /\ pass' = "idle" => watched' = {}
    BY DEF StartPass
  <1>3. ASSUME NEW t \in ServerNo
        PROVE  /\ f[t] \in Server
               /\ Sound(f[t]) /\ (Tried(f[t]) <=> Tried(sl[t])) /\ (On(f[t]) <=> On(sl[t]))
               /\ f[t].old_server = sl[t].old_server /\ f[t].connected = sl[t].connected
               /\ f[t].server_change_pending = sl[t].server_change_pending
    <2> DEFINE r == [sl[t] EXCEPT !.open = FALSE, !.reconnect = TRUE]
    <2>1. sl[t] \in Server /\ Sound(sl[t])
      BY <1>1
    <2>2. CASE t \in late
      <3>1. /\ r \in Server /\ ~ r.open /\ r.reconnect /\ r.logged_in = sl[t].logged_in
            /\ r.connected = sl[t].connected /\ r.try_once = sl[t].try_once
            /\ r.old_server = sl[t].old_server
            /\ r.server_change_pending = sl[t].server_change_pending
        BY <2>1 DEF Server
      <3>2. f[t] = r /\ sl[t].open /\ ~ sl[t].logged_in
        BY <1>2, <2>2
      <3> HIDE DEF r, f
      <3> QED BY <2>1, <3>1, <3>2 DEF Sound, Tried, On
    <2>3. CASE t \notin late
      BY <2>1, <2>3
    <2> QED BY <2>2, <2>3
  <1>4. f \in [ServerNo -> Server]
    BY <1>3
  <1> HIDE DEF f
  <1>5. /\ d \in Clients /\ d.sl = f /\ d.win = Client.win /\ d.primary = Client.primary
        /\ d.attached = Client.attached
    BY <1>1, <1>4 DEF Clients
  <1>6. Becomes(d)
    BY <1>2, <1>5 DEF Becomes, StartPass, Client
  <1> HIDE DEF d
  <1>7. Client' = d
    BY <1>5, <1>6, BecomesClient
  <1>8. \A s \in ServerNo : Leads(Client, s) => Leads(d, s)
    BY <1>1, <1>3, <1>5 DEF Leads
  <1>9. OneSwitch(d)
    BY <1>1, <1>3, <1>5, <1>8 DEF OneSwitch
  <1>10. GoesOn(Client, d)
    BY <1>1, <1>3, <1>5 DEF GoesOn
  <1>11. \A t \in ServerNo : sl[t].connected => sl'[t].connected
    BY <1>2, <1>3
  <1> QED BY <1>2, <1>7, <1>9, <1>10, <1>11, GoesOnAwaited

(* The passes end: without a connection the windows are looked after. *)
LEMMA EndSwitch ==
  ASSUME XInv, EndPass
  PROVE  /\ OneSwitch(Client)' /\ (Awaited(Client) => Awaited(Client)')
         /\ pass' = "input"
         /\ \A t \in ServerNo : sl[t].connected => sl'[t].connected
  <1> DEFINE b == window_check_servers(Client)
             c == IF pass = "server" /\ ~ Open(Client, primary) THEN b ELSE Client
  <1>1. /\ Client \in Clients /\ OneSwitch(Client) /\ Together(Client) /\ Client.sl = sl
        /\ Client.primary = primary
    BY XInvParts
  <1>2. Becomes(c) /\ pass' = "input"
    BY DEF EndPass
  <1>3. /\ b \in Clients /\ OneSwitch(b) /\ Fewer(Client, b)
        /\ \A t \in ServerNo : Client.sl[t].connected => b.sl[t].connected
    BY <1>1, CheckSwitch
  <1> HIDE DEF b
  <1>4. CASE pass = "server" /\ ~ Open(Client, primary)
    <2>1. \A t \in ServerNo : ~ On(Client.sl[t])
      BY <1>1, <1>4 DEF OneSwitch, On, Open
    <2>2. Awaited(b)
      BY <1>3, <2>1 DEF Awaited, Fewer, Off, Like, On
    <2>3. Client' = b /\ sl' = b.sl
      BY <1>2, <1>3, <1>4, BecomesClient DEF Becomes
    <2> QED BY <1>1, <1>2, <1>3, <2>2, <2>3
  <1>5. CASE ~ (pass = "server" /\ ~ Open(Client, primary))
    <2>1. Client' = Client /\ sl' = sl
      BY <1>1, <1>2, <1>5, BecomesClient DEF Becomes
    <2> QED BY <1>1, <1>2, <2>1
  <1> QED BY <1>4, <1>5

(* /SERVER, when no switch is under way. *)
LEMMA ServerCommandSwitch ==
  ASSUME OneAtATime, XInv, NEW cur \in DOMAIN win, NEW i \in ServerNo, ServerCommand(i, cur)
  PROVE  /\ OneSwitch(Client)' /\ Awaited(Client)'
         /\ \A t \in ServerNo : sl[t].connected => sl'[t].connected
  <1> DEFINE S == {s \in ServerNo : Client.sl[s].old_server = -2
                                       \/ Client.sl[s].server_change_pending # 0}
             u == close_unattached_servers(Client)
             d == get_connected(u, i, u.primary)
  <1>1. /\ Client \in Clients /\ OneSwitch(Client) /\ Together(Client) /\ Client.sl = sl
        /\ Client.win = win /\ Client.primary = primary
        /\ \A s \in ServerNo : sl[s] \in Server /\ Sound(sl[s])
    BY XInvParts
  <1>2. \A s \in ServerNo : sl[s].server_change_pending = 0
    BY DEF ServerCommand, OneAtATime
  <1>3. /\ u \in Clients /\ u.primary = primary
        /\ \A s \in ServerNo : u.sl[s] = IF s \in S THEN Closed(Client.sl[s]) ELSE Client.sl[s]
    BY <1>1, CloseSeveral DEF close_unattached_servers, Kept
  <1>4. S = {}
    BY <1>1, <1>2 DEF Sound
  <1> HIDE DEF S, u
  <1>5. \A s \in ServerNo : u.sl[s] = sl[s]
    BY <1>1, <1>3, <1>4
  <1>6. Fewer(Client, u)
    BY <1>1, <1>5, SwitchEntries DEF Fewer
  <1>7. OneSwitch(u)
    BY <1>1, <1>3, <1>6, FewerSwitch
  <1>8. \A t \in ServerNo : u.sl[t].open => u.sl[t].logged_in
    BY <1>1, <1>2, <1>5 DEF Sound
  <1>9. /\ OneSwitch(d) /\ \A t \in ServerNo : u.sl[t].connected => d.sl[t].connected
        /\ \A t \in ServerNo : d.sl[t].server_change_pending = 2
                                  => u.sl[t].server_change_pending = 2
    BY <1>3, <1>7, <1>8, AskSwitch
  <1>10. d \in Clients
    BY <1>3, GetConnected
  <1>11. win[cur] = u.primary
    BY <1>1, <1>3 DEF Together
  <1>12. Becomes(d)
    BY <1>11 DEF ServerCommand, Command, u
  <1> HIDE DEF d
  <1>13. Client' = d /\ sl' = d.sl
    BY <1>10, <1>12, BecomesClient DEF Becomes
  <1>14. Awaited(d)
    BY <1>2, <1>5, <1>9 DEF Awaited
  <1>15. \A t \in ServerNo : sl[t].connected => sl'[t].connected
    BY <1>5, <1>9, <1>13
  <1> QED BY <1>9, <1>13, <1>14, <1>15

(* Initially nothing is connected, and one server at most is to be. *)
LEMMA XInvInit ==
  ASSUME Init
  PROVE  XInv /\ Awaited(Client)
  <1> DEFINE asked == [NewServer EXCEPT !.reconnect = TRUE, !.old_server = -1,
                                        !.server_change_refnum = -1]
  <1>1. WInv
    BY WInvInit
  <1>2. /\ Sound(NewServer) /\ ~ On(NewServer) /\ ~ Tried(NewServer)
        /\ Sound(asked) /\ ~ On(asked)
    BY DEF NewServer, Sound, On, Tried
  <1>3. PICK auto_connect \in BOOLEAN :
          sl = [s \in ServerNo |-> IF s = 0 /\ auto_connect THEN asked ELSE NewServer]
    BY DEF Init
  <1> HIDE DEF asked
  <1>4. \A s \in ServerNo : /\ Sound(sl[s]) /\ ~ On(sl[s])
                            /\ s # 0 => ~ Tried(sl[s])
    BY <1>2, <1>3
  <1>5. Client.sl = sl
    BY DEF Client
  <1>6. ASSUME NEW s \in ServerNo, Tried(sl[s]) PROVE Leads(Client, s)
    BY <1>4, <1>5, <1>6 DEF Leads
  <1>7. OneSwitch(Client) /\ Awaited(Client)
    BY <1>4, <1>5, <1>6 DEF OneSwitch, Awaited
  <1>8. pass = "idle" => watched = {}
    BY DEF Init
  <1> QED BY <1>1, <1>7, <1>8 DEF XInv

(* The windows do not matter to a switch. *)
LEMMA SameSwitch ==
  ASSUME NEW c, NEW d, OneSwitch(c), d.sl = c.sl, d.primary = c.primary
  PROVE  OneSwitch(d) /\ (Awaited(c) => Awaited(d))
  BY DEF OneSwitch, Leads, Awaited

(* The commands: none ends a registered connection. *)
LEMMA InputSwitch ==
  ASSUME OneAtATime, XInv, Input
  PROVE  /\ OneSwitch(Client)'
         /\ \A t \in ServerNo : sl[t].connected => sl'[t].connected
         /\ Commands \cap {"kill", "minus"} = {} /\ Awaited(Client) => Awaited(Client)'
  <1> DEFINE Right == /\ OneSwitch(Client)'
                      /\ \A t \in ServerNo : sl[t].connected => sl'[t].connected
                      /\ Commands \cap {"kill", "minus"} = {} /\ Awaited(Client) => Awaited(Client)'
  <1>1. /\ SInv /\ Client \in Clients /\ OneSwitch(Client) /\ Together(Client) /\ Client.sl = sl
        /\ Client.win = win /\ Client.primary = primary
        /\ \A s \in ServerNo : sl[s] \in Server /\ Sound(sl[s])
    BY XInvParts
  <1>2. /\ DOMAIN win \in (SUBSET WindowNo) \ {{}}
        /\ \A w \in DOMAIN win : win[w] \in -1..(N - 1) /\ win[w] = primary
    BY <1>1, ClientIs DEF Together
  <1>3. ASSUME NEW s \in ServerNo, MinusServer(s) PROVE Right
    <2> DEFINE a == close_server(Client, s)
               d == window_check_servers(a)
    <2>1. Becomes(d) /\ s # primary /\ "minus" \in Commands
      BY <1>3 DEF MinusServer, Command
    <2>2. /\ a \in Clients /\ Together(a) /\ OneSwitch(a) /\ Stands(Client, a, s)
      BY <1>1, CloseServer, CloseFewer, KeptTogether
    <2> HIDE DEF a
    <2>3. /\ d \in Clients /\ OneSwitch(d)
          /\ \A t \in ServerNo : a.sl[t].connected => d.sl[t].connected
      BY <2>2, CheckSwitch
    <2> HIDE DEF d
    <2>4. Client' = d /\ sl' = d.sl
      BY <2>1, <2>3, BecomesClient DEF Becomes
    <2>5. ~ sl[s].connected
      BY <1>1, <2>1 DEF OneSwitch, Sound, On
    <2>6. \A t \in ServerNo : sl[t].connected => sl'[t].connected
      BY <1>1, <2>2, <2>3, <2>4, <2>5 DEF Stands
    <2> QED BY <2>1, <2>3, <2>4, <2>6
  <1>4. ASSUME NEW w \in WindowNo, KillWindow(w) PROVE Right
    <2> DEFINE D == DOMAIN win \ {w}
               f == [v \in D |-> win[v]]
               c == [Client EXCEPT !.win = f]
               d == window_check_servers(c)
    <2>1. D \in (SUBSET WindowNo) \ {{}} /\ f \in [D -> -1..(N - 1)]
      BY <1>2, <1>4 DEF KillWindow
    <2>2. Becomes(d) /\ "kill" \in Commands
      BY <1>4 DEF KillWindow, Command
    <2>3. \A v \in DOMAIN f : f[v] = primary
      BY <1>2
    <2> HIDE DEF D, f
    <2>4. f \in Windows
      BY <2>1, WindowsOf
    <2>5. /\ c \in Clients /\ c.sl = Client.sl /\ c.win = f /\ c.primary = Client.primary
          /\ c.attached = Client.attached
      BY <1>1, <2>4 DEF Clients
    <2> HIDE DEF c
    <2>6. Together(c) /\ OneSwitch(c)
      BY <1>1, <2>3, <2>5, SameSwitch DEF Together
    <2>7. /\ d \in Clients /\ OneSwitch(d)
          /\ \A t \in ServerNo : c.sl[t].connected => d.sl[t].connected
      BY <2>5, <2>6, CheckSwitch
    <2> HIDE DEF d
    <2>8. Client' = d /\ sl' = d.sl
      BY <2>2, <2>7, BecomesClient DEF Becomes
    <2> QED BY <1>1, <2>2, <2>5, <2>7, <2>8
  <1>5. ASSUME NEW cur \in DOMAIN win, NEW w \in WindowNo, NewWindow(w, cur) PROVE Right
    <2>1. sl' = sl /\ primary' = primary
      BY <1>1, <1>5 DEF NewWindow, Command, Becomes
    <2>2. Client'.sl = Client.sl /\ Client'.primary = Client.primary
      BY <2>1 DEF Client
    <2> QED BY <1>1, <2>1, <2>2, SameSwitch
  <1>6. ASSUME NEW cur \in DOMAIN win, NEW i \in ServerNo, ServerCommand(i, cur) PROVE Right
    BY <1>6, ServerCommandSwitch
  <1>7. ASSUME NEW s \in ServerNo, Disconnect(s) \/ WriteFails(s) PROVE FALSE
    BY <1>7 DEF Disconnect, WriteFails, Command, OneAtATime
  <1>8. ASSUME NEW s \in ServerNo, NEW ok \in BOOLEAN, PasswordEntered(s, ok) PROVE FALSE
    BY <1>8 DEF PasswordEntered, Command, OneAtATime
  <1>9. ASSUME NEW cur \in DOMAIN win,
               \/ NextServer(cur) \/ PreviousServer(cur)
               \/ DisconnectNowhere(cur) \/ WindowDiscon(cur)
        PROVE  FALSE
    BY <1>9 DEF NextServer, PreviousServer, DisconnectNowhere, WindowDiscon, Command, OneAtATime
  <1>10. ASSUME NEW cur \in DOMAIN win, NEW i \in ServerNo, NEW ok \in BOOLEAN,
                PlusServer(i, cur, ok) \/ WindowServer(i, cur, ok)
         PROVE  FALSE
    BY <1>10 DEF PlusServer, WindowServer, Command, OneAtATime
  <1>11. ASSUME NEW cur \in DOMAIN win, NEW ok \in BOOLEAN, Reconnect(cur, ok) PROVE FALSE
    BY <1>11 DEF Reconnect, Command, OneAtATime
  <1> HIDE DEF Right
  <1>12. Right
    BY <1>3, <1>4, <1>5, <1>6, <1>7, <1>8, <1>9, <1>10, <1>11 DEF Input
  <1> QED BY <1>12 DEF Right

(* A registered connection ends in its own turn or in that of the new server. *)
StaysOn(s) ==
    sl[s].connected /\ ~ sl'[s].connected =>
       \/ scan = s /\ pass # "input"
       \/ \E t \in ServerNo \ {s} : LogsIn(t) /\ sl[t].c_server = s

LEMMA SwitchStep ==
  ASSUME OneAtATime, XInv, [Next]_vars
  PROVE  /\ XInv' /\ \A s \in ServerNo : StaysOn(s)
         /\ AutoReconnect /\ Commands \cap {"kill", "minus"} = {} /\ Awaited(Client)
               => Awaited(Client)'
  <1>1. WInv'
    <2>1. AllTogether
      BY DEF OneAtATime, AllTogether
    <2> QED BY <2>1, TogetherStep DEF XInv
  <1>2. Client.sl = sl
    BY XInvParts
  <1>3. ASSUME NEW kind \in {"server", "idle"}, NEW late \in SUBSET ServerNo, StartPass(kind, late)
        PROVE  /\ XInv' /\ (Awaited(Client) => Awaited(Client)')
               /\ \A s \in ServerNo : StaysOn(s)
    BY <1>1, <1>3, StartSwitch DEF XInv, StaysOn
  <1>4. CASE EndPass
    BY <1>1, <1>4, EndSwitch DEF XInv, StaysOn
  <1>5. ASSUME NEW s \in ServerNo, Turn(s)
        PROVE  /\ XInv' /\ (AutoReconnect /\ Awaited(Client) => Awaited(Client)')
               /\ \A t \in ServerNo : StaysOn(t)
    <2>1. /\ LeavesOnly(s) /\ OneSwitch(Client)'
          /\ AutoReconnect /\ Awaited(Client) => Awaited(Client)'
      BY <1>5, TurnsSwitch
    <2>2. PICK c : EndTurn(s, c)
      BY <1>5 DEF Turn, TurnNothing, TurnWelcome, TurnNoPermission, TurnPassword,
                  TurnReconnect, TurnLogIn, TurnClosed, TurnKilled
    <2>3. pass' = pass /\ watched' \subseteq watched /\ scan = s /\ pass # "input"
      BY <2>2 DEF EndTurn
    <2>4. pass' = "idle" => watched' = {}
      BY <2>3 DEF XInv
    <2>5. \A t \in ServerNo : StaysOn(t)
      BY <2>1, <2>3 DEF LeavesOnly, StaysOn
    <2> QED BY <1>1, <2>1, <2>4, <2>5 DEF XInv
  <1>6. CASE Input
    <2>1. pass' = pass /\ watched' = watched
      BY <1>6 DEF Input, MinusServer, Disconnect, WriteFails, PasswordEntered, KillWindow,
                  NextServer, PreviousServer, DisconnectNowhere, WindowDiscon, NewWindow,
                  ServerCommand, PlusServer, WindowServer, Reconnect, Command
    <2> QED BY <1>1, <1>6, <2>1, InputSwitch DEF XInv, StaysOn
  <1>7. CASE UNCHANGED vars
    <2>1. Client' = Client /\ sl' = sl /\ pass' = pass /\ watched' = watched
      BY <1>7 DEF vars, Client
    <2> QED BY <1>1, <2>1 DEF XInv, StaysOn
  <1> QED BY <1>3, <1>4, <1>5, <1>6, <1>7 DEF Next, Pass

LEMMA XInvImplies ==
  ASSUME XInv
  PROVE  OneSuccessor /\ (Awaited(Client) => PendingIsReal)
  <1>1. /\ OneSwitch(Client) /\ Client.sl = sl
        /\ \A s \in ServerNo : sl[s] \in Server /\ Sound(sl[s])
    BY XInvParts
  <1>2. ASSUME NEW s \in ServerNo, NEW t \in Successors(s)
        PROVE  Tried(sl[t]) /\ t \in ServerNo \ {s}
    BY DEF Successors, Connecting, Tried
  <1>3. ASSUME NEW s \in ServerNo PROVE Cardinality(Successors(s)) <= 1
    <2>1. CASE Successors(s) = {}
      BY <2>1, FS_EmptySet
    <2>2. CASE Successors(s) # {}
      <3>1. PICK t : t \in Successors(s)
        BY <2>2
      <3>2. Leads(Client, t)
        BY <1>1, <1>2, <3>1 DEF OneSwitch
      <3>3. \A u \in Successors(s) : u = t
        BY <1>1, <1>2, <3>1, <3>2 DEF Leads
      <3>4. Successors(s) = {t}
        BY <3>1, <3>3
      <3>5. Cardinality({t}) = 1
        BY FS_Singleton
      <3> QED BY <3>4, <3>5
    <2> QED BY <2>1, <2>2
  <1>4. ASSUME Awaited(Client), NEW s \in ServerNo,
               sl[s].logged_in, sl[s].server_change_pending = 2
        PROVE  Successors(s) # {}
    <2>1. On(sl[s])
      BY <1>1, <1>4 DEF Sound, On
    <2>2. PICK t \in ServerNo \ {s} : Tried(sl[t])
      BY <1>1, <1>4, <2>1 DEF Awaited
    <2>3. Leads(Client, t)
      BY <1>1, <2>2 DEF OneSwitch
    <2>4. sl[t].old_server = s
      BY <1>1, <2>1, <2>2, <2>3 DEF Leads
    <2> QED BY <2>2, <2>4 DEF Successors, Connecting, Tried
  <1> QED BY <1>3, <1>4 DEF OneSuccessor, PendingIsReal

LEMMA XInvariant ==
  ASSUME OneAtATime
  PROVE  Spec => []XInv
  BY XInvInit, SwitchStep, PTL DEF Spec

(***************************************************************************)
(* At most one server is about to replace another.  get_connected() does   *)
(* nothing while a connection is asked for, and advance_server() hands a   *)
(* request over and drops it: the windows have one place to go.  It is     *)
(* proved for one switch at a time.                                        *)
(***************************************************************************)
THEOREM OnlyOneSuccessor ==
  ASSUME OneAtATime
  PROVE  Spec => []OneSuccessor
  BY XInvariant, XInvImplies, PTL

(***************************************************************************)
(* close_server() reaches a connection that was welcomed only in its own   *)
(* turn, or from finalize_server_connect() for the server that replaces    *)
(* it: not from /SERVER, a closed window, a failed attempt or the end of   *)
(* another connection.  It is proved for one switch at a time.             *)
(***************************************************************************)
THEOREM OldConnectionStays ==
  ASSUME OneAtATime
  PROVE  Spec => SwitchKeepsOld
  <1>1. XInv /\ [Next]_vars
          => [\A s \in ServerNo :
                sl[s].connected /\ ~ sl'[s].connected =>
                   \/ scan = s /\ pass # "input"
                   \/ \E t \in ServerNo \ {s} : LogsIn(t) /\ sl[t].c_server = s]_vars
    BY SwitchStep DEF StaysOn
  <1> QED BY <1>1, XInvariant, PTL DEF Spec, SwitchKeepsOld

(***************************************************************************)
(* server_change_pending = 2, by which do_server() does not connect again  *)
(* to a server that is being left, is never out of date: the server that   *)
(* is to replace it is being tried.  /SERVER -i and the closing of windows *)
(* may close that server, and without AUTO_RECONNECT it is given up.       *)
(***************************************************************************)
THEOREM LeftForReal ==
  ASSUME OneAtATime, AutoReconnect, Commands \cap {"kill", "minus"} = {}
  PROVE  Spec => []PendingIsReal
  <1>1. Init => XInv /\ Awaited(Client)
    BY XInvInit
  <1>2. XInv /\ Awaited(Client) /\ [Next]_vars => (XInv /\ Awaited(Client))'
    BY SwitchStep
  <1>3. XInv /\ Awaited(Client) => PendingIsReal
    BY XInvImplies
  <1> QED BY <1>1, <1>2, <1>3, PTL DEF Spec

-----------------------------------------------------------------------------
(***************************************************************************)
(* window_check_servers() is defined by what its loop comes to.  At(c, k)  *)
(* is the client, and the local variable, after the first k turns; they    *)
(* are what the loop as it is written has computed by then.                *)
(***************************************************************************)

(* the servers below k that keep a window, and those that have been closed *)
ServedBefore(c, k) == {s \in ServerNo : s < k /\ Open(c, s) /\ HasWindowAt(c, s, s)}
GoneBefore(c, k) == {s \in ServerNo : s < k /\ ClosedByCheck(c, s)}

Greatest(S) == IF S = {} THEN -1 ELSE CHOOSE s \in S : \A t \in S : t <= s

WindowsBefore(c, k) == [w \in DOMAIN c.win |-> WinAt(c, w, k)]

ClientAt(c, k) ==
    CloseAll([c EXCEPT !.win = WindowsBefore(c, k), !.attached = ServedBefore(c, k) # {}],
             GoneBefore(c, k))

At(c, k) == [c |-> ClientAt(c, k), prime |-> Greatest(ServedBefore(c, k))]

(* A client is its fields. *)
LEMMA SameClient ==
  ASSUME NEW c \in Clients, NEW d \in Clients,
         \A s \in ServerNo : c.sl[s] = d.sl[s],
         DOMAIN c.win = DOMAIN d.win, \A w \in DOMAIN c.win : c.win[w] = d.win[w],
         c.primary = d.primary, c.attached = d.attached
  PROVE  c = d
  <1>1. c.sl \in [ServerNo -> Server] /\ d.sl \in [ServerNo -> Server]
    BY ClientParts
  <1>2. c.sl = d.sl
    BY <1>1
  <1>3. c.win \in [DOMAIN c.win -> -1..(N - 1)] /\ d.win \in [DOMAIN d.win -> -1..(N - 1)]
    BY ClientParts, WindowParts
  <1>4. c.win = d.win
    BY <1>3
  <1> QED BY <1>2, <1>4 DEF Clients

LEMMA WindowsBeforeType ==
  ASSUME NEW c \in Clients, NEW k
  PROVE  WindowsBefore(c, k) \in Windows /\ DOMAIN WindowsBefore(c, k) = DOMAIN c.win
  <1>1. /\ DOMAIN c.win \in (SUBSET WindowNo) \ {{}} /\ c.primary \in -1..(N - 1)
        /\ \A w \in DOMAIN c.win : c.win[w] \in -1..(N - 1)
    BY ClientParts, WindowParts
  <1>2. \A w \in DOMAIN c.win : WinAt(c, w, k) \in -1..(N - 1)
    BY <1>1 DEF WinAt
  <1>3. WindowsBefore(c, k) \in [DOMAIN c.win -> -1..(N - 1)]
    BY <1>2 DEF WindowsBefore
  <1> QED BY <1>1, <1>3, WindowsOf

LEMMA ClientAtParts ==
  ASSUME NEW c \in Clients, NEW k
  PROVE  /\ ClientAt(c, k) \in Clients /\ ClientAt(c, k).primary = c.primary
         /\ ClientAt(c, k).attached = (ServedBefore(c, k) # {})
         /\ DOMAIN ClientAt(c, k).win = DOMAIN c.win
         /\ \A w \in DOMAIN c.win : ClientAt(c, k).win[w] = WinAt(c, w, k)
         /\ \A s \in ServerNo :
               ClientAt(c, k).sl[s] = IF s \in GoneBefore(c, k) THEN Closed(c.sl[s]) ELSE c.sl[s]
  <1> DEFINE b == ServedBefore(c, k) # {}
             f == WindowsBefore(c, k)
             a == [c EXCEPT !.win = f, !.attached = b]
             S == GoneBefore(c, k)
             d == CloseAll(a, S)
  <1>1. f \in Windows /\ DOMAIN f = DOMAIN c.win /\ \A w \in DOMAIN c.win : f[w] = WinAt(c, w, k)
    BY WindowsBeforeType DEF WindowsBefore
  <1>2. b \in BOOLEAN
    OBVIOUS
  <1> HIDE DEF f, b
  <1>3. a \in Clients /\ a.sl = c.sl /\ a.win = f /\ a.primary = c.primary /\ a.attached = b
    BY <1>1, <1>2 DEF Clients
  <1> HIDE DEF a, S
  <1>4. /\ d \in Clients /\ d.win = a.win /\ d.primary = a.primary /\ d.attached = a.attached
        /\ \A s \in ServerNo : d.sl[s] = IF s \in S THEN Closed(a.sl[s]) ELSE a.sl[s]
    <2>1. d.primary = a.primary /\ d.attached = a.attached
      BY <1>3 DEF CloseAll, Clients
    <2> QED BY <1>3, <2>1, CloseSeveral DEF Kept
  <1>5. ClientAt(c, k) = d
    BY DEF ClientAt, d, a, b, f, S
  <1> HIDE DEF d
  <1> QED BY <1>1, <1>3, <1>4, <1>5 DEF b, S

(* One turn more: its sets, and its windows. *)
LEMMA TurnParts ==
  ASSUME NEW c \in Clients, NEW s \in ServerNo
  PROVE  /\ ServedBefore(c, s + 1) = IF Open(c, s) /\ HasWindowAt(c, s, s)
                                     THEN ServedBefore(c, s) \cup {s} ELSE ServedBefore(c, s)
         /\ GoneBefore(c, s + 1) = IF ClosedByCheck(c, s)
                                   THEN GoneBefore(c, s) \cup {s} ELSE GoneBefore(c, s)
         /\ s \notin ServedBefore(c, s) /\ s \notin GoneBefore(c, s)
         /\ \A t \in ServedBefore(c, s) : t < s
         /\ \A w \in DOMAIN c.win :
               WinAt(c, w, s + 1) = IF WinAt(c, w, s) = s /\ ~ c.sl[s].open
                                    THEN c.primary ELSE WinAt(c, w, s)
  <1>1. ServerNo = 0..(N - 1) /\ s \in Nat /\ N \in Nat
    BY Bounds DEF ServerNo
  <1>2. \A t \in ServerNo : t < s + 1 <=> t < s \/ t = s
    BY <1>1
  <1>3. ServedBefore(c, s + 1) = IF Open(c, s) /\ HasWindowAt(c, s, s)
                                 THEN ServedBefore(c, s) \cup {s} ELSE ServedBefore(c, s)
    BY <1>2 DEF ServedBefore
  <1>4. GoneBefore(c, s + 1) = IF ClosedByCheck(c, s)
                               THEN GoneBefore(c, s) \cup {s} ELSE GoneBefore(c, s)
    BY <1>2 DEF GoneBefore
  <1>5. s \notin ServedBefore(c, s) /\ s \notin GoneBefore(c, s)
        /\ \A t \in ServedBefore(c, s) : t < s
    BY <1>1 DEF ServedBefore, GoneBefore
  <1>6. ASSUME NEW w \in DOMAIN c.win
        PROVE  WinAt(c, w, s + 1) = IF WinAt(c, w, s) = s /\ ~ c.sl[s].open
                                    THEN c.primary ELSE WinAt(c, w, s)
    <2>1. c.win[w] \in -1..(N - 1)
      BY ClientParts, WindowParts
    <2>2. c.win[w] \in 0..((s + 1) - 1) <=> c.win[w] \in 0..(s - 1) \/ c.win[w] = s
      BY <1>1, <2>1
    <2>3. ~ (s \in 0..(s - 1))
      BY <1>1
    <2> QED BY <2>2, <2>3 DEF WinAt
  <1> QED BY <1>3, <1>4, <1>5, <1>6

LEMMA FirstTurn ==
  ASSUME NEW c \in Clients
  PROVE  At(c, 0) = [c |-> [c EXCEPT !.attached = FALSE], prime |-> -1]
  <1> DEFINE d == [c EXCEPT !.attached = FALSE]
             a == ClientAt(c, 0)
  <1>1. d \in Clients /\ d.sl = c.sl /\ d.win = c.win /\ d.primary = c.primary /\ d.attached = FALSE
    BY DEF Clients
  <1>2. ServedBefore(c, 0) = {} /\ GoneBefore(c, 0) = {}
    BY Bounds DEF ServedBefore, GoneBefore, ServerNo
  <1>3. \A w \in DOMAIN c.win : WinAt(c, w, 0) = c.win[w]
    <2>1. ~ \E i \in 0..(0 - 1) : TRUE
      OBVIOUS
    <2> QED BY <2>1 DEF WinAt
  <1>4. /\ a \in Clients /\ a.primary = c.primary /\ a.attached = FALSE
        /\ DOMAIN a.win = DOMAIN c.win /\ \A w \in DOMAIN c.win : a.win[w] = c.win[w]
        /\ \A s \in ServerNo : a.sl[s] = c.sl[s]
    BY <1>2, <1>3, ClientAtParts
  <1> HIDE DEF a, d
  <1>5. a = d
    <2>1. \A s \in ServerNo : a.sl[s] = d.sl[s]
      BY <1>1, <1>4
    <2>2. DOMAIN a.win = DOMAIN d.win /\ \A w \in DOMAIN a.win : a.win[w] = d.win[w]
      BY <1>1, <1>4
    <2>3. a.primary = d.primary /\ a.attached = d.attached
      BY <1>1, <1>4
    <2> QED BY <1>1, <1>4, <2>1, <2>2, <2>3, SameClient
  <1> QED BY <1>2, <1>5 DEF At, Greatest, a, d

(* What one turn does, to the windows that are at s and to the client. *)
Mine(a, s) == {w \in DOMAIN a.win : a.win[w] = s}
Moved(a, s) == [w \in DOMAIN a.win |-> IF w \in Mine(a, s) THEN a.primary ELSE a.win[w]]

TurnOf(a, p, s) ==
    IF ~ a.sl[s].open THEN [c |-> [a EXCEPT !.win = Moved(a, s)], prime |-> p]
    ELSE IF Mine(a, s) # {} THEN [c |-> [a EXCEPT !.attached = TRUE], prime |-> s]
    ELSE IF a.sl[s].server_change_pending = 0 THEN [c |-> close_server(a, s), prime |-> p]
    ELSE IF a.sl[s].old_server >= 0 /\ \A w \in DOMAIN a.win : a.win[w] # -1
    THEN [c |-> close_server(a, s), prime |-> p]
    ELSE [c |-> a, prime |-> p]

LEMMA TurnIs ==
  ASSUME NEW a, NEW p, NEW s
  PROVE  CheckTurn([c |-> a, prime |-> p], s) = TurnOf(a, p, s)
  <1> DEFINE mine == Mine(a, s)
             f == Moved(a, s)
  <1>1. mine = {w \in DOMAIN a.win : a.win[w] = s}
    BY DEF Mine
  <1>2. f = [w \in DOMAIN a.win |-> IF w \in mine THEN a.primary ELSE a.win[w]]
    BY DEF Moved
  <1> HIDE DEF mine, f
  <1> DEFINE r == [c |-> a, prime |-> p]
  <1>3. r.c = a /\ r.prime = p
    OBVIOUS
  <1>4. [r EXCEPT !.c.win = f] = [c |-> [a EXCEPT !.win = f], prime |-> p]
    OBVIOUS
  <1>5. \A x : [r EXCEPT !.c = x] = [c |-> x, prime |-> p]
    OBVIOUS
  <1> HIDE DEF r
  <1>6. CheckTurn(r, s)
           = IF ~ a.sl[s].open THEN [r EXCEPT !.c.win = f]
             ELSE IF mine # {} THEN [c |-> [a EXCEPT !.attached = TRUE], prime |-> s]
             ELSE IF a.sl[s].server_change_pending = 0 THEN [r EXCEPT !.c = close_server(a, s)]
             ELSE IF a.sl[s].old_server >= 0 /\ \A w \in DOMAIN a.win : a.win[w] # -1
             THEN [r EXCEPT !.c = close_server(a, s)]
             ELSE r
    BY <1>3, <1>1, <1>2 DEF CheckTurn
  <1>7. CheckTurn(r, s)
           = IF ~ a.sl[s].open THEN [c |-> [a EXCEPT !.win = f], prime |-> p]
             ELSE IF mine # {} THEN [c |-> [a EXCEPT !.attached = TRUE], prime |-> s]
             ELSE IF a.sl[s].server_change_pending = 0 THEN [c |-> close_server(a, s), prime |-> p]
             ELSE IF a.sl[s].old_server >= 0 /\ \A w \in DOMAIN a.win : a.win[w] # -1
             THEN [c |-> close_server(a, s), prime |-> p]
             ELSE r
    BY <1>4, <1>5, <1>6
  <1> QED BY <1>7 DEF r, TurnOf, mine, f

(* The loop is at s. *)
LEMMA NextTurn ==
  ASSUME NEW c \in Clients, NEW s \in ServerNo
  PROVE  CheckTurn(At(c, s), s) = At(c, s + 1)
  <1> DEFINE a == ClientAt(c, s)
             b == ClientAt(c, s + 1)
             p == Greatest(ServedBefore(c, s))
             q == Greatest(ServedBefore(c, s + 1))
             mine == Mine(a, s)
             f == Moved(a, s)
  <1>1. /\ a \in Clients /\ a.primary = c.primary /\ a.attached = (ServedBefore(c, s) # {})
        /\ DOMAIN a.win = DOMAIN c.win /\ \A w \in DOMAIN c.win : a.win[w] = WinAt(c, w, s)
        /\ \A t \in ServerNo : a.sl[t] = IF t \in GoneBefore(c, s) THEN Closed(c.sl[t]) ELSE c.sl[t]
    BY ClientAtParts
  <1>2. /\ b \in Clients /\ b.primary = c.primary /\ b.attached = (ServedBefore(c, s + 1) # {})
        /\ DOMAIN b.win = DOMAIN c.win /\ \A w \in DOMAIN c.win : b.win[w] = WinAt(c, w, s + 1)
        /\ \A t \in ServerNo : b.sl[t] = IF t \in GoneBefore(c, s + 1) THEN Closed(c.sl[t]) ELSE c.sl[t]
    BY ClientAtParts
  <1>3. /\ ServedBefore(c, s + 1) = IF Open(c, s) /\ HasWindowAt(c, s, s)
                                    THEN ServedBefore(c, s) \cup {s} ELSE ServedBefore(c, s)
        /\ GoneBefore(c, s + 1) = IF ClosedByCheck(c, s)
                                  THEN GoneBefore(c, s) \cup {s} ELSE GoneBefore(c, s)
        /\ s \notin GoneBefore(c, s)
        /\ \A w \in DOMAIN c.win :
               WinAt(c, w, s + 1) = IF WinAt(c, w, s) = s /\ ~ c.sl[s].open
                                    THEN c.primary ELSE WinAt(c, w, s)
    BY TurnParts
  <1>4. At(c, s) = [c |-> a, prime |-> p] /\ At(c, s + 1) = [c |-> b, prime |-> q]
    BY DEF At
  <1> HIDE DEF a, b, p, q
  <1>5. a.sl[s] = c.sl[s] /\ (Open(c, s) <=> c.sl[s].open)
    BY <1>1, <1>3 DEF Open
  <1>6. mine # {} <=> HasWindowAt(c, s, s)
    BY <1>1 DEF HasWindowAt, Mine
  <1>7. CheckTurn([c |-> a, prime |-> p], s) = TurnOf(a, p, s)
    BY TurnIs
  <1> HIDE DEF mine, f
  <1>8. CASE ~ c.sl[s].open
    <2>1. ServedBefore(c, s + 1) = ServedBefore(c, s) /\ GoneBefore(c, s + 1) = GoneBefore(c, s)
      BY <1>3, <1>5, <1>8 DEF ClosedByCheck
    <2>2. p = q
      BY <2>1 DEF p, q
    <2> DEFINE d == [a EXCEPT !.win = f]
    <2>3. /\ DOMAIN f = DOMAIN c.win
          /\ \A w \in DOMAIN c.win : f[w] = IF WinAt(c, w, s) = s THEN c.primary ELSE WinAt(c, w, s)
      BY <1>1 DEF f, Mine, Moved
    <2>4. \A w \in DOMAIN c.win : f[w] = b.win[w]
      BY <1>2, <1>3, <1>8, <2>3
    <2>5. f \in Windows
      <3>1. f \in [DOMAIN c.win -> -1..(N - 1)]
        <4>1. \A w \in DOMAIN c.win : b.win[w] \in -1..(N - 1)
          BY <1>2, ClientParts, WindowParts
        <4>2. f = [w \in DOMAIN a.win |-> IF w \in mine THEN a.primary ELSE a.win[w]]
          BY DEF f, Moved, mine
        <4>3. DOMAIN f = DOMAIN c.win /\ f = [w \in DOMAIN f |-> f[w]]
          BY <2>3, <4>2
        <4> QED BY <2>4, <4>1, <4>3
      <3>2. DOMAIN c.win \in (SUBSET WindowNo) \ {{}}
        BY ClientParts, WindowParts
      <3> QED BY <3>1, <3>2, WindowsOf
    <2>6. d \in Clients /\ d.sl = a.sl /\ d.win = f /\ d.primary = a.primary /\ d.attached = a.attached
      BY <1>1, <2>5 DEF Clients
    <2> HIDE DEF d
    <2>7. d = b
      <3>1. \A t \in ServerNo : d.sl[t] = b.sl[t]
        BY <1>1, <1>2, <2>1, <2>6
      <3>2. DOMAIN d.win = DOMAIN b.win /\ \A w \in DOMAIN d.win : d.win[w] = b.win[w]
        BY <1>2, <2>3, <2>4, <2>6
      <3>3. d.primary = b.primary /\ d.attached = b.attached
        BY <1>1, <1>2, <2>1, <2>6
      <3> QED BY <1>2, <2>6, <3>1, <3>2, <3>3, SameClient
    <2> QED BY <1>4, <1>5, <1>7, <1>8, <2>2, <2>7 DEF d, TurnOf, mine, f
  <1>9. CASE c.sl[s].open
    <2>1. \A w \in DOMAIN c.win : a.win[w] = b.win[w]
      BY <1>1, <1>2, <1>3, <1>9
    <2>2. CASE mine # {}
      <3>1. HasWindowAt(c, s, s) /\ ~ ClosedByCheck(c, s)
        BY <1>6, <2>2 DEF ClosedByCheck
      <3>2. ServedBefore(c, s + 1) = ServedBefore(c, s) \cup {s} /\ GoneBefore(c, s + 1) = GoneBefore(c, s)
        BY <1>3, <1>5, <1>9, <3>1
      <3>3. q = s
        <4> DEFINE S == ServedBefore(c, s) \cup {s}
        <4>1. S \in SUBSET ServerNo /\ s \in S /\ \A t \in S : t <= s
          <5>1. \A t \in ServedBefore(c, s) : t < s /\ t \in ServerNo
            BY DEF ServedBefore
          <5>2. \A t \in ServerNo : t < s => t <= s
            BY Bounds
          <5>3. s <= s
            BY Bounds
          <5> QED BY <5>1, <5>2, <5>3
        <4> HIDE DEF S
        <4>2. (CHOOSE x \in S : \A t \in S : t <= x) = s
          <5>1. \A x \in S : (\A t \in S : t <= x) => x = s
            <6> SUFFICES ASSUME NEW x \in S, \A t \in S : t <= x PROVE x = s
              OBVIOUS
            <6>1. s <= x /\ x <= s /\ x \in Int /\ s \in Int
              BY <4>1, Bounds
            <6> QED BY <6>1
          <5> QED BY <4>1, <5>1
        <4>3. q = Greatest(S) /\ S # {}
          BY <3>2, <4>1 DEF q, S
        <4> QED BY <4>2, <4>3 DEF Greatest
      <3> DEFINE d == [a EXCEPT !.attached = TRUE]
      <3>4. d \in Clients /\ d.sl = a.sl /\ d.win = a.win /\ d.primary = a.primary /\ d.attached = TRUE
        BY <1>1 DEF Clients
      <3> HIDE DEF d
      <3>5. b.attached = TRUE
        BY <1>2, <3>2
      <3>6. d = b
        <4>1. \A t \in ServerNo : d.sl[t] = b.sl[t]
          BY <1>1, <1>2, <3>2, <3>4
        <4>2. DOMAIN d.win = DOMAIN b.win /\ \A w \in DOMAIN d.win : d.win[w] = b.win[w]
          BY <1>1, <1>2, <2>1, <3>4
        <4>3. d.primary = b.primary /\ d.attached = b.attached
          BY <1>1, <1>2, <3>4, <3>5
        <4> QED BY <1>2, <3>4, <4>1, <4>2, <4>3, SameClient
      <3> QED BY <1>4, <1>5, <1>7, <1>9, <2>2, <3>3, <3>6 DEF d, TurnOf, mine, f
    <2>3. CASE mine = {}
      <3>1. ~ HasWindowAt(c, s, s)
        BY <1>6, <2>3
      <3>2. ServedBefore(c, s + 1) = ServedBefore(c, s)
        BY <1>3, <3>1
      <3>3. p = q
        BY <3>2 DEF p, q
      <3>4. ClosedByCheck(c, s) <=> \/ c.sl[s].server_change_pending = 0
                                    \/ c.sl[s].old_server >= 0 /\ \A w \in DOMAIN a.win : a.win[w] # -1
        <4>1. HasWindowAt(c, -1, s) <=> ~ \A w \in DOMAIN a.win : a.win[w] # -1
          BY <1>1 DEF HasWindowAt
        <4> QED BY <1>5, <1>9, <3>1, <4>1 DEF ClosedByCheck
      <3>5. CASE ClosedByCheck(c, s)
        <4> DEFINE d == close_server(a, s)
        <4>1. /\ d \in Clients /\ Kept(a, d) /\ d.sl[s] = Closed(a.sl[s])
              /\ \A t \in ServerNo : t # s => d.sl[t] = a.sl[t]
          BY <1>1, CloseServer
        <4>2. d.win = a.win /\ d.primary = a.primary /\ d.attached = a.attached
          BY <1>1, CloseIsPut DEF Put, Clients
        <4> HIDE DEF d
        <4>3. GoneBefore(c, s + 1) = GoneBefore(c, s) \cup {s}
          BY <1>3, <3>5
        <4>4. \A t \in ServerNo : d.sl[t] = b.sl[t]
          BY <1>1, <1>2, <1>5, <4>1, <4>3
        <4>5. DOMAIN d.win = DOMAIN b.win /\ \A w \in DOMAIN d.win : d.win[w] = b.win[w]
          BY <1>1, <1>2, <2>1, <4>2
        <4>6. d.primary = b.primary /\ d.attached = b.attached
          BY <1>1, <1>2, <3>2, <4>2
        <4>7. d = b
          BY <1>2, <4>1, <4>4, <4>5, <4>6, SameClient
        <4> QED BY <1>4, <1>5, <1>7, <1>9, <2>3, <3>3, <3>4, <3>5, <4>7 DEF d, TurnOf, mine, f
      <3>6. CASE ~ ClosedByCheck(c, s)
        <4>1. GoneBefore(c, s + 1) = GoneBefore(c, s)
          BY <1>3, <3>6
        <4>2. \A t \in ServerNo : a.sl[t] = b.sl[t]
          BY <1>1, <1>2, <4>1
        <4>3. DOMAIN a.win = DOMAIN b.win /\ a.primary = b.primary /\ a.attached = b.attached
          BY <1>1, <1>2, <3>2
        <4>4. a = b
          BY <1>1, <1>2, <2>1, <4>2, <4>3, SameClient
        <4> QED BY <1>4, <1>5, <1>7, <1>9, <2>3, <3>3, <3>4, <3>6, <4>4 DEF TurnOf, mine
      <3> QED BY <3>5, <3>6
    <2> QED BY <2>2, <2>3
  <1> QED BY <1>8, <1>9

(* The loop's run is that of At(c, k), and no other. *)
LEMMA OnlyRun ==
  ASSUME NEW c \in Clients, NEW g,
         g = [k \in 0..N |-> IF k = 0 THEN [c |-> [c EXCEPT !.attached = FALSE], prime |-> -1]
                             ELSE CheckTurn(g[k - 1], k - 1)]
  PROVE  g = [k \in 0..N |-> At(c, k)]
  <1>1. N \in Nat /\ ServerNo = 0..(N - 1)
    BY Bounds DEF ServerNo
  <1> DEFINE Bad == {k \in 0..N : g[k] # At(c, k)}
  <1>2. Bad = {}
    <2> SUFFICES ASSUME Bad # {} PROVE FALSE
      OBVIOUS
    <2>1. PICK k \in Bad : \A j \in Bad : k <= j
      <3>1. Bad \in SUBSET Nat
        BY <1>1
      <3> HIDE DEF Bad
      <3> QED BY <3>1, LeastElement
    <2>2. k \in 0..N /\ g[k] # At(c, k)
      OBVIOUS
    <2>3. k # 0
      <3>1. 0 \in 0..N
        BY <1>1
      <3>2. g[0] = [c |-> [c EXCEPT !.attached = FALSE], prime |-> -1]
        BY <3>1
      <3> QED BY <2>2, <3>2, FirstTurn
    <2>4. k - 1 \in 0..N /\ k - 1 \in ServerNo /\ (k - 1) + 1 = k /\ ~ (k <= k - 1)
      BY <1>1, <2>2, <2>3
    <2>5. g[k - 1] = At(c, k - 1)
      BY <2>1, <2>4
    <2>6. g[k] = CheckTurn(g[k - 1], k - 1)
      BY <2>2, <2>3
    <2> HIDE DEF Bad
    <2>7. g[k] = At(c, (k - 1) + 1)
      BY <2>4, <2>5, <2>6, NextTurn
    <2> QED BY <2>2, <2>4, <2>7
  <1>3. \A k \in 0..N : g[k] = At(c, k)
    BY <1>2
  <1> HIDE DEF Bad
  <1>4. DOMAIN g = 0..N /\ g = [k \in DOMAIN g |-> g[k]]
    OBVIOUS
  <1> QED BY <1>3, <1>4

LEMMA ThatRun ==
  ASSUME NEW c \in Clients, NEW g, g = [k \in 0..N |-> At(c, k)]
  PROVE  g = [k \in 0..N |-> IF k = 0 THEN [c |-> [c EXCEPT !.attached = FALSE], prime |-> -1]
                             ELSE CheckTurn(g[k - 1], k - 1)]
  <1>1. N \in Nat /\ ServerNo = 0..(N - 1)
    BY Bounds DEF ServerNo
  <1>2. ASSUME NEW k \in 0..N
        PROVE  At(c, k) = IF k = 0 THEN [c |-> [c EXCEPT !.attached = FALSE], prime |-> -1]
                          ELSE CheckTurn(g[k - 1], k - 1)
    <2>1. CASE k = 0
      BY <2>1, FirstTurn
    <2>2. CASE k # 0
      <3>1. k - 1 \in 0..N /\ k - 1 \in ServerNo /\ (k - 1) + 1 = k
        BY <1>1, <2>2
      <3>2. CheckTurn(At(c, k - 1), k - 1) = At(c, (k - 1) + 1)
        BY <3>1, NextTurn
      <3>3. g[k - 1] = At(c, k - 1)
        BY <3>1
      <3> QED BY <2>2, <3>1, <3>2, <3>3
    <2> QED BY <2>1, <2>2
  <1> QED BY <1>2

LEMMA LoopResult ==
  ASSUME NEW c \in Clients
  PROVE  CheckLoop(c) = window_check_servers(c)
  <1> DEFINE g == [k \in 0..N |-> At(c, k)]
             run[k \in 0..N] == IF k = 0 THEN [c |-> [c EXCEPT !.attached = FALSE], prime |-> -1]
                                ELSE CheckTurn(run[k - 1], k - 1)
             r == run[N]
  <1>1. CheckLoop(c) = IF Open(r.c, r.c.primary) THEN r.c
        ELSE [r.c EXCEPT !.win = [w \in DOMAIN @ |-> IF @[w] = r.c.primary THEN r.prime ELSE @[w]],
                         !.primary = r.prime]
    BY DEF CheckLoop
  <1>2. run = g
    <2>1. g = [k \in 0..N |-> IF k = 0 THEN [c |-> [c EXCEPT !.attached = FALSE], prime |-> -1]
                              ELSE CheckTurn(g[k - 1], k - 1)]
      <3> HIDE DEF run
      <3> QED BY ThatRun
    <2>2. \A h : h = [k \in 0..N |-> IF k = 0 THEN [c |-> [c EXCEPT !.attached = FALSE], prime |-> -1]
                                     ELSE CheckTurn(h[k - 1], k - 1)] => h = g
      <3> HIDE DEF run
      <3> QED BY OnlyRun
    <2> HIDE DEF g
    <2> QED BY <2>1, <2>2
  <1>3. r = At(c, N)
    <2>1. N \in 0..N
      BY Bounds
    <2> HIDE DEF run
    <2> QED BY <1>2, <2>1
  <1> HIDE DEF run
  <1>4. r.c = ClientAt(c, N) /\ r.prime = Greatest(ServedBefore(c, N))
    BY <1>3 DEF At
  <1> HIDE DEF r
  <1>5. CheckLoop(c) = NewPrimary(ClientAt(c, N), Greatest(ServedBefore(c, N)))
    BY <1>1, <1>4 DEF NewPrimary
  <1>6. /\ ServedBefore(c, N) = {s \in ServerNo : Open(c, s) /\ HasWindowAt(c, s, s)}
        /\ GoneBefore(c, N) = {s \in ServerNo : ClosedByCheck(c, s)}
    <2>1. \A s \in ServerNo : s < N
      BY Bounds DEF ServerNo
    <2> QED BY <2>1 DEF ServedBefore, GoneBefore
  <1>7. window_check_servers(c)
           = NewPrimary(CloseAll([c EXCEPT !.win = WindowsBefore(c, N), !.attached = ServedBefore(c, N) # {}],
                                 GoneBefore(c, N)),
                        Greatest(ServedBefore(c, N)))
    BY <1>6 DEF window_check_servers, Greatest, WindowsBefore
  <1> QED BY <1>5, <1>7 DEF ClientAt

(***************************************************************************)
(* window_check_servers() visits the servers in turn, closes them, moves   *)
(* the windows of closed ones and remembers the last server that has a     *)
(* window, each turn on what the turns before it left.  In every state of  *)
(* the program it comes to what the model says it does at one stroke.      *)
(***************************************************************************)
THEOREM CheckComesToTheLoop == Spec => []CheckIsTheLoop
  <1>1. SInv => CheckIsTheLoop
    BY LoopResult DEF SInv, Good, CheckIsTheLoop
  <1> QED BY <1>1, ServerInvariant, PTL

-----------------------------------------------------------------------------
(* Every window is with a server *)

(***************************************************************************)
(* The commands and events that close no server under its windows:         *)
(* get_connected() and a failed write do, until the next check; so does    *)
(* the question for a password.  A server /WINDOW SERVER has asked for is  *)
(* tried only once.                                                        *)
(***************************************************************************)
ChecksFollow ==
    /\ Commands \cap {"server", "next", "window server"} = {}
    /\ Events \cap {"passwd", "unwritable"} = {}

(* No server is tried only once. *)
TriesAgain(c) == \A s \in ServerNo : ~ c.sl[s].try_once

(* The windows' servers are open or are going to be opened. *)
Attended(c) == \A w \in DOMAIN c.win :
                c.win[w] # -1 => c.sl[c.win[w]].open \/ c.sl[c.win[w]].reconnect

(* From c to d no server begins to be tried only once. *)
Insists(c, d) == \A s \in ServerNo : d.sl[s].try_once => c.sl[s].try_once

LEMMA InsistsTries ==
  ASSUME NEW c, NEW d, Insists(c, d), TriesAgain(c)
  PROVE  TriesAgain(d)
  BY DEF Insists, TriesAgain

LEMMA InsistsTrans ==
  ASSUME NEW c, NEW d, NEW e, Insists(c, d), Insists(d, e)
  PROVE  Insists(c, e)
  BY DEF Insists

LEMMA InsistsSelf == ASSUME NEW c PROVE Insists(c, c)
  BY DEF Insists

LEMMA PutInsists ==
  ASSUME NEW c \in Clients, NEW s \in ServerNo, NEW r \in Server, r.try_once => c.sl[s].try_once
  PROVE  Insists(c, Put(c, s, r))
  <1> DEFINE d == Put(c, s, r)
  <1>1. d.sl[s] = r /\ \A t \in ServerNo \ {s} : d.sl[t] = c.sl[t]
    BY PutClient
  <1> HIDE DEF d
  <1>2. Insists(c, d)
    BY <1>1 DEF Insists
  <1> QED BY <1>2 DEF d

LEMMA ClosedInsists ==
  ASSUME NEW c \in Clients, NEW d, \A t \in ServerNo : d.sl[t] \in {c.sl[t], Closed(c.sl[t])}
  PROVE  Insists(c, d)
  <1>1. \A t \in ServerNo : c.sl[t] \in Server
    BY ClientParts
  <1>2. \A t \in ServerNo : ~ Closed(c.sl[t]).try_once
    BY <1>1 DEF Closed, Reset, Server
  <1> QED BY <1>2 DEF Insists

LEMMA CloseInsists ==
  ASSUME NEW c \in Clients, NEW s
  PROVE  Insists(c, close_server(c, s))
  <1>1. \A t \in ServerNo : close_server(c, s).sl[t] \in {c.sl[t], Closed(c.sl[t])}
    BY CloseServer
  <1> QED BY <1>1, ClosedInsists

LEMMA CloseUnattachedInsists ==
  ASSUME NEW c \in Clients
  PROVE  Insists(c, close_unattached_servers(c))
  <1> DEFINE d == close_unattached_servers(c)
  <1>1. \A t \in ServerNo : d.sl[t] \in {c.sl[t], Closed(c.sl[t])}
    BY CloseSeveral DEF close_unattached_servers
  <1> HIDE DEF d
  <1>2. Insists(c, d)
    BY <1>1, ClosedInsists
  <1> QED BY <1>2 DEF d

LEMMA CheckInsists ==
  ASSUME NEW c \in Clients
  PROVE  Insists(c, window_check_servers(c))
  BY WindowCheck, ClosedInsists

LEMMA ConnectInsists ==
  ASSUME NEW c \in Clients, NEW s \in ServerNo, NEW old \in -2..(N - 1), NEW ok
  PROVE  Insists(c, connect_to_server_by_refnum(c, s, old, ok))
  <1> DEFINE p == Opening(c.sl[s], TRUE, old, 1)
             b == Put(c, s, p)
             q == Leaving(b.sl[old], 2)
             d == Put(b, old, q)
             e == connect_to_server_by_refnum(c, s, old, ok)
  <1>1. e = IF c.sl[s].open \/ ~ ok THEN c ELSE IF old \in ServerNo THEN d ELSE b
    BY DEF connect_to_server_by_refnum, Put, Opening, Leaving
  <1>2. c.sl[s] \in Server
    BY ClientParts
  <1>3. p \in Server /\ p.try_once = c.sl[s].try_once
    <2>1. TRUE \in BOOLEAN /\ 1 \in 0..2
      OBVIOUS
    <2>2. p \in Server
      BY <1>2, <2>1, OpeningEntry, Zenon
    <2>3. p.try_once = c.sl[s].try_once
      BY <1>2 DEF Opening, Server
    <2> QED BY <2>2, <2>3
  <1> HIDE DEF p
  <1>4. b \in Clients /\ Insists(c, b)
    BY <1>3, PutClient, PutInsists
  <1> HIDE DEF b
  <1>5. old \in ServerNo => Insists(b, d)
    <2> SUFFICES ASSUME old \in ServerNo PROVE Insists(b, d)
      OBVIOUS
    <2>1. b.sl[old] \in Server
      BY <1>4, ClientParts
    <2>2. q \in Server /\ q.try_once = b.sl[old].try_once
      <3>1. q \in Server
        BY <2>1, LeavingEntry
      <3> QED BY <2>1, <3>1 DEF Leaving, Server
    <2> HIDE DEF q
    <2> QED BY <1>4, <2>2, PutInsists
  <1> HIDE DEF d, e
  <1>6. Insists(c, e)
    BY <1>1, <1>4, <1>5, InsistsTrans, InsistsSelf
  <1> QED BY <1>6 DEF e

LEMMA HandOverInsists ==
  ASSUME NEW c \in Clients, NEW i \in ServerNo, NEW nxt \in ServerNo, nxt # i
  PROVE  Insists(c, HandOver(c, i, nxt))
  <1> DEFINE o == c.sl[i]
             p == TakeOver(c.sl[nxt], TRUE, 0, o.req_server, o.old_server,
                           o.server_change_refnum, o.c_server)
             b == Put(c, nxt, p)
             q == GiveUp(b.sl[i], FALSE, 0, -1)
             d == Put(b, i, q)
  <1>1. HandOver(c, i, nxt) = d
    BY DEF HandOver, Put, TakeOver, GiveUp
  <1>2. /\ c.sl[nxt] \in Server /\ o \in Server
        /\ TRUE \in BOOLEAN /\ FALSE \in BOOLEAN /\ 0 \in 0..RetryCap /\ -1 \in -1..(N - 1)
    BY ClientParts, Bounds
  <1>3. /\ o.req_server \in -1..(N - 1) /\ o.old_server \in -2..(N - 1)
        /\ o.server_change_refnum \in -1..W /\ o.c_server \in -2..(N - 1)
    BY <1>2, ServerFields
  <1> HIDE DEF o
  <1>4. p \in Server
    BY <1>2, <1>3, TakeOverEntry, Zenon
  <1>5. p.try_once = c.sl[nxt].try_once
    BY <1>2 DEF TakeOver, Server
  <1> HIDE DEF p
  <1>6. b \in Clients /\ Insists(c, b)
    BY <1>4, <1>5, PutClient, PutInsists
  <1> HIDE DEF b
  <1>7. b.sl[i] \in Server
    BY <1>6, ClientParts
  <1>8. q \in Server
    BY <1>2, <1>7, GiveUpEntry, Zenon
  <1>9. q.try_once = b.sl[i].try_once
    BY <1>7 DEF GiveUp, Server
  <1> HIDE DEF q
  <1>10. Insists(b, d)
    BY <1>6, <1>8, <1>9, PutInsists
  <1> HIDE DEF d
  <1> QED BY <1>1, <1>6, <1>10, InsistsTrans

LEMMA RetriedInsists ==
  ASSUME NEW c \in Clients, NEW i \in ServerNo
  PROVE  Insists(c, Retried(c, i))
  <1> DEFINE n == IF c.sl[i].retries < RetryCap THEN c.sl[i].retries + 1 ELSE RetryCap
             r == [c.sl[i] EXCEPT !.retries = n]
  <1>1. Retried(c, i) = Put(c, i, r)
    BY DEF Retried, Put
  <1>2. c.sl[i] \in Server /\ c.sl[i].retries \in 0..RetryCap /\ RetryCap \in Nat
    BY ClientParts, ServerFields, Bounds
  <1>3. n \in 0..RetryCap
    BY <1>2
  <1> HIDE DEF n
  <1>4. r \in Server
    <2>1. 0 \in -2..(N - 1) /\ 0 \in -1..(N - 1)
      BY Bounds
    <2> QED BY <1>2, <1>3, <2>1, NumberChanges
  <1>5. r.try_once = c.sl[i].try_once
    BY <1>2 DEF Server
  <1> HIDE DEF r
  <1> QED BY <1>1, <1>4, <1>5, PutInsists

(* With AUTO_RECONNECT advance_server() always finds a server. *)
LEMMA AdvanceInsists ==
  ASSUME AutoReconnect, NEW c \in Clients, NEW i \in ServerNo, ~ c.sl[i].open
  PROVE  /\ advance_server(c, i).client \in Clients
         /\ advance_server(c, i).server \in ServerNo
         /\ Insists(c, advance_server(c, i).client)
  <1> DEFINE c1  == Retried(c, i)
             nxt == IF c1.sl[i].retries >= MaxReconnect THEN next_server(c1, i) ELSE i
             c2  == IF nxt = i THEN c1 ELSE HandOver(c1, i, nxt)
             adv == advance_server(c, i)
  <1>1. adv = [client |-> c2, server |-> nxt]
    BY DEF advance_server, GivesUp
  <1>2. c1 \in Clients /\ Insists(c, c1) /\ ~ c1.sl[i].open
    BY CountsRetry, RetriedInsists
  <1> HIDE DEF c1
  <1>3. nxt \in ServerNo
    BY <1>2, NextServerNo
  <1> HIDE DEF nxt
  <1>4. c2 \in Clients /\ Insists(c1, c2)
    BY <1>2, <1>3, HandsOver, HandOverInsists, InsistsSelf
  <1> HIDE DEF c2, adv
  <1>5. adv.client \in Clients /\ adv.server \in ServerNo /\ Insists(c, adv.client)
    BY <1>1, <1>2, <1>3, <1>4, InsistsTrans
  <1> QED BY <1>5 DEF adv

(* After a check every window is with an open server, or there is none, and *)
(* the primary server is open, or there is none.                            *)
LEMMA CheckServes ==
  ASSUME NEW c \in Clients
  PROVE  /\ Attended(window_check_servers(c))
         /\ \/ window_check_servers(c).primary = -1
            \/ Open(window_check_servers(c), window_check_servers(c).primary)
  <1> DEFINE served == {s \in ServerNo : Open(c, s) /\ HasWindowAt(c, s, s)}
             prime  == IF served = {} THEN -1
                       ELSE CHOOSE s \in served : \A t \in served : t <= s
             gone   == {s \in ServerNo : ClosedByCheck(c, s)}
             a      == [c EXCEPT !.win = WindowsAfter(c), !.attached = served # {}]
             b      == CloseAll(a, gone)
             p      == c.primary
             d      == NewPrimary(b, prime)
  <1>1. window_check_servers(c) = d
    BY DEF window_check_servers, WindowsAfter
  <1>2. /\ a \in Clients /\ a.sl = c.sl /\ a.win = WindowsAfter(c) /\ a.primary = p
        /\ DOMAIN a.win = DOMAIN c.win
    <2>1. (served # {}) \in BOOLEAN
      OBVIOUS
    <2> HIDE DEF served
    <2> QED BY <2>1, WindowsAfterType DEF Clients
  <1>3. prime = -1 \/ prime \in served
    <2>1. served \in SUBSET ServerNo
      OBVIOUS
    <2> HIDE DEF served
    <2> QED BY <2>1, GreatestServer
  <1>4. \A s \in served : s \in ServerNo /\ c.sl[s].open /\ s \notin gone
    BY DEF Open, ClosedByCheck
  <1> HIDE DEF a, prime
  <1>5. /\ b \in Clients /\ b.win = a.win /\ b.primary = a.primary
        /\ \A s \in ServerNo : b.sl[s] = IF s \in gone THEN Closed(a.sl[s]) ELSE a.sl[s]
    BY <1>2, CloseSeveral DEF Kept
  <1>6. \A s \in served : b.sl[s].open
    <2> HIDE DEF served, gone
    <2> QED BY <1>2, <1>4, <1>5
  <1>7. ASSUME NEW w \in DOMAIN c.win
        PROVE  b.win[w] \in {-1, p} \/ b.win[w] \in served
    <2>1. b.win[w] = WinAt(c, w, N) /\ c.win[w] \in -1..(N - 1) /\ N \in Nat /\ ServerNo = 0..(N - 1)
      BY <1>2, <1>5, ClientParts, WindowParts, Bounds DEF WindowsAfter, ServerNo
    <2>2. CASE c.win[w] = -1
      BY <2>1, <2>2 DEF WinAt
    <2>3. CASE c.win[w] # -1 /\ ~ c.sl[c.win[w]].open
      BY <2>1, <2>3 DEF WinAt
    <2>4. CASE c.win[w] # -1 /\ c.sl[c.win[w]].open
      <3>1. c.win[w] \in ServerNo /\ WinAt(c, w, N) = c.win[w]
        BY <2>1, <2>4 DEF WinAt
      <3>2. WinAt(c, w, c.win[w]) = c.win[w]
        BY <2>4 DEF WinAt
      <3>3. c.win[w] \in served
        BY <2>4, <3>1, <3>2 DEF Open, HasWindowAt
      <3> QED BY <2>1, <3>1, <3>3
    <2> QED BY <2>2, <2>3, <2>4
  <1> HIDE DEF b, served, gone
  <1>8. CASE Open(b, b.primary)
    <2>1. d = b /\ b.sl[p].open /\ Open(d, d.primary)
      BY <1>2, <1>5, <1>8 DEF NewPrimary, Open
    <2> HIDE DEF d
    <2>2. Attended(d)
      BY <1>2, <1>5, <1>6, <1>7, <2>1 DEF Attended
    <2> QED BY <1>1, <2>1, <2>2
  <1>9. CASE ~ Open(b, b.primary)
    <2> DEFINE f == [w \in DOMAIN b.win |-> IF b.win[w] = b.primary THEN prime ELSE b.win[w]]
    <2>1. d = [b EXCEPT !.win = f, !.primary = prime]
      BY <1>9 DEF NewPrimary
    <2>2. DOMAIN f = DOMAIN c.win /\ \A w \in DOMAIN c.win : f[w] = -1 \/ f[w] \in served
      BY <1>2, <1>3, <1>5, <1>7
    <2> HIDE DEF f
    <2>3. d.win = f /\ d.sl = b.sl /\ d.primary = prime
      BY <1>5, <2>1 DEF Clients
    <2> HIDE DEF d
    <2>4. Attended(d)
      BY <1>6, <2>2, <2>3 DEF Attended
    <2>5. d.primary = -1 \/ Open(d, d.primary)
      BY <1>3, <1>4, <1>6, <2>3 DEF Open
    <2> QED BY <1>1, <2>4, <2>5
  <1> QED BY <1>8, <1>9

(* What the commands and events of ChecksFollow keep. *)
Well(c) == TriesAgain(c) /\ Attended(c)

LEMMA CheckWell ==
  ASSUME NEW c \in Clients, TriesAgain(c)
  PROVE  window_check_servers(c) \in Clients /\ Well(window_check_servers(c))
  BY CheckedGood, CheckInsists, InsistsTries, CheckServes DEF Well, Good

LEMMA CloseTries ==
  ASSUME NEW c \in Clients, TriesAgain(c), NEW s
  PROVE  /\ close_server(c, s) \in Clients /\ TriesAgain(close_server(c, s))
         /\ close_server(c, s).win = c.win
  BY CloseServer, CloseInsists, InsistsTries DEF Kept

LEMMA GrowsWell ==
  ASSUME NEW c \in Clients, NEW d, Well(c), Grows(c, d), Insists(c, d), d.win = c.win
  PROVE  Well(d)
  <1>1. \A w \in DOMAIN c.win : c.win[w] # -1 => c.win[w] \in ServerNo
    BY ClientParts, WindowParts DEF ServerNo
  <1>2. TriesAgain(d)
    BY InsistsTries DEF Well
  <1> QED BY <1>1, <1>2 DEF Well, Attended, Grows

LEMMA ConnectWell ==
  ASSUME NEW c \in Clients, Well(c), NEW s \in ServerNo, NEW old \in -2..(N - 1), NEW ok
  PROVE  Well(connect_to_server_by_refnum(c, s, old, ok))
  BY Connects, ConnectGrows, ConnectInsists, GrowsWell DEF Kept

(* try_connect() *)
LEMMA TryWell ==
  ASSUME NEW c \in Clients, Well(c), NEW s \in ServerNo, NEW ok
  PROVE  Well(try_connect(c, s, ok))
  <1> DEFINE old == c.sl[s].old_server
             b   == connect_to_server_by_refnum(c, s, old, ok)
             yes == b.sl[s].reconnect \/ ConnectFails(c, s, ok)
             r   == [b.sl[s] EXCEPT !.reconnect = yes]
             d   == Put(b, s, r)
  <1>1. try_connect(c, s, ok) = d
    BY DEF try_connect, Put
  <1>2. old \in -2..(N - 1)
    BY ClientParts, ServerFields
  <1> HIDE DEF old
  <1>3. b \in Clients /\ Insists(c, b) /\ b.win = c.win
    BY <1>2, Connects, ConnectInsists DEF Kept
  <1> HIDE DEF b
  <1>4. b.sl[s] \in Server
    BY <1>3, ClientParts
  <1>5. yes \in BOOLEAN
    OBVIOUS
  <1> HIDE DEF yes
  <1>6. r \in Server /\ r.try_once = b.sl[s].try_once
    <2>1. r \in Server
      BY <1>4, <1>5, FieldChanges
    <2> QED BY <1>4, <1>5, <2>1 DEF Server
  <1> HIDE DEF r
  <1>7. Insists(b, d) /\ d.win = b.win
    BY <1>3, <1>6, PutInsists, PutClient
  <1> HIDE DEF d
  <1>8. Insists(c, d) /\ d.win = c.win
    BY <1>3, <1>7, InsistsTrans
  <1>9. Grows(c, d)
    BY <1>1, TryGrows
  <1> QED BY <1>1, <1>8, <1>9, GrowsWell

(* reconnect_server() *)
LEMMA RetriesWell ==
  ASSUME AutoReconnect, NEW c \in Clients, TriesAgain(c), NEW s \in ServerNo, NEW ok
  PROVE  Well(reconnect_server(c, s, ok))
  <1> DEFINE a   == close_server(c, s)
             adv == advance_server(a, s)
             e   == adv.client
             n   == adv.server
             r   == [e.sl[n] EXCEPT !.reconnect = FALSE]
             f   == Put(e, n, r)
             g   == window_check_servers(f)
             h   == try_connect(g, n, ok)
  <1>1. reconnect_server(c, s, ok) = IF n = -1 THEN e ELSE h
    BY DEF reconnect_server, Put
  <1>2. a \in Clients /\ TriesAgain(a) /\ ~ a.sl[s].open
    BY CloseServer, CloseTries
  <1> HIDE DEF a
  <1>3. n \in ServerNo /\ e \in Clients /\ Insists(a, e)
    BY <1>2, AdvanceInsists
  <1> HIDE DEF adv, e, n
  <1>4. n # -1 /\ TriesAgain(e) /\ e.sl[n] \in Server
    BY <1>2, <1>3, InsistsTries, ClientParts DEF ServerNo
  <1>5. r \in Server /\ r.try_once = e.sl[n].try_once
    <2>1. r \in Server
      BY <1>4, FieldChanges
    <2> QED BY <1>4, <2>1 DEF Server
  <1> HIDE DEF r
  <1>6. f \in Clients /\ TriesAgain(f)
    BY <1>3, <1>4, <1>5, PutClient, PutInsists, InsistsTries
  <1> HIDE DEF f
  <1>7. g \in Clients /\ Well(g)
    BY <1>6, CheckWell
  <1> HIDE DEF g
  <1>8. Well(h)
    BY <1>3, <1>7, TryWell
  <1> HIDE DEF h
  <1> QED BY <1>1, <1>4, <1>8

(* set_window_server() *)
LEMMA SetsWell ==
  ASSUME NEW c \in Clients, TriesAgain(c), NEW ref, NEW s \in ServerNo, NEW cur \in DOMAIN c.win
  PROVE  Well(set_window_server(c, ref, s, cur))
  <1>1. s \in -1..(N - 1)
    BY Bounds
  <1>2. /\ DOMAIN c.win \in (SUBSET WindowNo) \ {{}} /\ c.win \in [DOMAIN c.win -> -1..(N - 1)]
        /\ \A w \in DOMAIN c.win : c.win[w] \in -1..(N - 1)
    BY ClientParts, WindowParts
  <1>3. CASE ref = -1
    <2> DEFINE f == [w \in DOMAIN c.win |-> IF c.win[w] = c.primary THEN s ELSE c.win[w]]
               a == [c EXCEPT !.win = f]
               b == window_check_servers(a)
               d == [b EXCEPT !.primary = s]
    <2>1. set_window_server(c, ref, s, cur) = d
      BY <1>3 DEF set_window_server
    <2>2. f \in [DOMAIN c.win -> -1..(N - 1)]
      BY <1>1, <1>2
    <2> HIDE DEF f
    <2>3. f \in Windows
      BY <1>2, <2>2, WindowsOf
    <2>4. a \in Clients /\ a.sl = c.sl
      BY <2>3 DEF Clients
    <2> HIDE DEF a
    <2>5. b \in Clients /\ Well(b)
      BY <2>4, CheckWell DEF TriesAgain
    <2> HIDE DEF b
    <2>6. d.sl = b.sl /\ d.win = b.win
      BY <2>5 DEF Clients
    <2> HIDE DEF d
    <2> QED BY <2>1, <2>5, <2>6 DEF Well, TriesAgain, Attended
  <1>4. CASE ref # -1
    <2> DEFINE v == IF ref \in DOMAIN c.win THEN ref ELSE cur
               f == [c.win EXCEPT ![v] = s]
               a == [c EXCEPT !.win = f]
    <2>1. set_window_server(c, ref, s, cur) = window_check_servers(a)
      BY <1>4 DEF set_window_server
    <2>2. f \in [DOMAIN c.win -> -1..(N - 1)]
      BY <1>1, <1>2
    <2> HIDE DEF f
    <2>3. f \in Windows
      BY <1>2, <2>2, WindowsOf
    <2>4. a \in Clients /\ a.sl = c.sl
      BY <2>3 DEF Clients
    <2> HIDE DEF a
    <2> QED BY <2>1, <2>4, CheckWell DEF TriesAgain
  <1> QED BY <1>3, <1>4

LEMMA AddsWell ==
  ASSUME NEW c \in Clients, Well(c), NEW s \in ServerNo, NEW cur \in DOMAIN c.win, NEW ok
  PROVE  Well(AddServer(c, s, cur, ok))
  <1> DEFINE c1 == connect_to_server_by_refnum(c, s, -1, ok)
             d  == set_window_server(c1, 0, s, cur)
  <1>1. AddServer(c, s, cur, ok) = IF ConnectFails(c, s, ok) THEN c ELSE d
    BY DEF AddServer
  <1>2. c1 \in Clients /\ c1.win = c.win /\ Insists(c, c1)
    BY Connects, ConnectInsists, Bounds DEF Kept
  <1> HIDE DEF c1
  <1>3. Well(d)
    BY <1>2, InsistsTries, SetsWell DEF Well
  <1> HIDE DEF d
  <1> QED BY <1>1, <1>3

(* finalize_server_connect() *)
LEMMA FinalizeWell ==
  ASSUME NEW c \in Clients, TriesAgain(c), NEW s \in ServerNo, NEW cur \in DOMAIN c.win
  PROVE  Well(finalize_server_connect(c, s, cur))
  <1> DEFINE old == c.sl[s].c_server
             p   == [c.sl[old] EXCEPT !.old_server = -1]
             a   == Put(c, old, p)
             b   == LeaveOld(c, s)
             q   == Welcomed(b.sl[s], TRUE, FALSE, -1, 0)
             d   == Put(b, s, q)
             ref == c.sl[s].server_change_refnum
             e   == set_window_server(d, ref, s, cur)
             r   == [e.sl[s] EXCEPT !.req_server = 0]
             g   == Put(e, s, r)
  <1>1. finalize_server_connect(c, s, cur) = g
    BY DEF finalize_server_connect, LoggedIn, Put, Welcomed
  <1>2. b = IF old \in ServerNo /\ old # s THEN close_server(a, old) ELSE c
    BY DEF LeaveOld, Put
  <1>3. 0 \in -1..(N - 1) /\ -1 \in -2..(N - 1) /\ 0 \in 0..RetryCap /\ 0 \in 0..2
        /\ TRUE \in BOOLEAN /\ FALSE \in BOOLEAN
    BY Bounds
  <1> HIDE DEF b
  <1>4. b \in Clients /\ b.win = c.win /\ TriesAgain(b)
    <2>1. CASE old \in ServerNo /\ old # s
      <3>1. c.sl[old] \in Server
        BY <2>1, ClientParts
      <3>2. p \in Server /\ p.try_once = c.sl[old].try_once
        <4>1. p \in Server
          BY <1>3, <3>1, NumberChanges
        <4> QED BY <3>1, <4>1 DEF Server
      <3> HIDE DEF p
      <3>3. a \in Clients /\ a.win = c.win /\ TriesAgain(a)
        BY <2>1, <3>2, PutClient, PutInsists, InsistsTries
      <3> HIDE DEF a
      <3> QED BY <1>2, <2>1, <3>3, CloseTries
    <2>2. CASE ~ (old \in ServerNo /\ old # s)
      BY <1>2, <2>2
    <2> QED BY <2>1, <2>2
  <1>5. b.sl[s] \in Server
    BY <1>4, ClientParts
  <1>6. q \in Server /\ ~ q.try_once
    <2>1. q \in Server
      BY <1>3, <1>5, WelcomedEntry, Zenon
    <2> QED BY <1>5, <2>1 DEF Welcomed, Server
  <1> HIDE DEF q
  <1>7. d \in Clients /\ d.win = c.win /\ TriesAgain(d)
    BY <1>4, <1>6, PutClient, PutInsists, InsistsTries
  <1> HIDE DEF d, ref
  <1>8. Good(e) /\ Well(e)
    BY <1>7, SetsWindow, SetsWell
  <1> HIDE DEF e
  <1>9. e \in Clients /\ e.sl[s] \in Server
    BY <1>8, ClientParts DEF Good
  <1>10. /\ r \in Server /\ r.try_once = e.sl[s].try_once
         /\ r.open = e.sl[s].open /\ r.reconnect = e.sl[s].reconnect
    <2>1. r \in Server
      BY <1>3, <1>9, NumberChanges
    <2> QED BY <1>9, <2>1 DEF Server
  <1> HIDE DEF r
  <1>11. /\ Insists(e, g) /\ g.win = e.win /\ g.attached = e.attached /\ g.sl[s] = r
         /\ \A t \in ServerNo \ {s} : g.sl[t] = e.sl[t]
    BY <1>9, <1>10, PutInsists, PutClient
  <1> HIDE DEF g
  <1>12. Grows(e, g)
    BY <1>10, <1>11 DEF Grows
  <1> QED BY <1>1, <1>8, <1>9, <1>11, <1>12, GrowsWell

(* The end of a connection: it is going to be made again. *)
LEMMA ClosedWell ==
  ASSUME NEW c \in Clients, Well(c), NEW s \in ServerNo
  PROVE  Well(ConnectionClosed(c, s))
  <1> DEFINE a == close_server(c, s)
             o == IF c.sl[s].connect_wait THEN a.sl[s].old_server ELSE s
             p == [a.sl[s] EXCEPT !.reconnect = TRUE]
             b == Put(a, s, p)
             q == [b.sl[s] EXCEPT !.old_server = o]
             d == Put(b, s, q)
  <1>1. /\ a \in Clients /\ TriesAgain(a) /\ a.win = c.win
        /\ \A t \in ServerNo : t # s => a.sl[t] = c.sl[t]
    BY CloseTries, CloseServer DEF Well
  <1>2. s \in DOMAIN a.sl /\ a.sl[s] \in Server
    BY <1>1, ClientParts
  <1>3. ConnectionClosed(c, s) = d
    <2> DEFINE e == [a EXCEPT !.sl[s].reconnect = TRUE,
                              !.sl[s].old_server = IF c.sl[s].connect_wait THEN @ ELSE s]
    <2>1. ConnectionClosed(c, s) = e
      BY DEF ConnectionClosed, Well, TriesAgain
    <2> HIDE DEF a
    <2>2. e = d
      BY <1>2 DEF Put, Server
    <2> QED BY <2>1, <2>2
  <1> HIDE DEF a
  <1>4. o \in -2..(N - 1)
    BY <1>2, ServerFields, Bounds
  <1> HIDE DEF o
  <1>5. p \in Server /\ p.reconnect /\ p.try_once = a.sl[s].try_once
    <2>1. p \in Server
      BY <1>2, FieldChanges
    <2> QED BY <1>2, <2>1 DEF Server
  <1> HIDE DEF p
  <1>6. /\ b \in Clients /\ b.sl[s] = p /\ Insists(a, b) /\ b.win = a.win
        /\ \A t \in ServerNo \ {s} : b.sl[t] = a.sl[t]
    BY <1>1, <1>5, PutClient, PutInsists
  <1> HIDE DEF b
  <1>7. q \in Server /\ q.reconnect /\ q.try_once = b.sl[s].try_once
    <2>1. b.sl[s] \in Server /\ b.sl[s].reconnect
      BY <1>5, <1>6
    <2>2. 0 \in -1..(N - 1) /\ 0 \in 0..RetryCap
      BY Bounds
    <2>3. q \in Server
      BY <1>4, <2>1, <2>2, NumberChanges
    <2> QED BY <2>1, <2>3 DEF Server
  <1> HIDE DEF q
  <1>8. /\ d.sl[s] = q /\ Insists(b, d) /\ d.win = b.win
        /\ \A t \in ServerNo \ {s} : d.sl[t] = b.sl[t]
    BY <1>6, <1>7, PutClient, PutInsists
  <1> HIDE DEF d
  <1>9. TriesAgain(d)
    BY <1>1, <1>6, <1>8, InsistsTries
  <1>10. d.win = c.win /\ d.sl[s].reconnect /\ \A t \in ServerNo \ {s} : d.sl[t] = c.sl[t]
    BY <1>1, <1>6, <1>7, <1>8
  <1>11. \A w \in DOMAIN c.win : c.win[w] # -1 => c.win[w] \in ServerNo
    BY ClientParts, WindowParts DEF ServerNo
  <1>12. Attended(d)
    BY <1>10, <1>11 DEF Well, Attended
  <1> QED BY <1>3, <1>9, <1>12 DEF Well

(* Numeric 463: the server that is closed is never the primary one after the check. *)
LEMMA DeniesWell ==
  ASSUME NEW c \in Clients, TriesAgain(c), NEW s \in ServerNo
  PROVE  Well(NoPermission(c, s))
  <1> DEFINE a == close_server(c, s)
             b == window_check_servers(a)
  <1>1. a \in Clients /\ TriesAgain(a) /\ ~ a.sl[s].open /\ a.sl[s] \in Server
    BY CloseTries, CloseServer, ClientParts
  <1> HIDE DEF a
  <1>2. b \in Clients /\ Well(b)
    BY <1>1, CheckWell
  <1>3. b.sl[s] \in {a.sl[s], Closed(a.sl[s])} /\ (b.primary = -1 \/ Open(b, b.primary))
    BY <1>1, WindowCheck, CheckServes
  <1> HIDE DEF b
  <1>4. ~ b.sl[s].open /\ s # -1
    BY <1>1, <1>3, ClosedEntry DEF ServerNo
  <1>5. b.primary # s
    BY <1>3, <1>4 DEF Open
  <1>6. NoPermission(c, s) = b
    BY <1>5 DEF NoPermission, a, b
  <1> QED BY <1>2, <1>6

LEMMA KilledWell ==
  ASSUME NEW c \in Clients, TriesAgain(c), NEW s \in ServerNo,
         NEW by \in {"server", "local", "remote"}, NEW cur \in DOMAIN c.win, NEW ok
  PROVE  Well(Killed(c, s, by, cur, ok))
  <1> DEFINE a == window_check_servers(close_server(c, s))
  <1>1. a \in Clients /\ Well(a) /\ DOMAIN a.win = DOMAIN c.win
    BY CloseTries, CheckWell, CheckedGood
  <1>2. (s + 1) % N \in ServerNo
    <2>1. N \in Nat \ {0} /\ s + 1 \in Nat
      BY Bounds DEF ServerNo
    <2> QED BY <2>1 DEF ServerNo
  <1>3. Killed(c, s, by, cur, ok) \in {a, AddServer(a, s, cur, ok), AddServer(a, (s + 1) % N, cur, ok)}
    BY DEF Killed
  <1> HIDE DEF a
  <1>4. Well(AddServer(a, s, cur, ok)) /\ Well(AddServer(a, (s + 1) % N, cur, ok))
    BY <1>1, <1>2, AddsWell
  <1> QED BY <1>1, <1>3, <1>4

LEMMA DisconnectWell ==
  ASSUME NEW c \in Clients, TriesAgain(c), NEW s
  PROVE  server_disconnect(c, s) \in Clients /\ Well(server_disconnect(c, s))
  <1>1. close_server(c, s) \in Clients /\ TriesAgain(close_server(c, s))
    BY CloseTries
  <1>2. /\ window_check_servers(close_server(c, s)) \in Clients
        /\ TriesAgain(window_check_servers(close_server(c, s)))
    BY <1>1, CheckWell DEF Well
  <1> QED BY <1>2, CheckWell DEF server_disconnect

(***************************************************************************)
(* In every state, not only between passes: a pass closes a server only to *)
(* connect again, or it looks after the windows in the same turn.          *)
(***************************************************************************)
VInv == SInv /\ Well(Client)

LEMMA VInvImplies ==
  ASSUME VInv
  PROVE  WindowsServed
  <1>1. \A w \in DOMAIN win : win[w] # -1 => win[w] \in ServerNo
    BY ClientIs DEF VInv, ServerNo
  <1> QED BY <1>1 DEF VInv, Well, Attended, WindowsServed, Open, Client

LEMMA VInvInit ==
  ASSUME Init
  PROVE  VInv
  <1>1. SInv
    BY ServerInit
  <1>2. PICK auto_connect \in BOOLEAN :
          sl = [s \in ServerNo |->
                  IF s = 0 /\ auto_connect
                  THEN [NewServer EXCEPT !.reconnect = TRUE, !.old_server = -1,
                                         !.server_change_refnum = -1]
                  ELSE NewServer]
    BY DEF Init
  <1>3. ~ NewServer.try_once
    BY DEF NewServer
  <1>4. ~ [NewServer EXCEPT !.reconnect = TRUE, !.old_server = -1, !.server_change_refnum = -1].try_once
    BY DEF NewServer
  <1>5. \A s \in ServerNo : ~ sl[s].try_once
    BY <1>2, <1>3, <1>4
  <1>6. \A w \in DOMAIN win : win[w] = -1
    BY DEF Init
  <1> QED BY <1>1, <1>5, <1>6 DEF VInv, Well, TriesAgain, Attended, Client

LEMMA BecomesWell ==
  ASSUME NEW c \in Clients, Well(c), Becomes(c)
  PROVE  Well(Client)'
  <1>1. c = [sl |-> c.sl, win |-> c.win, primary |-> c.primary, attached |-> c.attached]
    BY DEF Clients
  <1>2. Client' = c
    BY <1>1 DEF Becomes, Client
  <1> QED BY <1>2

LEMMA PassWell ==
  ASSUME AutoReconnect, ChecksFollow, VInv, Pass
  PROVE  Well(Client)'
  <1>0. SInv /\ Well(Client)
    BY DEF VInv
  <1>1. /\ Client \in Clients /\ Client.sl = sl /\ Client.win = win /\ Good(Client) /\ TriesAgain(Client)
        /\ \A w \in DOMAIN win : win[w] \in -1..(N - 1)
    BY <1>0, ClientIs DEF Well
  <1>2. ASSUME NEW kind \in {"server", "idle"}, NEW late \in SUBSET ServerNo, StartPass(kind, late)
        PROVE  Well(Client)'
    <2> DEFINE f == [s \in ServerNo |->
                       IF s \in late THEN [sl[s] EXCEPT !.open = FALSE, !.reconnect = TRUE] ELSE sl[s]]
    <2>1. sl' = f /\ win' = win
      BY <1>2 DEF StartPass
    <2>2. ASSUME NEW s \in ServerNo
          PROVE  f[s].try_once = sl[s].try_once /\ (sl[s].open \/ sl[s].reconnect => f[s].open \/ f[s].reconnect)
      <3>1. sl[s] \in Server
        BY <1>1, ClientParts
      <3> QED BY <3>1 DEF Server
    <2> HIDE DEF f
    <2>3. Client'.sl = f /\ Client'.win = win
      BY <2>1 DEF Client
    <2>4. \A w \in DOMAIN win : win[w] # -1 => win[w] \in ServerNo
      BY <1>1 DEF ServerNo
    <2>5. TriesAgain(Client')
      BY <1>1, <2>2, <2>3 DEF TriesAgain
    <2>6. Attended(Client')
      BY <1>0, <1>1, <2>2, <2>3, <2>4 DEF Well, Attended
    <2> QED BY <2>5, <2>6 DEF Well
  <1>3. ASSUME NEW s \in ServerNo, NEW c \in Clients, Well(c), EndTurn(s, c) PROVE Well(Client)'
    BY <1>3, BecomesWell DEF EndTurn
  <1>4. ASSUME NEW s \in ServerNo, Turn(s) PROVE Well(Client)'
    <2>1. CASE TurnNothing(s)
      BY <1>0, <1>1, <1>3, <2>1 DEF TurnNothing
    <2>2. CASE TurnWelcome(s)
      <3> DEFINE r == [Client.sl[s] EXCEPT !.connected = TRUE]
                 d == Put(Client, s, r)
      <3>1. EndTurn(s, d)
        BY <2>2 DEF TurnWelcome, Put
      <3>2. Client.sl[s] \in Server
        BY <1>1, ClientParts
      <3>3. /\ r \in Server /\ r.try_once = Client.sl[s].try_once
            /\ r.open = Client.sl[s].open /\ r.reconnect = Client.sl[s].reconnect
        <4>1. r \in Server
          BY <3>2, FieldChanges
        <4> QED BY <3>2, <4>1 DEF Server
      <3> HIDE DEF r
      <3>4. /\ d \in Clients /\ Insists(Client, d) /\ d.win = Client.win /\ d.attached = Client.attached
            /\ d.sl[s] = r /\ \A t \in ServerNo \ {s} : d.sl[t] = Client.sl[t]
        BY <1>1, <3>3, PutClient, PutInsists
      <3> HIDE DEF d
      <3>5. Grows(Client, d)
        BY <3>3, <3>4 DEF Grows
      <3>6. Well(d)
        BY <1>0, <1>1, <3>4, <3>5, GrowsWell
      <3> QED BY <1>3, <3>1, <3>4, <3>6
    <2>3. CASE TurnNoPermission(s)
      BY <1>1, <1>3, <2>3, DeniesPermission, DeniesWell DEF TurnNoPermission, Good
    <2>4. CASE TurnPassword(s)
      BY <2>4 DEF TurnPassword, ChecksFollow
    <2>5. ASSUME NEW ok \in BOOLEAN, TurnReconnect(s, ok) PROVE Well(Client)'
      <3> DEFINE r == [Client.sl[s] EXCEPT !.reconnect = FALSE]
                 a == Put(Client, s, r)
      <3>1. EndTurn(s, reconnect_server(a, s, ok))
        BY <2>5 DEF TurnReconnect, Put
      <3>2. Client.sl[s] \in Server
        BY <1>1, ClientParts
      <3>3. r \in Server /\ r.try_once = Client.sl[s].try_once /\ Keeps(Client.sl[s], r)
        <4>1. r \in Server /\ Keeps(Client.sl[s], r)
          BY <3>2, FieldChanges
        <4> QED BY <3>2, <4>1 DEF Server
      <3> HIDE DEF r
      <3>4. a \in Clients /\ TriesAgain(a) /\ Good(a)
        BY <1>1, <3>3, PutKept, PutInsists, InsistsTries, KeptGood
      <3> HIDE DEF a
      <3>5. reconnect_server(a, s, ok) \in Clients /\ Well(reconnect_server(a, s, ok))
        BY <3>4, Reconnects, RetriesWell DEF Good
      <3> QED BY <1>3, <3>1, <3>5
    <2>6. ASSUME NEW cur \in DOMAIN win PROVE LogIn(s, cur) \in Clients /\ Well(LogIn(s, cur))
      <3> DEFINE r == [Client.sl[s] EXCEPT !.connect_wait = FALSE]
                 a == Put(Client, s, r)
      <3>1. LogIn(s, cur) = finalize_server_connect(a, s, cur)
        BY DEF LogIn, Put
      <3>2. Client.sl[s] \in Server
        BY <1>1, ClientParts
      <3>3. r \in Server /\ r.try_once = Client.sl[s].try_once
        <4>1. r \in Server
          BY <3>2, FieldChanges
        <4> QED BY <3>2, <4>1 DEF Server
      <3> HIDE DEF r
      <3>4. a \in Clients /\ TriesAgain(a) /\ a.win = win
        BY <1>1, <3>3, PutClient, PutInsists, InsistsTries
      <3> HIDE DEF a
      <3> QED BY <3>1, <3>4, Finalizes, FinalizeWell DEF Good
    <2>7. ASSUME NEW cur \in DOMAIN win, TurnLogIn(s, cur) PROVE Well(Client)'
      BY <1>3, <2>6, <2>7 DEF TurnLogIn
    <2>8. ASSUME NEW cur \in DOMAIN win, NEW login \in BOOLEAN, TurnClosed(s, login, cur)
          PROVE  Well(Client)'
      <3> DEFINE c == Reading(s, login, cur)
                 d == ConnectionClosed(c, s)
      <3>1. c \in Clients /\ Well(c) /\ Good(c)
        BY <1>0, <1>1, <2>6, LogsInGood DEF Reading
      <3>2. EndTurn(s, d)
        BY <2>8 DEF TurnClosed
      <3> HIDE DEF c
      <3>3. d \in Clients /\ Well(d)
        BY <3>1, EndsConnection, ClosedWell DEF Good
      <3> HIDE DEF d
      <3> QED BY <1>3, <3>2, <3>3
    <2>9. ASSUME NEW cur \in DOMAIN win, NEW by \in {"server", "local", "remote"}, NEW ok \in BOOLEAN,
                 TurnKilled(s, by, cur, ok)
          PROVE  Well(Client)'
      <3>1. Killed(Client, s, by, cur, ok) \in Clients /\ Well(Killed(Client, s, by, cur, ok))
        BY <1>1, SurvivesKill, KilledWell DEF Good
      <3> QED BY <1>3, <2>9, <3>1 DEF TurnKilled
    <2> QED BY <1>4, <2>1, <2>2, <2>3, <2>4, <2>5, <2>7, <2>8, <2>9 DEF Turn
  <1>5. CASE EndPass
    <2> DEFINE c == IF pass = "server" /\ ~ Open(Client, primary)
                    THEN window_check_servers(Client) ELSE Client
    <2>1. Becomes(c)
      BY <1>5 DEF EndPass
    <2>2. c \in Clients /\ Well(c)
      BY <1>0, <1>1, CheckWell
    <2> HIDE DEF c
    <2> QED BY <2>1, <2>2, BecomesWell
  <1> QED BY <1>2, <1>4, <1>5 DEF Pass

LEMMA InputWell ==
  ASSUME ChecksFollow, VInv, Input
  PROVE  Well(Client)'
  <1>0. SInv /\ Well(Client)
    BY DEF VInv
  <1>1. /\ Client \in Clients /\ Client.sl = sl /\ Client.win = win
        /\ Good(Client) /\ TriesAgain(Client) /\ Attended(Client)
        /\ DOMAIN win \in (SUBSET WindowNo) \ {{}} /\ \A w \in DOMAIN win : win[w] \in -1..(N - 1)
    BY <1>0, ClientIs DEF Well
  <1>2. close_unattached_servers(Client) \in Clients /\ TriesAgain(close_unattached_servers(Client))
    BY <1>1, CloseUnattached, CloseUnattachedInsists, InsistsTries
  <1>3. ASSUME NEW name, NEW c \in Clients, Well(c), Command(name, c) PROVE Well(Client)'
    BY <1>3, BecomesWell DEF Command
  <1>4. ASSUME NEW s \in ServerNo, MinusServer(s) PROVE Well(Client)'
    <2>1. close_server(Client, s) \in Clients /\ TriesAgain(close_server(Client, s))
      BY <1>1, CloseTries
    <2> QED BY <1>3, <1>4, <2>1, CheckWell DEF MinusServer
  <1>5. ASSUME NEW s \in ServerNo, Disconnect(s) PROVE Well(Client)'
    BY <1>2, <1>3, <1>5, DisconnectWell DEF Disconnect
  <1>6. ASSUME NEW s \in ServerNo, WriteFails(s) PROVE Well(Client)'
    BY <1>6 DEF WriteFails, ChecksFollow
  <1>7. ASSUME NEW s \in ServerNo, NEW ok \in BOOLEAN, PasswordEntered(s, ok) PROVE Well(Client)'
    <2>1. -1 \in -2..(N - 1)
      BY Bounds
    <2>2. /\ connect_to_server_by_refnum(Client, s, -1, ok) \in Clients
          /\ Well(connect_to_server_by_refnum(Client, s, -1, ok))
      BY <1>0, <1>1, <2>1, Connects, ConnectWell
    <2> QED BY <1>3, <1>7, <2>2 DEF PasswordEntered
  <1>8. ASSUME NEW cur \in DOMAIN win, NextServer(cur) \/ PreviousServer(cur) PROVE FALSE
    BY <1>8 DEF NextServer, PreviousServer, Command, ChecksFollow
  <1>9. ASSUME NEW cur \in DOMAIN win, DisconnectNowhere(cur) PROVE Well(Client)'
    BY <1>2, <1>3, <1>9, CheckWell DEF DisconnectNowhere
  <1>10. ASSUME NEW cur \in DOMAIN win, NEW i \in ServerNo, ServerCommand(i, cur) PROVE FALSE
    BY <1>10 DEF ServerCommand, Command, ChecksFollow
  <1>11. ASSUME NEW cur \in DOMAIN win, NEW i \in ServerNo, NEW ok \in BOOLEAN, PlusServer(i, cur, ok)
         PROVE  Well(Client)'
    <2>1. AddServer(Client, i, cur, ok) \in Clients /\ Well(AddServer(Client, i, cur, ok))
      BY <1>0, <1>1, AddsServer, AddsWell DEF Good
    <2> QED BY <1>3, <1>11, <2>1 DEF PlusServer
  <1>12. ASSUME NEW cur \in DOMAIN win, NEW ok \in BOOLEAN, Reconnect(cur, ok) PROVE Well(Client)'
    <2> DEFINE i == win[cur]
               a == window_check_servers(close_server(Client, i))
    <2>1. i \in ServerNo
      BY <1>1, <1>12 DEF Reconnect, ServerNo
    <2>2. Command("reconnect", AddServer(a, i, cur, ok))
      BY <1>12 DEF Reconnect
    <2>3. Good(a) /\ DOMAIN a.win = DOMAIN win /\ Well(a)
      <3>1. /\ close_server(Client, i) \in Clients /\ close_server(Client, i).win = win
            /\ TriesAgain(close_server(Client, i))
        BY <1>1, CloseTries
      <3> QED BY <3>1, CheckedGood, CheckWell
    <2> HIDE DEF a, i
    <2>4. AddServer(a, i, cur, ok) \in Clients /\ Well(AddServer(a, i, cur, ok))
      BY <2>1, <2>3, AddsServer, AddsWell DEF Good
    <2> QED BY <1>3, <2>2, <2>4
  <1>13. ASSUME NEW w \in WindowNo, KillWindow(w) PROVE Well(Client)'
    <2> DEFINE D == DOMAIN win \ {w}
               f == [v \in D |-> win[v]]
               c == [Client EXCEPT !.win = f]
    <2>1. D \in (SUBSET WindowNo) \ {{}} /\ f \in [D -> -1..(N - 1)]
      BY <1>1, <1>13 DEF KillWindow
    <2>2. Command("kill", window_check_servers(c))
      BY <1>13 DEF KillWindow
    <2> HIDE DEF D, f
    <2>3. f \in Windows
      BY <2>1, WindowsOf
    <2>4. c \in Clients /\ c.sl = Client.sl
      BY <1>1, <2>3 DEF Clients
    <2> HIDE DEF c
    <2>5. TriesAgain(c)
      BY <1>1, <2>4 DEF TriesAgain
    <2> QED BY <1>3, <2>2, <2>4, <2>5, CheckWell
  <1>14. ASSUME NEW cur \in DOMAIN win, NEW w \in WindowNo, NewWindow(w, cur) PROVE Well(Client)'
    <2> DEFINE f == [v \in DOMAIN win \cup {w} |-> IF v = w THEN win[cur] ELSE win[v]]
    <2>1. sl' = sl /\ win' = f
      <3> DEFINE d == [Client EXCEPT !.win = f]
      <3>1. Becomes(d)
        BY <1>14 DEF NewWindow, Command
      <3> HIDE DEF f
      <3>2. d.sl = sl /\ d.win = f
        BY <1>1 DEF Clients
      <3> HIDE DEF d
      <3> QED BY <3>1, <3>2 DEF Becomes
    <2>2. \A v \in DOMAIN f : \E u \in DOMAIN win : f[v] = win[u]
      OBVIOUS
    <2> HIDE DEF f
    <2>3. Client'.sl = sl /\ Client'.win = f
      BY <2>1 DEF Client
    <2>4. TriesAgain(Client') /\ Attended(Client')
      BY <1>1, <2>2, <2>3 DEF TriesAgain, Attended
    <2> QED BY <2>4 DEF Well
  <1>15. ASSUME NEW cur \in DOMAIN win, WindowDiscon(cur) PROVE Well(Client)'
    <2> DEFINE a == IF win[cur] = -1 THEN Client ELSE server_disconnect(Client, win[cur])
               f == [a.win EXCEPT ![cur] = -1]
               d == [a EXCEPT !.win = f]
    <2>1. a \in Clients /\ Well(a)
      BY <1>0, <1>1, DisconnectWell
    <2>2. Becomes(d)
      BY <1>15 DEF WindowDiscon, Command
    <2> HIDE DEF a
    <2>3. \A v \in DOMAIN f : v \in DOMAIN a.win /\ (f[v] = -1 \/ f[v] = a.win[v])
      OBVIOUS
    <2> HIDE DEF f
    <2>4. d.sl = a.sl /\ d.win = f
      BY <2>1 DEF Clients
    <2> HIDE DEF d
    <2>5. Client'.sl = a.sl /\ Client'.win = f
      BY <2>2, <2>4 DEF Client, Becomes
    <2>6. TriesAgain(Client') /\ Attended(Client')
      BY <2>1, <2>3, <2>5 DEF Well, TriesAgain, Attended
    <2> QED BY <2>6 DEF Well
  <1>16. ASSUME NEW cur \in DOMAIN win, NEW i \in ServerNo, NEW ok \in BOOLEAN,
                WindowServer(i, cur, ok)
         PROVE  FALSE
    BY <1>16 DEF WindowServer, Command, ChecksFollow
  <1> QED BY <1>4, <1>5, <1>6, <1>7, <1>8, <1>9, <1>10, <1>11, <1>12, <1>13, <1>14, <1>15, <1>16
       DEF Input

LEMMA ServedStep ==
  ASSUME AutoReconnect, ChecksFollow, VInv, [Next]_vars
  PROVE  VInv'
  <1>1. SInv'
    BY ServerStep DEF VInv
  <1>2. CASE Pass
    BY <1>1, <1>2, PassWell DEF VInv
  <1>3. CASE Input
    BY <1>1, <1>3, InputWell DEF VInv
  <1>4. CASE UNCHANGED vars
    <2>1. Client' = Client
      BY <1>4 DEF vars, Client
    <2> QED BY <1>1, <2>1 DEF VInv
  <1> QED BY <1>2, <1>3, <1>4 DEF Next

(***************************************************************************)
(* No window is left with a dead server: whatever else closes a server     *)
(* checks the windows afterwards, or leaves a request to connect again.    *)
(* Not so get_connected(), which closes the server the window is with      *)
(* before another one is there, and advance_server() when it gives up.     *)
(***************************************************************************)
THEOREM NoWindowForgotten ==
  ASSUME AutoReconnect, ChecksFollow
  PROVE  Spec => []WindowsServed
  <1>1. Init => VInv
    BY VInvInit
  <1>2. VInv /\ [Next]_vars => VInv'
    BY ServedStep
  <1>3. VInv => WindowsServed
    BY VInvImplies
  <1> QED BY <1>1, <1>2, <1>3, PTL DEF Spec
=============================================================================
