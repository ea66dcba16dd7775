--------------------------- MODULE QueryAnswerProofs ---------------------------
(***************************************************************************)
(* Who gets which reply: proofs about QueryQueue for any number of         *)
(* servers, targets, users and queries, as long as close_server() is       *)
(* called for the server it closes and no nickname is refused while        *)
(* queries wait.                                                           *)
(***************************************************************************)
EXTENDS QueryQueueProofs

NoForeign == Hazards \cap {"foreign_close", "nick_in_use"} = {}

-----------------------------------------------------------------------------
(* What the server has still to answer *)

(* the numbers of the requests of a kind on the wire grow, and are below n *)
WireOK(w, n) ==
    /\ \A i, j \in 1..Len(w) :
          i < j /\ w[i].kind = w[j].kind /\ w[i].kind \in Kind => w[i].id < w[j].id
    /\ \A i \in 1..Len(w) : w[i].kind \in Kind => w[i].id < n

(* the numbers of c queries asked from n on *)
Numbers(n, c) == n..(n + c - 1)

(* Requests are numbered. *)
LEMMA RequestIds ==
  ASSUME NEW w \in Seq(Request)
  PROVE  Len(w) \in Nat /\ \A i \in 1..Len(w) : w[i].id \in Nat
  <1>1. Len(w) \in Nat /\ \A i \in 1..Len(w) : w[i] \in Request
    OBVIOUS
  <1> QED BY <1>1 DEF Request

(* Nothing waits on an empty wire. *)
LEMMA OutstandingEmpty == \A k : Outstanding(<<>>, k) = {}
  BY DEF Outstanding

(* What is sent is outstanding. *)
LEMMA OutstandingAppend ==
  ASSUME NEW w \in Seq(Request), NEW r \in Request, NEW k
  PROVE  Outstanding(Append(w, r), k)
           = Outstanding(w, k) \cup (IF r.kind = k THEN {r.id} ELSE {})
  <1> DEFINE v == Append(w, r)
  <1>1. /\ Len(w) \in Nat /\ Len(v) = Len(w) + 1
        /\ v[Len(w) + 1] = r /\ \A i \in 1..Len(w) : v[i] = w[i]
    OBVIOUS
  <1> HIDE DEF v
  <1>2. /\ 1..Len(w) \subseteq 1..Len(v) /\ Len(w) + 1 \in 1..Len(v)
        /\ \A i \in 1..Len(v) : i = Len(w) + 1 \/ i \in 1..Len(w)
    BY <1>1
  <1>3. Outstanding(v, k) \subseteq Outstanding(w, k) \cup (IF r.kind = k THEN {r.id} ELSE {})
    BY <1>1, <1>2 DEF Outstanding
  <1>4. Outstanding(w, k) \subseteq Outstanding(v, k)
    BY <1>1, <1>2 DEF Outstanding
  <1>5. r.kind = k => r.id \in Outstanding(v, k)
    BY <1>1, <1>2 DEF Outstanding
  <1> QED BY <1>3, <1>4, <1>5 DEF v

(* A number that is not used yet keeps the wire in order. *)
LEMMA WireAppend ==
  ASSUME NEW w \in Seq(Request), NEW n \in Nat, NEW m \in Nat, WireOK(w, n), n <= m,
         NEW r \in Request, r.kind \in Kind => n <= r.id /\ r.id < m
  PROVE  WireOK(Append(w, r), m)
  <1> DEFINE v == Append(w, r)
  <1>1. /\ Len(w) \in Nat /\ Len(v) = Len(w) + 1
        /\ v[Len(w) + 1] = r /\ \A i \in 1..Len(w) : v[i] = w[i]
    OBVIOUS
  <1>2. \A i \in 1..Len(w) : w[i].id \in Nat
    BY RequestIds
  <1>3. r.id \in Nat
    BY DEF Request
  <1> HIDE DEF v
  <1>4. ASSUME NEW i \in 1..Len(v), v[i].kind \in Kind PROVE v[i].id < m
    <2>1. CASE i = Len(w) + 1
      BY <1>1, <1>3, <1>4, <2>1
    <2>2. CASE i \in 1..Len(w)
      <3>1. v[i].id < n /\ v[i].id \in Nat
        BY <1>1, <1>2, <1>4, <2>2 DEF WireOK
      <3> QED BY <3>1
    <2> QED BY <1>1, <2>1, <2>2
  <1>5. ASSUME NEW i \in 1..Len(v), NEW j \in 1..Len(v), i < j,
               v[i].kind = v[j].kind, v[i].kind \in Kind
        PROVE  v[i].id < v[j].id
    <2>1. i \in 1..Len(w)
      BY <1>1, <1>5
    <2>2. CASE j \in 1..Len(w)
      BY <1>1, <1>5, <2>1, <2>2 DEF WireOK
    <2>3. CASE j = Len(w) + 1
      <3>1. v[i].id < n /\ v[i].id \in Nat /\ n <= v[j].id /\ v[j].id \in Nat
        BY <1>1, <1>2, <1>3, <1>5, <2>1, <2>3 DEF WireOK
      <3> QED BY <3>1
    <2> QED BY <1>1, <2>2, <2>3
  <1>6. WireOK(v, m)
    BY <1>4, <1>5 DEF WireOK
  <1> QED BY <1>6 DEF v

(* The wire stays in order when numbers are used up elsewhere. *)
LEMMA WireMonotone ==
  ASSUME NEW w \in Seq(Request), NEW n \in Nat, NEW m \in Nat, n <= m, WireOK(w, n)
  PROVE  WireOK(w, m)
  <1>1. \A i \in 1..Len(w) : w[i].id \in Nat
    BY RequestIds
  <1>2. ASSUME NEW i \in 1..Len(w), w[i].kind \in Kind PROVE w[i].id < m
    <2>1. w[i].id < n /\ w[i].id \in Nat
      BY <1>1, <1>2 DEF WireOK
    <2> QED BY <2>1
  <1> QED BY <1>2 DEF WireOK

(* The oldest request is answered. *)
LEMMA WireTail ==
  ASSUME NEW w \in Seq(Request), w # <<>>, NEW n \in Nat, WireOK(w, n)
  PROVE  /\ Tail(w) \in Seq(Request)
         /\ WireOK(Tail(w), n)
         /\ \A k \in Kind : Outstanding(Tail(w), k) =
               IF Head(w).kind = k THEN Outstanding(w, k) \ {Head(w).id} ELSE Outstanding(w, k)
  <1> DEFINE v == Tail(w)
  <1>1. /\ Len(w) \in Nat \ {0} /\ Head(w) = w[1] /\ v \in Seq(Request)
        /\ Len(v) = Len(w) - 1 /\ \A i \in 1..Len(v) : v[i] = w[i + 1]
    OBVIOUS
  <1> HIDE DEF v
  <1>2. /\ \A i \in 1..Len(v) : i + 1 \in 1..Len(w)
        /\ \A i \in 1..Len(w) : i = 1 \/ (i - 1 \in 1..Len(v) /\ v[i - 1] = w[i] /\ 1 < i)
        /\ 1 \in 1..Len(w)
    BY <1>1
  <1>3. \A i \in 1..Len(w) : w[i].id \in Nat
    BY RequestIds
  <1>4. WireOK(v, n)
    <2>1. \A i \in 1..Len(v) : v[i].kind \in Kind => v[i].id < n
      BY <1>1, <1>2 DEF WireOK
    <2>2. ASSUME NEW i \in 1..Len(v), NEW j \in 1..Len(v), i < j,
                 v[i].kind = v[j].kind, v[i].kind \in Kind
          PROVE  v[i].id < v[j].id
      <3>1. i + 1 \in 1..Len(w) /\ j + 1 \in 1..Len(w) /\ i + 1 < j + 1
        BY <1>2, <2>2
      <3>2. v[i] = w[i + 1] /\ v[j] = w[j + 1]
        BY <1>1
      <3> QED BY <2>2, <3>1, <3>2 DEF WireOK
    <2> QED BY <2>1, <2>2 DEF WireOK
  <1>5. ASSUME NEW k \in Kind
        PROVE  Outstanding(v, k) = IF w[1].kind = k THEN Outstanding(w, k) \ {w[1].id} ELSE Outstanding(w, k)
    <2>1. ASSUME NEW x \in Outstanding(v, k)
          PROVE  x \in Outstanding(w, k) /\ (w[1].kind = k => x # w[1].id)
      <3>1. PICK i \in 1..Len(v) : v[i].kind = k /\ x = v[i].id
        BY DEF Outstanding
      <3>2. i + 1 \in 1..Len(w) /\ 1 < i + 1 /\ w[i + 1] = v[i]
        BY <1>1, <1>2
      <3>3. w[1].kind = k => w[1].id < w[i + 1].id
        BY <1>2, <3>1, <3>2 DEF WireOK
      <3>4. w[1].id \in Nat /\ w[i + 1].id \in Nat
        BY <1>2, <1>3, <3>2
      <3> QED BY <3>1, <3>2, <3>3, <3>4 DEF Outstanding
    <2>2. ASSUME NEW x \in Outstanding(w, k), w[1].kind = k => x # w[1].id
          PROVE  x \in Outstanding(v, k)
      <3>1. PICK i \in 1..Len(w) : w[i].kind = k /\ x = w[i].id
        BY DEF Outstanding
      <3>2. i # 1
        BY <2>2, <3>1
      <3>3. i - 1 \in 1..Len(v) /\ v[i - 1] = w[i]
        BY <1>2, <3>2
      <3> QED BY <3>1, <3>3 DEF Outstanding
    <2> QED BY <2>1, <2>2
  <1> QED BY <1>1, <1>4, <1>5 DEF v

(* Commands that are split into several requests. *)
LEMMA WireRequests ==
  ASSUME NEW w \in Seq(Request), NEW n \in Nat, NEW c \in Nat, WireOK(w, n), NEW k \in Kind
  PROVE  LET v == w \o Requests(k, n, c)
         IN  /\ v \in Seq(Request)
             /\ WireOK(v, n + c)
             /\ Outstanding(v, k) = Outstanding(w, k) \cup Numbers(n, c)
             /\ \A h : h # k => Outstanding(v, h) = Outstanding(w, h)
  <1> DEFINE t == Requests(k, n, c)
             v == w \o t
  <1>1. /\ t \in Seq(Request) /\ Len(t) = c
        /\ \A j \in 1..c : t[j].kind = k /\ t[j].id = n + j - 1
    <2>1. /\ t \in Seq(Request) /\ Len(t) = c
          /\ \A j \in 1..c : t[j] = [kind |-> k, id |-> n + j - 1, mask |-> User]
      BY RequestsType
    <2> HIDE DEF t
    <2> QED BY <2>1
  <1>2. Len(w) \in Nat /\ \A i \in 1..Len(w) : w[i].id \in Nat
    BY RequestIds
  <1> HIDE DEF t
  <1>3. /\ v \in Seq(Request) /\ Len(v) = Len(w) + c
        /\ \A i \in 1..Len(w) : v[i] = w[i]
        /\ \A i \in 1..Len(v) : i > Len(w) => v[i] = t[i - Len(w)]
    <2>1. t \in Seq(Request) /\ Len(t) = c
      BY <1>1
    <2> QED BY <2>1
  <1> HIDE DEF v
  <1>4. \A i \in 1..Len(v) : i > Len(w) => v[i].kind = k /\ v[i].id = n + (i - Len(w)) - 1
    <2> SUFFICES ASSUME NEW i \in 1..Len(v), i > Len(w)
                 PROVE  v[i].kind = k /\ v[i].id = n + (i - Len(w)) - 1
      OBVIOUS
    <2>1. i - Len(w) \in 1..c
      BY <1>2, <1>3
    <2> QED BY <1>1, <1>3, <2>1
  <1>5. \A i \in 1..Len(v) : i > Len(w) \/ i \in 1..Len(w)
    BY <1>2, <1>3
  <1>6. ASSUME NEW i \in 1..Len(v), v[i].kind \in Kind PROVE v[i].id < n + c
    <2>1. CASE i > Len(w)
      BY <1>2, <1>3, <1>4, <2>1
    <2>2. CASE i \in 1..Len(w)
      <3>1. v[i].id < n /\ v[i].id \in Nat
        BY <1>2, <1>3, <1>6, <2>2 DEF WireOK
      <3> QED BY <3>1
    <2> QED BY <1>5, <2>1, <2>2
  <1>7. ASSUME NEW i \in 1..Len(v), NEW j \in 1..Len(v), i < j,
               v[i].kind = v[j].kind, v[i].kind \in Kind
        PROVE  v[i].id < v[j].id
    <2>1. CASE j \in 1..Len(w)
      <3>1. i \in 1..Len(w)
        BY <1>2, <1>7, <2>1
      <3> QED BY <1>3, <1>7, <2>1, <3>1 DEF WireOK
    <2>2. CASE j > Len(w) /\ i \in 1..Len(w)
      <3>1. v[i].id < n /\ v[i].id \in Nat
        BY <1>2, <1>3, <1>7, <2>2 DEF WireOK
      <3>2. v[j].id = n + (j - Len(w)) - 1 /\ j - Len(w) >= 1
        BY <1>2, <1>4, <2>2
      <3> QED BY <1>2, <3>1, <3>2
    <2>3. CASE i > Len(w)
      <3>1. v[i].id = n + (i - Len(w)) - 1 /\ v[j].id = n + (j - Len(w)) - 1
        BY <1>2, <1>4, <1>7, <2>3
      <3> QED BY <1>2, <1>7, <3>1
    <2> QED BY <1>5, <2>1, <2>2, <2>3
  <1>8. ASSUME NEW h
        PROVE  Outstanding(v, h) = Outstanding(w, h) \cup (IF h = k THEN n..(n + c - 1) ELSE {})
    <2>1. ASSUME NEW x \in Outstanding(v, h)
          PROVE  x \in Outstanding(w, h) \/ (h = k /\ x \in n..(n + c - 1))
      <3>1. PICK i \in 1..Len(v) : v[i].kind = h /\ x = v[i].id
        BY DEF Outstanding
      <3>2. CASE i \in 1..Len(w)
        BY <1>3, <3>1, <3>2 DEF Outstanding
      <3>3. CASE i > Len(w)
        BY <1>2, <1>3, <1>4, <3>1, <3>3
      <3> QED BY <1>5, <3>2, <3>3
    <2>2. ASSUME NEW x \in Outstanding(w, h) PROVE x \in Outstanding(v, h)
      <3>1. PICK i \in 1..Len(w) : w[i].kind = h /\ x = w[i].id
        BY DEF Outstanding
      <3>2. i \in 1..Len(v) /\ v[i] = w[i]
        BY <1>2, <1>3
      <3> QED BY <3>1, <3>2 DEF Outstanding
    <2>3. ASSUME NEW x \in n..(n + c - 1) PROVE x \in Outstanding(v, k)
      <3>1. (x - n + 1) + Len(w) \in 1..Len(v) /\ (x - n + 1) + Len(w) > Len(w)
        BY <1>2, <1>3
      <3>2. v[(x - n + 1) + Len(w)].kind = k /\ v[(x - n + 1) + Len(w)].id = x
        BY <1>2, <1>4, <3>1
      <3> QED BY <3>1, <3>2 DEF Outstanding
    <2> QED BY <2>1, <2>2, <2>3
  <1>9. WireOK(v, n + c)
    BY <1>6, <1>7 DEF WireOK
  <1> QED BY <1>3, <1>8, <1>9 DEF v, t, Numbers

-----------------------------------------------------------------------------
(* The queues stand for what is outstanding *)

(* the queues qs of a server stand for the requests on its wire w *)
SrvOK(qs, w, n) == WireOK(w, n) /\ \A k \in Kind : Ids(qs[k]) = Outstanding(w, k)

MatchInv ==
    \A s \in Server :
       SrvOK(queue[s], wire[s], nextId) /\ (wire[s] # <<>> => connected[s])

(* the inductive invariant behind QueuesMatchWire and RightAsker *)
AInv == QInv /\ MatchInv /\ RightAsker

(* The entry at the head of a queue waits for the oldest request of its kind. *)
LEMMA HeadMatches ==
  ASSUME NEW n \in Nat, NEW k \in Kind, NEW q, QueueOK(q, k, n),
         NEW w \in Seq(Request), WireOK(w, n), Ids(q) = Outstanding(w, k),
         w # <<>>, Head(w).kind = k
  PROVE  q # <<>> /\ q[1].via = Head(w).id
  <1>1. q \in Seq(Entry) /\ Len(q) \in Nat /\ Len(w) \in Nat /\ 1 \in 1..Len(w) /\ Head(w) = w[1]
    BY DEF QueueOK, Queue
  <1>2. PICK i \in 1..Len(q) : q[i].via = w[1].id
    <2>1. w[1].id \in Outstanding(w, k)
      BY <1>1 DEF Outstanding
    <2> QED BY <2>1 DEF Ids
  <1>3. 1 \in 1..Len(q) /\ q # <<>>
    BY <1>1, <1>2
  <1>4. PICK j \in 1..Len(w) : w[j].kind = k /\ w[j].id = q[1].via
    <2>1. q[1].via \in Ids(q)
      BY <1>3 DEF Ids
    <2> QED BY <2>1 DEF Outstanding
  <1>5. 1 < i => q[1].via <= q[i].via
    BY <1>3 DEF QueueOK, WellFormed
  <1>6. 1 < j => w[1].id < w[j].id
    BY <1>1, <1>4 DEF WireOK
  <1>7. w[1].id \in Nat /\ w[j].id \in Nat
    BY <1>1, RequestIds
  <1>8. (i = 1 \/ 1 < i) /\ (j = 1 \/ 1 < j)
    BY <1>1
  <1> QED BY <1>1, <1>2, <1>3, <1>4, <1>5, <1>6, <1>7, <1>8

(* Callbacks of entries that wait for r answer r. *)
LEMMA CalledRight ==
  ASSUME NEW q, NEW n, NEW r, NEW line, \A i \in 1..n : q[i].via = r.id
  PROVE  \A a \in Called(q, n, r, line) : a.by = a.via
  BY DEF Called

(* The entries of the first batch wait for the same reply as the first. *)
LEMMA BatchSameReply ==
  ASSUME NEW q \in Queue, WellFormed(q), q # <<>>
  PROVE  \A i \in 1..BatchLen(q) : q[i].via = q[1].via
  <1>1. BatchLen(q) \in 1..Len(q) /\ Len(q) \in Nat
    BY BatchIsPrefix DEF Queue
  <1>2. \A i \in 1..Len(q) : i <= BatchLen(q) <=> q[i].via = q[1].via
    BY BatchIsPrefix
  <1> HIDE DEF BatchLen
  <1>3. ASSUME NEW i \in 1..BatchLen(q) PROVE i \in 1..Len(q) /\ i <= BatchLen(q)
    BY <1>1
  <1> QED BY <1>2, <1>3

(* A step of one server leaves what was sent to the others alone. *)
LEMMA OneServer ==
  ASSUME QInv, MatchInv, NEW s \in Server, nextId' \in Nat, nextId <= nextId',
         \A t \in Server : t # s => /\ queue'[t] = queue[t] /\ wire'[t] = wire[t]
                                    /\ connected'[t] = connected[t],
         SrvOK(queue'[s], wire'[s], nextId'),
         wire'[s] # <<>> => connected'[s]
  PROVE  MatchInv'
  <1>1. nextId \in Nat /\ \A t \in Server : wire[t] \in Seq(Request)
    BY DEF QInv, TypeOK
  <1>2. ASSUME NEW t \in Server, t # s
        PROVE  SrvOK(queue'[t], wire'[t], nextId') /\ (wire'[t] # <<>> => connected'[t])
    <2>1. queue'[t] = queue[t] /\ wire'[t] = wire[t] /\ connected'[t] = connected[t]
      BY <1>2
    <2>2. SrvOK(queue[t], wire[t], nextId) /\ (wire[t] # <<>> => connected[t])
      BY DEF MatchInv
    <2>3. WireOK(wire[t], nextId')
      BY <1>1, <2>2, WireMonotone DEF SrvOK
    <2> QED BY <2>1, <2>2, <2>3 DEF SrvOK
  <1> QED BY <1>2 DEF MatchInv

-----------------------------------------------------------------------------
(* What the operations do to the queues and the wire of one server *)

Queues == [Kind -> Seq(Entry)]

QueuesInOrder(qs, n) == qs \in Queues /\ \A k \in Kind : QueueOK(qs[k], k, n)

(* one server: its queues in order, its wire, and how they belong together *)
Server1(qs, w, n) == QueuesInOrder(qs, n) /\ w \in Seq(Request) /\ SrvOK(qs, w, n)

(* Replacing one queue changes what it stands for only. *)
LEMMA ReplaceOne ==
  ASSUME NEW qs, NEW w, NEW n \in Nat, NEW m \in Nat, n <= m, QueuesInOrder(qs, n),
         NEW k \in Kind, NEW q, QueueOK(q, k, m), w \in Seq(Request), WireOK(w, m),
         Ids(q) = Outstanding(w, k),
         \A h \in Kind : h # k => Ids(qs[h]) = Outstanding(w, h)
  PROVE  Server1([qs EXCEPT ![k] = q], w, m)
  <1> DEFINE new == [qs EXCEPT ![k] = q]
  <1>1. q \in Seq(Entry) /\ qs \in Queues
    BY DEF QueueOK, Queue, QueuesInOrder
  <1>2. new \in Queues /\ new[k] = q /\ \A h \in Kind : h # k => new[h] = qs[h]
    BY <1>1 DEF Queues
  <1> HIDE DEF new
  <1>3. ASSUME NEW h \in Kind PROVE QueueOK(new[h], h, m) /\ Ids(new[h]) = Outstanding(w, h)
    <2>1. CASE h = k
      BY <1>2, <2>1
    <2>2. CASE h # k
      <3>1. QueueOK(qs[h], h, n) /\ new[h] = qs[h]
        BY <1>2, <2>2 DEF QueuesInOrder
      <3> QED BY <2>2, <3>1, QueueOKMonotone
    <2> QED BY <2>1, <2>2
  <1>4. QueuesInOrder(new, m)
    BY <1>2, <1>3 DEF QueuesInOrder
  <1>5. SrvOK(new, w, m)
    BY <1>3 DEF SrvOK
  <1> QED BY <1>4, <1>5 DEF Server1, new

(* ISON and USERHOST are asked: the queue and the wire grow alike. *)
LEMMA AddsRequests ==
  ASSUME NEW qs, NEW w, NEW n \in Nat, NEW c \in Nat, NEW k \in Kind, k # "who",
         Server1(qs, w, n)
  PROVE  Server1([qs EXCEPT ![k] = qs[k] \o PlainEntries(n, c)], w \o Requests(k, n, c), n + c)
  <1> DEFINE q == qs[k] \o PlainEntries(n, c)
             v == w \o Requests(k, n, c)
  <1>1. /\ k \in Kind /\ QueuesInOrder(qs, n) /\ w \in Seq(Request) /\ WireOK(w, n)
        /\ \A h \in Kind : Ids(qs[h]) = Outstanding(w, h)
    BY DEF Server1, SrvOK, Kind
  <1>2. QueueOK(qs[k], k, n)
    BY <1>1 DEF QueuesInOrder
  <1>3. QueueOK(q, k, n + c)
    <2>1. k \in {"ison", "userhost"}
      BY DEF Kind
    <2> QED BY <1>2, <2>1, AddPlainOK
  <1>4. Ids(q) = Ids(qs[k]) \cup Numbers(n, c)
    BY <1>2, AddPlain DEF QueueOK, Numbers
  <1>5. /\ v \in Seq(Request) /\ WireOK(v, n + c)
        /\ Outstanding(v, k) = Outstanding(w, k) \cup Numbers(n, c)
        /\ \A h : h # k => Outstanding(v, h) = Outstanding(w, h)
    <2>1. k \in Kind /\ w \in Seq(Request) /\ WireOK(w, n)
      BY <1>1
    <2>2. v \in Seq(Request) /\ WireOK(v, n + c)
      BY <2>1, WireRequests
    <2>3. Outstanding(v, k) = Outstanding(w, k) \cup Numbers(n, c)
      BY <2>1, WireRequests
    <2>4. \A h : h # k => Outstanding(v, h) = Outstanding(w, h)
      BY <2>1, WireRequests
    <2> HIDE DEF v
    <2> QED BY <2>2, <2>3, <2>4
  <1>6. n + c \in Nat /\ n <= n + c
    OBVIOUS
  <1> HIDE DEF q, v
  <1>7. Ids(q) = Outstanding(v, k) /\ \A h \in Kind : h # k => Ids(qs[h]) = Outstanding(v, h)
    BY <1>1, <1>4, <1>5
  <1>8. Server1([qs EXCEPT ![k] = q], v, n + c)
    BY <1>1, <1>3, <1>5, <1>6, <1>7, ReplaceOne
  <1> QED BY <1>8 DEF q, v

(* the entry at the head of q waits for request id, and no other does *)
HeadAlone(q, id) == q # <<>> /\ q[1].via = id /\ who_queue_pop(q) = Tail(q)

(* the batch at the head of q waits for request id *)
HeadBatch(q, id) == q # <<>> /\ \A i \in 1..BatchLen(q) : q[i].via = id

(* The reply to the oldest request: its batch is popped. *)
LEMMA PopsReply ==
  ASSUME NEW qs, NEW w, NEW n \in Nat, NEW k \in Kind,
         Server1(qs, w, n), w # <<>>, Head(w).kind = k
  PROVE  /\ Server1([qs EXCEPT ![k] = who_queue_pop(qs[k])], Tail(w), n)
         /\ HeadBatch(qs[k], Head(w).id)
         /\ k # "who" => HeadAlone(qs[k], Head(w).id)
  <1> DEFINE q == qs[k]
             r == who_queue_pop(q)
  <1>1. /\ QueuesInOrder(qs, n) /\ w \in Seq(Request) /\ WireOK(w, n)
        /\ \A h \in Kind : Ids(qs[h]) = Outstanding(w, h)
    BY DEF Server1, SrvOK
  <1>2. QueueOK(q, k, n)
    BY <1>1 DEF QueuesInOrder
  <1>3. q # <<>> /\ q[1].via = Head(w).id
    BY <1>1, <1>2, HeadMatches
  <1>4. q \in Queue /\ WellFormed(q) /\ (k # "who" => \A i \in 1..Len(q) : ~ q[i].piggyback)
    BY <1>2 DEF QueueOK
  <1>5. r \in Queue /\ WellFormed(r) /\ Ids(r) = Ids(q) \ {q[1].via} /\ Below(r, n)
    <2>1. Below(q, n)
      BY <1>2 DEF QueueOK
    <2> QED BY <2>1, <1>3, <1>4, PopBatch
  <1>6. k # "who" => r = Tail(q)
    BY <1>3, <1>4, PopPlain
  <1>7. QueueOK(r, k, n)
    <2>1. CASE k = "who"
      BY <1>5, <2>1 DEF QueueOK
    <2>2. CASE k # "who"
      <3>1. k \in {"ison", "userhost"}
        BY <2>2 DEF Kind
      <3> QED BY <1>2, <1>3, <1>6, <2>2, <3>1, PopPlainOK
    <2> QED BY <2>1, <2>2
  <1>8. \A i \in 1..BatchLen(q) : q[i].via = Head(w).id
    BY <1>3, <1>4, BatchSameReply
  <1>9. /\ Tail(w) \in Seq(Request) /\ WireOK(Tail(w), n)
        /\ \A h \in Kind : Outstanding(Tail(w), h) =
              IF Head(w).kind = h THEN Outstanding(w, h) \ {Head(w).id} ELSE Outstanding(w, h)
    BY <1>1, WireTail
  <1> HIDE DEF q, r
  <1>10. Ids(r) = Outstanding(Tail(w), k)
         /\ \A h \in Kind : h # k => Ids(qs[h]) = Outstanding(Tail(w), h)
    BY <1>1, <1>3, <1>5, <1>9 DEF q
  <1>11. Server1([qs EXCEPT ![k] = r], Tail(w), n)
    <2>1. n <= n
      OBVIOUS
    <2> QED BY <1>1, <1>7, <1>9, <1>10, <2>1, ReplaceOne
  <1> QED BY <1>3, <1>6, <1>8, <1>11 DEF q, r, HeadBatch, HeadAlone

(* A WHO has a number of its own only if it is sent. *)
LEMMA WhoIds ==
  ASSUME NEW q, NEW n \in Nat, QueueOK(q, "who", n),
         NEW t \in Target, NEW f \in SUBSET User, NEW func \in BOOLEAN
  PROVE  Ids(WhoAdd(q, n, t, f, func)) = Ids(q) \cup OwnNumber(q, t, n)
  <1>1. q \in Queue /\ WellFormed(q) /\ Below(q, n)
    BY DEF QueueOK
  <1> QED BY <1>1, AddWho

(* A WHO is asked, or rides on the one before it. *)
LEMMA AddsWho ==
  ASSUME NEW qs, NEW w, NEW n \in Nat, Server1(qs, w, n),
         NEW t \in Target, NEW f \in SUBSET User, NEW func \in BOOLEAN
  PROVE  Server1([qs EXCEPT !["who"] = WhoAdd(qs["who"], n, t, f, func)],
                 IF CanPiggyback(qs["who"], t) THEN w ELSE Append(w, WhoRequest(n, f)), n + 1)
  <1> DEFINE q == qs["who"]
             p == WhoAdd(q, n, t, f, func)
             r == WhoRequest(n, f)
             v == IF CanPiggyback(q, t) THEN w ELSE Append(w, r)
  <1>1. /\ "who" \in Kind /\ QueuesInOrder(qs, n) /\ w \in Seq(Request) /\ WireOK(w, n)
        /\ \A h \in Kind : Ids(qs[h]) = Outstanding(w, h)
    BY DEF Server1, SrvOK, Kind
  <1>2. QueueOK(q, "who", n)
    BY <1>1 DEF QueuesInOrder
  <1>3. QueueOK(p, "who", n + 1)
    BY <1>2, AddWhoOK
  <1>4. Ids(p) = Ids(q) \cup (IF CanPiggyback(q, t) THEN {} ELSE {n})
    BY <1>2, WhoIds DEF OwnNumber
  <1>5. r \in Request /\ r.kind = "who" /\ r.id = n
    BY WhoRequestType DEF WhoRequest
  <1>6. n + 1 \in Nat /\ n <= n + 1 /\ n < n + 1 /\ n <= n
    OBVIOUS
  <1> HIDE DEF r, p
  <1>7. v \in Seq(Request) /\ WireOK(v, n + 1)
    <2>1. CASE CanPiggyback(q, t)
      BY <1>1, <1>6, <2>1, WireMonotone
    <2>2. CASE ~ CanPiggyback(q, t)
      <3>1. Append(w, r) \in Seq(Request)
        BY <1>1, <1>5
      <3>2. WireOK(Append(w, r), n + 1)
        BY <1>1, <1>5, <1>6, WireAppend
      <3> QED BY <2>2, <3>1, <3>2
    <2> QED BY <2>1, <2>2
  <1>8. \A h \in Kind : Outstanding(v, h)
           = Outstanding(w, h) \cup (IF h = "who" /\ ~ CanPiggyback(q, t) THEN {n} ELSE {})
    <2>1. CASE CanPiggyback(q, t)
      BY <2>1
    <2>2. CASE ~ CanPiggyback(q, t)
      <3>1. \A h : Outstanding(Append(w, r), h) = Outstanding(w, h) \cup (IF "who" = h THEN {n} ELSE {})
        BY <1>1, <1>5, OutstandingAppend
      <3> QED BY <2>2, <3>1
    <2> QED BY <2>1, <2>2
  <1> HIDE DEF v
  <1>9. Ids(p) = Outstanding(v, "who")
        /\ \A h \in Kind : h # "who" => Ids(qs[h]) = Outstanding(v, h)
    BY <1>1, <1>4, <1>8
  <1> HIDE DEF q
  <1>10. Server1([qs EXCEPT !["who"] = p], v, n + 1)
    BY <1>1, <1>3, <1>6, <1>7, <1>9, ReplaceOne
  <1> QED BY <1>10 DEF p, q, r, v

(* Entries are marked dirty. *)
LEMMA Marks ==
  ASSUME NEW qs, NEW w, NEW n \in Nat, Server1(qs, w, n), NEW j \in Int
  PROVE  Server1([qs EXCEPT !["who"] = MarkDirty(qs["who"], j)], w, n)
  <1> DEFINE q == MarkDirty(qs["who"], j)
  <1>1. /\ "who" \in Kind /\ QueuesInOrder(qs, n) /\ w \in Seq(Request) /\ WireOK(w, n)
        /\ \A h \in Kind : Ids(qs[h]) = Outstanding(w, h)
    BY DEF Server1, SrvOK, Kind
  <1>2. QueueOK(qs["who"], "who", n)
    BY <1>1 DEF QueuesInOrder
  <1>3. QueueOK(q, "who", n) /\ Ids(q) = Outstanding(w, "who")
    BY <1>1, <1>2, DirtyOK, DirtyKeeps DEF QueueOK
  <1> HIDE DEF q
  <1>4. Server1([qs EXCEPT !["who"] = q], w, n)
    BY <1>1, <1>3, ReplaceOne
  <1> QED BY <1>4 DEF q

(* A connection that is closed leaves nothing to wait for. *)
LEMMA NothingWaits ==
  ASSUME NEW n \in Nat PROVE Server1(EmptyQueues, <<>>, n)
  <1>1. EmptyQueues \in Queues /\ \A k \in Kind : EmptyQueues[k] = <<>>
    BY DEF EmptyQueues, Queues
  <1>2. WireOK(<<>>, n)
    BY DEF WireOK
  <1>3. Ids(<<>>) = {}
    BY DEF Ids
  <1>4. <<>> \in Seq(Request)
    OBVIOUS
  <1> QED BY <1>1, <1>2, <1>3, <1>4, OutstandingEmpty, EmptyOK DEF Server1, QueuesInOrder, SrvOK

(* What the invariant says of one server. *)
LEMMA OfServer ==
  ASSUME QInv, MatchInv, NEW s \in Server
  PROVE  /\ nextId \in Nat /\ Server1(queue[s], wire[s], nextId)
         /\ queue \in [Server -> Queues] /\ wire \in [Server -> Seq(Request)]
         /\ connected \in [Server -> BOOLEAN]
         /\ wire[s] # <<>> => connected[s]
  BY DEF QInv, TypeOK, QueuesOK, MatchInv, Server1, QueuesInOrder, Queues

-----------------------------------------------------------------------------
(* Every action: the queues of the server still stand for its wire, and    *)
(* the callbacks it makes are those of the queries the reply answers.      *)

(* isonbase() and userhostbase() *)
LEMMA AskMatch ==
  ASSUME QInv, MatchInv, NEW s \in Server, NEW n \in Nat,
         isonbase(s, n) \/ userhostbase(s, n), QInv'
  PROVE  MatchInv'
  <1>1. PICK k \in {"ison", "userhost"} :
           /\ connected[s] /\ UNCHANGED connected /\ nextId' = nextId + n
           /\ queue' = [queue EXCEPT ![s][k] = queue[s][k] \o PlainEntries(nextId, n)]
           /\ wire' = [wire EXCEPT ![s] = wire[s] \o Requests(k, nextId, n)]
    BY DEF isonbase, userhostbase
  <1>2. k \in Kind /\ k # "who"
    BY DEF Kind
  <1>3. /\ nextId \in Nat /\ Server1(queue[s], wire[s], nextId)
        /\ queue \in [Server -> Queues] /\ wire \in [Server -> Seq(Request)]
    BY OfServer
  <1>4. Server1([queue[s] EXCEPT ![k] = queue[s][k] \o PlainEntries(nextId, n)],
                wire[s] \o Requests(k, nextId, n), nextId + n)
    BY <1>2, <1>3, AddsRequests
  <1>5. /\ queue'[s] = [queue[s] EXCEPT ![k] = queue[s][k] \o PlainEntries(nextId, n)]
        /\ wire'[s] = wire[s] \o Requests(k, nextId, n)
        /\ \A t \in Server : t # s => queue'[t] = queue[t] /\ wire'[t] = wire[t]
    BY <1>1, <1>3
  <1>6. SrvOK(queue'[s], wire'[s], nextId')
    BY <1>1, <1>4, <1>5 DEF Server1
  <1>7. nextId' \in Nat /\ nextId <= nextId'
    BY <1>1, <1>3
  <1> QED BY <1>1, <1>5, <1>6, <1>7, OneServer

(* 001: server_is_connected() and the USERHOST about oneself *)
LEMMA WelcomeMatch ==
  ASSUME QInv, MatchInv, NEW s \in Server, Welcome(s), QInv'
  PROVE  MatchInv'
  <1>1. /\ connected' = [connected EXCEPT ![s] = TRUE] /\ nextId' = nextId + 1
        /\ queue' = [queue EXCEPT ![s]["userhost"] = queue[s]["userhost"] \o PlainEntries(nextId, 1)]
        /\ wire' = [wire EXCEPT ![s] = wire[s] \o Requests("userhost", nextId, 1)]
    BY DEF Welcome
  <1>2. "userhost" \in Kind /\ 1 \in Nat
    BY DEF Kind
  <1>3. /\ nextId \in Nat /\ Server1(queue[s], wire[s], nextId)
        /\ queue \in [Server -> Queues] /\ wire \in [Server -> Seq(Request)]
        /\ connected \in [Server -> BOOLEAN]
    BY OfServer
  <1>4. Server1([queue[s] EXCEPT !["userhost"] = queue[s]["userhost"] \o PlainEntries(nextId, 1)],
                wire[s] \o Requests("userhost", nextId, 1), nextId + 1)
    BY <1>2, <1>3, AddsRequests
  <1>5. /\ queue'[s] = [queue[s] EXCEPT !["userhost"] = queue[s]["userhost"] \o PlainEntries(nextId, 1)]
        /\ wire'[s] = wire[s] \o Requests("userhost", nextId, 1)
        /\ connected'[s]
        /\ \A t \in Server : t # s => /\ queue'[t] = queue[t] /\ wire'[t] = wire[t]
                                      /\ connected'[t] = connected[t]
    BY <1>1, <1>3
  <1>6. SrvOK(queue'[s], wire'[s], nextId')
    BY <1>1, <1>4, <1>5 DEF Server1
  <1>7. nextId' \in Nat /\ nextId <= nextId'
    BY <1>1, <1>3
  <1> QED BY <1>5, <1>6, <1>7, OneServer

(* whobase() *)
LEMMA WhoMatch ==
  ASSUME QInv, MatchInv, NEW s \in Server, NEW t \in Target, NEW f \in SUBSET User,
         NEW func \in BOOLEAN, whobase(s, t, f, func), QInv'
  PROVE  MatchInv'
  <1> DEFINE q == WhoAdd(queue[s]["who"], nextId, t, f, func)
             w == IF CanPiggyback(queue[s]["who"], t) THEN wire[s]
                  ELSE Append(wire[s], WhoRequest(nextId, f))
  <1>1. /\ connected[s] /\ UNCHANGED connected /\ nextId' = nextId + 1
        /\ queue' = [queue EXCEPT ![s]["who"] = q]
        /\ wire' = [wire EXCEPT ![s] = w]
    BY DEF whobase
  <1>2. /\ nextId \in Nat /\ Server1(queue[s], wire[s], nextId)
        /\ queue \in [Server -> Queues] /\ wire \in [Server -> Seq(Request)]
    BY OfServer
  <1>3. Server1([queue[s] EXCEPT !["who"] = q], w, nextId + 1)
    BY <1>2, AddsWho
  <1> HIDE DEF q, w
  <1>4. /\ queue'[s] = [queue[s] EXCEPT !["who"] = q] /\ wire'[s] = w
        /\ \A c \in Server : c # s => queue'[c] = queue[c] /\ wire'[c] = wire[c]
    BY <1>1, <1>2
  <1>5. SrvOK(queue'[s], wire'[s], nextId')
    BY <1>1, <1>3, <1>4 DEF Server1
  <1>6. nextId' \in Nat /\ nextId <= nextId'
    BY <1>1, <1>2
  <1> QED BY <1>1, <1>4, <1>5, <1>6, OneServer

(* ison_returned(), whose callback may ask USERHOST *)
LEMMA IsonMatch ==
  ASSUME AInv, NEW s \in Server, NEW n \in 0..1, ison_returned(s, n), QInv'
  PROVE  MatchInv' /\ RightAsker'
  <1> DEFINE qs == [queue[s] EXCEPT !["ison"] = who_queue_pop(queue[s]["ison"])]
             q == queue[s]["ison"]
             u == queue[s]["userhost"] \o PlainEntries(nextId, n)
             w == Tail(wire[s]) \o Requests("userhost", nextId, n)
  <1>1. /\ UNCHANGED connected /\ nextId' = nextId + n
        /\ wire[s] # <<>> /\ Head(wire[s]).kind = "ison"
        /\ queue' = [queue EXCEPT ![s]["ison"] = ison_queue_pop(q), ![s]["userhost"] = u]
        /\ wire' = [wire EXCEPT ![s] = w]
        /\ answers' = answers \cup IF q = <<>> THEN {} ELSE Called(q, 1, Head(wire[s]), User)
    BY DEF ison_returned, Pending
  <1>2. "userhost" \in Kind /\ "ison" \in Kind /\ n \in Nat /\ "ison" # "who" /\ "userhost" # "who"
    BY DEF Kind
  <1>3. /\ nextId \in Nat /\ Server1(queue[s], wire[s], nextId)
        /\ queue \in [Server -> Queues] /\ wire \in [Server -> Seq(Request)]
        /\ wire[s] # <<>> => connected[s]
    BY OfServer DEF AInv
  <1>4. /\ Server1(qs, Tail(wire[s]), nextId) /\ q # <<>> /\ q[1].via = Head(wire[s]).id
        /\ who_queue_pop(q) = Tail(q)
    <2>1. Server1(qs, Tail(wire[s]), nextId)
      BY <1>1, <1>2, <1>3, PopsReply
    <2>2. HeadAlone(q, Head(wire[s]).id)
      BY <1>1, <1>2, <1>3, PopsReply
    <2> HIDE DEF q, qs
    <2> QED BY <2>1, <2>2 DEF HeadAlone
  <1>5. Server1([qs EXCEPT !["userhost"] = qs["userhost"] \o PlainEntries(nextId, n)], w, nextId + n)
    <2> HIDE DEF qs
    <2> QED BY <1>2, <1>3, <1>4, AddsRequests
  <1>6. qs["userhost"] = queue[s]["userhost"]
    BY <1>2, <1>3 DEF Queues
  <1>7. /\ queue'[s] = [qs EXCEPT !["userhost"] = u] /\ wire'[s] = w
        /\ \A c \in Server : c # s => queue'[c] = queue[c] /\ wire'[c] = wire[c]
    <2>1. ison_queue_pop(q) = who_queue_pop(q)
      BY <1>4 DEF ison_queue_pop
    <2> HIDE DEF u, w
    <2> QED BY <1>1, <1>3, <2>1 DEF Queues
  <1>8. SrvOK(queue'[s], wire'[s], nextId')
    BY <1>1, <1>5, <1>6, <1>7 DEF Server1
  <1>9. nextId' \in Nat /\ nextId <= nextId'
    BY <1>1, <1>2, <1>3
  <1>10. MatchInv'
    <2> HIDE DEF qs, q, u, w
    <2> QED BY <1>1, <1>3, <1>7, <1>8, <1>9, OneServer DEF AInv
  <1>11. RightAsker'
    <2>1. \A i \in 1..1 : q[i].via = Head(wire[s]).id
      BY <1>4
    <2>2. \A a \in Called(q, 1, Head(wire[s]), User) : a.by = a.via
      <3> HIDE DEF q
      <3> QED BY <2>1, CalledRight
    <2> HIDE DEF q
    <2> QED BY <1>1, <2>2 DEF AInv, RightAsker
  <1> QED BY <1>10, <1>11

(* Appending to a queue and removing its head can be done in either order. *)
LEMMA TailConcat ==
  ASSUME NEW S, NEW q \in Seq(S), q # <<>>, NEW p \in Seq(S)
  PROVE  Tail(q \o p) = Tail(q) \o p
  <1> DEFINE a == Tail(q \o p)
             b == Tail(q) \o p
  <1>1. /\ Len(q) \in Nat \ {0} /\ Len(p) \in Nat /\ q \o p \in Seq(S)
        /\ Len(q \o p) = Len(q) + Len(p)
        /\ \A i \in 1..(Len(q) + Len(p)) :
              (q \o p)[i] = IF i <= Len(q) THEN q[i] ELSE p[i - Len(q)]
    BY ConcatProperties
  <1>2. /\ Tail(q) \in Seq(S) /\ Len(Tail(q)) = Len(q) - 1
        /\ \A i \in 1..(Len(q) - 1) : Tail(q)[i] = q[i + 1]
    BY HeadTailProperties
  <1>3. q \o p # <<>>
    BY <1>1
  <1>4. /\ a \in Seq(S) /\ Len(a) = Len(q) + Len(p) - 1
        /\ \A i \in 1..(Len(q) + Len(p) - 1) : a[i] = (q \o p)[i + 1]
    <2> DEFINE z == q \o p
    <2>1. z \in Seq(S) /\ z # <<>> /\ Len(z) = Len(q) + Len(p)
      BY <1>1, <1>3
    <2> HIDE DEF z
    <2>2. /\ Tail(z) \in Seq(S) /\ Len(Tail(z)) = Len(z) - 1
          /\ \A i \in 1..(Len(z) - 1) : Tail(z)[i] = z[i + 1]
      BY <2>1, HeadTailProperties
    <2> QED BY <2>1, <2>2 DEF z
  <1>5. /\ b \in Seq(S) /\ Len(b) = Len(q) - 1 + Len(p)
        /\ \A i \in 1..(Len(q) - 1 + Len(p)) :
              b[i] = IF i <= Len(q) - 1 THEN Tail(q)[i] ELSE p[i - (Len(q) - 1)]
    <2> DEFINE z == Tail(q)
    <2>1. z \in Seq(S) /\ Len(z) = Len(q) - 1
      BY <1>2
    <2> HIDE DEF z
    <2>2. /\ z \o p \in Seq(S) /\ Len(z \o p) = Len(z) + Len(p)
          /\ \A i \in 1..(Len(z) + Len(p)) :
                (z \o p)[i] = IF i <= Len(z) THEN z[i] ELSE p[i - Len(z)]
      BY <2>1, ConcatProperties
    <2> QED BY <2>1, <2>2 DEF z
  <1> HIDE DEF a, b
  <1>6. Len(a) = Len(b) /\ Len(b) \in Nat
    BY <1>1, <1>4, <1>5
  <1>7. ASSUME NEW i \in 1..Len(a) PROVE a[i] = b[i]
    <2>1. /\ i \in 1..(Len(q) + Len(p) - 1) /\ i \in 1..(Len(q) - 1 + Len(p))
          /\ i + 1 \in 1..(Len(q) + Len(p))
      BY <1>1, <1>4
    <2>2. a[i] = IF i + 1 <= Len(q) THEN q[i + 1] ELSE p[(i + 1) - Len(q)]
      BY <1>1, <1>4, <2>1
    <2>3. CASE i <= Len(q) - 1
      <3>1. i \in 1..(Len(q) - 1) /\ i + 1 <= Len(q)
        BY <1>1, <2>1, <2>3
      <3> QED BY <1>2, <1>5, <2>1, <2>2, <2>3, <3>1
    <2>4. CASE ~ (i <= Len(q) - 1)
      <3>1. ~ (i + 1 <= Len(q)) /\ (i + 1) - Len(q) = i - (Len(q) - 1)
        BY <1>1, <2>1, <2>4
      <3> QED BY <1>5, <2>1, <2>2, <2>4, <3>1
    <2> QED BY <2>3, <2>4
  <1>8. a = b
    BY <1>4, <1>5, <1>6, <1>7, SeqEqual
  <1> QED BY <1>8 DEF a, b

(* userhost_returned(), whose callback may ask USERHOST again *)
LEMMA UserhostMatch ==
  ASSUME AInv, NEW s \in Server, NEW n \in 0..1, userhost_returned(s, n), QInv'
  PROVE  MatchInv' /\ RightAsker'
  <1> DEFINE q == queue[s]["userhost"]
             qs == [queue[s] EXCEPT !["userhost"] = who_queue_pop(q)]
             u == who_queue_pop(q) \o PlainEntries(nextId, n)
             w == Tail(wire[s]) \o Requests("userhost", nextId, n)
  <1>1. /\ UNCHANGED connected /\ nextId' = nextId + n
        /\ wire[s] # <<>> /\ Head(wire[s]).kind = "userhost"
        /\ queue' = [queue EXCEPT ![s]["userhost"] =
                        IF q = <<>> THEN q ELSE userhost_queue_pop(q \o PlainEntries(nextId, n))]
        /\ wire' = [wire EXCEPT ![s] = w]
        /\ answers' = answers \cup IF q = <<>> THEN {} ELSE Called(q, 1, Head(wire[s]), User)
    BY DEF userhost_returned, Pending
  <1>2. "userhost" \in Kind /\ n \in Nat /\ "userhost" # "who"
    BY DEF Kind
  <1>3. /\ nextId \in Nat /\ Server1(queue[s], wire[s], nextId)
        /\ queue \in [Server -> Queues] /\ wire \in [Server -> Seq(Request)]
        /\ wire[s] # <<>> => connected[s]
    BY OfServer DEF AInv
  <1>4. Server1(qs, Tail(wire[s]), nextId) /\ HeadAlone(q, Head(wire[s]).id)
    <2>1. Server1(qs, Tail(wire[s]), nextId)
      BY <1>1, <1>2, <1>3, PopsReply
    <2>2. HeadAlone(q, Head(wire[s]).id)
      BY <1>1, <1>2, <1>3, PopsReply
    <2> QED BY <2>1, <2>2
  <1>5. Server1([qs EXCEPT !["userhost"] = qs["userhost"] \o PlainEntries(nextId, n)], w, nextId + n)
    <2> HIDE DEF qs
    <2> QED BY <1>2, <1>3, <1>4, AddsRequests
  <1>6. /\ qs["userhost"] = who_queue_pop(q)
        /\ [qs EXCEPT !["userhost"] = u] = [queue[s] EXCEPT !["userhost"] = u]
    <2> HIDE DEF q, u
    <2> QED BY <1>2, <1>3 DEF Queues
  <1>7. userhost_queue_pop(q \o PlainEntries(nextId, n)) = u
    <2>1. q \in Seq(Entry) /\ q # <<>> /\ who_queue_pop(q) = Tail(q)
      BY <1>2, <1>3, <1>4 DEF Queues, HeadAlone
    <2>2. PlainEntries(nextId, n) \in Seq(Entry)
      <3>1. "userhost" \in {"ison", "userhost"}
        OBVIOUS
      <3>2. QueueOK(PlainEntries(nextId, n), "userhost", nextId + n)
        BY <1>2, <1>3, <3>1, EmptyPlainOK
      <3> QED BY <3>2 DEF QueueOK, Queue
    <2> HIDE DEF q
    <2>3. Tail(q \o PlainEntries(nextId, n)) = Tail(q) \o PlainEntries(nextId, n)
      BY <2>1, <2>2, TailConcat
    <2> QED BY <2>1, <2>3 DEF userhost_queue_pop
  <1>8. /\ queue'[s] = [queue[s] EXCEPT !["userhost"] = u] /\ wire'[s] = w
        /\ \A c \in Server : c # s => queue'[c] = queue[c] /\ wire'[c] = wire[c]
    <2>1. q # <<>>
      BY <1>4 DEF HeadAlone
    <2>2. queue' = [queue EXCEPT ![s]["userhost"] = u]
      BY <1>1, <1>7, <2>1
    <2> HIDE DEF u, w
    <2> QED BY <1>1, <1>3, <2>2 DEF Queues
  <1>9. SrvOK(queue'[s], wire'[s], nextId')
    BY <1>1, <1>5, <1>6, <1>8 DEF Server1
  <1>10. nextId' \in Nat /\ nextId <= nextId'
    BY <1>1, <1>2, <1>3
  <1>11. MatchInv'
    <2> HIDE DEF qs, q, u, w
    <2> QED BY <1>1, <1>3, <1>8, <1>9, <1>10, OneServer DEF AInv
  <1>12. RightAsker'
    <2>1. \A i \in 1..1 : q[i].via = Head(wire[s]).id
      BY <1>4 DEF HeadAlone
    <2> HIDE DEF q
    <2>2. \A a \in Called(q, 1, Head(wire[s]), User) : a.by = a.via
      BY <2>1, CalledRight
    <2> QED BY <1>1, <2>2 DEF AInv, RightAsker
  <1> QED BY <1>11, <1>12

(* What a callback that disconnects leaves: nothing of its server, or nothing at all. *)
LEMMA ClosedQueues ==
  ASSUME QInv, MatchInv, NEW s \in Server, NEW k, NEW n, NEW line, NEW called, NEW dies,
         ClosedBy(s, k, n, line, called, dies)
  PROVE  /\ nextId' = nextId /\ nextId \in Nat /\ answers' = answers \cup called
         /\ \A c \in Server :
               IF c = s \/ dies
               THEN queue'[c] = EmptyQueues /\ wire'[c] = <<>> /\ lines'[c] = {}
               ELSE /\ queue'[c] = queue[c] /\ wire'[c] = wire[c] /\ lines'[c] = lines[c]
                    /\ connected'[c] = connected[c]
  <1>1. /\ nextId \in Nat /\ queue \in [Server -> Queues]
        /\ connected \in [Server -> BOOLEAN] /\ (wire[s] # <<>> => connected[s])
    BY OfServer
  <1>2. connected[s]
    BY <1>1 DEF ClosedBy, Pending
  <1>3. clean_server_queues(s) = [queue EXCEPT ![s] = EmptyQueues]
    BY <1>2 DEF clean_server_queues
  <1>4. \A c \in Server : clean_server_queues(s)[c] = IF c = s THEN EmptyQueues ELSE queue[c]
    <2> HIDE DEF EmptyQueues
    <2> QED BY <1>1, <1>3
  <1>5. CallbackCloses(s, called, dies)
    BY DEF ClosedBy
  <1>6. \A c \in Server : /\ queue'[c] = IF dies THEN EmptyQueues ELSE clean_server_queues(s)[c]
                          /\ wire'[c] = IF c = s \/ dies THEN <<>> ELSE wire[c]
                          /\ lines'[c] = IF c = s \/ dies THEN {} ELSE lines[c]
                          /\ connected'[c] = (connected[c] /\ ~ (c = s \/ dies))
    BY <1>5 DEF CallbackCloses
  <1>7. nextId' = nextId /\ answers' = answers \cup called
    BY <1>5 DEF CallbackCloses
  <1>8. \A c \in Server : connected[c] \in BOOLEAN
    BY <1>1
  <1> QED BY <1>1, <1>4, <1>6, <1>7, <1>8

(* A callback that disconnects: what is left waits as it did. *)
LEMMA ClosedMatch ==
  ASSUME AInv, NEW s \in Server, ACallbackCloses(s), QInv'
  PROVE  MatchInv' /\ RightAsker'
  <1>1. PICK k, n, line, called, dies : ClosedBy(s, k, n, line, called, dies)
    BY ClosingCallback
  <1> DEFINE q == queue[s][k]
             r == Head(wire[s])
  <1>2. /\ k \in Kind /\ wire[s] # <<>> /\ r.kind = k
        /\ n \in 1..(IF k = "who" THEN BatchLen(q) ELSE 1)
        /\ called \subseteq Called(q, n, r, line)
    BY <1>1 DEF ClosedBy, Pending
  <1>3. nextId \in Nat /\ Server1(queue[s], wire[s], nextId)
    BY OfServer DEF AInv
  <1>4. HeadBatch(q, r.id) /\ (k # "who" => HeadAlone(q, r.id))
    BY <1>2, <1>3, PopsReply
  <1>5. /\ nextId' = nextId /\ answers' = answers \cup called
        /\ \A c \in Server :
              IF c = s \/ dies
              THEN queue'[c] = EmptyQueues /\ wire'[c] = <<>>
              ELSE /\ queue'[c] = queue[c] /\ wire'[c] = wire[c] /\ connected'[c] = connected[c]
    BY <1>1, ClosedQueues DEF AInv
  <1>6. MatchInv'
    <2>1. SrvOK(EmptyQueues, <<>>, nextId)
      BY <1>3, NothingWaits DEF Server1
    <2>2. \A c \in Server : SrvOK(queue[c], wire[c], nextId) /\ (wire[c] # <<>> => connected[c])
      BY DEF AInv, MatchInv
    <2> QED BY <1>5, <2>1, <2>2 DEF MatchInv
  <1>7. RightAsker'
    <2> HIDE DEF q, r
    <2>1. \A i \in 1..n : q[i].via = r.id
      <3>1. CASE k = "who"
        <4>1. n \in 1..BatchLen(q)
          BY <1>2, <3>1
        <4>2. \A i \in 1..BatchLen(q) : q[i].via = r.id
          BY <1>4 DEF HeadBatch
        <4>3. BatchLen(q) \in Int
          <5>1. q \in Queue
            BY <1>2, <1>3 DEF Server1, QueuesInOrder, QueueOK, q
          <5> QED BY <5>1, BatchWithin
        <4> HIDE DEF BatchLen
        <4> QED BY <4>1, <4>2, <4>3
      <3>2. CASE k # "who"
        <4>1. n \in 1..1
          BY <1>2, <3>2
        <4>2. q[1].via = r.id
          BY <1>4, <3>2 DEF HeadAlone
        <4> QED BY <4>1, <4>2
      <3> QED BY <3>1, <3>2
    <2>2. \A a \in Called(q, n, r, line) : a.by = a.via
      BY <2>1, CalledRight
    <2> QED BY <1>2, <1>5, <2>2 DEF AInv, RightAsker
  <1> QED BY <1>6, <1>7

(* Appending to what is sent leaves the oldest request the oldest. *)
LEMMA AppendHead ==
  ASSUME NEW w \in Seq(Request), w # <<>>, NEW r \in Request
  PROVE  /\ Append(w, r) # <<>> /\ Head(Append(w, r)) = Head(w)
         /\ Tail(Append(w, r)) = Append(Tail(w), r)
  <1>1. <<r>> \in Seq(Request) /\ Tail(w) \in Seq(Request) /\ Append(w, r) = w \o <<r>>
    OBVIOUS
  <1>2. Tail(w \o <<r>>) = Tail(w) \o <<r>>
    BY <1>1, TailConcat
  <1>3. Append(Tail(w), r) = Tail(w) \o <<r>>
    <2> DEFINE v == Tail(w)
    <2>1. v \in Seq(Request)
      BY <1>1
    <2> HIDE DEF v
    <2>2. Append(v, r) = v \o <<r>>
      BY <2>1
    <2> QED BY <2>2 DEF v
  <1>4. Append(w, r) # <<>> /\ Head(Append(w, r)) = Head(w)
    <2>1. Len(w) \in Nat /\ 1 \in 1..Len(w) /\ Len(Append(w, r)) = Len(w) + 1
          /\ Append(w, r)[1] = w[1]
      OBVIOUS
    <2> QED BY <2>1
  <1> QED BY <1>1, <1>2, <1>3, <1>4

(* what whoreply() makes of the queue when its callback for the j-th entry asks about t *)
Asked(q, j, t, i) == IF j = 0 THEN q ELSE WhoAdd(MarkDirty(q, j), i, t, User, TRUE)

(* what is on the wire then *)
AskedWire(w, q, j, t, i) ==
    IF j = 0 \/ CanPiggyback(MarkDirty(q, j), t) THEN w ELSE Append(w, WhoRequest(i, User))

(* the number of the next query then *)
AskedNext(j, i) == IF j = 0 THEN i ELSE i + 1

(* The callback of a line asks a WHO: the head of the queue waits for the same reply. *)
LEMMA AsksInLine ==
  ASSUME NEW qs, NEW w, NEW n \in Nat, Server1(qs, w, n), w # <<>>, Head(w).kind = "who",
         NEW j \in Nat, NEW t \in Target
  PROVE  LET q == Asked(qs["who"], j, t, n)
         IN  /\ Server1([qs EXCEPT !["who"] = q], AskedWire(w, qs["who"], j, t, n), AskedNext(j, n))
             /\ HeadBatch(q, Head(w).id)
  <1> DEFINE q0 == MarkDirty(qs["who"], j)
             q == WhoAdd(q0, n, t, User, TRUE)
             v == IF CanPiggyback(q0, t) THEN w ELSE Append(w, WhoRequest(n, User))
             m == [qs EXCEPT !["who"] = q0]
  <1>1. qs \in Queues /\ w \in Seq(Request) /\ "who" \in Kind
    BY DEF Server1, QueuesInOrder, Kind
  <1>2. CASE j = 0
    <2>1. HeadBatch(qs["who"], Head(w).id)
      BY <1>1, PopsReply
    <2>2. [qs EXCEPT !["who"] = qs["who"]] = qs
      BY <1>1 DEF Queues
    <2> QED BY <1>2, <2>1, <2>2 DEF Asked, AskedWire, AskedNext
  <1>3. CASE j # 0
    <2>1. Server1(m, w, n)
      BY Marks
    <2>2. m["who"] = q0
      BY <1>1 DEF Queues
    <2>3. Server1([m EXCEPT !["who"] = q], v, n + 1)
      <3>1. User \in SUBSET User /\ TRUE \in BOOLEAN
        OBVIOUS
      <3> HIDE DEF m, q0
      <3> QED BY <2>1, <2>2, <3>1, AddsWho
    <2>4. [m EXCEPT !["who"] = q] = [qs EXCEPT !["who"] = q]
      <3> HIDE DEF q, q0
      <3> QED BY <1>1 DEF Queues
    <2>5. v # <<>> /\ Head(v) = Head(w)
      <3>1. WhoRequest(n, User) \in Request
        BY WhoRequestType
      <3> HIDE DEF q0
      <3> QED BY <1>1, <3>1, AppendHead
    <2>6. HeadBatch(q, Head(w).id)
      <3> DEFINE p == [qs EXCEPT !["who"] = q]
      <3>1. Server1(p, v, n + 1) /\ n + 1 \in Nat
        BY <2>3, <2>4
      <3>2. p["who"] = q
        <4> HIDE DEF q
        <4> QED BY <1>1 DEF Queues
      <3> HIDE DEF p, q, v
      <3>3. HeadBatch(p["who"], Head(v).id)
        BY <1>1, <2>5, <3>1, PopsReply
      <3> QED BY <2>5, <3>2, <3>3
    <2> QED BY <1>3, <2>3, <2>4, <2>6 DEF Asked, AskedWire, AskedNext
  <1> QED BY <1>2, <1>3

(* 352: every callback is that of a query the line belongs to. *)
LEMMA WhoReplyMatch ==
  ASSUME AInv, NEW s \in Server, NEW u \in User, NEW j \in Nat, NEW t \in Target,
         whoreply(s, u, j, t), QInv'
  PROVE  MatchInv' /\ RightAsker'
  <1> DEFINE q == queue[s]["who"]
             q1 == Asked(q, j, t, nextId)
             n == IF q = <<>> THEN 0 ELSE BatchLen(q1)
             w == AskedWire(wire[s], q, j, t, nextId)
             m == AskedNext(j, nextId)
             qs == [queue[s] EXCEPT !["who"] = q1]
  <1>1. /\ UNCHANGED connected /\ nextId' = m
        /\ wire[s] # <<>> /\ Head(wire[s]).kind = "who"
        /\ queue' = [queue EXCEPT ![s]["who"] = MarkDirty(q1, n)]
        /\ wire' = IF j = 0 \/ CanPiggyback(MarkDirty(q, j), t) THEN wire
                   ELSE [wire EXCEPT ![s] = Append(wire[s], WhoRequest(nextId, User))]
        /\ \A a \in answers' : a \in answers \/ a \in Called(q1, n, Head(wire[s]), {u})
    BY DEF whoreply, Pending, Asked, AskedNext
  <1>2. /\ nextId \in Nat /\ Server1(queue[s], wire[s], nextId)
        /\ queue \in [Server -> Queues] /\ wire \in [Server -> Seq(Request)]
        /\ wire[s] # <<>> => connected[s]
    BY OfServer DEF AInv
  <1>3. Server1(qs, w, m) /\ HeadBatch(q1, Head(wire[s]).id)
    BY <1>1, <1>2, AsksInLine
  <1>4. wire'[s] = w /\ \A c \in Server : c # s => wire'[c] = wire[c]
    BY <1>1, <1>2 DEF AskedWire
  <1>5. m \in Nat /\ nextId <= m
    BY <1>2 DEF AskedNext
  <1>6. n \in Int /\ n <= BatchLen(q1) /\ BatchLen(q1) \in Nat
    <2>1. q1 \in Seq(Entry)
      <3>1. qs["who"] \in Seq(Entry)
        BY <1>3 DEF Server1, QueuesInOrder, Queues, Kind
      <3>2. qs["who"] = q1
        <4> HIDE DEF q1
        <4> QED BY <1>2 DEF Queues, Kind
      <3> HIDE DEF qs, q1
      <3> QED BY <3>1, <3>2
    <2>2. BatchLen(q1) \in Nat
      <3> HIDE DEF q1
      <3> QED BY <2>1, BatchWithin DEF Queue
    <2> HIDE DEF q1
    <2> QED BY <2>2
  <1> HIDE DEF q1, m, w, n
  <1>7. Server1([qs EXCEPT !["who"] = MarkDirty(q1, n)], w, m)
    <2>1. qs["who"] = q1
      BY <1>2 DEF Queues, Kind
    <2> HIDE DEF qs
    <2> QED BY <1>3, <1>5, <1>6, <2>1, Marks
  <1>8. /\ queue'[s] = [qs EXCEPT !["who"] = MarkDirty(q1, n)]
        /\ \A c \in Server : c # s => queue'[c] = queue[c]
    <2> DEFINE d == MarkDirty(q1, n)
    <2>1. queue' = [queue EXCEPT ![s]["who"] = d]
      BY <1>1
    <2> HIDE DEF d
    <2>2. queue'[s] = [qs EXCEPT !["who"] = d] /\ \A c \in Server : c # s => queue'[c] = queue[c]
      BY <1>2, <2>1 DEF Queues
    <2> QED BY <2>2 DEF d
  <1>9. SrvOK(queue'[s], wire'[s], nextId')
    BY <1>1, <1>4, <1>7, <1>8 DEF Server1
  <1>10. MatchInv'
    <2> HIDE DEF qs, q
    <2> QED BY <1>1, <1>2, <1>4, <1>5, <1>8, <1>9, OneServer DEF AInv
  <1>11. RightAsker'
    <2>1. \A i \in 1..n : q1[i].via = Head(wire[s]).id
      BY <1>3, <1>6 DEF HeadBatch
    <2>2. \A a \in Called(q1, n, Head(wire[s]), {u}) : a.by = a.via
      BY <2>1, CalledRight
    <2> QED BY <1>1, <2>2 DEF AInv, RightAsker
  <1> QED BY <1>10, <1>11

(* 315, whose callback may ask the next WHO before the batch is popped *)
LEMMA WhoEndMatch ==
  ASSUME AInv, NEW s \in Server, NEW again \in BOOLEAN, NEW t \in Target,
         who_end(s, again, t), QInv'
  PROVE  MatchInv' /\ RightAsker'
  <1> DEFINE q == queue[s]["who"]
             q1 == IF again THEN WhoAdd(q, nextId, t, User, TRUE) ELSE q
             v == IF again /\ ~ CanPiggyback(q, t)
                  THEN Append(wire[s], WhoRequest(nextId, User)) ELSE wire[s]
             m == IF again THEN nextId + 1 ELSE nextId
             qs == [queue[s] EXCEPT !["who"] = q1]
             e == who_queue_pop(q1)
  <1>1. /\ UNCHANGED connected /\ nextId' = m
        /\ wire[s] # <<>> /\ Head(wire[s]).kind = "who"
        /\ queue' = [queue EXCEPT ![s]["who"] = e]
        /\ wire' = [wire EXCEPT ![s] =
                      IF again /\ ~ CanPiggyback(q, t)
                      THEN Append(Tail(wire[s]), WhoRequest(nextId, User)) ELSE Tail(wire[s])]
        /\ answers' = answers \cup Called(q1, BatchLen(q1), Head(wire[s]), {})
    BY DEF who_end, Pending
  <1>2. /\ nextId \in Nat /\ Server1(queue[s], wire[s], nextId)
        /\ queue \in [Server -> Queues] /\ wire \in [Server -> Seq(Request)]
        /\ wire[s] # <<>> => connected[s]
        /\ "who" \in Kind
    BY OfServer DEF AInv, Kind
  <1>3. WhoRequest(nextId, User) \in Request
    BY <1>2, WhoRequestType
  <1>4. Server1(qs, v, m)
    <2>1. CASE again
      <3>1. User \in SUBSET User /\ TRUE \in BOOLEAN
        OBVIOUS
      <3>2. Server1([queue[s] EXCEPT !["who"] = WhoAdd(queue[s]["who"], nextId, t, User, TRUE)],
                    IF CanPiggyback(queue[s]["who"], t) THEN wire[s]
                    ELSE Append(wire[s], WhoRequest(nextId, User)), nextId + 1)
        BY <1>2, <3>1, AddsWho
      <3> QED BY <2>1, <3>2
    <2>2. CASE ~ again
      <3>1. qs = queue[s]
        BY <1>2, <2>2 DEF Queues
      <3> QED BY <1>2, <2>2, <3>1
    <2> QED BY <2>1, <2>2
  <1>5. /\ v # <<>> /\ Head(v) = Head(wire[s])
        /\ Tail(v) = IF again /\ ~ CanPiggyback(q, t)
                     THEN Append(Tail(wire[s]), WhoRequest(nextId, User)) ELSE Tail(wire[s])
    <2> DEFINE r == WhoRequest(nextId, User)
    <2>1. /\ Append(wire[s], r) # <<>> /\ Head(Append(wire[s], r)) = Head(wire[s])
          /\ Tail(Append(wire[s], r)) = Append(Tail(wire[s]), r)
      BY <1>1, <1>2, <1>3, AppendHead
    <2> HIDE DEF r, q
    <2>2. v = IF again /\ ~ CanPiggyback(q, t) THEN Append(wire[s], r) ELSE wire[s]
      BY DEF r
    <2> HIDE DEF v
    <2>3. CASE again /\ ~ CanPiggyback(q, t)
      <3>1. v = Append(wire[s], r)
        BY <2>2, <2>3
      <3> QED BY <2>1, <2>3, <3>1 DEF r
    <2>4. CASE ~ (again /\ ~ CanPiggyback(q, t))
      <3>1. v = wire[s]
        BY <2>2, <2>4
      <3> QED BY <1>1, <2>4, <3>1
    <2> QED BY <2>3, <2>4
  <1>6. m \in Nat /\ nextId <= m
    BY <1>2
  <1>7. qs["who"] = q1
    <2>1. queue[s] \in Queues /\ "who" \in Kind
      BY <1>2
    <2> HIDE DEF q1
    <2> QED BY <2>1 DEF Queues
  <1> HIDE DEF q1, v, m
  <1>8. Server1([qs EXCEPT !["who"] = e], Tail(v), m) /\ HeadBatch(q1, Head(wire[s]).id)
    <2> HIDE DEF qs
    <2>1. Server1([qs EXCEPT !["who"] = who_queue_pop(qs["who"])], Tail(v), m)
      BY <1>1, <1>2, <1>4, <1>5, <1>6, PopsReply
    <2>2. HeadBatch(qs["who"], Head(v).id)
      BY <1>1, <1>2, <1>4, <1>5, <1>6, PopsReply
    <2> QED BY <1>5, <1>7, <2>1, <2>2
  <1> HIDE DEF e
  <1>9. /\ queue'[s] = [qs EXCEPT !["who"] = e]
        /\ \A c \in Server : c # s => queue'[c] = queue[c]
    BY <1>1, <1>2 DEF Queues
  <1>10. wire'[s] = Tail(v) /\ \A c \in Server : c # s => wire'[c] = wire[c]
    BY <1>1, <1>2, <1>5
  <1>11. SrvOK(queue'[s], wire'[s], nextId')
    BY <1>1, <1>8, <1>9, <1>10 DEF Server1
  <1>12. MatchInv'
    <2> HIDE DEF qs, q
    <2> QED BY <1>1, <1>2, <1>6, <1>9, <1>10, <1>11, OneServer DEF AInv
  <1>13. RightAsker'
    <2>1. \A i \in 1..BatchLen(q1) : q1[i].via = Head(wire[s]).id
      BY <1>8 DEF HeadBatch
    <2>2. \A a \in Called(q1, BatchLen(q1), Head(wire[s]), {}) : a.by = a.via
      BY <2>1, CalledRight
    <2> QED BY <1>1, <2>2 DEF AInv, RightAsker
  <1> QED BY <1>12, <1>13

(* NICK is sent: no query waits for its answer. *)
LEMMA SendNickMatch ==
  ASSUME QInv, MatchInv, NEW s \in Server, SendNick(s), QInv'
  PROVE  MatchInv'
  <1> DEFINE r == [kind |-> "nick", id |-> 0, mask |-> {}]
             v == Append(wire[s], r)
  <1>1. /\ connected[s] /\ UNCHANGED <<connected, queue, nextId>>
        /\ wire' = [wire EXCEPT ![s] = v]
    BY DEF SendNick
  <1>2. /\ nextId \in Nat /\ Server1(queue[s], wire[s], nextId)
        /\ wire \in [Server -> Seq(Request)]
    BY OfServer
  <1>3. r \in Request /\ r.kind \notin Kind
    BY DEF Request, Kind
  <1> HIDE DEF r
  <1>4. WireOK(v, nextId)
    <2>1. WireOK(wire[s], nextId) /\ nextId <= nextId /\ wire[s] \in Seq(Request)
      BY <1>2 DEF Server1, SrvOK
    <2> QED BY <1>2, <1>3, <2>1, WireAppend
  <1>5. \A k \in Kind : Outstanding(v, k) = Outstanding(wire[s], k)
    <2> TAKE k \in Kind
    <2>1. r.kind # k
      BY <1>3
    <2>2. Outstanding(v, k) = Outstanding(wire[s], k) \cup (IF r.kind = k THEN {r.id} ELSE {})
      BY <1>2, <1>3, OutstandingAppend
    <2> QED BY <2>1, <2>2
  <1>6. SrvOK(queue[s], v, nextId)
    BY <1>2, <1>4, <1>5 DEF Server1, SrvOK
  <1> HIDE DEF v
  <1>7. wire'[s] = v /\ \A c \in Server : c # s => wire'[c] = wire[c]
    BY <1>1, <1>2
  <1>8. nextId' \in Nat /\ nextId <= nextId'
    BY <1>1, <1>2
  <1>9. SrvOK(queue'[s], wire'[s], nextId')
    BY <1>1, <1>6, <1>7
  <1> QED BY <1>1, <1>7, <1>8, <1>9, OneServer

(* The answer to NICK leaves the queries alone. *)
LEMMA NickDone ==
  ASSUME NEW qs, NEW w, NEW n \in Nat, Server1(qs, w, n), w # <<>>, Head(w).kind = "nick"
  PROVE  Server1(qs, Tail(w), n)
  <1>1. w \in Seq(Request) /\ WireOK(w, n) /\ "nick" \notin Kind
    BY DEF Server1, SrvOK, Kind
  <1>2. Tail(w) \in Seq(Request) /\ WireOK(Tail(w), n)
    BY <1>1, WireTail
  <1>3. \A k \in Kind : Outstanding(Tail(w), k) = Outstanding(w, k)
    <2>1. \A k \in Kind : Outstanding(Tail(w), k) =
             IF Head(w).kind = k THEN Outstanding(w, k) \ {Head(w).id} ELSE Outstanding(w, k)
      BY <1>1, WireTail
    <2> QED BY <1>1, <2>1
  <1> QED BY <1>2, <1>3 DEF Server1, SrvOK

LEMMA NickAcceptedMatch ==
  ASSUME QInv, MatchInv, NEW s \in Server, NickAccepted(s), QInv'
  PROVE  MatchInv'
  <1>1. /\ UNCHANGED <<connected, queue, nextId>> /\ wire[s] # <<>>
        /\ wire' = [wire EXCEPT ![s] = Tail(wire[s])] /\ Head(wire[s]).kind = "nick"
    BY DEF NickAccepted, Pending
  <1>2. /\ nextId \in Nat /\ Server1(queue[s], wire[s], nextId)
        /\ wire \in [Server -> Seq(Request)]
        /\ wire[s] # <<>> => connected[s]
    BY OfServer
  <1>3. Server1(queue[s], Tail(wire[s]), nextId)
    BY <1>1, <1>2, NickDone
  <1>4. wire'[s] = Tail(wire[s]) /\ \A c \in Server : c # s => wire'[c] = wire[c]
    BY <1>1, <1>2
  <1>5. nextId' \in Nat /\ nextId <= nextId'
    BY <1>1, <1>2
  <1>6. SrvOK(queue'[s], wire'[s], nextId')
    BY <1>1, <1>3, <1>4 DEF Server1
  <1> QED BY <1>1, <1>2, <1>4, <1>5, <1>6, OneServer

(* 433 when nothing else waits: the USERHOST that follows is the only query. *)
LEMMA NicknameInUseMatch ==
  ASSUME QInv, MatchInv, "nick_in_use" \notin Hazards, NEW s \in Server,
         NEW orignick \in BOOLEAN, NicknameInUse(s, orignick), QInv'
  PROVE  MatchInv'
  <1> DEFINE q == EmptyQueues["userhost"] \o PlainEntries(nextId, 1)
             w == <<>> \o Requests("userhost", nextId, 1)
  <1>1. /\ nextId \in Nat /\ Server1(queue[s], wire[s], nextId)
        /\ queue \in [Server -> Queues] /\ wire \in [Server -> Seq(Request)]
        /\ wire[s] # <<>> => connected[s]
        /\ "userhost" \in Kind
    BY OfServer DEF Kind
  <1>2. /\ ~ orignick /\ wire[s] # <<>> /\ ~ (Len(wire[s]) > 1) /\ UNCHANGED connected
        /\ nextId' = nextId + 1
    BY DEF NicknameInUse, Pending
  <1>3. Tail(wire[s]) = <<>>
    <2> DEFINE x == wire[s]
    <2>1. x \in Seq(Request) /\ x # <<>> /\ ~ (Len(x) > 1)
      BY <1>1, <1>2
    <2> HIDE DEF x
    <2>2. Len(x) \in Nat /\ Len(x) # 0 /\ Tail(x) \in Seq(Request) /\ Len(Tail(x)) = Len(x) - 1
      BY <2>1
    <2>3. Len(Tail(x)) = 0
      BY <2>1, <2>2
    <2>4. \A y \in Seq(Request) : Len(y) = 0 => y = <<>>
      OBVIOUS
    <2>5. Tail(x) = <<>>
      BY <2>2, <2>3, <2>4
    <2> QED BY <2>5 DEF x
  <1>4. nextId + 1 - 1 = nextId
    BY <1>1
  <1>5. wire' = [wire EXCEPT ![s] = w]
    BY <1>2, <1>3 DEF NicknameInUse
  <1>6. queue' = [clean_server_queues(s) EXCEPT ![s]["userhost"] =
                     clean_server_queues(s)[s]["userhost"] \o PlainEntries(nextId, 1)]
    BY <1>2, <1>4 DEF NicknameInUse
  <1>7. clean_server_queues(s) = [queue EXCEPT ![s] = EmptyQueues]
    BY <1>1, <1>2 DEF clean_server_queues
  <1>8. EmptyQueues \in Queues
    BY DEF EmptyQueues, Queues
  <1>9. /\ queue'[s] = [EmptyQueues EXCEPT !["userhost"] = q]
        /\ \A c \in Server : c # s => queue'[c] = queue[c]
    <2> HIDE DEF EmptyQueues
    <2>1. clean_server_queues(s)[s]["userhost"] = EmptyQueues["userhost"]
      BY <1>1, <1>7
    <2>2. queue' = [clean_server_queues(s) EXCEPT ![s]["userhost"] = q]
      BY <1>6, <2>1
    <2> HIDE DEF q
    <2>3. queue' = [[queue EXCEPT ![s] = EmptyQueues] EXCEPT ![s]["userhost"] = q]
      BY <1>7, <2>2
    <2> QED BY <1>1, <1>8, <2>3
  <1>10. Server1([EmptyQueues EXCEPT !["userhost"] = q], w, nextId + 1)
    <2>1. Server1(EmptyQueues, <<>>, nextId)
      BY <1>1, NothingWaits
    <2>2. 1 \in Nat /\ "userhost" # "who" /\ "userhost" \in Kind
      BY <1>1
    <2> HIDE DEF EmptyQueues
    <2> QED BY <1>1, <2>1, <2>2, AddsRequests
  <1> HIDE DEF q, w
  <1>11. wire'[s] = w /\ \A c \in Server : c # s => wire'[c] = wire[c]
    BY <1>1, <1>5
  <1>12. SrvOK(queue'[s], wire'[s], nextId')
    BY <1>2, <1>9, <1>10, <1>11 DEF Server1
  <1>13. nextId' \in Nat /\ nextId <= nextId'
    BY <1>1, <1>2
  <1> QED BY <1>1, <1>2, <1>9, <1>11, <1>12, <1>13, OneServer

(* close_server() called for the server it closes *)
LEMMA CloseMatch ==
  ASSUME QInv, MatchInv, "foreign_close" \notin Hazards, NEW ctx \in Server, NEW cs \in Server,
         close_server(ctx, cs), QInv'
  PROVE  MatchInv'
  <1>1. /\ ctx = cs /\ connected[cs] /\ UNCHANGED nextId
        /\ queue' = clean_server_queues(cs)
        /\ connected' = [connected EXCEPT ![cs] = FALSE]
        /\ wire' = [wire EXCEPT ![cs] = <<>>]
    BY DEF close_server
  <1>2. /\ nextId \in Nat /\ queue \in [Server -> Queues]
        /\ wire \in [Server -> Seq(Request)] /\ connected \in [Server -> BOOLEAN]
    BY OfServer
  <1>3. /\ queue'[cs] = EmptyQueues /\ wire'[cs] = <<>>
        /\ \A c \in Server : c # cs => /\ queue'[c] = queue[c] /\ wire'[c] = wire[c]
                                        /\ connected'[c] = connected[c]
    BY <1>1, <1>2 DEF clean_server_queues
  <1>4. SrvOK(queue'[cs], wire'[cs], nextId')
    BY <1>1, <1>2, <1>3, NothingWaits DEF Server1
  <1>5. nextId' \in Nat /\ nextId <= nextId'
    BY <1>1, <1>2
  <1> QED BY <1>3, <1>4, <1>5, OneServer

-----------------------------------------------------------------------------
(* The invariant, and what follows from it *)

(* Nothing is asked at first. *)
LEMMA InitAInv == Init => AInv
  <1> SUFFICES ASSUME Init PROVE AInv
    OBVIOUS
  <1>1. MatchInv
    <2>1. \A s \in Server : queue[s] = EmptyQueues /\ wire[s] = <<>>
      BY DEF Init, EmptyQueues
    <2>2. nextId \in Nat
      BY DEF Init
    <2>3. SrvOK(EmptyQueues, <<>>, nextId)
      BY <2>2, NothingWaits DEF Server1
    <2> QED BY <2>1, <2>3 DEF MatchInv
  <1>2. RightAsker
    BY DEF Init, RightAsker
  <1> QED BY <1>1, <1>2, InitQInv DEF AInv

(* Every step keeps the queues and the wires together. *)
LEMMA NextAInv == NoForeign => (AInv /\ [Next]_vars => AInv')
  <1> SUFFICES ASSUME NoForeign, AInv, [Next]_vars PROVE AInv'
    OBVIOUS
  <1> USE QueryQueueAssumption
  <1>1. QInv /\ QInv' /\ MatchInv /\ RightAsker
    BY NextQInv DEF AInv
  <1>2. "foreign_close" \notin Hazards /\ "nick_in_use" \notin Hazards
    BY DEF NoForeign
  <1>3. SUFFICES MatchInv' /\ RightAsker'
    BY <1>1 DEF AInv
  <1>4. UNCHANGED answers => RightAsker'
    BY <1>1 DEF RightAsker
  <1>5. ASSUME NEW s \in Server, Welcome(s) PROVE MatchInv' /\ RightAsker'
    BY <1>1, <1>4, <1>5, WelcomeMatch DEF Welcome
  <1>6. ASSUME NEW s \in Server, NEW n \in 1..MaxSplit, isonbase(s, n) \/ userhostbase(s, n)
        PROVE  MatchInv' /\ RightAsker'
    <2>1. n \in Nat
      OBVIOUS
    <2>2. MatchInv'
      BY <1>1, <1>6, <2>1, AskMatch
    <2> QED BY <1>4, <1>6, <2>2 DEF isonbase, userhostbase
  <1>7. ASSUME NEW s \in Server, NEW t \in Target, NEW f \in SUBSET User, NEW func \in BOOLEAN,
               whobase(s, t, f, func)
        PROVE  MatchInv' /\ RightAsker'
    BY <1>1, <1>4, <1>7, WhoMatch DEF whobase
  <1>8. ASSUME NEW s \in Server, SendNick(s) PROVE MatchInv' /\ RightAsker'
    BY <1>1, <1>4, <1>8, SendNickMatch DEF SendNick
  <1>9. ASSUME NEW s \in Server, NEW n \in 0..1, ison_returned(s, n) PROVE MatchInv' /\ RightAsker'
    BY <1>1, <1>9, IsonMatch
  <1>10. ASSUME NEW s \in Server, NEW n \in 0..1, userhost_returned(s, n)
         PROVE  MatchInv' /\ RightAsker'
    BY <1>1, <1>10, UserhostMatch
  <1>11. ASSUME NEW s \in Server, NEW u \in User, NEW j \in 0..Len(queue[s]["who"]),
                NEW t \in Target, whoreply(s, u, j, t)
         PROVE  MatchInv' /\ RightAsker'
    <2>1. j \in Nat
      OBVIOUS
    <2> QED BY <1>1, <1>11, <2>1, WhoReplyMatch
  <1>12. ASSUME NEW s \in Server, NEW again \in BOOLEAN, NEW t \in Target, who_end(s, again, t)
         PROVE  MatchInv' /\ RightAsker'
    BY <1>1, <1>12, WhoEndMatch
  <1>13. ASSUME NEW s \in Server, NickAccepted(s) PROVE MatchInv' /\ RightAsker'
    BY <1>1, <1>4, <1>13, NickAcceptedMatch DEF NickAccepted
  <1>14. ASSUME NEW s \in Server, NEW orignick \in BOOLEAN, NicknameInUse(s, orignick)
         PROVE  MatchInv' /\ RightAsker'
    <2>1. MatchInv'
      BY <1>1, <1>2, <1>14, NicknameInUseMatch
    <2> QED BY <1>4, <1>14, <2>1 DEF NicknameInUse
  <1>15. ASSUME NEW s \in Server, ACallbackCloses(s) PROVE MatchInv' /\ RightAsker'
    BY <1>1, <1>15, ClosedMatch
  <1>16. ASSUME NEW ctx \in Server, NEW cs \in Server, close_server(ctx, cs)
         PROVE  MatchInv' /\ RightAsker'
    <2>1. MatchInv'
      BY <1>1, <1>2, <1>16, CloseMatch
    <2> QED BY <1>4, <1>16, <2>1 DEF close_server
  <1>17. CASE UNCHANGED vars
    BY <1>1, <1>17 DEF vars, MatchInv, RightAsker
  <1>18. (\A f \in Filter : f \in SUBSET User) /\ User \in SUBSET User
    OBVIOUS
  <1> QED
    BY <1>5, <1>6, <1>7, <1>8, <1>9, <1>10, <1>11, <1>12, <1>13, <1>14, <1>15, <1>16,
       <1>17, <1>18 DEF Next, Ask, Reply, ACallbackCloses

(* AInv is an invariant of the specification. *)
LEMMA AInvHolds == NoForeign => (Spec => []AInv)
  <1>1. SUFFICES ASSUME NoForeign PROVE Spec => []AInv
    OBVIOUS
  <1>2. AInv /\ [Next]_vars => AInv'
    BY <1>1, NextAInv
  <1> QED BY <1>2, InitAInv, PTL DEF Spec

(***************************************************************************)
(* As long as close_server() is called for the server it closes and no     *)
(* nickname is refused while queries wait, the queues of who.c stand for   *)
(* exactly the requests the servers have still to answer, whatever the     *)
(* callbacks ask and even if one of them disconnects.                      *)
(***************************************************************************)
THEOREM QueuesStandForWire == NoForeign => (Spec => []QueuesMatchWire)
  <1>1. SUFFICES ASSUME NoForeign PROVE Spec => []QueuesMatchWire
    OBVIOUS
  <1>2. Spec => []AInv
    BY <1>1, AInvHolds
  <1>3. AInv => QueuesMatchWire
    BY DEF AInv, MatchInv, SrvOK, QueuesMatchWire
  <1> QED BY <1>2, <1>3, PTL

(***************************************************************************)
(* Under the same assumption no reply is handed to the callback of another *)
(* query than the one it answers.                                          *)
(***************************************************************************)
THEOREM RightAskerHolds == NoForeign => (Spec => []RightAsker)
  <1>1. SUFFICES ASSUME NoForeign PROVE Spec => []RightAsker
    OBVIOUS
  <1>2. Spec => []AInv
    BY <1>1, AInvHolds
  <1>3. AInv => RightAsker
    BY DEF AInv
  <1> QED BY <1>2, <1>3, PTL

-----------------------------------------------------------------------------
(* Every line of a reply reaches the queries it is for.                    *)

(* the numbers of the queries in a queue *)
Names(q) == {q[i].id : i \in 1..Len(q)}

(* the lines A has handed to query id *)
Got(id, A) == UNION {a.line : a \in {b \in A : b.to = id}}

(* the entry e waits for the reply at the head of the wire w, a WHO reply *)
Riding(w, e) == w # <<>> /\ Head(w).kind = "who" /\ e.via = Head(w).id

(* what e is to be given of the lines L *)
Taken(e, L) == IF e.line THEN L ELSE L \cap e.filter

(* each entry of q has what it is to have; F is the only switch in use *)
LinesGot(F, q, w, L, A) ==
    \A i \in 1..Len(q) : /\ Got(q[i].id, A) = IF Riding(w, q[i]) THEN Taken(q[i], L) ELSE {}
                         /\ q[i].line \/ q[i].filter = F

(* only entries that are being answered are dirty ... *)
DirtyRides(q, w) == \A i \in 1..Len(q) : q[i].dirty => Riding(w, q[i])

(* ... and from the first line on all of them are *)
DirtyAll(q, w, L) == \A i \in 1..Len(q) : Riding(w, q[i]) /\ L # {} => q[i].dirty

Begun(w, L) == L # {} => w # <<>> /\ Head(w).kind = "who"

LineOK(F, q, w, L, A) ==
    LinesGot(F, q, w, L, A) /\ DirtyRides(q, w) /\ DirtyAll(q, w, L) /\ Begun(w, L)

(* no two entries of q are the same query *)
Single(q) == \A i, j \in 1..Len(q) : q[i].id = q[j].id => i = j

(* no query is in two places, and none has a number that is not used yet *)
Fresh ==
    /\ \A s \in Server, k \in Kind : Names(queue[s][k]) \subseteq 0..(nextId - 1)
    /\ \A a \in answers : a.to \in 0..(nextId - 1)
    /\ \A s, t \in Server, k, l \in Kind :
          Names(queue[s][k]) \cap Names(queue[t][l]) # {} => s = t /\ k = l
    /\ \A s \in Server : Single(queue[s]["who"])

(* the inductive invariant behind EveryMatchingLine *)
LInv(F) ==
    /\ AInv /\ Fresh
    /\ \A s \in Server : LineOK(F, queue[s]["who"], wire[s], lines[s], answers)

(* e is still the query d, though perhaps marked *)
SameQuery(e, d) ==
    e.id = d.id /\ e.via = d.via /\ e.filter = d.filter /\ e.line = d.line

(* What WhoAdd() does, entry by entry. *)
LEMMA WhoAddEntries ==
  ASSUME NEW q \in Queue, NEW i \in Nat, NEW t \in Target, NEW f \in SUBSET User,
         NEW func \in BOOLEAN
  PROVE  LET r == WhoAdd(q, i, t, f, func)
         IN  /\ Len(r) = Len(q) + 1
             /\ \A j \in 1..Len(q) : SameQuery(r[j], q[j]) /\ r[j].dirty = q[j].dirty
             /\ r[Len(q) + 1].id = i
             /\ r[Len(q) + 1].via = IF CanPiggyback(q, t) THEN q[Len(q)].via ELSE i
             /\ r[Len(q) + 1].filter = f /\ r[Len(q) + 1].line = func
             /\ ~ r[Len(q) + 1].dirty
  <1> DEFINE r == WhoAdd(q, i, t, f, func)
             n == Len(q)
             ride == CanPiggyback(q, t)
             v == IF ride THEN q[n].via ELSE i
             new == [id |-> i, via |-> v, target |-> t,
                     filter |-> f, line |-> func, dirty |-> FALSE, piggyback |-> FALSE]
             q0 == [q EXCEPT ![n].piggyback = TRUE]
  <1>1. n \in Nat /\ q \in Seq(Entry) /\ (ride => n \in 1..n) /\ \A j \in 1..n : q[j] \in Entry
    BY DEF Queue, CanPiggyback
  <1>2. v \in Nat
    BY <1>1 DEF Entry
  <1>3. r = IF ride THEN Append(q0, new) ELSE Append(q, new)
    BY DEF WhoAdd
  <1>4. ride => /\ q0 \in Seq(Entry) /\ Len(q0) = n
                /\ \A j \in 1..n : SameQuery(q0[j], q[j]) /\ q0[j].dirty = q[j].dirty
    <2> SUFFICES ASSUME ride
                 PROVE  /\ q0 \in Seq(Entry) /\ Len(q0) = n
                        /\ \A j \in 1..n : SameQuery(q0[j], q[j]) /\ q0[j].dirty = q[j].dirty
      OBVIOUS
    <2>1. q[n] \in Entry /\ n \in 1..n
      BY <1>1
    <2>2. [q[n] EXCEPT !.piggyback = TRUE] \in Entry
      BY <2>1 DEF Entry
    <2>3. q0 \in Seq(Entry) /\ Len(q0) = n
      BY <1>1, <2>1, <2>2
    <2>4. q \in [1..n -> Entry] /\ DOMAIN q = 1..n
      BY <1>1
    <2> HIDE DEF n
    <2>5. ASSUME NEW j \in 1..n PROVE SameQuery(q0[j], q[j]) /\ q0[j].dirty = q[j].dirty
      <3>1. q0[j] = IF j = n THEN [q[j] EXCEPT !.piggyback = TRUE] ELSE q[j]
        BY <2>1, <2>4
      <3>2. q[j] \in Entry
        BY <1>1
      <3> QED BY <3>1, <3>2 DEF SameQuery, Entry
    <2> QED BY <2>3, <2>5
  <1>5. new.id = i /\ new.via = v /\ new.filter = f /\ new.line = func /\ ~ new.dirty
    <2> HIDE DEF v
    <2> QED OBVIOUS
  <1>6. new \in Entry
    <2> HIDE DEF v
    <2> QED BY <1>2 DEF Entry
  <1> HIDE DEF q0, new, r
  <1>7. /\ Len(r) = n + 1 /\ r[n + 1] = new
        /\ \A j \in 1..n : SameQuery(r[j], q[j]) /\ r[j].dirty = q[j].dirty
    <2>1. CASE ride
      <3>1. r = Append(q0, new) /\ q0 \in Seq(Entry) /\ Len(q0) = n
        BY <2>1, <1>3, <1>4
      <3>2. Len(r) = n + 1 /\ r[n + 1] = new /\ \A j \in 1..n : r[j] = q0[j]
        BY <1>1, <1>6, <3>1
      <3> QED BY <2>1, <1>4, <3>2
    <2>2. CASE ~ ride
      <3>1. r = Append(q, new)
        BY <2>2, <1>3
      <3>2. Len(r) = n + 1 /\ r[n + 1] = new /\ \A j \in 1..n : r[j] = q[j]
        BY <1>1, <1>6, <3>1
      <3> QED BY <3>2 DEF SameQuery
    <2> QED BY <2>1, <2>2
  <1> QED BY <1>5, <1>7 DEF r

(* What MarkDirty() does, entry by entry. *)
LEMMA MarkEntries ==
  ASSUME NEW q \in Queue, NEW n \in Int
  PROVE  LET r == MarkDirty(q, n)
         IN  /\ r \in Queue /\ Len(r) = Len(q)
             /\ \A j \in 1..Len(q) : /\ SameQuery(r[j], q[j])
                                     /\ r[j].dirty = (j <= n \/ q[j].dirty)
  <1> DEFINE r == MarkDirty(q, n)
  <1>1. r \in Queue /\ Len(r) = Len(q)
    BY DirtyKeeps
  <1>2. Len(q) \in Nat /\ \A j \in 1..Len(q) : q[j] \in Entry
    BY DEF Queue
  <1>3. ASSUME NEW j \in 1..Len(q)
        PROVE  SameQuery(r[j], q[j]) /\ r[j].dirty = (j <= n \/ q[j].dirty)
    <2>1. r[j] = IF j <= n THEN [q[j] EXCEPT !.dirty = TRUE] ELSE q[j]
      BY DEF MarkDirty
    <2>2. q[j] \in Entry
      BY <1>2
    <2> HIDE DEF r
    <2> QED BY <2>1, <2>2 DEF SameQuery, Entry
  <1> QED BY <1>1, <1>3

(* What who_queue_pop() leaves, entry by entry. *)
LEMMA PopEntries ==
  ASSUME NEW q \in Queue
  PROVE  LET r == who_queue_pop(q)
             n == BatchLen(q)
         IN  /\ n \in 0..Len(q) /\ Len(q) \in Nat
             /\ Len(r) = Len(q) - n
             /\ \A j \in 1..Len(r) : j + n \in 1..Len(q) /\ r[j] = q[j + n]
  <1> DEFINE n == BatchLen(q)
  <1>1. n \in Nat /\ n <= Len(q) /\ Len(q) \in Nat /\ q \in Seq(Entry)
    BY BatchWithin DEF Queue
  <1> HIDE DEF n
  <1>2. n + 1 \in 1..(Len(q) + 1) /\ Len(q) \in ((n + 1) - 1)..Len(q)
    BY <1>1
  <1>3. /\ Len(SubSeq(q, n + 1, Len(q))) = Len(q) - (n + 1) + 1
        /\ \A j \in 1..(Len(q) - (n + 1) + 1) : SubSeq(q, n + 1, Len(q))[j] = q[(n + 1) + j - 1]
    BY <1>1, <1>2, SubSeqParts
  <1>4. Len(q) - (n + 1) + 1 = Len(q) - n /\ \A j \in 1..(Len(q) - n) : (n + 1) + j - 1 = j + n /\ j + n \in 1..Len(q)
    BY <1>1
  <1>5. who_queue_pop(q) = SubSeq(q, n + 1, Len(q))
    BY DEF who_queue_pop, n
  <1> QED BY <1>1, <1>3, <1>4, <1>5 DEF n

(* Numbers of the queries after each operation. *)
LEMMA WhoAddNames ==
  ASSUME NEW q \in Queue, NEW i \in Nat, NEW t \in Target, NEW f \in SUBSET User,
         NEW func \in BOOLEAN, Single(q), Names(q) \subseteq 0..(i - 1)
  PROVE  /\ Names(WhoAdd(q, i, t, f, func)) \subseteq Names(q) \cup {i}
         /\ Single(WhoAdd(q, i, t, f, func))
  <1> DEFINE r == WhoAdd(q, i, t, f, func)
  <1>1. /\ Len(r) = Len(q) + 1 /\ Len(q) \in Nat
        /\ \A j \in 1..Len(q) : r[j].id = q[j].id
        /\ r[Len(q) + 1].id = i
    BY WhoAddEntries DEF SameQuery, Queue
  <1> HIDE DEF r
  <1>2. \A j \in 1..Len(r) : j = Len(q) + 1 \/ j \in 1..Len(q)
    BY <1>1
  <1>3. \A j \in 1..Len(q) : q[j].id \in Names(q)
    BY DEF Names
  <1>4. \A j \in 1..Len(q) : r[j].id # i
    <2>1. i \notin 0..(i - 1)
      OBVIOUS
    <2> QED BY <1>1, <1>3, <2>1
  <1>5. Names(r) \subseteq Names(q) \cup {i}
    BY <1>1, <1>2, <1>3 DEF Names
  <1>6. Single(r)
    BY <1>1, <1>2, <1>4 DEF Single
  <1> QED BY <1>5, <1>6 DEF r

LEMMA MarkNames ==
  ASSUME NEW q \in Queue, NEW n \in Int
  PROVE  Names(MarkDirty(q, n)) = Names(q) /\ (Single(q) => Single(MarkDirty(q, n)))
  <1> DEFINE r == MarkDirty(q, n)
  <1>1. Len(r) = Len(q) /\ \A j \in 1..Len(q) : r[j].id = q[j].id
    BY MarkEntries DEF SameQuery
  <1> HIDE DEF r
  <1>2. Names(r) = Names(q) /\ (Single(q) => Single(r))
    BY <1>1 DEF Names, Single
  <1> QED BY <1>2 DEF r

LEMMA PopNames ==
  ASSUME NEW q \in Queue
  PROVE  /\ Names(who_queue_pop(q)) \subseteq Names(q)
         /\ Single(q) => Single(who_queue_pop(q))
  <1> DEFINE r == who_queue_pop(q)
             n == BatchLen(q)
  <1>1. /\ n \in 0..Len(q) /\ Len(q) \in Nat /\ Len(r) = Len(q) - n
        /\ \A j \in 1..Len(r) : j + n \in 1..Len(q) /\ r[j] = q[j + n]
    BY PopEntries
  <1> HIDE DEF r, n
  <1>2. Names(r) \subseteq Names(q)
    BY <1>1 DEF Names
  <1>3. Single(q) => Single(r)
    <2> SUFFICES ASSUME Single(q), NEW i \in 1..Len(r), NEW j \in 1..Len(r), r[i].id = r[j].id
                 PROVE  i = j
      BY DEF Single
    <2>1. i + n = j + n
      BY <1>1 DEF Single
    <2> QED BY <1>1, <2>1
  <1> QED BY <1>2, <1>3 DEF r

LEMMA PlainNames ==
  ASSUME NEW q \in Queue, NEW i \in Nat, NEW n \in Nat
  PROVE  Names(q \o PlainEntries(i, n)) \subseteq Names(q) \cup i..(i + n - 1)
  <1> DEFINE p == PlainEntries(i, n)
             r == q \o p
  <1>1. p \in Seq(Entry) /\ Len(p) = n /\ \A j \in 1..n : p[j].id = i + j - 1
    BY DEF PlainEntries, Plain, Entry
  <1>2. q \in Seq(Entry) /\ Len(q) \in Nat
    BY DEF Queue
  <1> HIDE DEF p
  <1>3. Follows(r, q, p)
    BY <1>1, <1>2, ConcatParts
  <1> HIDE DEF r
  <1>4. ASSUME NEW j \in 1..Len(r) PROVE r[j].id \in Names(q) \cup i..(i + n - 1)
    <2>1. CASE j \in 1..Len(q)
      BY <1>3, <2>1 DEF Follows, Names
    <2>2. CASE j \notin 1..Len(q)
      <3>1. j - Len(q) \in 1..n /\ Len(q) + (j - Len(q)) = j
        BY <1>1, <1>2, <1>3, <2>2 DEF Follows
      <3>2. r[j] = p[j - Len(q)] /\ p[j - Len(q)].id = i + (j - Len(q)) - 1
        BY <1>1, <1>3, <3>1 DEF Follows
      <3>3. i + (j - Len(q)) - 1 \in i..(i + n - 1)
        BY <1>2, <3>1
      <3> QED BY <3>2, <3>3
    <2> QED BY <2>1, <2>2
  <1>5. Names(r) \subseteq Names(q) \cup i..(i + n - 1)
    BY <1>4 DEF Names
  <1> QED BY <1>5 DEF r, p

LEMMA TailNames ==
  ASSUME NEW q \in Queue, q # <<>> PROVE Names(Tail(q)) \subseteq Names(q)
  <1>1. /\ Len(q) \in Nat /\ Len(Tail(q)) = Len(q) - 1
        /\ \A j \in 1..(Len(q) - 1) : Tail(q)[j] = q[j + 1] /\ j + 1 \in 1..Len(q)
    BY DEF Queue
  <1> QED BY <1>1 DEF Names

(* Callbacks of other queries, and ends of replies, give an entry nothing. *)
LEMMA GotElsewhere ==
  ASSUME NEW F, NEW q, NEW w, NEW L, NEW A, NEW B, LineOK(F, q, w, L, A), A \subseteq B,
         \A a \in B : a \in A \/ a.to \notin Names(q) \/ a.line = {}
  PROVE  LineOK(F, q, w, L, B)
  <1>1. ASSUME NEW i \in 1..Len(q) PROVE Got(q[i].id, B) = Got(q[i].id, A)
    <2>1. q[i].id \in Names(q)
      BY DEF Names
    <2>2. Got(q[i].id, A) \subseteq Got(q[i].id, B)
      BY DEF Got
    <2>3. ASSUME NEW u \in Got(q[i].id, B) PROVE u \in Got(q[i].id, A)
      <3>1. PICK a \in B : a.to = q[i].id /\ u \in a.line
        BY DEF Got
      <3>2. a \in A
        BY <2>1, <3>1
      <3> QED BY <3>1, <3>2 DEF Got
    <2> QED BY <2>2, <2>3
  <1> QED BY <1>1 DEF LineOK, LinesGot

(* A wire whose oldest request is the same, or was not a WHO: nothing changes. *)
LEMMA QuietLine ==
  ASSUME NEW F, NEW q, NEW w, NEW v, NEW L, NEW A, LineOK(F, q, w, L, A),
         \/ w # <<>> /\ v # <<>> /\ Head(v) = Head(w)
         \/ w = <<>> \/ Head(w).kind # "who"
  PROVE  LineOK(F, q, v, L, A)
  <1>1. CASE w # <<>> /\ v # <<>> /\ Head(v) = Head(w)
    BY <1>1 DEF LineOK, LinesGot, DirtyRides, DirtyAll, Begun, Riding
  <1>2. CASE w = <<>> \/ Head(w).kind # "who"
    <2>1. L = {} /\ \A i \in 1..Len(q) : ~ Riding(w, q[i])
      BY <1>2 DEF LineOK, Begun, Riding
    <2>2. \A e : Taken(e, {}) = {}
      BY DEF Taken
    <2> QED BY <2>1, <2>2 DEF LineOK, LinesGot, DirtyRides, DirtyAll, Begun
  <1> QED BY <1>1, <1>2

(* Of an empty queue there is nothing to say. *)
LEMMA NoLine ==
  ASSUME NEW F, NEW w, NEW A PROVE LineOK(F, <<>>, w, {}, A)
  BY DEF LineOK, LinesGot, DirtyRides, DirtyAll, Begun

(* A query that joins has got what the entry before it has got: nothing yet. *)
LEMMA JoinsGot ==
  ASSUME NEW F, NEW q \in Queue, NEW w, NEW L, NEW A, LinesGot(F, q, w, L, A),
         NEW n \in Nat, \A a \in A : a.to # n,
         NEW t \in Target, NEW f \in SUBSET User, NEW func \in BOOLEAN, func \/ f = F,
         CanPiggyback(q, t) /\ Riding(w, q[Len(q)]) => L = {},
         ~ CanPiggyback(q, t) /\ L # {} => w # <<>> /\ Head(w).id # n
  PROVE  LinesGot(F, WhoAdd(q, n, t, f, func), w, L, A)
  <1> DEFINE r == WhoAdd(q, n, t, f, func)
             e == r[Len(q) + 1]
  <1>1. /\ Len(r) = Len(q) + 1 /\ Len(q) \in Nat
        /\ \A j \in 1..Len(q) : SameQuery(r[j], q[j])
        /\ e.id = n /\ e.via = (IF CanPiggyback(q, t) THEN q[Len(q)].via ELSE n)
        /\ e.filter = f /\ e.line = func
    BY WhoAddEntries DEF Queue
  <1>2. Got(n, A) = {}
    BY DEF Got
  <1>3. Riding(w, e) => L = {}
    <2>1. CASE CanPiggyback(q, t)
      BY <1>1, <2>1 DEF Riding
    <2>2. CASE ~ CanPiggyback(q, t)
      BY <1>1, <2>2 DEF Riding
    <2> QED BY <2>1, <2>2
  <1>4. /\ Got(e.id, A) = IF Riding(w, e) THEN Taken(e, L) ELSE {}
        /\ e.line \/ e.filter = F
    BY <1>1, <1>2, <1>3 DEF Taken
  <1> HIDE DEF r
  <1>5. \A j \in 1..Len(r) : j = Len(q) + 1 \/ j \in 1..Len(q)
    BY <1>1
  <1>6. ASSUME NEW j \in 1..Len(q)
        PROVE  /\ Got(r[j].id, A) = IF Riding(w, r[j]) THEN Taken(r[j], L) ELSE {}
               /\ r[j].line \/ r[j].filter = F
    BY <1>1 DEF SameQuery, LinesGot, Riding, Taken
  <1>7. LinesGot(F, r, w, L, A)
    BY <1>4, <1>5, <1>6 DEF LinesGot
  <1> QED BY <1>7 DEF r

(* It is not dirty. *)
LEMMA JoinsDirty ==
  ASSUME NEW q \in Queue, NEW w, NEW n \in Nat,
         NEW t \in Target, NEW f \in SUBSET User, NEW func \in BOOLEAN, DirtyRides(q, w)
  PROVE  DirtyRides(WhoAdd(q, n, t, f, func), w)
  <1> DEFINE r == WhoAdd(q, n, t, f, func)
  <1>1. /\ Len(r) = Len(q) + 1 /\ Len(q) \in Nat
        /\ \A j \in 1..Len(q) : SameQuery(r[j], q[j]) /\ r[j].dirty = q[j].dirty
        /\ ~ r[Len(q) + 1].dirty
    BY WhoAddEntries DEF Queue
  <1> HIDE DEF r
  <1>2. \A j \in 1..Len(r) : j = Len(q) + 1 \/ j \in 1..Len(q)
    BY <1>1
  <1>3. DirtyRides(r, w)
    BY <1>1, <1>2 DEF DirtyRides, SameQuery, Riding
  <1> QED BY <1>3 DEF r

(* whobase(): the new query has missed no line, or does not ride. *)
LEMMA JoinsLine ==
  ASSUME NEW F, NEW q \in Queue, NEW w, NEW L, NEW A, LineOK(F, q, w, L, A),
         NEW n \in Nat, \A a \in A : a.to # n,
         NEW t \in Target, NEW f \in SUBSET User, NEW func \in BOOLEAN, func \/ f = F,
         L # {} => Head(w).id # n
  PROVE  LineOK(F, WhoAdd(q, n, t, f, func), w, L, A)
  <1> DEFINE r == WhoAdd(q, n, t, f, func)
  <1>1. /\ LinesGot(F, q, w, L, A) /\ DirtyRides(q, w) /\ DirtyAll(q, w, L) /\ Begun(w, L)
        /\ Len(q) \in Nat
    BY DEF LineOK, Queue
  <1>2. CanPiggyback(q, t) /\ Riding(w, q[Len(q)]) => L = {}
    <2> SUFFICES ASSUME CanPiggyback(q, t), Riding(w, q[Len(q)]) PROVE L = {}
      OBVIOUS
    <2>1. Len(q) \in 1..Len(q) /\ ~ q[Len(q)].dirty
      BY <1>1 DEF CanPiggyback, Queue
    <2> QED BY <1>1, <2>1 DEF DirtyAll
  <1>3. LinesGot(F, r, w, L, A)
    BY <1>1, <1>2, JoinsGot DEF Begun
  <1>4. DirtyRides(r, w)
    BY <1>1, JoinsDirty
  <1>5. DirtyAll(r, w, L)
    <2>1. /\ Len(r) = Len(q) + 1
          /\ \A j \in 1..Len(q) : SameQuery(r[j], q[j]) /\ r[j].dirty = q[j].dirty
          /\ r[Len(q) + 1].via = IF CanPiggyback(q, t) THEN q[Len(q)].via ELSE n
      BY WhoAddEntries
    <2> HIDE DEF r
    <2>2. Riding(w, r[Len(q) + 1]) => L = {}
      BY <1>2, <2>1 DEF Riding
    <2>3. \A j \in 1..Len(r) : j = Len(q) + 1 \/ j \in 1..Len(q)
      BY <1>1, <2>1
    <2> QED BY <1>1, <2>1, <2>2, <2>3 DEF DirtyAll, SameQuery, Riding
  <1> QED BY <1>1, <1>3, <1>4, <1>5 DEF LineOK

(* With one switch in use, the verdicts on the entries before do not matter. *)
LEMMA TakesOwn ==
  ASSUME NEW F, NEW q, NEW w, NEW L, NEW A, LinesGot(F, q, w, L, A), NEW i \in 1..Len(q), NEW u
  PROVE  TakesLine(q, i, u) <=> q[i].line \/ u \in q[i].filter
  <1>1. \A h \in 1..i : h \in 1..Len(q)
    OBVIOUS
  <1>2. \A h \in 1..i : q[h].line \/ q[h].filter = F
    BY <1>1 DEF LinesGot
  <1>3. i \in 1..i
    OBVIOUS
  <1> QED BY <1>2, <1>3 DEF TakesLine

(* 352: the riders, and they alone, are given the line and marked. *)
LEMMA GivesLine ==
  ASSUME NEW F, NEW q \in Queue, NEW w, NEW L, NEW A, LinesGot(F, q, w, L, A),
         DirtyRides(q, w), Single(q), NEW n \in 0..Len(q), w # <<>>, Head(w).kind = "who",
         \A i \in 1..Len(q) : i <= n <=> Riding(w, q[i]),
         NEW u, NEW r, NEW B,
         B = A \cup {a \in Called(q, n, r, {u}) :
                       \E i \in 1..n : a.to = q[i].id /\ TakesLine(q, i, u)}
  PROVE  LineOK(F, MarkDirty(q, n), w, L \cup {u}, B)
  <1> DEFINE p == MarkDirty(q, n)
  <1>1. /\ Len(p) = Len(q) /\ Len(q) \in Nat
        /\ \A j \in 1..Len(q) : SameQuery(p[j], q[j]) /\ p[j].dirty = (j <= n \/ q[j].dirty)
    BY MarkEntries DEF Queue
  <1> HIDE DEF p
  <1>2. ASSUME NEW i \in 1..Len(q)
        PROVE  Got(q[i].id, B) = IF Riding(w, q[i]) THEN Taken(q[i], L \cup {u}) ELSE {}
    <2>1. Got(q[i].id, A) = IF Riding(w, q[i]) THEN Taken(q[i], L) ELSE {}
      BY DEF LinesGot
    <2>2. Got(q[i].id, A) \subseteq Got(q[i].id, B)
      BY DEF Got
    <2>3. TakesLine(q, i, u) <=> q[i].line \/ u \in q[i].filter
      BY TakesOwn
    <2>4. ASSUME NEW x \in Got(q[i].id, B), x \notin Got(q[i].id, A)
          PROVE  x = u /\ Riding(w, q[i]) /\ TakesLine(q, i, u)
      <3>1. PICK a \in B : a.to = q[i].id /\ x \in a.line
        BY DEF Got
      <3>2. a \notin A
        BY <2>4, <3>1 DEF Got
      <3>3. a \in Called(q, n, r, {u}) /\ \E h \in 1..n : a.to = q[h].id /\ TakesLine(q, h, u)
        BY <3>2
      <3>4. a.line = {u}
        BY <3>3 DEF Called
      <3>5. PICK h \in 1..n : a.to = q[h].id /\ TakesLine(q, h, u)
        BY <3>3
      <3>6. h \in 1..Len(q) /\ h <= n
        BY <1>1
      <3>7. h = i
        BY <3>1, <3>5, <3>6 DEF Single
      <3> QED BY <3>1, <3>4, <3>5, <3>6, <3>7
    <2>5. ASSUME Riding(w, q[i]), TakesLine(q, i, u) PROVE u \in Got(q[i].id, B)
      <3> DEFINE a == [to |-> q[i].id, via |-> q[i].via, by |-> r.id, line |-> {u}]
      <3>1. i \in 1..n
        BY <1>1, <2>5
      <3>2. a \in Called(q, n, r, {u})
        BY <3>1 DEF Called
      <3>3. a.to = q[i].id /\ a.line = {u}
        OBVIOUS
      <3> HIDE DEF a
      <3>4. a \in B
        BY <2>5, <3>1, <3>2, <3>3
      <3> QED BY <3>3, <3>4 DEF Got
    <2>6. CASE Riding(w, q[i])
      <3>1. Got(q[i].id, B) = Taken(q[i], L) \cup (IF TakesLine(q, i, u) THEN {u} ELSE {})
        BY <2>1, <2>2, <2>4, <2>5, <2>6
      <3> QED BY <2>3, <2>6, <3>1 DEF Taken
    <2>7. CASE ~ Riding(w, q[i])
      BY <2>1, <2>4, <2>7
    <2> QED BY <2>6, <2>7
  <1>3. LinesGot(F, p, w, L \cup {u}, B)
    <2>1. ASSUME NEW j \in 1..Len(q)
          PROVE  /\ Got(p[j].id, B) = IF Riding(w, p[j]) THEN Taken(p[j], L \cup {u}) ELSE {}
                 /\ p[j].line \/ p[j].filter = F
      <3>1. SameQuery(p[j], q[j]) /\ (q[j].line \/ q[j].filter = F)
        BY <1>1 DEF LinesGot
      <3>2. /\ Riding(w, p[j]) <=> Riding(w, q[j])
            /\ Taken(p[j], L \cup {u}) = Taken(q[j], L \cup {u})
        BY <3>1 DEF SameQuery, Riding, Taken
      <3> QED BY <1>2, <3>1, <3>2 DEF SameQuery
    <2> QED BY <1>1, <2>1 DEF LinesGot
  <1>4. DirtyRides(p, w) /\ DirtyAll(p, w, L \cup {u})
    BY <1>1 DEF DirtyRides, DirtyAll, SameQuery, Riding
  <1>5. Begun(w, L \cup {u})
    BY DEF Begun
  <1> QED BY <1>3, <1>4, <1>5 DEF LineOK, p

(* 315: those that stay have got nothing and are clean. *)
LEMMA PopsLine ==
  ASSUME NEW F, NEW q \in Queue, NEW w, NEW v, NEW L, NEW A, LinesGot(F, q, w, L, A),
         DirtyRides(q, w), \A i \in 1..Len(q) : Riding(w, q[i]) => i <= BatchLen(q)
  PROVE  LineOK(F, who_queue_pop(q), v, {}, A)
  <1> DEFINE r == who_queue_pop(q)
             n == BatchLen(q)
  <1>1. /\ n \in 0..Len(q) /\ Len(q) \in Nat /\ Len(r) = Len(q) - n
        /\ \A j \in 1..Len(r) : j + n \in 1..Len(q) /\ r[j] = q[j + n]
    BY PopEntries
  <1> HIDE DEF r, n
  <1>2. ASSUME NEW j \in 1..Len(r)
        PROVE  Got(r[j].id, A) = {} /\ (r[j].line \/ r[j].filter = F) /\ ~ r[j].dirty
    <2>1. j + n \in 1..Len(q) /\ r[j] = q[j + n] /\ ~ (j + n <= n)
      BY <1>1
    <2>2. ~ Riding(w, q[j + n])
      BY <2>1 DEF n
    <2> QED BY <2>1, <2>2 DEF LinesGot, DirtyRides
  <1>3. \A e : Taken(e, {}) = {}
    BY DEF Taken
  <1>4. LinesGot(F, r, v, {}, A) /\ DirtyRides(r, v) /\ DirtyAll(r, v, {}) /\ Begun(v, {})
    BY <1>2, <1>3 DEF LinesGot, DirtyRides, DirtyAll, Begun
  <1> QED BY <1>4 DEF LineOK, r

(* The riders are the first batch. *)
LEMMA RidersFirst ==
  ASSUME NEW q \in Queue, WellFormed(q), NEW w, w # <<>>, Head(w).kind = "who",
         HeadBatch(q, Head(w).id)
  PROVE  \A i \in 1..Len(q) : i <= BatchLen(q) <=> Riding(w, q[i])
  <1>1. BatchLen(q) \in 1..Len(q) /\ \A i \in 1..Len(q) : i <= BatchLen(q) <=> q[i].via = q[1].via
    BY BatchIsPrefix DEF HeadBatch
  <1>2. 1 \in 1..BatchLen(q)
    BY <1>1 DEF Queue
  <1>3. q[1].via = Head(w).id
    BY <1>2 DEF HeadBatch
  <1> QED BY <1>1, <1>3 DEF Riding

(* The oldest request has a number that was used. *)
LEMMA HeadOld ==
  ASSUME NEW w \in Seq(Request), NEW n \in Nat, WireOK(w, n), w # <<>>, Head(w).kind \in Kind
  PROVE  Head(w).id # n
  <1>1. Len(w) \in Nat /\ 1 \in 1..Len(w) /\ Head(w) = w[1]
    OBVIOUS
  <1>2. w[1].id < n /\ w[1].id \in Nat
    BY <1>1, RequestIds DEF WireOK
  <1> QED BY <1>1, <1>2

(* While a line is delivered, the callback of the j-th entry asks again. *)
LEMMA AsksAmidLine ==
  ASSUME NEW F, NEW q \in Queue, WellFormed(q), NEW w, NEW L, NEW A, LineOK(F, q, w, L, A),
         w # <<>>, Head(w).kind = "who", HeadBatch(q, Head(w).id),
         NEW n \in Nat, \A a \in A : a.to # n, Head(w).id # n,
         NEW t \in Target, NEW j \in 0..BatchLen(q)
  PROVE  LinesGot(F, Asked(q, j, t, n), w, L, A) /\ DirtyRides(Asked(q, j, t, n), w)
  <1> DEFINE q0 == MarkDirty(q, j)
  <1>1. LinesGot(F, q, w, L, A) /\ DirtyRides(q, w) /\ DirtyAll(q, w, L)
    BY DEF LineOK
  <1>2. BatchLen(q) \in Nat /\ j \in Int
    BY BatchWithin
  <1>3. /\ q0 \in Queue /\ Len(q0) = Len(q) /\ Len(q) \in Nat
        /\ \A i \in 1..Len(q) : SameQuery(q0[i], q[i]) /\ q0[i].dirty = (i <= j \/ q[i].dirty)
    BY <1>2, MarkEntries DEF Queue
  <1> HIDE DEF q0
  <1>4. LinesGot(F, q0, w, L, A)
    BY <1>1, <1>3 DEF LinesGot, SameQuery, Riding, Taken
  <1>5. DirtyRides(q0, w)
    <2>1. \A i \in 1..Len(q) : i <= j => Riding(w, q[i])
      <3>1. \A i \in 1..Len(q) : i <= j => i <= BatchLen(q)
        BY <1>2
      <3> QED BY <3>1, RidersFirst
    <2> QED BY <1>1, <1>3, <2>1 DEF DirtyRides, SameQuery, Riding
  <1>6. CanPiggyback(q0, t) /\ Riding(w, q0[Len(q0)]) => L = {}
    <2> SUFFICES ASSUME CanPiggyback(q0, t), Riding(w, q0[Len(q0)]) PROVE L = {}
      OBVIOUS
    <2>1. Len(q) \in 1..Len(q) /\ ~ q0[Len(q)].dirty
      BY <1>3 DEF CanPiggyback, Queue
    <2>2. ~ q[Len(q)].dirty /\ Riding(w, q[Len(q)])
      BY <1>3, <2>1 DEF SameQuery, Riding
    <2> QED BY <1>1, <2>1, <2>2 DEF DirtyAll
  <1>7. User \in SUBSET User /\ TRUE \in BOOLEAN
    OBVIOUS
  <1>8. LinesGot(F, WhoAdd(q0, n, t, User, TRUE), w, L, A)
    BY <1>3, <1>4, <1>6, <1>7, JoinsGot
  <1>9. DirtyRides(WhoAdd(q0, n, t, User, TRUE), w)
    BY <1>3, <1>5, <1>7, JoinsDirty
  <1> QED BY <1>1, <1>8, <1>9 DEF Asked, q0

-----------------------------------------------------------------------------
(* A step concerns one server, and numbers one kind of query.              *)

LEMMA LineStep ==
  ASSUME NEW F, LInv(F), AInv', NEW s \in Server, NEW k \in Kind, nextId <= nextId',
         \A t \in Server : t # s => /\ queue'[t] = queue[t] /\ wire'[t] = wire[t]
                                    /\ lines'[t] = lines[t],
         \A l \in Kind : Names(queue'[s][l]) \subseteq
                           Names(queue[s][l]) \cup (IF l = k THEN nextId..(nextId' - 1) ELSE {}),
         answers \subseteq answers',
         \A a \in answers' : \/ a \in answers \/ a.to \in nextId..(nextId' - 1)
                             \/ \E l \in Kind : a.to \in Names(queue[s][l]),
         Single(queue'[s]["who"]),
         LineOK(F, queue'[s]["who"], wire'[s], lines'[s], answers')
  PROVE  LInv(F)'
  <1>1. nextId \in Nat /\ nextId' \in Nat
    BY DEF LInv, AInv, QInv, TypeOK
  <1>2. 0..(nextId - 1) \subseteq 0..(nextId' - 1) /\ nextId..(nextId' - 1) \subseteq 0..(nextId' - 1)
        /\ \A x \in 0..(nextId - 1) : x \notin nextId..(nextId' - 1)
    BY <1>1
  <1> DEFINE Old == 0..(nextId - 1)
             New == nextId..(nextId' - 1)
             All == 0..(nextId' - 1)
             Added(t, l) == IF t = s /\ l = k THEN New ELSE {}
  <1>3. /\ \A t \in Server, l \in Kind : Names(queue[t][l]) \subseteq Old
        /\ \A a \in answers : a.to \in Old
        /\ \A t, v \in Server, l, m \in Kind :
              Names(queue[t][l]) \cap Names(queue[v][m]) # {} => t = v /\ l = m
        /\ \A t \in Server : Single(queue[t]["who"])
    BY DEF LInv, Fresh
  <1>4. Old \subseteq All /\ New \subseteq All /\ Old \cap New = {}
    BY <1>2
  <1>5. \A a \in answers' : \/ a \in answers \/ a.to \in New
                            \/ \E l \in Kind : a.to \in Names(queue[s][l])
    OBVIOUS
  <1>6. ASSUME NEW t \in Server, NEW l \in Kind
        PROVE  Names(queue'[t][l]) \subseteq Names(queue[t][l]) \cup Added(t, l)
    OBVIOUS
  <1> HIDE DEF Old, New, All
  <1>7. \A t \in Server, l \in Kind : Names(queue'[t][l]) \subseteq All
    BY <1>3, <1>4, <1>6
  <1>8. \A a \in answers' : a.to \in All
    BY <1>3, <1>4, <1>5
  <1>9. ASSUME NEW t \in Server, NEW v \in Server, NEW l \in Kind, NEW m \in Kind,
               Names(queue'[t][l]) \cap Names(queue'[v][m]) # {}
        PROVE  t = v /\ l = m
    <2>1. PICK x : x \in Names(queue'[t][l]) /\ x \in Names(queue'[v][m])
      BY <1>9
    <2>2. x \in Names(queue[t][l]) \cup Added(t, l) /\ x \in Names(queue[v][m]) \cup Added(v, m)
      BY <1>6, <2>1
    <2>3. CASE x \in New
      BY <1>3, <1>4, <2>2, <2>3
    <2>4. CASE x \notin New
      BY <1>3, <2>2, <2>4
    <2> QED BY <2>3, <2>4
  <1>10. \A t \in Server : Single(queue'[t]["who"])
    BY <1>3
  <1>11. Fresh'
    BY <1>7, <1>8, <1>9, <1>10 DEF Fresh, All
  <1>12. ASSUME NEW t \in Server, t # s
         PROVE  LineOK(F, queue'[t]["who"], wire'[t], lines'[t], answers')
    <2>1. LineOK(F, queue[t]["who"], wire[t], lines[t], answers)
      BY DEF LInv
    <2>2. "who" \in Kind
      BY DEF Kind
    <2>3. \A a \in answers' : a \in answers \/ a.to \notin Names(queue[t]["who"]) \/ a.line = {}
      BY <1>3, <1>4, <1>5, <1>12, <2>2
    <2>4. LineOK(F, queue[t]["who"], wire[t], lines[t], answers')
      BY <2>1, <2>3, GotElsewhere
    <2> QED BY <1>12, <2>4
  <1> QED BY <1>11, <1>12 DEF LInv

(* what the invariant says of one server, for the actions *)
LEMMA LineOf ==
  ASSUME NEW F, LInv(F), NEW s \in Server
  PROVE  /\ nextId \in Nat /\ queue \in [Server -> Queues] /\ wire \in [Server -> Seq(Request)]
         /\ lines \in [Server -> SUBSET User]
         /\ \A k \in Kind : queue[s][k] \in Queue /\ Names(queue[s][k]) \subseteq 0..(nextId - 1)
         /\ queue[s]["who"] \in Queue /\ WellFormed(queue[s]["who"]) /\ Single(queue[s]["who"])
         /\ LineOK(F, queue[s]["who"], wire[s], lines[s], answers)
         /\ Server1(queue[s], wire[s], nextId) /\ WireOK(wire[s], nextId)
         /\ \A a \in answers : a.to # nextId
         /\ {"who", "ison", "userhost"} \subseteq Kind
  <1>1. QInv /\ MatchInv /\ Fresh
    BY DEF LInv, AInv
  <1>2. /\ nextId \in Nat /\ queue \in [Server -> Queues] /\ wire \in [Server -> Seq(Request)]
        /\ Server1(queue[s], wire[s], nextId)
    BY <1>1, OfServer
  <1>3. lines \in [Server -> SUBSET User]
    BY <1>1 DEF QInv, TypeOK
  <1>4. {"who", "ison", "userhost"} \subseteq Kind
    BY DEF Kind
  <1>5. \A k \in Kind : QueueOK(queue[s][k], k, nextId)
    BY <1>2 DEF Server1, QueuesInOrder
  <1>6. WireOK(wire[s], nextId)
    BY <1>2 DEF Server1, SrvOK
  <1>7. \A a \in answers : a.to # nextId
    <2>1. \A a \in answers : a.to \in 0..(nextId - 1)
      BY <1>1 DEF Fresh
    <2> QED BY <1>2, <2>1
  <1>8. /\ \A k \in Kind : queue[s][k] \in Queue /\ Names(queue[s][k]) \subseteq 0..(nextId - 1)
        /\ queue[s]["who"] \in Queue /\ WellFormed(queue[s]["who"]) /\ Single(queue[s]["who"])
    BY <1>1, <1>4, <1>5 DEF QueueOK, Fresh
  <1> QED BY <1>2, <1>3, <1>4, <1>6, <1>7, <1>8 DEF LInv

-----------------------------------------------------------------------------
(* Every action                                                            *)

(* What concerns ISON, USERHOST and NICK leaves WHO replies alone. *)
LEMMA OtherKinds ==
  ASSUME NEW F, LInv(F), AInv', NEW s \in Server, NEW k \in {"ison", "userhost"},
         nextId <= nextId', lines' = lines,
         \A t \in Server : t # s => queue'[t] = queue[t] /\ wire'[t] = wire[t],
         queue'[s]["who"] = queue[s]["who"],
         \A l \in {"ison", "userhost"} :
            Names(queue'[s][l]) \subseteq
               Names(queue[s][l]) \cup (IF l = k THEN nextId..(nextId' - 1) ELSE {}),
         answers \subseteq answers',
         \A a \in answers' : \/ a \in answers
                             \/ \E l \in {"ison", "userhost"} : a.to \in Names(queue[s][l]),
         \/ wire[s] # <<>> /\ wire'[s] # <<>> /\ Head(wire'[s]) = Head(wire[s])
         \/ wire[s] = <<>> \/ Head(wire[s]).kind # "who"
  PROVE  LInv(F)'
  <1> DEFINE q == queue[s]["who"]
  <1>1. LineOK(F, q, wire[s], lines[s], answers) /\ Single(q)
    BY LineOf
  <1>2. \A l : l \in Kind <=> l = "who" \/ l \in {"ison", "userhost"}
    BY DEF Kind
  <1>3. \A l \in {"ison", "userhost"} : Names(queue[s][l]) \cap Names(q) = {}
    <2>1. \A l \in Kind : Names(queue[s][l]) \cap Names(queue[s]["who"]) # {} => l = "who"
      BY <1>2 DEF LInv, Fresh
    <2> QED BY <1>2, <2>1
  <1>4. \A a \in answers' : a \in answers \/ a.to \notin Names(q) \/ a.line = {}
    BY <1>3
  <1> HIDE DEF q
  <1>5. LineOK(F, q, wire[s], lines[s], answers')
    BY <1>1, <1>4, GotElsewhere
  <1>6. LineOK(F, q, wire'[s], lines[s], answers')
    BY <1>5, QuietLine
  <1>7. LineOK(F, queue'[s]["who"], wire'[s], lines'[s], answers') /\ Single(queue'[s]["who"])
    BY <1>1, <1>6 DEF q
  <1>8. \A l \in Kind : Names(queue'[s][l]) \subseteq
                          Names(queue[s][l]) \cup (IF l = k THEN nextId..(nextId' - 1) ELSE {})
    BY <1>2
  <1>9. \A t \in Server : t # s => /\ queue'[t] = queue[t] /\ wire'[t] = wire[t]
                                   /\ lines'[t] = lines[t]
    OBVIOUS
  <1>10. \A a \in answers' : \/ a \in answers \/ a.to \in nextId..(nextId' - 1)
                             \/ \E l \in Kind : a.to \in Names(queue[s][l])
    BY <1>2
  <1>11. k \in Kind
    BY <1>2
  <1> QED BY <1>7, <1>8, <1>9, <1>10, <1>11, LineStep

(* Requests are added behind the oldest one. *)
LEMMA ConcatHead ==
  ASSUME NEW w \in Seq(Request), NEW v \in Seq(Request), w # <<>>
  PROVE  w \o v # <<>> /\ Head(w \o v) = Head(w)
  <1>1. /\ Len(w) \in Nat \ {0} /\ Len(v) \in Nat /\ w \o v \in Seq(Request)
        /\ Len(w \o v) = Len(w) + Len(v) /\ Head(w) = w[1]
        /\ \A i \in 1..(Len(w) + Len(v)) : (w \o v)[i] = IF i <= Len(w) THEN w[i] ELSE v[i - Len(w)]
    BY ConcatProperties
  <1>2. 1 \in 1..(Len(w) + Len(v)) /\ 1 <= Len(w)
    BY <1>1
  <1> QED BY <1>1, <1>2

(* isonbase() and userhostbase(), also that of 001 *)
LEMMA PlainLine ==
  ASSUME NEW F, LInv(F), AInv', NEW s \in Server, NEW k \in {"ison", "userhost"}, NEW n \in Nat,
         nextId' = nextId + n, lines' = lines, answers' = answers,
         queue' = [queue EXCEPT ![s][k] = queue[s][k] \o PlainEntries(nextId, n)],
         wire' = [wire EXCEPT ![s] = wire[s] \o Requests(k, nextId, n)]
  PROVE  LInv(F)'
  <1> DEFINE p == queue[s][k] \o PlainEntries(nextId, n)
  <1>1. /\ nextId \in Nat /\ queue \in [Server -> Queues] /\ wire \in [Server -> Seq(Request)]
        /\ k \in Kind /\ "who" \in Kind /\ queue[s][k] \in Queue
    BY LineOf DEF Kind
  <1>2. Names(p) \subseteq Names(queue[s][k]) \cup nextId..(nextId' - 1)
    BY <1>1, PlainNames
  <1> HIDE DEF p
  <1>3. queue' = [queue EXCEPT ![s][k] = p]
    BY DEF p
  <1>4. /\ \A t \in Server : t # s => queue'[t] = queue[t] /\ wire'[t] = wire[t]
        /\ queue'[s][k] = p /\ \A l \in Kind : l # k => queue'[s][l] = queue[s][l]
    BY <1>1, <1>3 DEF Queues
  <1>5. queue'[s]["who"] = queue[s]["who"]
    BY <1>1, <1>4
  <1>6. \A l \in {"ison", "userhost"} :
            Names(queue'[s][l]) \subseteq
               Names(queue[s][l]) \cup (IF l = k THEN nextId..(nextId' - 1) ELSE {})
    BY <1>2, <1>4 DEF Kind
  <1>7. wire[s] # <<>> => wire'[s] # <<>> /\ Head(wire'[s]) = Head(wire[s])
    <2>1. Requests(k, nextId, n) \in Seq(Request)
      BY <1>1, RequestsType
    <2>2. wire'[s] = wire[s] \o Requests(k, nextId, n)
      BY <1>1
    <2> QED BY <1>1, <2>1, <2>2, ConcatHead
  <1>8. nextId <= nextId'
    BY <1>1
  <1> QED BY <1>4, <1>5, <1>6, <1>7, <1>8, OtherKinds

(* The callback of the query at the head of its queue. *)
LEMMA CalledFirst ==
  ASSUME NEW q \in Queue, q # <<>>, NEW r, NEW line
  PROVE  \A a \in Called(q, 1, r, line) : a.to \in Names(q)
  <1>1. 1 \in 1..Len(q)
    BY DEF Queue
  <1> QED BY <1>1 DEF Called, Names

LEMMA IsonLine ==
  ASSUME NEW F, LInv(F), AInv', NEW s \in Server, NEW n \in 0..1, ison_returned(s, n)
  PROVE  LInv(F)'
  <1> DEFINE q == queue[s]["ison"]
             u == queue[s]["userhost"] \o PlainEntries(nextId, n)
             p == ison_queue_pop(q)
             w == Tail(wire[s]) \o Requests("userhost", nextId, n)
  <1>1. /\ lines' = lines /\ nextId' = nextId + n
        /\ wire[s] # <<>> /\ Head(wire[s]).kind = "ison"
        /\ queue' = [queue EXCEPT ![s]["ison"] = p, ![s]["userhost"] = u]
        /\ wire' = [wire EXCEPT ![s] = w]
        /\ answers' = answers \cup IF q = <<>> THEN {} ELSE Called(q, 1, Head(wire[s]), User)
    BY DEF ison_returned, Pending
  <1>2. /\ nextId \in Nat /\ queue \in [Server -> Queues] /\ wire \in [Server -> Seq(Request)]
        /\ {"who", "ison", "userhost"} \subseteq Kind /\ q \in Queue /\ queue[s]["userhost"] \in Queue
        /\ n \in Nat
    BY LineOf
  <1>3. Names(u) \subseteq Names(queue[s]["userhost"]) \cup nextId..(nextId' - 1)
    BY <1>1, <1>2, PlainNames
  <1>4. Names(p) \subseteq Names(q)
    BY <1>2, TailNames DEF ison_queue_pop
  <1>5. \A a \in answers' : a \in answers \/ a.to \in Names(q)
    BY <1>1, <1>2, CalledFirst
  <1> HIDE DEF u, p, w
  <1>6. /\ \A t \in Server : t # s => queue'[t] = queue[t] /\ wire'[t] = wire[t]
        /\ queue'[s]["ison"] = p /\ queue'[s]["userhost"] = u
        /\ queue'[s]["who"] = queue[s]["who"]
    BY <1>1, <1>2 DEF Queues
  <1>7. \A l \in {"ison", "userhost"} :
            Names(queue'[s][l]) \subseteq
               Names(queue[s][l]) \cup (IF l = "userhost" THEN nextId..(nextId' - 1) ELSE {})
    BY <1>3, <1>4, <1>6
  <1>8. nextId <= nextId' /\ Head(wire[s]).kind # "who" /\ answers \subseteq answers'
        /\ \A a \in answers' : \/ a \in answers
                               \/ \E l \in {"ison", "userhost"} : a.to \in Names(queue[s][l])
    BY <1>1, <1>2, <1>5
  <1> QED BY <1>1, <1>6, <1>7, <1>8, OtherKinds

LEMMA UserhostLine ==
  ASSUME NEW F, LInv(F), AInv', NEW s \in Server, NEW n \in 0..1, userhost_returned(s, n)
  PROVE  LInv(F)'
  <1> DEFINE q == queue[s]["userhost"]
             e == q \o PlainEntries(nextId, n)
             u == IF q = <<>> THEN q ELSE userhost_queue_pop(e)
             w == Tail(wire[s]) \o Requests("userhost", nextId, n)
  <1>1. /\ lines' = lines /\ nextId' = nextId + n
        /\ wire[s] # <<>> /\ Head(wire[s]).kind = "userhost"
        /\ queue' = [queue EXCEPT ![s]["userhost"] = u]
        /\ wire' = [wire EXCEPT ![s] = w]
        /\ answers' = answers \cup IF q = <<>> THEN {} ELSE Called(q, 1, Head(wire[s]), User)
    BY DEF userhost_returned, Pending
  <1>2. /\ nextId \in Nat /\ queue \in [Server -> Queues] /\ wire \in [Server -> Seq(Request)]
        /\ {"who", "ison", "userhost"} \subseteq Kind /\ q \in Queue /\ n \in Nat
        /\ WellFormed(q) /\ Below(q, nextId)
    <2>1. Server1(queue[s], wire[s], nextId)
      BY LineOf
    <2> QED BY <2>1, LineOf DEF Server1, QueuesInOrder, QueueOK
  <1>3. Names(e) \subseteq Names(q) \cup nextId..(nextId' - 1) /\ e \in Queue
    BY <1>1, <1>2, PlainNames, AddPlain
  <1>4. Names(u) \subseteq Names(q) \cup nextId..(nextId' - 1)
    <2>1. q # <<>> => e # <<>>
      <3>1. PlainEntries(nextId, n) \in Seq(Entry)
        BY <1>2 DEF PlainEntries, Plain, Entry
      <3> HIDE DEF q
      <3>2. Len(e) = Len(q) + Len(PlainEntries(nextId, n)) /\ Len(q) \in Nat
            /\ Len(PlainEntries(nextId, n)) \in Nat /\ (q # <<>> => Len(q) # 0)
        <4> DEFINE y == PlainEntries(nextId, n)
        <4>1. y \in Seq(Entry) /\ q \in Seq(Entry)
          BY <1>2, <3>1 DEF Queue
        <4> HIDE DEF y
        <4>2. Len(q \o y) = Len(q) + Len(y) /\ Len(q) \in Nat
              /\ Len(y) \in Nat /\ (q # <<>> => Len(q) # 0)
          BY <4>1
        <4> QED BY <4>2 DEF y
      <3> HIDE DEF e
      <3>3. q # <<>> => Len(e) # 0
        BY <3>2
      <3>4. Len(<<>>) = 0
        OBVIOUS
      <3> QED BY <3>3, <3>4
    <2> HIDE DEF e
    <2> QED BY <1>3, <2>1, TailNames DEF userhost_queue_pop
  <1>5. \A a \in answers' : a \in answers \/ a.to \in Names(q)
    BY <1>1, <1>2, CalledFirst
  <1> HIDE DEF u, w
  <1>6. /\ \A t \in Server : t # s => queue'[t] = queue[t] /\ wire'[t] = wire[t]
        /\ queue'[s]["ison"] = queue[s]["ison"] /\ queue'[s]["userhost"] = u
        /\ queue'[s]["who"] = queue[s]["who"]
    BY <1>1, <1>2 DEF Queues
  <1>7. \A l \in {"ison", "userhost"} :
            Names(queue'[s][l]) \subseteq
               Names(queue[s][l]) \cup (IF l = "userhost" THEN nextId..(nextId' - 1) ELSE {})
    BY <1>4, <1>6
  <1>8. nextId <= nextId' /\ Head(wire[s]).kind # "who" /\ answers \subseteq answers'
        /\ \A a \in answers' : \/ a \in answers
                               \/ \E l \in {"ison", "userhost"} : a.to \in Names(queue[s][l])
    BY <1>1, <1>2, <1>5
  <1> QED BY <1>1, <1>6, <1>7, <1>8, OtherKinds

(* whobase() *)
LEMMA WhoLine ==
  ASSUME NEW F, LInv(F), AInv', NEW s \in Server, NEW t \in Target, NEW f \in SUBSET User,
         NEW func \in BOOLEAN, func \/ f = F, whobase(s, t, f, func)
  PROVE  LInv(F)'
  <1> DEFINE q == queue[s]["who"]
             p == WhoAdd(q, nextId, t, f, func)
             w == IF CanPiggyback(q, t) THEN wire[s] ELSE Append(wire[s], WhoRequest(nextId, f))
  <1>1. /\ lines' = lines /\ answers' = answers /\ nextId' = nextId + 1
        /\ queue' = [queue EXCEPT ![s]["who"] = p] /\ wire' = [wire EXCEPT ![s] = w]
    BY DEF whobase
  <1>2. /\ nextId \in Nat /\ queue \in [Server -> Queues] /\ wire \in [Server -> Seq(Request)]
        /\ {"who", "ison", "userhost"} \subseteq Kind
        /\ q \in Queue /\ WellFormed(q) /\ Single(q) /\ Names(q) \subseteq 0..(nextId - 1)
        /\ LineOK(F, q, wire[s], lines[s], answers)
        /\ WireOK(wire[s], nextId) /\ \A a \in answers : a.to # nextId
    BY LineOf
  <1>3. Names(p) \subseteq Names(q) \cup {nextId} /\ Single(p)
    BY <1>2, WhoAddNames
  <1>4. wire[s] # <<>> => w # <<>> /\ Head(w) = Head(wire[s])
    <2>1. WhoRequest(nextId, f) \in Request
      BY <1>2, WhoRequestType
    <2> QED BY <1>2, <2>1, AppendHead
  <1> HIDE DEF q, w
  <1>5. LineOK(F, q, w, lines[s], answers)
    BY <1>2, <1>4, QuietLine
  <1>6. lines[s] # {} => Head(w).id # nextId
    <2> SUFFICES ASSUME lines[s] # {} PROVE Head(w).id # nextId
      OBVIOUS
    <2>1. wire[s] # <<>> /\ Head(wire[s]).kind = "who"
      BY <1>2 DEF LineOK, Begun
    <2>2. Head(wire[s]).id # nextId
      BY <1>2, <2>1, HeadOld
    <2> QED BY <1>4, <2>1, <2>2
  <1>7. LineOK(F, p, w, lines[s], answers)
    BY <1>2, <1>5, <1>6, JoinsLine
  <1> HIDE DEF p
  <1>8. /\ \A c \in Server : c # s => queue'[c] = queue[c] /\ wire'[c] = wire[c]
        /\ wire'[s] = w /\ queue'[s]["who"] = p
        /\ \A l \in Kind : l # "who" => queue'[s][l] = queue[s][l]
    BY <1>1, <1>2 DEF Queues
  <1>9. nextId <= nextId' /\ nextId..(nextId' - 1) = {nextId} /\ "who" \in Kind
    BY <1>1, <1>2
  <1>10. \A l \in Kind : Names(queue'[s][l]) \subseteq
                           Names(queue[s][l]) \cup (IF l = "who" THEN nextId..(nextId' - 1) ELSE {})
    BY <1>3, <1>8, <1>9 DEF q
  <1>11. LineOK(F, queue'[s]["who"], wire'[s], lines'[s], answers') /\ Single(queue'[s]["who"])
    BY <1>1, <1>3, <1>7, <1>8
  <1> QED BY <1>1, <1>8, <1>9, <1>10, <1>11, LineStep

(* 352: the queue after the callback's question, with the marks *)
LEMMA ReplyLine ==
  ASSUME NEW F, LInv(F), AInv', NEW s \in Server, NEW u \in User, NEW j \in Nat, NEW t \in Target,
         whoreply(s, u, j, t)
  PROVE  LInv(F)'
  <1> DEFINE q == queue[s]["who"]
             q1 == Asked(q, j, t, nextId)
             n == BatchLen(q1)
             w == AskedWire(wire[s], q, j, t, nextId)
             m == AskedNext(j, nextId)
             r == Head(wire[s])
             B == answers \cup {a \in Called(q1, n, r, {u}) :
                                  \E i \in 1..n : a.to = q1[i].id /\ TakesLine(q1, i, u)}
             p == MarkDirty(q1, n)
  <1>1. /\ nextId \in Nat /\ queue \in [Server -> Queues] /\ wire \in [Server -> Seq(Request)]
        /\ lines \in [Server -> SUBSET User]
        /\ {"who", "ison", "userhost"} \subseteq Kind
        /\ q \in Queue /\ WellFormed(q) /\ Single(q) /\ Names(q) \subseteq 0..(nextId - 1)
        /\ LineOK(F, q, wire[s], lines[s], answers)
        /\ WireOK(wire[s], nextId) /\ \A a \in answers : a.to # nextId
        /\ Server1(queue[s], wire[s], nextId)
    BY LineOf
  <1>2. wire[s] # <<>> /\ r.kind = "who" /\ j \in 0..(IF q = <<>> THEN 0 ELSE BatchLen(q))
    BY DEF whoreply, Pending
  <1>3. HeadBatch(q, r.id) /\ q # <<>>
    <2>1. "who" \in Kind /\ wire[s] # <<>> /\ Head(wire[s]).kind = "who"
      BY <1>1, <1>2
    <2>2. HeadBatch(queue[s]["who"], Head(wire[s]).id)
      BY <1>1, <2>1, PopsReply
    <2> HIDE DEF q, r
    <2>3. HeadBatch(q, r.id)
      BY <2>2 DEF q, r
    <2> QED BY <2>3 DEF HeadBatch
  <1>4. r.id # nextId
    BY <1>1, <1>2, HeadOld
  <1>5. j \in 0..BatchLen(q)
    BY <1>2, <1>3
  <1>6. LinesGot(F, q1, wire[s], lines[s], answers) /\ DirtyRides(q1, wire[s])
    BY <1>1, <1>2, <1>3, <1>4, <1>5, AsksAmidLine
  <1>7. q1 \in Queue /\ WellFormed(q1) /\ HeadBatch(q1, r.id)
    <2> DEFINE qs == [queue[s] EXCEPT !["who"] = q1]
    <2>1. Server1(qs, w, m) /\ HeadBatch(q1, r.id)
      BY <1>1, <1>2, AsksInLine
    <2>2. qs["who"] = q1
      <3>1. queue[s] \in Queues /\ "who" \in Kind
        BY <1>1
      <3> HIDE DEF q1
      <3> QED BY <3>1 DEF Queues
    <2>3. QueueOK(qs["who"], "who", m)
      BY <1>1, <2>1 DEF Server1, QueuesInOrder
    <2> HIDE DEF qs, q1
    <2> QED BY <2>1, <2>2, <2>3 DEF QueueOK
  <1>8. Names(q1) \subseteq Names(q) \cup nextId..(m - 1) /\ Single(q1) /\ nextId <= m
    <2>1. CASE j = 0
      BY <1>1, <2>1 DEF Asked, AskedNext
    <2>2. CASE j # 0
      <3> DEFINE q0 == MarkDirty(q, j)
      <3>1. q0 \in Queue /\ Names(q0) = Names(q) /\ Single(q0)
        BY <1>1, MarkNames, MarkEntries
      <3> HIDE DEF q0
      <3>2. User \in SUBSET User /\ TRUE \in BOOLEAN
        OBVIOUS
      <3>3. /\ Names(WhoAdd(q0, nextId, t, User, TRUE)) \subseteq Names(q0) \cup {nextId}
            /\ Single(WhoAdd(q0, nextId, t, User, TRUE))
        BY <1>1, <3>1, <3>2, WhoAddNames
      <3>4. m = nextId + 1 /\ nextId..(m - 1) = {nextId}
        BY <1>1, <2>2 DEF AskedNext
      <3>5. q1 = WhoAdd(q0, nextId, t, User, TRUE)
        BY <2>2 DEF Asked, q0
      <3>6. nextId <= m
        BY <1>1, <3>4
      <3> HIDE DEF m, q1, q
      <3> QED BY <3>1, <3>3, <3>4, <3>5, <3>6
    <2> QED BY <2>1, <2>2
  <1>9. w # <<>> /\ Head(w) = r
    <2>1. User \in SUBSET User
      OBVIOUS
    <2>2. WhoRequest(nextId, User) \in Request
      BY <1>1, <2>1, WhoRequestType
    <2> QED BY <1>1, <1>2, <2>2, AppendHead DEF AskedWire
  <1>10. /\ lines' = [lines EXCEPT ![s] = lines[s] \cup {u}] /\ nextId' = m
         /\ queue' = [queue EXCEPT ![s]["who"] = p] /\ answers' = B
         /\ wire' = IF j = 0 \/ CanPiggyback(MarkDirty(q, j), t) THEN wire
                    ELSE [wire EXCEPT ![s] = Append(wire[s], WhoRequest(nextId, User))]
    BY <1>3 DEF whoreply, Asked, AskedNext
  <1>11. wire'[s] = w /\ \A c \in Server : c # s => wire'[c] = wire[c]
    BY <1>1, <1>10 DEF AskedWire
  <1> HIDE DEF q1, q, w, m, r
  <1>12. n \in 0..Len(q1)
    BY <1>7, PopEntries
  <1>13. \A i \in 1..Len(q1) : i <= n <=> Riding(wire[s], q1[i])
    BY <1>2, <1>7, RidersFirst DEF r
  <1>14. LineOK(F, p, wire[s], lines[s] \cup {u}, B)
    BY <1>2, <1>6, <1>7, <1>8, <1>12, <1>13, GivesLine DEF r
  <1>15. Names(p) = Names(q1) /\ Single(p)
    <2>1. n \in Int
      BY <1>12
    <2> QED BY <1>7, <1>8, <2>1, MarkNames
  <1>16. \A a \in B : a \in answers \/ a.to \in Names(q1)
    <2>1. \A i \in 1..n : i \in 1..Len(q1)
      BY <1>7, <1>12 DEF Queue
    <2> HIDE DEF n
    <2> QED BY <2>1 DEF Names
  <1> HIDE DEF p, n, B
  <1>17. LineOK(F, p, w, lines[s] \cup {u}, B)
    BY <1>2, <1>9, <1>14, QuietLine DEF r
  <1>18. /\ \A c \in Server : c # s => queue'[c] = queue[c] /\ lines'[c] = lines[c]
         /\ queue'[s]["who"] = p /\ lines'[s] = lines[s] \cup {u}
         /\ \A l \in Kind : l # "who" => queue'[s][l] = queue[s][l]
    BY <1>1, <1>10 DEF Queues
  <1>19. \A l \in Kind : Names(queue'[s][l]) \subseteq
                           Names(queue[s][l]) \cup (IF l = "who" THEN nextId..(nextId' - 1) ELSE {})
    BY <1>8, <1>10, <1>15, <1>18 DEF q
  <1>20. LineOK(F, queue'[s]["who"], wire'[s], lines'[s], answers') /\ Single(queue'[s]["who"])
    BY <1>10, <1>11, <1>15, <1>17, <1>18
  <1>21. \A a \in answers' : \/ a \in answers \/ a.to \in nextId..(nextId' - 1)
                             \/ \E l \in Kind : a.to \in Names(queue[s][l])
    BY <1>1, <1>8, <1>10, <1>16 DEF q
  <1>22. "who" \in Kind /\ nextId <= nextId' /\ answers \subseteq answers'
    BY <1>1, <1>8, <1>10 DEF B
  <1>23. \A c \in Server : c # s => /\ queue'[c] = queue[c] /\ wire'[c] = wire[c]
                                    /\ lines'[c] = lines[c]
    BY <1>11, <1>18
  <1>24. Single(queue'[s]["who"])
    BY <1>20
  <1>25. LineOK(F, queue'[s]["who"], wire'[s], lines'[s], answers')
    BY <1>20
  <1> QED BY <1>19, <1>21, <1>22, <1>23, <1>24, <1>25, LineStep

(* The query that joins is not the first. *)
LEMMA JoinsBehind ==
  ASSUME NEW q \in Queue, q # <<>>, NEW i \in Nat, NEW t \in Target, NEW f \in SUBSET User,
         NEW func \in BOOLEAN
  PROVE  WhoAdd(q, i, t, f, func) # <<>> /\ WhoAdd(q, i, t, f, func)[1].via = q[1].via
  <1> DEFINE r == WhoAdd(q, i, t, f, func)
  <1>1. Len(r) = Len(q) + 1 /\ \A j \in 1..Len(q) : SameQuery(r[j], q[j])
    BY WhoAddEntries
  <1>2. Len(q) \in Nat \ {0} /\ 1 \in 1..Len(q)
    BY DEF Queue
  <1>3. Len(<<>>) = 0
    OBVIOUS
  <1> HIDE DEF r
  <1>4. r # <<>> /\ r[1].via = q[1].via
    BY <1>1, <1>2, <1>3 DEF SameQuery
  <1> QED BY <1>4 DEF r

(* 315, whose callback may ask the next WHO *)
LEMMA EndLine ==
  ASSUME NEW F, LInv(F), AInv', NEW s \in Server, NEW again \in BOOLEAN, NEW t \in Target,
         who_end(s, again, t)
  PROVE  LInv(F)'
  <1> DEFINE q == queue[s]["who"]
             q1 == IF again THEN WhoAdd(q, nextId, t, User, TRUE) ELSE q
             m == IF again THEN nextId + 1 ELSE nextId
             r == Head(wire[s])
             p == who_queue_pop(q1)
             C == Called(q1, BatchLen(q1), r, {})
  <1>1. /\ nextId \in Nat /\ queue \in [Server -> Queues] /\ wire \in [Server -> Seq(Request)]
        /\ lines \in [Server -> SUBSET User]
        /\ {"who", "ison", "userhost"} \subseteq Kind
        /\ q \in Queue /\ WellFormed(q) /\ Single(q) /\ Names(q) \subseteq 0..(nextId - 1)
        /\ LineOK(F, q, wire[s], lines[s], answers)
        /\ WireOK(wire[s], nextId) /\ \A a \in answers : a.to # nextId
        /\ Server1(queue[s], wire[s], nextId)
    BY LineOf
  <1>2. wire[s] # <<>> /\ r.kind = "who"
    BY DEF who_end, Pending
  <1>3. r.id # nextId
    BY <1>1, <1>2, HeadOld
  <1>4. HeadBatch(q, r.id)
    <2>1. "who" \in Kind /\ wire[s] # <<>> /\ Head(wire[s]).kind = "who"
      BY <1>1, <1>2
    <2>2. HeadBatch(queue[s]["who"], Head(wire[s]).id)
      BY <1>1, <2>1, PopsReply
    <2> QED BY <2>2
  <1>5. User \in SUBSET User /\ TRUE \in BOOLEAN
    OBVIOUS
  <1>6. LineOK(F, q1, wire[s], lines[s], answers)
    BY <1>1, <1>3, <1>5, JoinsLine
  <1>7. q1 \in Queue /\ WellFormed(q1)
    <2>1. Below(q, nextId)
      BY <1>1 DEF Server1, QueuesInOrder, QueueOK
    <2>2. /\ WhoAdd(q, nextId, t, User, TRUE) \in Queue
          /\ WellFormed(WhoAdd(q, nextId, t, User, TRUE))
      BY <1>1, <1>5, <2>1, AddWho
    <2> QED BY <1>1, <2>2
  <1>8. Names(q1) \subseteq Names(q) \cup nextId..(m - 1) /\ Single(q1) /\ nextId <= m
    <2>1. /\ Names(WhoAdd(q, nextId, t, User, TRUE)) \subseteq Names(q) \cup {nextId}
          /\ Single(WhoAdd(q, nextId, t, User, TRUE))
      BY <1>1, <1>5, WhoAddNames
    <2>2. again => m = nextId + 1 /\ nextId..(m - 1) = {nextId}
      BY <1>1
    <2>3. nextId <= m
      BY <1>1
    <2> HIDE DEF q, m
    <2> QED BY <1>1, <2>1, <2>2, <2>3
  <1>9. q1 # <<>> /\ q1[1].via = r.id
    <2>1. 1 \in 1..Len(q) /\ q[1].via = r.id
      <3>1. BatchLen(q) \in 1..Len(q)
        BY <1>1, <1>4, BatchIsPrefix DEF HeadBatch
      <3>2. 1 \in 1..BatchLen(q) /\ 1 \in 1..Len(q)
        BY <1>1, <3>1 DEF Queue
      <3> HIDE DEF q, r
      <3> QED BY <1>4, <3>2 DEF HeadBatch
    <2>2. CASE again
      <3>1. q1 = WhoAdd(q, nextId, t, User, TRUE)
        BY <2>2
      <3>2. q # <<>>
        BY <1>4 DEF HeadBatch
      <3> HIDE DEF q, q1, r
      <3> QED BY <1>1, <1>5, <2>1, <3>1, <3>2, JoinsBehind
    <2>3. CASE ~ again
      BY <1>4, <2>1, <2>3 DEF HeadBatch
    <2> QED BY <2>2, <2>3
  <1>10. /\ lines' = [lines EXCEPT ![s] = {}] /\ nextId' = m
         /\ queue' = [queue EXCEPT ![s]["who"] = p] /\ answers' = answers \cup C
         /\ \E v : wire' = [wire EXCEPT ![s] = v]
    BY DEF who_end
  <1> HIDE DEF q, q1, m, r
  <1>11. BatchLen(q1) \in 1..Len(q1)
         /\ \A i \in 1..Len(q1) : i <= BatchLen(q1) <=> q1[i].via = q1[1].via
    BY <1>7, <1>9, BatchIsPrefix
  <1>12. \A i \in 1..Len(q1) : Riding(wire[s], q1[i]) => i <= BatchLen(q1)
    BY <1>9, <1>11 DEF Riding, r
  <1>13. LineOK(F, p, wire'[s], {}, answers)
    BY <1>6, <1>7, <1>12, PopsLine DEF LineOK
  <1>14. \A a \in C : a.to \in Names(q1) /\ a.line = {}
    <2>1. \A i \in 1..BatchLen(q1) : i \in 1..Len(q1)
      BY <1>7, <1>11 DEF Queue
    <2> QED BY <2>1 DEF Called, Names
  <1>15. Names(p) \subseteq Names(q1) /\ Single(p)
    BY <1>7, <1>8, PopNames
  <1> HIDE DEF p, C
  <1>16. answers \subseteq answers' /\ \A a \in answers' : a \in answers \/ (a.to \in Names(q1) /\ a.line = {})
    BY <1>10, <1>14
  <1>17. LineOK(F, p, wire'[s], {}, answers')
    BY <1>13, <1>16, GotElsewhere
  <1>18. /\ \A c \in Server : c # s => /\ queue'[c] = queue[c] /\ lines'[c] = lines[c]
                                       /\ wire'[c] = wire[c]
         /\ queue'[s]["who"] = p /\ lines'[s] = {}
         /\ \A l \in Kind : l # "who" => queue'[s][l] = queue[s][l]
    BY <1>1, <1>10 DEF Queues
  <1>19. \A l \in Kind : Names(queue'[s][l]) \subseteq
                           Names(queue[s][l]) \cup (IF l = "who" THEN nextId..(nextId' - 1) ELSE {})
    BY <1>8, <1>10, <1>15, <1>18 DEF q
  <1>20. \A a \in answers' : \/ a \in answers \/ a.to \in nextId..(nextId' - 1)
                             \/ \E l \in Kind : a.to \in Names(queue[s][l])
    BY <1>1, <1>8, <1>10, <1>16 DEF q
  <1>21. Single(queue'[s]["who"])
    BY <1>15, <1>18
  <1>22. LineOK(F, queue'[s]["who"], wire'[s], lines'[s], answers')
    BY <1>17, <1>18
  <1>23. "who" \in Kind /\ nextId <= nextId'
    <2>1. "who" \in Kind
      BY <1>1
    <2>2. nextId' = m /\ nextId <= m
      BY <1>8, <1>10
    <2> QED BY <2>1, <2>2
  <1>24. \A c \in Server : c # s => /\ queue'[c] = queue[c] /\ wire'[c] = wire[c]
                                    /\ lines'[c] = lines[c]
    BY <1>18
  <1>25. answers \subseteq answers'
    BY <1>16
  <1> QED BY <1>19, <1>20, <1>21, <1>22, <1>23, <1>24, <1>25, LineStep

(* NICK, and an answer to it that lets it pass *)
LEMMA NickLine ==
  ASSUME NEW F, LInv(F), AInv', NEW s \in Server, SendNick(s) \/ NickAccepted(s)
  PROVE  LInv(F)'
  <1>1. queue' = queue /\ lines' = lines /\ answers' = answers /\ nextId' = nextId
    BY DEF SendNick, NickAccepted
  <1>2. wire \in [Server -> Seq(Request)] /\ nextId \in Nat
    BY LineOf
  <1>3. /\ \A c \in Server : c # s => wire'[c] = wire[c]
        /\ \/ wire[s] # <<>> /\ wire'[s] # <<>> /\ Head(wire'[s]) = Head(wire[s])
           \/ wire[s] = <<>> \/ Head(wire[s]).kind # "who"
    <2>1. CASE SendNick(s)
      <3> DEFINE r == [kind |-> "nick", id |-> 0, mask |-> {}]
      <3>1. r \in Request
        BY DEF Request
      <3>2. wire' = [wire EXCEPT ![s] = Append(wire[s], r)]
        BY <2>1 DEF SendNick
      <3> HIDE DEF r
      <3> QED BY <1>2, <3>1, <3>2, AppendHead
    <2>2. CASE NickAccepted(s)
      BY <2>2 DEF NickAccepted, Pending
    <2> QED BY <2>1, <2>2
  <1>4. nextId <= nextId'
    BY <1>1, <1>2
  <1>5. "ison" \in {"ison", "userhost"}
    OBVIOUS
  <1> QED BY <1>1, <1>3, <1>4, <1>5, OtherKinds

(* The queues of a server are cleaned, and USERHOST may be asked. *)
LEMMA CleanedLine ==
  ASSUME NEW F, LInv(F), AInv', NEW s \in Server, NEW v, nextId <= nextId', answers' = answers,
         \A c \in Server : c # s => /\ queue'[c] = queue[c] /\ wire'[c] = wire[c]
                                    /\ lines'[c] = lines[c],
         queue'[s] = [EmptyQueues EXCEPT !["userhost"] = v],
         Names(v) \subseteq nextId..(nextId' - 1), lines'[s] = {}
  PROVE  LInv(F)'
  <1>1. \A l \in Kind : queue'[s][l] = IF l = "userhost" THEN v ELSE <<>>
    BY DEF EmptyQueues
  <1>2. Names(<<>>) = {} /\ Single(<<>>)
    BY DEF Names, Single
  <1>3. "userhost" \in Kind
    BY DEF Kind
  <1>4. "who" \in Kind
    BY DEF Kind
  <1>5. \A l \in Kind : Names(queue'[s][l]) \subseteq
                          Names(queue[s][l]) \cup (IF l = "userhost" THEN nextId..(nextId' - 1) ELSE {})
    BY <1>1, <1>2
  <1>6. Single(queue'[s]["who"])
    BY <1>1, <1>2, <1>4
  <1>7. LineOK(F, queue'[s]["who"], wire'[s], lines'[s], answers')
    <2>1. queue'[s]["who"] = <<>>
      BY <1>1, <1>4
    <2>2. LineOK(F, <<>>, wire'[s], {}, answers')
      BY NoLine
    <2> QED BY <2>1, <2>2
  <1>8. \A a \in answers' : \/ a \in answers \/ a.to \in nextId..(nextId' - 1)
                            \/ \E l \in Kind : a.to \in Names(queue[s][l])
    OBVIOUS
  <1>9. answers \subseteq answers'
    OBVIOUS
  <1> QED BY <1>3, <1>5, <1>6, <1>7, <1>8, <1>9, LineStep

(* 001 *)
LEMMA WelcomeLine ==
  ASSUME NEW F, LInv(F), AInv', NEW s \in Server, Welcome(s)
  PROVE  LInv(F)'
  <1>1. /\ lines' = lines /\ answers' = answers /\ nextId' = nextId + 1
        /\ queue' = [queue EXCEPT ![s]["userhost"] = queue[s]["userhost"] \o PlainEntries(nextId, 1)]
        /\ wire' = [wire EXCEPT ![s] = wire[s] \o Requests("userhost", nextId, 1)]
    BY DEF Welcome
  <1>2. "userhost" \in {"ison", "userhost"} /\ 1 \in Nat
    OBVIOUS
  <1> QED BY <1>1, <1>2, PlainLine

(* /ISON and /USERHOST *)
LEMMA AskLine ==
  ASSUME NEW F, LInv(F), AInv', NEW s \in Server, NEW n \in Nat,
         isonbase(s, n) \/ userhostbase(s, n)
  PROVE  LInv(F)'
  <1>1. CASE isonbase(s, n)
    <2>1. /\ lines' = lines /\ answers' = answers /\ nextId' = nextId + n
          /\ queue' = [queue EXCEPT ![s]["ison"] = queue[s]["ison"] \o PlainEntries(nextId, n)]
          /\ wire' = [wire EXCEPT ![s] = wire[s] \o Requests("ison", nextId, n)]
      BY <1>1 DEF isonbase
    <2>2. "ison" \in {"ison", "userhost"}
      OBVIOUS
    <2> QED BY <2>1, <2>2, PlainLine
  <1>2. CASE userhostbase(s, n)
    <2>1. /\ lines' = lines /\ answers' = answers /\ nextId' = nextId + n
          /\ queue' = [queue EXCEPT ![s]["userhost"] = queue[s]["userhost"] \o PlainEntries(nextId, n)]
          /\ wire' = [wire EXCEPT ![s] = wire[s] \o Requests("userhost", nextId, n)]
      BY <1>2 DEF userhostbase
    <2>2. "userhost" \in {"ison", "userhost"}
      OBVIOUS
    <2> QED BY <2>1, <2>2, PlainLine
  <1> QED BY <1>1, <1>2

(* close_server() called for the server it closes *)
LEMMA CloseLine ==
  ASSUME NEW F, LInv(F), AInv', "foreign_close" \notin Hazards, NEW ctx \in Server,
         NEW cs \in Server, close_server(ctx, cs)
  PROVE  LInv(F)'
  <1>1. /\ ctx = cs /\ connected[cs] /\ nextId' = nextId /\ answers' = answers
        /\ queue' = clean_server_queues(cs)
        /\ wire' = [wire EXCEPT ![cs] = <<>>] /\ lines' = [lines EXCEPT ![cs] = {}]
    BY DEF close_server
  <1>2. /\ nextId \in Nat /\ queue \in [Server -> Queues]
        /\ wire \in [Server -> Seq(Request)] /\ lines \in [Server -> SUBSET User]
    BY LineOf
  <1>3. queue' = [queue EXCEPT ![cs] = EmptyQueues]
    BY <1>1 DEF clean_server_queues
  <1>4. EmptyQueues = [EmptyQueues EXCEPT !["userhost"] = <<>>]
    BY DEF EmptyQueues
  <1>5. /\ \A c \in Server : c # cs => /\ queue'[c] = queue[c] /\ wire'[c] = wire[c]
                                       /\ lines'[c] = lines[c]
        /\ queue'[cs] = EmptyQueues /\ lines'[cs] = {}
    <2> HIDE DEF EmptyQueues
    <2> QED BY <1>1, <1>2, <1>3
  <1>6. Names(<<>>) \subseteq nextId..(nextId' - 1)
    BY DEF Names
  <1>7. nextId <= nextId'
    BY <1>1, <1>2
  <1> QED BY <1>1, <1>4, <1>5, <1>6, <1>7, CleanedLine

(* 433 when nothing else waits *)
LEMMA InUseLine ==
  ASSUME NEW F, LInv(F), AInv', "nick_in_use" \notin Hazards, NEW s \in Server,
         NEW orignick \in BOOLEAN, NicknameInUse(s, orignick)
  PROVE  LInv(F)'
  <1> DEFINE v == EmptyQueues["userhost"] \o PlainEntries(nextId, 1)
  <1>1. /\ ~ orignick /\ wire[s] # <<>> /\ Head(wire[s]).kind = "nick"
        /\ nextId' = nextId + 1 /\ lines' = lines /\ answers' = answers
        /\ \E w : wire' = [wire EXCEPT ![s] = w]
    BY DEF NicknameInUse, Pending
  <1>2. /\ nextId \in Nat /\ queue \in [Server -> Queues] /\ "who" \in Kind
        /\ wire \in [Server -> Seq(Request)] /\ Server1(queue[s], wire[s], nextId)
        /\ LineOK(F, queue[s]["who"], wire[s], lines[s], answers)
    BY LineOf
  <1>3. connected[s]
    BY <1>1, OfServer DEF LInv, AInv
  <1>4. clean_server_queues(s) = [queue EXCEPT ![s] = EmptyQueues]
    BY <1>2, <1>3 DEF clean_server_queues
  <1>5. nextId + 1 - 1 = nextId
    BY <1>2
  <1>6. queue' = [clean_server_queues(s) EXCEPT ![s]["userhost"] =
                     clean_server_queues(s)[s]["userhost"] \o PlainEntries(nextId, 1)]
    BY <1>1, <1>5 DEF NicknameInUse
  <1>7. EmptyQueues \in Queues
    BY DEF EmptyQueues, Queues
  <1>8. /\ queue'[s] = [EmptyQueues EXCEPT !["userhost"] = v]
        /\ \A c \in Server : c # s => queue'[c] = queue[c]
    <2> HIDE DEF EmptyQueues
    <2>1. clean_server_queues(s)[s]["userhost"] = EmptyQueues["userhost"]
      BY <1>2, <1>4
    <2>2. queue' = [clean_server_queues(s) EXCEPT ![s]["userhost"] = v]
      BY <1>6, <2>1
    <2> HIDE DEF v
    <2>3. queue' = [[queue EXCEPT ![s] = EmptyQueues] EXCEPT ![s]["userhost"] = v]
      BY <1>4, <2>2
    <2> QED BY <1>2, <1>7, <2>3
  <1>9. Names(v) \subseteq nextId..(nextId' - 1)
    <2>1. EmptyQueues["userhost"] = <<>> /\ <<>> \in Queue
      BY DEF EmptyQueues, Kind, Queue
    <2>2. Names(<<>> \o PlainEntries(nextId, 1)) \subseteq Names(<<>>) \cup nextId..(nextId + 1 - 1)
      BY <1>2, <2>1, PlainNames
    <2>3. Names(<<>>) = {}
      BY DEF Names
    <2>4. v = <<>> \o PlainEntries(nextId, 1)
      BY <2>1
    <2>5. nextId' = nextId + 1 /\ nextId \in Nat
      BY <1>1, <1>2
    <2> HIDE DEF v
    <2>6. nextId + 1 - 1 = nextId' - 1
      BY <2>5
    <2>7. Names(v) \subseteq nextId..(nextId + 1 - 1)
      BY <2>2, <2>3, <2>4
    <2> QED BY <2>6, <2>7
  <1> HIDE DEF v
  <1>10. lines'[s] = {}
    BY <1>1, <1>2 DEF LineOK, Begun
  <1>11. \A c \in Server : c # s => /\ queue'[c] = queue[c] /\ wire'[c] = wire[c]
                                    /\ lines'[c] = lines[c]
    BY <1>1, <1>2, <1>8
  <1>12. nextId <= nextId'
    BY <1>1, <1>2
  <1>13. answers' = answers
    BY <1>1
  <1>14. queue'[s] = [EmptyQueues EXCEPT !["userhost"] = v]
    BY <1>8
  <1> QED BY <1>9, <1>10, <1>11, <1>12, <1>13, <1>14, CleanedLine

(* A callback that disconnects: of its server nothing is left to answer. *)
LEMMA ClosedLine ==
  ASSUME NEW F, LInv(F), AInv', NEW s \in Server, ACallbackCloses(s)
  PROVE  LInv(F)'
  <1>1. PICK k, n, line, called, dies : ClosedBy(s, k, n, line, called, dies)
    BY ClosingCallback
  <1> DEFINE q == queue[s][k]
  <1>2. /\ k \in Kind /\ q # <<>>
        /\ n \in 1..(IF k = "who" THEN BatchLen(q) ELSE 1)
        /\ called \subseteq Called(q, n, Head(wire[s]), line)
    BY <1>1 DEF ClosedBy
  <1>3. /\ nextId' = nextId /\ nextId \in Nat /\ answers' = answers \cup called
        /\ \A c \in Server :
              IF c = s \/ dies
              THEN queue'[c] = EmptyQueues /\ wire'[c] = <<>> /\ lines'[c] = {}
              ELSE queue'[c] = queue[c] /\ wire'[c] = wire[c] /\ lines'[c] = lines[c]
    BY <1>1, ClosedQueues DEF LInv, AInv
  <1>4. q \in Queue /\ Names(q) \subseteq 0..(nextId - 1) /\ "who" \in Kind
    BY <1>2, LineOf
  <1>5. \A a \in called : a.to \in Names(q)
    <2> HIDE DEF q
    <2>1. Len(q) \in Nat /\ 1 <= Len(q)
      BY <1>2, <1>4 DEF Queue
    <2>2. BatchLen(q) \in Nat /\ BatchLen(q) <= Len(q)
      BY <1>4, BatchWithin
    <2> HIDE DEF BatchLen
    <2>3. n \in Nat /\ n <= Len(q)
      BY <1>2, <2>1, <2>2
    <2>4. \A i \in 1..n : i \in 1..Len(q)
      BY <2>1, <2>3
    <2> QED BY <1>2, <2>4 DEF Called, Names
  <1>6. \A h \in Kind : EmptyQueues[h] = <<>>
    BY DEF EmptyQueues
  <1>7. Names(<<>>) = {} /\ Single(<<>>)
    BY DEF Names, Single
  <1> HIDE DEF q
  <1>8. CASE dies
    <2>1. \A c \in Server, h \in Kind : queue'[c][h] = <<>>
      BY <1>3, <1>6, <1>8
    <2>2. \A a \in answers' : a.to \in 0..(nextId' - 1)
      <3>1. \A a \in answers : a.to \in 0..(nextId - 1)
        BY DEF LInv, Fresh
      <3> QED BY <1>3, <1>4, <1>5, <3>1
    <2>3. Fresh'
      BY <1>4, <1>7, <2>1, <2>2 DEF Fresh
    <2>4. ASSUME NEW c \in Server
          PROVE  LineOK(F, queue'[c]["who"], wire'[c], lines'[c], answers')
      <3>1. queue'[c]["who"] = <<>> /\ lines'[c] = {}
        BY <1>3, <1>4, <1>8, <2>1
      <3>2. LineOK(F, <<>>, wire'[c], {}, answers')
        BY NoLine
      <3> QED BY <3>1, <3>2
    <2> QED BY <2>3, <2>4 DEF LInv
  <1>9. CASE ~ dies
    <2>1. \A c \in Server : c # s => /\ queue'[c] = queue[c] /\ wire'[c] = wire[c]
                                      /\ lines'[c] = lines[c]
      BY <1>3, <1>9
    <2>2. lines'[s] = {} /\ \A h \in Kind : queue'[s][h] = <<>>
      BY <1>3, <1>6
    <2>3. \A l \in Kind : Names(queue'[s][l]) \subseteq
                            Names(queue[s][l]) \cup (IF l = k THEN nextId..(nextId' - 1) ELSE {})
      BY <1>7, <2>2
    <2>4. /\ answers \subseteq answers'
          /\ \A a \in answers' : \/ a \in answers \/ a.to \in nextId..(nextId' - 1)
                                  \/ \E l \in Kind : a.to \in Names(queue[s][l])
      BY <1>2, <1>3, <1>5 DEF q
    <2>5. Single(queue'[s]["who"])
      BY <1>4, <1>7, <2>2
    <2>6. LineOK(F, queue'[s]["who"], wire'[s], lines'[s], answers')
      <3>1. LineOK(F, <<>>, wire'[s], {}, answers')
        BY NoLine
      <3> QED BY <1>4, <2>2, <3>1
    <2>7. nextId <= nextId'
      BY <1>3
    <2> QED BY <1>2, <2>1, <2>3, <2>4, <2>5, <2>6, <2>7, LineStep
  <1> QED BY <1>8, <1>9

(* Nothing is asked at first. *)
LEMMA InitLInv == ASSUME NEW F PROVE Init => LInv(F)
  <1> SUFFICES ASSUME Init PROVE LInv(F)
    OBVIOUS
  <1>1. AInv
    BY InitAInv
  <1>2. /\ \A s \in Server, k \in Kind : queue[s][k] = <<>>
        /\ \A s \in Server : lines[s] = {}
        /\ answers = {} /\ "who" \in Kind
    BY DEF Init, Kind
  <1>3. Names(<<>>) = {} /\ Single(<<>>)
    BY DEF Names, Single
  <1>4. Fresh
    BY <1>2, <1>3 DEF Fresh
  <1>5. ASSUME NEW s \in Server PROVE LineOK(F, queue[s]["who"], wire[s], lines[s], answers)
    <2>1. queue[s]["who"] = <<>> /\ lines[s] = {}
      BY <1>2
    <2>2. LineOK(F, <<>>, wire[s], {}, answers)
      BY NoLine
    <2> QED BY <2>1, <2>2
  <1> QED BY <1>1, <1>4, <1>5 DEF LInv

(* Every step gives the queries their lines. *)
LEMMA NextLInv ==
  ASSUME NEW F, Filter \subseteq {F}, NoForeign, LInv(F), [Next]_vars
  PROVE  LInv(F)'
  <1>1. AInv'
    BY NextAInv DEF LInv
  <1>2. "foreign_close" \notin Hazards /\ "nick_in_use" \notin Hazards
    BY DEF NoForeign
  <1>3. ASSUME NEW s \in Server, Welcome(s) PROVE LInv(F)'
    BY <1>1, <1>3, WelcomeLine
  <1>4. ASSUME NEW s \in Server, NEW n \in 1..MaxSplit, isonbase(s, n) \/ userhostbase(s, n)
        PROVE  LInv(F)'
    <2>1. n \in Nat
      BY QueryQueueAssumption
    <2> QED BY <1>1, <1>4, <2>1, AskLine
  <1>5. ASSUME NEW s \in Server, NEW t \in Target, NEW f \in Filter, whobase(s, t, f, FALSE)
        PROVE  LInv(F)'
    <2>1. f = F
      OBVIOUS
    <2>2. f \in SUBSET User
      BY QueryQueueAssumption
    <2>3. FALSE \in BOOLEAN
      OBVIOUS
    <2> QED BY <1>1, <1>5, <2>1, <2>2, <2>3, WhoLine
  <1>6. ASSUME NEW s \in Server, NEW t \in Target, whobase(s, t, User, TRUE) PROVE LInv(F)'
    <2>1. User \in SUBSET User
      OBVIOUS
    <2>2. TRUE \in BOOLEAN
      OBVIOUS
    <2> QED BY <1>1, <1>6, <2>1, <2>2, WhoLine
  <1>7. ASSUME NEW s \in Server, SendNick(s) \/ NickAccepted(s) PROVE LInv(F)'
    BY <1>1, <1>7, NickLine
  <1>8. ASSUME NEW s \in Server, NEW n \in 0..1, ison_returned(s, n) PROVE LInv(F)'
    BY <1>1, <1>8, IsonLine
  <1>9. ASSUME NEW s \in Server, NEW n \in 0..1, userhost_returned(s, n) PROVE LInv(F)'
    BY <1>1, <1>9, UserhostLine
  <1>10. ASSUME NEW s \in Server, NEW u \in User, NEW j \in 0..Len(queue[s]["who"]),
                NEW t \in Target, whoreply(s, u, j, t)
         PROVE  LInv(F)'
    <2>1. j \in Nat
      OBVIOUS
    <2> QED BY <1>1, <1>10, <2>1, ReplyLine
  <1>11. ASSUME NEW s \in Server, NEW again \in BOOLEAN, NEW t \in Target, who_end(s, again, t)
         PROVE  LInv(F)'
    BY <1>1, <1>11, EndLine
  <1>12. ASSUME NEW s \in Server, NEW orignick \in BOOLEAN, NicknameInUse(s, orignick)
         PROVE  LInv(F)'
    BY <1>1, <1>2, <1>12, InUseLine
  <1>13. ASSUME NEW s \in Server, ACallbackCloses(s) PROVE LInv(F)'
    BY <1>1, <1>13, ClosedLine
  <1>14. ASSUME NEW ctx \in Server, NEW cs \in Server, close_server(ctx, cs) PROVE LInv(F)'
    BY <1>1, <1>2, <1>14, CloseLine
  <1>15. CASE UNCHANGED vars
    <2>1. UNCHANGED <<queue, wire, lines, nextId, answers>>
      BY <1>15 DEF vars
    <2>2. Fresh /\ \A s \in Server : LineOK(F, queue[s]["who"], wire[s], lines[s], answers)
      BY DEF LInv
    <2>3. Fresh'
      BY <2>1, <2>2 DEF Fresh
    <2>4. \A s \in Server : LineOK(F, queue'[s]["who"], wire'[s], lines'[s], answers')
      BY <2>1, <2>2
    <2> QED BY <1>1, <2>3, <2>4 DEF LInv
  <1> QED
    BY <1>3, <1>4, <1>5, <1>6, <1>7, <1>8, <1>9, <1>10, <1>11, <1>12, <1>13, <1>14, <1>15
    DEF Next, Ask, Reply, ACallbackCloses

(* The invariant says what each rider has been given. *)
LEMMA RidersHaveTheirs == ASSUME NEW F, LInv(F) PROVE EveryMatchingLine
  <1> SUFFICES ASSUME NEW s \in Server, NEW e \in Riders(s)
               PROVE  LinesOf(e.id) = IF e.line THEN lines[s] ELSE lines[s] \cap e.filter
    BY DEF EveryMatchingLine
  <1>1. PICK i \in 1..Len(queue[s]["who"]) : e = queue[s]["who"][i]
    BY DEF Riders
  <1>2. Riding(wire[s], e)
    BY DEF Riders, Pending, Riding
  <1>3. LinesGot(F, queue[s]["who"], wire[s], lines[s], answers)
    BY DEF LInv, LineOK
  <1>4. Got(e.id, answers) = Taken(e, lines[s])
    BY <1>1, <1>2, <1>3 DEF LinesGot
  <1> QED BY <1>4 DEF Got, LinesOf, Taken

(***************************************************************************)
(* If the queries printed to the user all use the same switches, every     *)
(* query that waits for the WHO reply in progress has been given exactly    *)
(* the lines received so far that it is to have: whoreply() marks the      *)
(* riders dirty with the first line, so that none joins later, and         *)
(* who_end() pops all of them.  With two different switches it fails (see  *)
(* TakesLine): the verdict on one entry is carried over to the next.       *)
(***************************************************************************)
THEOREM RidersGetTheirLines ==
  ASSUME NEW F, Filter \subseteq {F}, NoForeign
  PROVE  Spec => []EveryMatchingLine
  <1>1. Init => LInv(F)
    BY InitLInv
  <1>2. LInv(F) /\ [Next]_vars => LInv(F)'
    BY NextLInv
  <1>3. LInv(F) => EveryMatchingLine
    BY RidersHaveTheirs
  <1> QED BY <1>1, <1>2, <1>3, PTL DEF Spec
=============================================================================
