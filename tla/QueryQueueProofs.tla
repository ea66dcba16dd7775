-------------------------- MODULE QueryQueueProofs --------------------------
(***************************************************************************)
(* Proofs about QueryQueue for any number of servers, targets, users and   *)
(* queries.                                                                *)
(***************************************************************************)
EXTENDS QueryQueue, SequenceLemmas

-----------------------------------------------------------------------------
(* Queues *)

Queue == Seq(Entry)

(* the numbers a queue waits for are below n *)
Below(q, n) == \A i \in 1..Len(q) : q[i].via < n

(***************************************************************************)
(* The loops over a batch (who.c, do .. while (piggyback && next)) end at  *)
(* an unmarked entry, and cover exactly the entries that wait for the same *)
(* reply as the first.                                                     *)
(***************************************************************************)
LEMMA BatchIsPrefix ==
  ASSUME NEW q \in Queue, WellFormed(q), q # <<>>
  PROVE  /\ BatchLen(q) \in 1..Len(q)
         /\ \A i \in 1..Len(q) : i <= BatchLen(q) <=> q[i].via = q[1].via
  <1> DEFINE S == {i \in 1..Len(q) : ~ q[i].piggyback}
  <1>1. Len(q) \in Nat \ {0} /\ Len(q) \in S
    BY DEF Queue, WellFormed, Entry
  <1>2. PICK n \in S : \A m \in S : n <= m
    <2>1. S \in SUBSET Nat
      OBVIOUS
    <2> HIDE DEF S
    <2> QED BY <1>1, <2>1, LeastElement
  <1>3. IsBatch(q, n)
    BY <1>1, <1>2 DEF IsBatch, Queue, Entry
  <1>4. BatchLen(q) \in 1..Len(q) /\ IsBatch(q, BatchLen(q))
    BY <1>2, <1>3 DEF BatchLen
  <1>5. ASSUME NEW i \in 1..Len(q)
        PROVE  i <= BatchLen(q) <=> q[i].via = q[1].via
    <2>1. /\ BatchLen(q) \in 1..Len(q)
          /\ ~ q[BatchLen(q)].piggyback
          /\ \A h \in 1..(BatchLen(q) - 1) : q[h].piggyback
      BY <1>4 DEF IsBatch
    <2>2. 1 < i => (q[1].via = q[i].via <=> \A h \in 1..(i - 1) : q[h].piggyback)
      BY <1>1 DEF WellFormed
    <2>3. i \in Nat /\ 1 <= i /\ BatchLen(q) \in Nat
      BY <1>1, <2>1
    <2>4. CASE i <= BatchLen(q)
      <3>1. 1 < i => \A h \in 1..(i - 1) : q[h].piggyback
        BY <2>1, <2>3, <2>4
      <3> QED BY <2>2, <2>3, <2>4, <3>1
    <2>5. CASE ~ (i <= BatchLen(q))
      <3>1. BatchLen(q) \in 1..(i - 1) /\ 1 < i
        BY <2>1, <2>3, <2>5
      <3>2. ~ \A h \in 1..(i - 1) : q[h].piggyback
        BY <2>1, <3>1
      <3> QED BY <3>1, <3>2, <2>2, <2>5
    <2> QED BY <2>4, <2>5
  <1> QED BY <1>4, <1>5

(* who_queue_pop() removes the entries that wait for the reply of the first. *)
LEMMA PopBatch ==
  ASSUME NEW q \in Queue, WellFormed(q), q # <<>>
  PROVE  /\ who_queue_pop(q) \in Queue
         /\ WellFormed(who_queue_pop(q))
         /\ Ids(who_queue_pop(q)) = Ids(q) \ {q[1].via}
         /\ \A m \in Nat : Below(q, m) => Below(who_queue_pop(q), m)
  <1> DEFINE b == BatchLen(q)
             p == who_queue_pop(q)
  <1>1. b \in 1..Len(q) /\ \A i \in 1..Len(q) : i <= b <=> q[i].via = q[1].via
    BY BatchIsPrefix
  <1>2. Len(q) \in Nat /\ b \in Nat /\ 1 <= b /\ b <= Len(q)
    BY <1>1 DEF Queue
  <1>3. p \in Seq(Entry) /\ Len(p) = Len(q) - b /\ \A i \in 1..Len(p) : p[i] = q[i + b]
    BY <1>2 DEF who_queue_pop, Queue
  <1>4. \A i \in 1..Len(p) : i + b \in 1..Len(q)
    BY <1>2, <1>3
  <1>5. p # <<>> => ~ p[Len(p)].piggyback
    <2>1. p # <<>> => Len(p) \in 1..Len(p) /\ Len(p) + b = Len(q)
      BY <1>2, <1>3
    <2> QED BY <2>1, <1>3 DEF WellFormed
  <1>6. ASSUME NEW i \in 1..Len(p), NEW j \in 1..Len(p), i < j
        PROVE  /\ p[i].via <= p[j].via
               /\ p[i].via = p[j].via <=> \A h \in i..(j - 1) : p[h].piggyback
    <2>1. i + b \in 1..Len(q) /\ j + b \in 1..Len(q) /\ i + b < j + b
      BY <1>2, <1>3, <1>4, <1>6
    <2>2. /\ q[i + b].via <= q[j + b].via
          /\ q[i + b].via = q[j + b].via <=> \A h \in (i + b)..((j + b) - 1) : q[h].piggyback
      <3> DEFINE x == i + b
                 y == j + b
      <3>1. x \in 1..Len(q) /\ y \in 1..Len(q) /\ x < y
        BY <2>1
      <3> HIDE DEF x, y
      <3>2. /\ q[x].via <= q[y].via
            /\ q[x].via = q[y].via <=> \A h \in x..(y - 1) : q[h].piggyback
        BY <3>1 DEF WellFormed
      <3> QED BY <3>2 DEF x, y
    <2>3. (\A h \in (i + b)..((j + b) - 1) : q[h].piggyback)
             <=> (\A h \in i..(j - 1) : p[h].piggyback)
      <3>1. \A h \in i..(j - 1) : h + b \in (i + b)..((j + b) - 1) /\ p[h] = q[h + b]
        BY <1>2, <1>3
      <3>2. \A h \in (i + b)..((j + b) - 1) : h - b \in i..(j - 1) /\ p[h - b] = q[h]
        BY <1>2, <1>3
      <3> QED BY <3>1, <3>2
    <2> QED BY <1>3, <2>2, <2>3
  <1>7. WellFormed(p)
    BY <1>5, <1>6 DEF WellFormed
  <1>8. Ids(p) = Ids(q) \ {q[1].via}
    <2>1. ASSUME NEW v \in Ids(p) PROVE v \in Ids(q) /\ v # q[1].via
      <3>1. PICK i \in 1..Len(p) : v = p[i].via
        BY DEF Ids
      <3>2. i + b \in 1..Len(q) /\ ~ (i + b <= b) /\ v = q[i + b].via
        BY <3>1, <1>2, <1>3, <1>4
      <3> QED BY <3>2, <1>1 DEF Ids
    <2>2. ASSUME NEW v \in Ids(q), v # q[1].via PROVE v \in Ids(p)
      <3>1. PICK i \in 1..Len(q) : v = q[i].via
        BY DEF Ids
      <3>2. ~ (i <= b)
        BY <3>1, <2>2, <1>1
      <3>3. i - b \in 1..Len(p) /\ p[i - b].via = v
        BY <3>1, <3>2, <1>2, <1>3
      <3> QED BY <3>3 DEF Ids
    <2> QED BY <2>1, <2>2
  <1>9. \A m \in Nat : Below(q, m) => Below(p, m)
    BY <1>3, <1>4 DEF Below
  <1> QED BY <1>3, <1>7, <1>8, <1>9 DEF Queue

(* In a queue without marks, as those of ISON and USERHOST are, a batch is one entry. *)
LEMMA PopPlain ==
  ASSUME NEW q \in Queue, WellFormed(q), q # <<>>,
         \A i \in 1..Len(q) : ~ q[i].piggyback
  PROVE  Tail(q) = who_queue_pop(q)
  <1>1. Len(q) \in Nat /\ 1 \in 1..Len(q)
    BY DEF Queue
  <1>2. IsBatch(q, 1) /\ \A n \in 1..Len(q) : IsBatch(q, n) => n = 1
    BY <1>1 DEF IsBatch
  <1>3. BatchLen(q) = 1
    BY <1>1, <1>2 DEF BatchLen
  <1> QED BY <1>1, <1>3 DEF who_queue_pop, Queue

(* ISON and USERHOST requests join their queue with numbers of their own. *)
LEMMA AddPlain ==
  ASSUME NEW q \in Queue, WellFormed(q), NEW i \in Nat, NEW n \in Nat, Below(q, i)
  PROVE  LET r == q \o PlainEntries(i, n)
         IN  /\ r \in Queue
             /\ WellFormed(r)
             /\ Ids(r) = Ids(q) \cup i..(i + n - 1)
             /\ Below(r, i + n)
             /\ (\A j \in 1..Len(q) : ~ q[j].piggyback) => (\A j \in 1..Len(r) : ~ r[j].piggyback)
  <1> DEFINE t == PlainEntries(i, n)
             r == q \o t
  <1>1. t \in Seq(Entry) /\ Len(t) = n /\ \A j \in 1..n : t[j] = Plain(i + j - 1)
    BY DEF PlainEntries, Plain, Entry
  <1>2. Len(q) \in Nat /\ q \in Seq(Entry)
    BY DEF Queue
  <1> HIDE DEF t
  <1>3. /\ r \in Seq(Entry)
        /\ Len(r) = Len(q) + n
        /\ \A j \in 1..Len(q) : r[j] = q[j]
        /\ \A j \in 1..Len(r) : j > Len(q) => r[j] = t[j - Len(q)]
    BY <1>1, <1>2
  <1>4. \A j \in 1..Len(r) : j > Len(q) => r[j].via = i + (j - Len(q)) - 1 /\ ~ r[j].piggyback
    <2> SUFFICES ASSUME NEW j \in 1..Len(r), j > Len(q)
                 PROVE  r[j].via = i + (j - Len(q)) - 1 /\ ~ r[j].piggyback
      OBVIOUS
    <2>1. j - Len(q) \in 1..n
      BY <1>2, <1>3
    <2> QED BY <2>1, <1>1, <1>3 DEF Plain
  <1> HIDE DEF r
  <1>5. \A j \in 1..Len(q) : r[j].via < i /\ r[j].via \in Nat
    <2> SUFFICES ASSUME NEW j \in 1..Len(q) PROVE r[j].via < i /\ r[j].via \in Nat
      OBVIOUS
    <2>1. q[j] \in Entry /\ q[j].via < i
      BY <1>2 DEF Below
    <2>2. r[j] = q[j]
      BY <1>3
    <2> QED BY <2>1, <2>2 DEF Entry
  <1>6. r # <<>> => ~ r[Len(r)].piggyback
    BY <1>2, <1>3, <1>4 DEF WellFormed
  <1>7. ASSUME NEW j \in 1..Len(r), NEW k \in 1..Len(r), j < k
        PROVE  /\ r[j].via <= r[k].via
               /\ r[j].via = r[k].via <=> \A h \in j..(k - 1) : r[h].piggyback
    <2>1. CASE k <= Len(q)
      <3>1. j \in 1..Len(q) /\ k \in 1..Len(q)
        BY <2>1, <1>2, <1>3, <1>7
      <3>2. /\ q[j].via <= q[k].via
            /\ q[j].via = q[k].via <=> \A h \in j..(k - 1) : q[h].piggyback
        BY <3>1, <1>7 DEF WellFormed
      <3>3. r[j] = q[j] /\ r[k] = q[k]
        BY <3>1, <1>3
      <3>4. \A h \in j..(k - 1) : r[h] = q[h]
        BY <3>1, <1>2, <1>3
      <3> QED BY <3>2, <3>3, <3>4
    <2>2. CASE j <= Len(q) /\ k > Len(q)
      <3>1. r[j].via < r[k].via
        BY <2>2, <1>2, <1>3, <1>4, <1>5
      <3>2. Len(q) \in j..(k - 1) /\ ~ r[Len(q)].piggyback
        BY <2>2, <1>2, <1>3 DEF WellFormed
      <3> QED BY <3>1, <3>2, <1>3, <1>4, <1>5, <2>2, <1>2
    <2>3. CASE j > Len(q)
      <3>1. r[j].via < r[k].via /\ r[j].via \in Int /\ r[k].via \in Int
        BY <2>3, <1>2, <1>3, <1>4, <1>7
      <3>2. j \in j..(k - 1) /\ ~ r[j].piggyback
        BY <2>3, <1>2, <1>3, <1>4, <1>7
      <3> QED BY <3>1, <3>2
    <2> QED BY <2>1, <2>2, <2>3, <1>2, <1>3
  <1>8. WellFormed(r)
    BY <1>6, <1>7 DEF WellFormed
  <1>9. Ids(r) = Ids(q) \cup i..(i + n - 1)
    <2>1. ASSUME NEW v \in Ids(r) PROVE v \in Ids(q) \cup i..(i + n - 1)
      <3>1. PICK j \in 1..Len(r) : v = r[j].via
        BY DEF Ids
      <3>2. CASE j <= Len(q)
        <4>1. j \in 1..Len(q) /\ v = q[j].via
          BY <3>1, <3>2, <1>2, <1>3
        <4> QED BY <4>1 DEF Ids
      <3>3. CASE j > Len(q)
        BY <3>1, <3>3, <1>2, <1>3, <1>4
      <3> QED BY <3>2, <3>3, <1>2, <1>3
    <2>2. ASSUME NEW v \in Ids(q) PROVE v \in Ids(r)
      <3>1. PICK j \in 1..Len(q) : v = q[j].via
        BY DEF Ids
      <3>2. j \in 1..Len(r) /\ r[j].via = v
        BY <3>1, <1>2, <1>3
      <3> QED BY <3>2 DEF Ids
    <2>3. ASSUME NEW v \in i..(i + n - 1) PROVE v \in Ids(r)
      <3>1. (v - i + 1) + Len(q) \in 1..Len(r) /\ (v - i + 1) + Len(q) > Len(q)
        BY <1>2, <1>3
      <3>2. r[(v - i + 1) + Len(q)].via = v
        BY <3>1, <1>2, <1>4
      <3> QED BY <3>1, <3>2 DEF Ids
    <2> QED BY <2>1, <2>2, <2>3
  <1>10. Below(r, i + n)
    <2>1. ASSUME NEW j \in 1..Len(r) PROVE r[j].via < i + n
      <3>1. CASE j <= Len(q)
        BY <3>1, <1>2, <1>3, <1>5
      <3>2. CASE j > Len(q)
        BY <3>2, <1>2, <1>3, <1>4
      <3> QED BY <3>1, <3>2, <1>2, <1>3
    <2> QED BY <2>1 DEF Below
  <1>11. (\A j \in 1..Len(q) : ~ q[j].piggyback) => (\A j \in 1..Len(r) : ~ r[j].piggyback)
    BY <1>2, <1>3, <1>4
  <1> QED BY <1>3, <1>8, <1>9, <1>10, <1>11 DEF r, t, Queue

(* the number a WHO is sent with: none when it rides on the one before *)
OwnNumber(q, t, i) == IF CanPiggyback(q, t) THEN {} ELSE {i}

(***************************************************************************)
(* A WHO joins the queue (who_queue_add and the piggyback mark of whobase): *)
(* with a number of its own, or with that of the entry before it.          *)
(***************************************************************************)
LEMMA AddWho ==
  ASSUME NEW q \in Queue, WellFormed(q), NEW i \in Nat, Below(q, i),
         NEW t \in Target, NEW f \in SUBSET User, NEW func \in BOOLEAN
  PROVE  LET r == WhoAdd(q, i, t, f, func)
         IN  /\ r \in Queue
             /\ r # <<>>
             /\ WellFormed(r)
             /\ Ids(r) = Ids(q) \cup OwnNumber(q, t, i)
             /\ Below(r, i + 1)
             /\ \A j \in 1..Len(q) : r[j].via = q[j].via
  <1> DEFINE r == WhoAdd(q, i, t, f, func)
             n == Len(q)
             ride == CanPiggyback(q, t)
             new == [id |-> i, via |-> IF ride THEN q[n].via ELSE i, target |-> t,
                     filter |-> f, line |-> func, dirty |-> FALSE, piggyback |-> FALSE]
             q0 == [q EXCEPT ![n].piggyback = TRUE]
  <1>1. n \in Nat /\ q \in Seq(Entry) /\ (ride => n \in 1..n)
    BY DEF Queue, CanPiggyback
  <1>2. /\ \A j \in 1..n : q[j] \in Entry /\ q[j].via \in Nat /\ q[j].via < i
        /\ ride => q[n].via \in Nat /\ q[n].via < i
    <2>1. ASSUME NEW j \in 1..n PROVE q[j] \in Entry /\ q[j].via \in Nat /\ q[j].via < i
      <3>1. q[j] \in Entry
        BY <1>1
      <3> QED BY <3>1 DEF Below, Entry
    <2> QED BY <2>1, <1>1
  <1>3. new \in Entry
    <2>1. (IF ride THEN q[n].via ELSE i) \in Nat
      BY <1>2
    <2> HIDE DEF ride
    <2> QED BY <2>1 DEF Entry
  <1>4. ride => /\ q0 \in Seq(Entry)
                /\ Len(q0) = n
                /\ \A j \in 1..n : /\ q0[j].via = q[j].via
                                   /\ q0[j].piggyback <=> (j = n \/ q[j].piggyback)
    <2> SUFFICES ASSUME ride
                 PROVE  /\ q0 \in Seq(Entry)
                        /\ Len(q0) = n
                        /\ \A j \in 1..n : /\ q0[j].via = q[j].via
                                           /\ q0[j].piggyback <=> (j = n \/ q[j].piggyback)
      OBVIOUS
    <2>1. q[n] \in Entry /\ n \in 1..n
      BY <1>1, <1>2
    <2>2. [q[n] EXCEPT !.piggyback = TRUE] \in Entry
      BY <2>1 DEF Entry
    <2>3. q0 \in Seq(Entry) /\ Len(q0) = n
      BY <1>1, <2>1, <2>2
    <2>4. ASSUME NEW j \in 1..n
          PROVE  q0[j].via = q[j].via /\ (q0[j].piggyback <=> (j = n \/ q[j].piggyback))
      <3>1. q[j] \in Entry
        BY <1>2
      <3>2. CASE j = n
        <4>1. q \in [1..n -> Entry] /\ DOMAIN q = 1..n
          BY <1>1
        <4>2. q0[j] = [q[j] EXCEPT !.piggyback = TRUE]
          BY <4>1, <2>1, <3>2
        <4> QED BY <3>1, <3>2, <4>2 DEF Entry
      <3>3. CASE j # n
        <4>1. q0[j] = q[j]
          BY <1>1, <2>1, <3>3
        <4> QED BY <3>3, <4>1
      <3> QED BY <3>2, <3>3
    <2> QED BY <2>3, <2>4
  <1>5. r = IF ride THEN Append(q0, new) ELSE Append(q, new)
    BY DEF WhoAdd
  <1> HIDE DEF q0, new, r
  <1>6. /\ r \in Seq(Entry)
        /\ Len(r) = n + 1
        /\ r[n + 1] = new
        /\ \A j \in 1..n : /\ r[j].via = q[j].via
                           /\ r[j].piggyback <=> ((ride /\ j = n) \/ q[j].piggyback)
    <2>1. CASE ride
      BY <2>1, <1>1, <1>3, <1>4, <1>5
    <2>2. CASE ~ ride
      BY <2>2, <1>1, <1>3, <1>5
    <2> QED BY <2>1, <2>2
  <1>7. /\ r[n + 1].via = IF ride THEN q[n].via ELSE i
        /\ ~ r[n + 1].piggyback
    BY <1>6 DEF new
  <1>8. r # <<>> => ~ r[Len(r)].piggyback
    BY <1>6, <1>7
  <1>9. ASSUME NEW j \in 1..Len(r), NEW k \in 1..Len(r), j < k
        PROVE  /\ r[j].via <= r[k].via
               /\ r[j].via = r[k].via <=> \A h \in j..(k - 1) : r[h].piggyback
    <2>1. j \in 1..n /\ k \in Nat
      BY <1>1, <1>6, <1>9
    <2>2. CASE k <= n
      <3>1. k \in 1..n
        BY <2>1, <2>2
      <3>2. /\ q[j].via <= q[k].via
            /\ q[j].via = q[k].via <=> \A h \in j..(k - 1) : q[h].piggyback
        BY <2>1, <3>1, <1>9 DEF WellFormed
      <3>3. \A h \in j..(k - 1) : r[h].piggyback <=> q[h].piggyback
        BY <2>1, <3>1, <1>1, <1>6
      <3>4. r[j].via = q[j].via /\ r[k].via = q[k].via
        BY <2>1, <3>1, <1>6
      <3> QED BY <3>2, <3>3, <3>4
    <2>3. CASE k = n + 1 /\ ~ ride
      <3>1. r[j].via < r[k].via /\ r[j].via \in Nat /\ r[k].via \in Nat
        BY <2>1, <2>3, <1>2, <1>6, <1>7
      <3>2. n \in j..(k - 1) /\ n \in 1..n
        BY <2>1, <2>3, <1>1
      <3>3. ~ r[n].piggyback
        BY <3>2, <2>3, <1>6 DEF WellFormed
      <3> QED BY <3>1, <3>2, <3>3
    <2>4. CASE k = n + 1 /\ ride
      <3>1. r[k].via = q[n].via /\ r[j].via = q[j].via
        BY <2>1, <2>4, <1>6, <1>7
      <3>2. k - 1 = n /\ n \in 1..n /\ r[n].piggyback
        BY <2>1, <2>4, <1>1, <1>6
      <3>3. CASE j = n
        <4>1. \A h \in j..(k - 1) : h = n
          BY <3>2, <3>3
        <4> QED BY <3>1, <3>2, <3>3, <4>1, <1>2
      <3>4. CASE j # n
        <4>1. j < n
          BY <3>4, <2>1, <1>1
        <4>2. /\ q[j].via <= q[n].via
              /\ q[j].via = q[n].via <=> \A h \in j..(n - 1) : q[h].piggyback
          BY <4>1, <2>1, <3>2 DEF WellFormed
        <4>3. \A h \in j..(n - 1) : r[h].piggyback <=> q[h].piggyback
          BY <2>1, <1>1, <1>6
        <4>4. \A h \in j..n : h = n \/ h \in j..(n - 1)
          BY <2>1, <1>1
        <4>5. \A h \in j..(n - 1) : h \in j..n
          BY <2>1, <1>1
        <4> QED BY <3>1, <3>2, <4>2, <4>3, <4>4, <4>5
      <3> QED BY <3>3, <3>4
    <2>5. k <= n \/ k = n + 1
      <3>1. Len(r) = n + 1 /\ n \in Nat
        BY <1>1, <1>6
      <3> QED BY <3>1
    <2> QED BY <2>2, <2>3, <2>4, <2>5
  <1>10. WellFormed(r)
    BY <1>8, <1>9 DEF WellFormed
  <1>11. Ids(r) = Ids(q) \cup (IF ride THEN {} ELSE {i})
    <2>1. ASSUME NEW v \in Ids(r) PROVE v \in Ids(q) \cup (IF ride THEN {} ELSE {i})
      <3>1. PICK j \in 1..(n + 1) : v = r[j].via
        BY <1>6 DEF Ids
      <3>2. CASE j = n + 1
        <4>1. v = IF ride THEN q[n].via ELSE i
          BY <3>1, <3>2, <1>7
        <4>2. ride => q[n].via \in Ids(q)
          BY <1>1 DEF Ids
        <4> QED BY <4>1, <4>2
      <3>3. CASE j # n + 1
        <4>1. j \in 1..n /\ v = q[j].via
          BY <3>1, <3>3, <1>1, <1>6
        <4> QED BY <4>1 DEF Ids
      <3> QED BY <3>2, <3>3
    <2>2. ASSUME NEW v \in Ids(q) PROVE v \in Ids(r)
      <3>1. PICK j \in 1..n : v = q[j].via
        BY DEF Ids
      <3>2. j \in 1..Len(r) /\ v = r[j].via
        BY <3>1, <1>1, <1>6
      <3> QED BY <3>2 DEF Ids
    <2>3. ~ ride => i \in Ids(r)
      <3>1. n + 1 \in 1..Len(r)
        BY <1>1, <1>6
      <3> QED BY <3>1, <1>7 DEF Ids
    <2> QED BY <2>1, <2>2, <2>3
  <1>12. Below(r, i + 1)
    <2>1. ASSUME NEW j \in 1..Len(r) PROVE r[j].via < i + 1
      <3>1. CASE j = n + 1
        BY <3>1, <1>2, <1>7
      <3>2. CASE j # n + 1
        BY <3>2, <1>1, <1>2, <1>6
      <3> QED BY <3>1, <3>2
    <2> QED BY <2>1 DEF Below
  <1> QED BY <1>1, <1>6, <1>10, <1>11, <1>12 DEF r, Queue, OwnNumber

(* Marking entries dirty changes neither what they wait for nor the batches. *)
LEMMA DirtyKeeps ==
  ASSUME NEW q \in Queue, NEW n \in Int
  PROVE  /\ MarkDirty(q, n) \in Queue
         /\ Len(MarkDirty(q, n)) = Len(q)
         /\ WellFormed(q) => WellFormed(MarkDirty(q, n))
         /\ Ids(MarkDirty(q, n)) = Ids(q)
         /\ \A m \in Nat : Below(q, m) => Below(MarkDirty(q, n), m)
         /\ \A i \in 1..Len(q) : MarkDirty(q, n)[i].via = q[i].via
  <1> DEFINE r == MarkDirty(q, n)
  <1>1. Len(q) \in Nat /\ q \in Seq(Entry) /\ \A i \in 1..Len(q) : q[i] \in Entry
    BY DEF Queue
  <1>2. ASSUME NEW i \in 1..Len(q) PROVE [q[i] EXCEPT !.dirty = TRUE] \in Entry
    BY <1>1 DEF Entry
  <1>3. r \in Seq(Entry) /\ Len(r) = Len(q)
    BY <1>1, <1>2 DEF MarkDirty
  <1>4. \A i \in 1..Len(q) : r[i].via = q[i].via /\ r[i].piggyback = q[i].piggyback
    BY <1>1 DEF MarkDirty, Entry
  <1> HIDE DEF r
  <1>5. WellFormed(q) => WellFormed(r)
    <2> SUFFICES ASSUME WellFormed(q) PROVE WellFormed(r)
      OBVIOUS
    <2>1. r # <<>> => ~ r[Len(r)].piggyback
      BY <1>1, <1>3, <1>4 DEF WellFormed
    <2>2. ASSUME NEW i \in 1..Len(r), NEW j \in 1..Len(r), i < j
          PROVE  /\ r[i].via <= r[j].via
                 /\ r[i].via = r[j].via <=> \A h \in i..(j - 1) : r[h].piggyback
      <3>1. /\ q[i].via <= q[j].via
            /\ q[i].via = q[j].via <=> \A h \in i..(j - 1) : q[h].piggyback
        BY <1>3, <2>2 DEF WellFormed
      <3>2. \A h \in i..(j - 1) : r[h].piggyback = q[h].piggyback
        BY <1>1, <1>3, <1>4
      <3> QED BY <1>3, <1>4, <3>1, <3>2
    <2> QED BY <2>1, <2>2 DEF WellFormed
  <1>6. Ids(r) = Ids(q)
    BY <1>3, <1>4 DEF Ids
  <1>7. \A m \in Nat : Below(q, m) => Below(r, m)
    BY <1>3, <1>4 DEF Below
  <1> QED BY <1>3, <1>4, <1>5, <1>6, <1>7 DEF r, Queue

(* Called() describes callbacks of entries that exist. *)
LEMMA CalledType ==
  ASSUME NEW q \in Queue, NEW n \in Int, n <= Len(q), NEW r \in Request,
         NEW line \in SUBSET User
  PROVE  Called(q, n, r, line) \in SUBSET Answer
  <1> SUFFICES ASSUME NEW i \in 1..n
               PROVE  [to |-> q[i].id, via |-> q[i].via, by |-> r.id, line |-> line] \in Answer
    BY DEF Called
  <1>1. i \in 1..Len(q)
    BY DEF Queue
  <1>2. q[i] \in Entry
    BY <1>1 DEF Queue
  <1> QED BY <1>2 DEF Entry, Request, Answer

(* A batch lies within its queue, also in a queue that is not well formed. *)
LEMMA BatchWithin ==
  ASSUME NEW q \in Queue
  PROVE  BatchLen(q) \in Nat /\ BatchLen(q) <= Len(q)
  <1>1. Len(q) \in Nat
    BY DEF Queue
  <1> QED BY <1>1 DEF BatchLen

-----------------------------------------------------------------------------
(***************************************************************************)
(* The batches, whatever the environment does                              *)
(***************************************************************************)

QueueOK(q, k, n) ==
    /\ q \in Queue
    /\ WellFormed(q)
    /\ Below(q, n)
    /\ k # "who" => \A i \in 1..Len(q) : ~ q[i].piggyback

(* the inductive invariant behind BatchesWellFormed *)
QueuesOK == \A s \in Server, k \in Kind : QueueOK(queue[s][k], k, nextId)

QInv == TypeOK /\ QueuesOK

(* A queue stays in order when query numbers are used up elsewhere. *)
LEMMA QueueOKMonotone ==
  ASSUME NEW q, NEW k, NEW n \in Nat, NEW m \in Nat, n <= m, QueueOK(q, k, n)
  PROVE  QueueOK(q, k, m)
  <1>1. \A i \in 1..Len(q) : q[i].via < m
    <2> SUFFICES ASSUME NEW i \in 1..Len(q) PROVE q[i].via < m
      OBVIOUS
    <2>1. q[i] \in Entry /\ q[i].via < n
      BY DEF QueueOK, Queue, Below
    <2> QED BY <2>1 DEF Entry
  <1> QED BY <1>1 DEF QueueOK, Below

(* The empty queue is in order. *)
LEMMA EmptyOK == ASSUME NEW k, NEW n \in Nat PROVE QueueOK(<<>>, k, n)
  BY DEF QueueOK, Queue, WellFormed, Below

(* ISON and USERHOST entries keep a queue in order. *)
LEMMA AddPlainOK ==
  ASSUME NEW q, NEW k \in {"ison", "userhost"}, NEW i \in Nat, NEW n \in Nat,
         QueueOK(q, k, i)
  PROVE  QueueOK(q \o PlainEntries(i, n), k, i + n)
  BY AddPlain DEF QueueOK

(* The new entries by themselves are in order too. *)
LEMMA EmptyPlainOK ==
  ASSUME NEW k \in {"ison", "userhost"}, NEW i \in Nat, NEW n \in Nat
  PROVE  QueueOK(PlainEntries(i, n), k, i + n)
  <1> DEFINE t == PlainEntries(i, n)
  <1>1. t \in Seq(Entry)
    BY DEF PlainEntries, Plain, Entry
  <1>2. QueueOK(<<>>, k, i)
    BY EmptyOK
  <1>3. QueueOK(<<>> \o t, k, i + n)
    BY <1>2, AddPlainOK
  <1>4. <<>> \o t = t
    <2> HIDE DEF t
    <2> QED BY <1>1
  <1> QED BY <1>3, <1>4

(* So does popping one of them. *)
LEMMA PopPlainOK ==
  ASSUME NEW q, NEW k \in {"ison", "userhost"}, NEW n \in Nat, QueueOK(q, k, n), q # <<>>
  PROVE  QueueOK(Tail(q), k, n)
  <1>1. Tail(q) = who_queue_pop(q)
    BY PopPlain DEF QueueOK
  <1>2. \A i \in 1..Len(Tail(q)) : ~ Tail(q)[i].piggyback
    <2>1. q \in Seq(Entry) /\ Len(q) \in Nat /\ Len(Tail(q)) = Len(q) - 1
      BY DEF QueueOK, Queue
    <2>2. \A i \in 1..Len(Tail(q)) : i + 1 \in 1..Len(q) /\ Tail(q)[i] = q[i + 1]
      BY <2>1
    <2> QED BY <2>2 DEF QueueOK
  <1> QED BY <1>1, <1>2, PopBatch DEF QueueOK

(* A WHO keeps the queue in order. *)
LEMMA AddWhoOK ==
  ASSUME NEW q, NEW i \in Nat, QueueOK(q, "who", i),
         NEW t \in Target, NEW f \in SUBSET User, NEW func \in BOOLEAN
  PROVE  /\ QueueOK(WhoAdd(q, i, t, f, func), "who", i + 1)
         /\ WhoAdd(q, i, t, f, func) # <<>>
  BY AddWho DEF QueueOK

(* So does popping a batch, or nothing. *)
LEMMA PopBatchOK ==
  ASSUME NEW q, NEW n \in Nat, QueueOK(q, "who", n)
  PROVE  QueueOK(who_queue_pop(q), "who", n)
  <1>1. CASE q # <<>>
    BY <1>1, PopBatch DEF QueueOK
  <1>2. CASE q = <<>>
    <2>1. BatchLen(q) = 0
      BY <1>2 DEF BatchLen
    <2>2. who_queue_pop(q) = <<>>
      BY <1>2, <2>1 DEF who_queue_pop
    <2> QED BY <2>2, EmptyOK
  <1> QED BY <1>1, <1>2

(* And so does marking entries dirty. *)
LEMMA DirtyOK ==
  ASSUME NEW q, NEW n \in Nat, QueueOK(q, "who", n), NEW j \in Int
  PROVE  QueueOK(MarkDirty(q, j), "who", n)
  BY DirtyKeeps DEF QueueOK

(* Requests() is a sequence of requests. *)
LEMMA RequestsType ==
  ASSUME NEW k \in Kind, NEW i \in Nat, NEW n \in Nat
  PROVE  /\ Requests(k, i, n) \in Seq(Request)
         /\ Len(Requests(k, i, n)) = n
         /\ \A j \in 1..n : Requests(k, i, n)[j] = [kind |-> k, id |-> i + j - 1, mask |-> User]
  BY DEF Requests, Request

(* WhoRequest() is a request. *)
LEMMA WhoRequestType ==
  ASSUME NEW i \in Nat, NEW f \in SUBSET User
  PROVE  WhoRequest(i, f) \in Request
  BY QueryQueueAssumption DEF WhoRequest, Request, Kind

(* The initial queues are empty. *)
LEMMA InitQInv == Init => QInv
  <1> SUFFICES ASSUME Init PROVE QInv
    OBVIOUS
  <1>1. <<>> \in Seq(Entry) /\ <<>> \in Seq(Request)
    OBVIOUS
  <1>2. TypeOK
    BY <1>1 DEF Init, TypeOK
  <1>3. QueuesOK
    BY EmptyOK DEF Init, QueuesOK
  <1> QED BY <1>2, <1>3 DEF QInv

(* what an action does to the queues keeps them in order *)
AllOK(qs, n) ==
    /\ qs \in [Server -> [Kind -> Seq(Entry)]]
    /\ \A s \in Server, k \in Kind : QueueOK(qs[s][k], k, n)

(* Replacing one queue by one that is in order keeps all in order. *)
LEMMA ReplaceQueue ==
  ASSUME NEW qs, NEW n \in Nat, NEW m \in Nat, n <= m, AllOK(qs, n),
         NEW s \in Server, NEW k \in Kind, NEW q, QueueOK(q, k, m)
  PROVE  AllOK([qs EXCEPT ![s][k] = q], m)
  <1> DEFINE new == [qs EXCEPT ![s][k] = q]
  <1>1. q \in Seq(Entry)
    BY DEF QueueOK, Queue
  <1>2. new \in [Server -> [Kind -> Seq(Entry)]]
    BY <1>1 DEF AllOK
  <1>3. ASSUME NEW t \in Server, NEW j \in Kind PROVE QueueOK(new[t][j], j, m)
    <2>1. CASE t = s /\ j = k
      BY <2>1 DEF AllOK
    <2>2. CASE ~ (t = s /\ j = k)
      <3>1. new[t][j] = qs[t][j]
        BY <2>2 DEF AllOK
      <3>2. QueueOK(qs[t][j], j, n)
        BY DEF AllOK
      <3> QED BY <3>1, <3>2, QueueOKMonotone
    <2> QED BY <2>1, <2>2
  <1> QED BY <1>2, <1>3 DEF AllOK

(* Emptying the queues of a server keeps all in order. *)
LEMMA CleanQueues ==
  ASSUME NEW n \in Nat, AllOK(queue, n), NEW s \in Server
  PROVE  AllOK(clean_server_queues(s), n)
  <1> DEFINE new == clean_server_queues(s)
  <1>1. EmptyQueues \in [Kind -> Seq(Entry)]
    BY DEF EmptyQueues
  <1>2. new \in [Server -> [Kind -> Seq(Entry)]]
    BY <1>1 DEF clean_server_queues, AllOK
  <1>3. ASSUME NEW t \in Server, NEW k \in Kind PROVE QueueOK(new[t][k], k, n)
    <2>1. new[t][k] = <<>> \/ new[t][k] = queue[t][k]
      BY DEF clean_server_queues, EmptyQueues, AllOK
    <2> QED BY <2>1, EmptyOK DEF AllOK
  <1> QED BY <1>2, <1>3 DEF AllOK

(* the four handlers whose callbacks may disconnect *)
ACallbackCloses(s) ==
    \/ UserhostCallbackCloses(s) \/ IsonCallbackCloses(s)
    \/ \E n \in 1..Len(queue[s]["who"]), dies \in BOOLEAN :
          \/ \E u \in User : WhoLineCloses(s, u, n, dies)
          \/ WhoEndCloses(s, n, dies)

(* what they have in common: some of the first n of the entries are called *)
ClosedBy(s, k, n, line, called, dies) ==
    /\ k \in Kind /\ Pending(s, k) /\ queue[s][k] # <<>>
    /\ n \in 1..(IF k = "who" THEN BatchLen(queue[s][k]) ELSE 1)
    /\ line \in SUBSET User /\ dies \in BOOLEAN
    /\ called \subseteq Called(queue[s][k], n, Head(wire[s]), line)
    /\ CallbackCloses(s, called, dies)

LEMMA ClosingCallback ==
  ASSUME NEW s \in Server, ACallbackCloses(s)
  PROVE  \E k, n, line, called, dies : ClosedBy(s, k, n, line, called, dies)
  <1> DEFINE r == Head(wire[s])
             w == queue[s]["who"]
  <1>1. /\ {"who", "ison", "userhost"} \subseteq Kind /\ User \in SUBSET User
        /\ {} \in SUBSET User /\ 1 \in 1..1 /\ FALSE \in BOOLEAN
    BY DEF Kind
  <1>2. CASE UserhostCallbackCloses(s)
    <2> DEFINE dead == clean_server_queues(s)[s]["userhost"] = <<>>
    <2>1. dead \in BOOLEAN
      OBVIOUS
    <2>2. ClosedBy(s, "userhost", 1, User, Called(queue[s]["userhost"], 1, r, User), dead)
      BY <1>1, <1>2, <2>1 DEF UserhostCallbackCloses, ClosedBy
    <2> QED BY <2>2
  <1>3. CASE IsonCallbackCloses(s)
    <2>1. ClosedBy(s, "ison", 1, User, Called(queue[s]["ison"], 1, r, User), FALSE)
      BY <1>1, <1>3 DEF IsonCallbackCloses, ClosedBy
    <2> QED BY <2>1
  <1>4. ASSUME NEW n \in 1..Len(w), NEW dies \in BOOLEAN, NEW u \in User,
               WhoLineCloses(s, u, n, dies)
        PROVE  \E k, m, line, called, d : ClosedBy(s, k, m, line, called, d)
    <2>1. ClosedBy(s, "who", n, {u}, {a \in Called(w, n, r, {u}) :
                               \E i \in 1..n : a.to = w[i].id /\ TakesLine(w, i, u)}, dies)
      BY <1>1, <1>4 DEF WhoLineCloses, ClosedBy
    <2> QED BY <2>1
  <1>5. ASSUME NEW n \in 1..Len(w), NEW dies \in BOOLEAN, WhoEndCloses(s, n, dies)
        PROVE  \E k, m, line, called, d : ClosedBy(s, k, m, line, called, d)
    <2>1. ClosedBy(s, "who", n, {}, Called(w, n, r, {}), dies)
      BY <1>1, <1>5 DEF WhoEndCloses, ClosedBy
    <2> QED BY <2>1
  <1> QED BY <1>2, <1>3, <1>4, <1>5 DEF ACallbackCloses

(***************************************************************************)
(* Every step keeps the types and the batches: one case per action.        *)
(***************************************************************************)
LEMMA NextQInv == QInv /\ [Next]_vars => QInv'
  <1> SUFFICES ASSUME QInv, [Next]_vars PROVE QInv'
    OBVIOUS
  <1> USE QueryQueueAssumption
  <1>1. TypeOK /\ AllOK(queue, nextId) /\ nextId \in Nat
    BY DEF QInv, TypeOK, QueuesOK, AllOK
  <1>2. ASSUME nextId' \in Nat, AllOK(queue', nextId'),
               connected' \in [Server -> BOOLEAN], wire' \in [Server -> Seq(Request)],
               lines' \in [Server -> SUBSET User], answers' \in SUBSET Answer,
               crashed' \in BOOLEAN
        PROVE  QInv'
    BY <1>2 DEF QInv, TypeOK, QueuesOK, AllOK
  <1>3. \A s \in Server : /\ queue[s] \in [Kind -> Seq(Entry)]
                          /\ wire[s] \in Seq(Request)
                          /\ Tail(wire[s]) \in Seq(Request) \/ wire[s] = <<>>
                          /\ wire[s] # <<>> => Head(wire[s]) \in Request
                          /\ \A k \in Kind : QueueOK(queue[s][k], k, nextId)
    BY <1>1 DEF TypeOK, AllOK
  <1>4. "who" \in Kind /\ "ison" \in Kind /\ "userhost" \in Kind
    BY DEF Kind
  <1>5. ASSUME NEW s \in Server, NEW n \in 1..MaxSplit, isonbase(s, n) PROVE QInv'
    <2>0. n \in Nat /\ nextId + n \in Nat /\ nextId <= nextId + n
      BY <1>1, QueryQueueAssumption
    <2>1. QueueOK(queue[s]["ison"] \o PlainEntries(nextId, n), "ison", nextId + n)
      BY <2>0, <1>1, <1>3, <1>4, AddPlainOK
    <2>2. AllOK(queue', nextId')
      <3>1. queue' = [queue EXCEPT ![s]["ison"] = queue[s]["ison"] \o PlainEntries(nextId, n)]
            /\ nextId' = nextId + n
        BY <1>5 DEF isonbase
      <3> QED BY <1>1, <1>4, <2>0, <2>1, <3>1, ReplaceQueue
    <2>3. wire' \in [Server -> Seq(Request)]
      <3>0. Requests("ison", nextId, n) \in Seq(Request)
        BY <2>0, <1>1, <1>4, RequestsType
      <3>1. wire[s] \o Requests("ison", nextId, n) \in Seq(Request)
        BY <1>3, <3>0
      <3> QED BY <3>1, <1>1, <1>5 DEF isonbase, TypeOK
    <2> QED BY <1>1, <1>2, <1>5, <2>2, <2>3 DEF isonbase, TypeOK
  <1>6. ASSUME NEW s \in Server, NEW n \in 1..MaxSplit, userhostbase(s, n) PROVE QInv'
    <2>0. n \in Nat /\ nextId + n \in Nat /\ nextId <= nextId + n
      BY <1>1, QueryQueueAssumption
    <2>1. QueueOK(queue[s]["userhost"] \o PlainEntries(nextId, n), "userhost", nextId + n)
      BY <2>0, <1>1, <1>3, <1>4, AddPlainOK
    <2>2. AllOK(queue', nextId')
      <3>1. queue' = [queue EXCEPT ![s]["userhost"] = queue[s]["userhost"] \o PlainEntries(nextId, n)]
            /\ nextId' = nextId + n
        BY <1>6 DEF userhostbase
      <3> QED BY <1>1, <1>4, <2>0, <2>1, <3>1, ReplaceQueue
    <2>3. wire' \in [Server -> Seq(Request)]
      <3>0. Requests("userhost", nextId, n) \in Seq(Request)
        BY <2>0, <1>1, <1>4, RequestsType
      <3>1. wire[s] \o Requests("userhost", nextId, n) \in Seq(Request)
        BY <1>3, <3>0
      <3> QED BY <3>1, <1>1, <1>6 DEF userhostbase, TypeOK
    <2> QED BY <1>1, <1>2, <1>6, <2>2, <2>3 DEF userhostbase, TypeOK
  <1>7. ASSUME NEW s \in Server, NEW t \in Target, NEW f \in SUBSET User,
               NEW func \in BOOLEAN, whobase(s, t, f, func)
        PROVE  QInv'
    <2>1. QueueOK(WhoAdd(queue[s]["who"], nextId, t, f, func), "who", nextId + 1)
      BY <1>1, <1>3, <1>4, AddWhoOK
    <2>2. AllOK(queue', nextId')
      <3>1. queue' = [queue EXCEPT ![s]["who"] = WhoAdd(queue[s]["who"], nextId, t, f, func)]
            /\ nextId' = nextId + 1
        BY <1>7 DEF whobase
      <3>2. nextId + 1 \in Nat /\ nextId <= nextId + 1
        BY <1>1
      <3> QED BY <1>1, <1>4, <2>1, <3>1, <3>2, ReplaceQueue
    <2>3. wire' \in [Server -> Seq(Request)]
      <3>1. Append(wire[s], WhoRequest(nextId, f)) \in Seq(Request)
        BY <1>1, <1>3, WhoRequestType
      <3> QED BY <3>1, <1>1, <1>3, <1>7 DEF whobase, TypeOK
    <2> QED BY <1>1, <1>2, <1>7, <2>2, <2>3 DEF whobase, TypeOK
  <1>8. ASSUME NEW s \in Server, NEW n \in 0..1, ison_returned(s, n) PROVE QInv'
    <2> DEFINE q == queue[s]["ison"]
               uq == queue[s]["userhost"]
    <2>0. n \in Nat /\ nextId + n \in Nat /\ nextId <= nextId + n
      BY <1>1, QueryQueueAssumption
    <2>1. QueueOK(ison_queue_pop(q), "ison", nextId)
      BY <1>1, <1>3, <1>4, PopPlainOK DEF ison_queue_pop
    <2>2. QueueOK(uq \o PlainEntries(nextId, n), "userhost", nextId + n)
      BY <2>0, <1>1, <1>3, <1>4, AddPlainOK
    <2>3. AllOK(queue', nextId')
      <3>1. AllOK([queue EXCEPT ![s]["ison"] = ison_queue_pop(q)], nextId)
        BY <1>1, <1>4, <2>1, ReplaceQueue
      <3>2. queue' = [[queue EXCEPT ![s]["ison"] = ison_queue_pop(q)]
                        EXCEPT ![s]["userhost"] = uq \o PlainEntries(nextId, n)]
        BY <1>1, <1>3, <1>8 DEF ison_returned, TypeOK
      <3>3. nextId' = nextId + n
        BY <1>8 DEF ison_returned
      <3>4. AllOK([[queue EXCEPT ![s]["ison"] = ison_queue_pop(q)]
                     EXCEPT ![s]["userhost"] = uq \o PlainEntries(nextId, n)], nextId + n)
        <4> DEFINE q1 == [queue EXCEPT ![s]["ison"] = ison_queue_pop(q)]
                   u1 == uq \o PlainEntries(nextId, n)
        <4>1. AllOK(q1, nextId) /\ QueueOK(u1, "userhost", nextId + n)
          BY <3>1, <2>2
        <4>2. AllOK([q1 EXCEPT ![s]["userhost"] = u1], nextId + n)
          <5> HIDE DEF q1, u1
          <5> QED BY <4>1, <2>0, <1>1, <1>4, ReplaceQueue
        <4> QED BY <4>2
      <3> QED BY <3>2, <3>3, <3>4
    <2>4. wire[s] # <<>>
      BY <1>8 DEF ison_returned, Pending
    <2>5. wire' \in [Server -> Seq(Request)]
      <3>0. Requests("userhost", nextId, n) \in Seq(Request)
        BY <2>0, <1>1, <1>4, RequestsType
      <3>1. Tail(wire[s]) \o Requests("userhost", nextId, n) \in Seq(Request)
        BY <1>3, <2>4, <3>0
      <3> QED BY <3>1, <1>1, <1>8 DEF ison_returned, TypeOK
    <2>6. answers' \in SUBSET Answer
      <3>1. q # <<>> => Called(q, 1, Head(wire[s]), User) \in SUBSET Answer
        <4> SUFFICES ASSUME q # <<>>
                     PROVE  Called(q, 1, Head(wire[s]), User) \in SUBSET Answer
          OBVIOUS
        <4>1. q \in Queue
          BY <1>3, <1>4 DEF QueueOK
        <4>2. Len(q) \in Nat /\ 1 \in Int
          BY <4>1 DEF Queue
        <4>3. 1 <= Len(q)
          BY <4>1, <4>2 DEF Queue
        <4>4. Head(wire[s]) \in Request /\ User \in SUBSET User
          BY <1>3, <2>4
        <4> HIDE DEF q
        <4> QED BY <4>1, <4>2, <4>3, <4>4, <1>1, CalledType
      <3> QED BY <3>1, <1>1, <1>8 DEF ison_returned, TypeOK
    <2> QED BY <1>1, <1>2, <1>8, <2>3, <2>5, <2>6 DEF ison_returned, TypeOK
  <1>9. ASSUME NEW s \in Server, NEW n \in 0..1, userhost_returned(s, n) PROVE QInv'
    <2> DEFINE q == queue[s]["userhost"]
               q1 == IF q = <<>> THEN q ELSE userhost_queue_pop(q \o PlainEntries(nextId, n))
    <2>0. n \in Nat /\ nextId + n \in Nat /\ nextId <= nextId + n
      BY <1>1, QueryQueueAssumption
    <2>1. QueueOK(q1, "userhost", nextId + n)
      <3>1. CASE q = <<>>
        BY <3>1, <2>0, EmptyOK
      <3>2. CASE q # <<>>
        <4>1. QueueOK(q \o PlainEntries(nextId, n), "userhost", nextId + n)
          BY <2>0, <1>1, <1>3, <1>4, AddPlainOK
        <4>2. q \o PlainEntries(nextId, n) # <<>>
          <5>1. q \in Seq(Entry)
            BY <1>3, <1>4
          <5>2. QueueOK(PlainEntries(nextId, n), "userhost", nextId + n)
            BY <2>0, <1>1, EmptyPlainOK
          <5>3. PlainEntries(nextId, n) \in Seq(Entry)
            BY <5>2 DEF QueueOK, Queue
          <5> HIDE DEF q
          <5>4. Len(q \o PlainEntries(nextId, n)) = Len(q) + Len(PlainEntries(nextId, n)) /\ Len(q) # 0
            BY <5>1, <5>3, <3>2
          <5>5. Len(q) \in Nat /\ Len(PlainEntries(nextId, n)) \in Nat
            BY <5>1, <5>3
          <5>6. Len(q \o PlainEntries(nextId, n)) # 0
            BY <5>4, <5>5
          <5>7. \A r : Len(r) # 0 => r # <<>>
            <6> SUFFICES ASSUME NEW r, r = <<>> PROVE Len(r) = 0
              OBVIOUS
            <6> QED OBVIOUS
          <5> QED BY <5>6, <5>7
        <4>3. QueueOK(Tail(q \o PlainEntries(nextId, n)), "userhost", nextId + n)
          <5> DEFINE qn == q \o PlainEntries(nextId, n)
          <5>1. QueueOK(qn, "userhost", nextId + n) /\ qn # <<>> /\ nextId + n \in Nat
            BY <4>1, <4>2, <2>0
          <5>2. QueueOK(Tail(qn), "userhost", nextId + n)
            <6> HIDE DEF qn
            <6> QED BY <5>1, PopPlainOK
          <5> QED BY <5>2
        <4> QED BY <4>3, <3>2 DEF userhost_queue_pop
      <3> QED BY <3>1, <3>2
    <2>2. AllOK(queue', nextId')
      <3>1. AllOK([queue EXCEPT ![s]["userhost"] = q1], nextId + n)
        <4> HIDE DEF q1
        <4> QED BY <1>1, <1>4, <2>0, <2>1, ReplaceQueue
      <3> QED BY <3>1, <1>9 DEF userhost_returned
    <2>3. wire[s] # <<>>
      BY <1>9 DEF userhost_returned, Pending
    <2>4. wire' \in [Server -> Seq(Request)]
      <3>0. Requests("userhost", nextId, n) \in Seq(Request)
        BY <2>0, <1>1, <1>4, RequestsType
      <3>1. Tail(wire[s]) \o Requests("userhost", nextId, n) \in Seq(Request)
        BY <1>3, <2>3, <3>0
      <3> QED BY <3>1, <1>1, <1>9 DEF userhost_returned, TypeOK
    <2>5. answers' \in SUBSET Answer
      <3>1. q # <<>> => Called(q, 1, Head(wire[s]), User) \in SUBSET Answer
        <4> SUFFICES ASSUME q # <<>>
                     PROVE  Called(q, 1, Head(wire[s]), User) \in SUBSET Answer
          OBVIOUS
        <4>1. q \in Queue
          BY <1>3, <1>4 DEF QueueOK
        <4>2. Len(q) \in Nat /\ 1 \in Int
          BY <4>1 DEF Queue
        <4>3. 1 <= Len(q)
          BY <4>1, <4>2 DEF Queue
        <4>4. Head(wire[s]) \in Request /\ User \in SUBSET User
          BY <1>3, <2>3
        <4> HIDE DEF q
        <4> QED BY <4>1, <4>2, <4>3, <4>4, <1>1, CalledType
      <3> QED BY <3>1, <1>1, <1>9 DEF userhost_returned, TypeOK
    <2> QED BY <1>1, <1>2, <1>9, <2>2, <2>4, <2>5 DEF userhost_returned, TypeOK
  <1>10. ASSUME NEW s \in Server, ACallbackCloses(s) PROVE QInv'
    <2>1. PICK k, n, line, called, dies : ClosedBy(s, k, n, line, called, dies)
      BY <1>10, ClosingCallback
    <2>2. AllOK(queue', nextId')
      <3> DEFINE none == [c \in Server |-> EmptyQueues]
                 cleaned == clean_server_queues(s)
      <3>1. AllOK(cleaned, nextId)
        BY <1>1, CleanQueues
      <3>2. AllOK(none, nextId)
        <4>1. EmptyQueues \in [Kind -> Seq(Entry)]
          BY DEF EmptyQueues
        <4>2. none \in [Server -> [Kind -> Seq(Entry)]]
          BY <4>1
        <4>3. ASSUME NEW c \in Server, NEW h \in Kind PROVE QueueOK(none[c][h], h, nextId)
          BY <1>1, EmptyOK DEF EmptyQueues
        <4> QED BY <4>2, <4>3 DEF AllOK
      <3>3. queue' = none \/ queue' = [c \in Server |-> cleaned[c]]
        BY <2>1 DEF ClosedBy, CallbackCloses
      <3>4. cleaned = [c \in Server |-> cleaned[c]]
        BY <3>1 DEF AllOK
      <3>5. nextId' = nextId
        BY <2>1 DEF ClosedBy, CallbackCloses
      <3> HIDE DEF none, cleaned
      <3> QED BY <3>1, <3>2, <3>3, <3>4, <3>5
    <2>3. called \in SUBSET Answer
      <3> DEFINE q == queue[s][k]
      <3>1. /\ k \in Kind /\ wire[s] # <<>> /\ q # <<>> /\ line \in SUBSET User
            /\ n \in 1..(IF k = "who" THEN BatchLen(q) ELSE 1)
            /\ called \subseteq Called(q, n, Head(wire[s]), line)
        BY <2>1 DEF ClosedBy, Pending
      <3>2. q \in Queue
        BY <1>3, <3>1 DEF QueueOK
      <3>3. Head(wire[s]) \in Request
        BY <1>3, <3>1
      <3> HIDE DEF q
      <3>4. Len(q) \in Nat /\ 1 <= Len(q)
        BY <3>1, <3>2 DEF Queue
      <3>5. n \in Int /\ n <= Len(q)
        <4>1. BatchLen(q) \in Nat /\ BatchLen(q) <= Len(q)
          BY <3>2, BatchWithin
        <4> QED BY <3>1, <3>4, <4>1
      <3> QED BY <3>1, <3>2, <3>3, <3>5, CalledType
    <2>4. /\ wire' \in [Server -> Seq(Request)] /\ lines' \in [Server -> SUBSET User]
          /\ answers' \in SUBSET Answer
      BY <1>1, <2>1, <2>3 DEF ClosedBy, CallbackCloses, TypeOK
    <2>5. connected' \in [Server -> BOOLEAN] /\ crashed' \in BOOLEAN /\ nextId' = nextId
      BY <1>1, <2>1 DEF ClosedBy, CallbackCloses, TypeOK
    <2> QED BY <1>1, <1>2, <2>2, <2>4, <2>5
  <1>11. ASSUME NEW s \in Server, NEW u \in User, NEW j \in 0..Len(queue[s]["who"]),
                NEW t \in Target, whoreply(s, u, j, t)
         PROVE  QInv'
    <2> DEFINE q == queue[s]["who"]
               q0 == MarkDirty(q, j)
               q1 == IF j = 0 THEN q ELSE WhoAdd(q0, nextId, t, User, TRUE)
               n == IF q = <<>> THEN 0 ELSE BatchLen(q1)
               m == IF j = 0 THEN nextId ELSE nextId + 1
    <2>1. QueueOK(q, "who", nextId) /\ Len(q) \in Nat /\ j \in Int /\ m \in Nat /\ nextId <= m
      BY <1>1, <1>3, <1>4
    <2>2. QueueOK(q1, "who", m)
      <3>1. QueueOK(q0, "who", nextId)
        BY <1>1, <2>1, DirtyOK
      <3> QED BY <3>1, <1>1, <2>1, AddWhoOK
    <2>3. q1 \in Queue /\ n \in Int /\ n <= Len(q1)
      <3>1. q1 \in Queue
        BY <2>2 DEF QueueOK
      <3>2. BatchLen(q1) \in Nat /\ BatchLen(q1) <= Len(q1) /\ Len(q1) \in Nat
        <4> HIDE DEF q1
        <4> QED BY <3>1, BatchWithin DEF Queue
      <3> HIDE DEF q1
      <3> QED BY <3>1, <3>2
    <2>4. AllOK(queue', nextId')
      <3>1. QueueOK(MarkDirty(q1, n), "who", m)
        BY <2>1, <2>2, <2>3, DirtyOK
      <3>2. AllOK([queue EXCEPT ![s]["who"] = MarkDirty(q1, n)], m)
        <4> HIDE DEF q1, n, m
        <4> QED BY <3>1, <2>1, <1>1, <1>4, ReplaceQueue
      <3> QED BY <3>2, <1>11 DEF whoreply
    <2>5. wire[s] # <<>>
      BY <1>11 DEF whoreply, Pending
    <2>6. wire' \in [Server -> Seq(Request)]
      <3>1. Append(wire[s], WhoRequest(nextId, User)) \in Seq(Request)
        BY <1>1, <1>3, WhoRequestType
      <3> QED BY <3>1, <1>1, <1>11 DEF whoreply, TypeOK
    <2>7. answers' \in SUBSET Answer
      <3>1. Called(q1, n, Head(wire[s]), {u}) \in SUBSET Answer
        <4> HIDE DEF q1, n
        <4> QED BY <2>3, <2>5, <1>1, <1>3, CalledType
      <3> QED BY <3>1, <1>1, <1>11 DEF whoreply, TypeOK
    <2>8. /\ nextId' = m /\ connected' = connected /\ crashed' = crashed
          /\ lines' = [lines EXCEPT ![s] = @ \cup {u}]
      BY <1>11 DEF whoreply
    <2>9. nextId' \in Nat /\ lines' \in [Server -> SUBSET User]
      BY <1>1, <2>1, <2>8 DEF TypeOK
    <2> QED BY <1>1, <1>2, <2>4, <2>6, <2>7, <2>8, <2>9 DEF TypeOK
  <1>12. ASSUME NEW s \in Server, NEW again \in BOOLEAN, NEW t \in Target,
                who_end(s, again, t)
         PROVE  QInv'
    <2> DEFINE q == queue[s]["who"]
               q1 == IF again THEN WhoAdd(q, nextId, t, User, TRUE) ELSE q
               m == IF again THEN nextId + 1 ELSE nextId
    <2>1. QueueOK(q, "who", nextId) /\ m \in Nat /\ nextId <= m
      BY <1>1, <1>3, <1>4
    <2>2. QueueOK(q1, "who", m)
      BY <1>1, <2>1, AddWhoOK
    <2>3. AllOK(queue', nextId')
      <3>1. QueueOK(who_queue_pop(q1), "who", m)
        BY <2>1, <2>2, PopBatchOK
      <3>2. AllOK([queue EXCEPT ![s]["who"] = who_queue_pop(q1)], m)
        <4> HIDE DEF q1, m
        <4> QED BY <3>1, <2>1, <1>1, <1>4, ReplaceQueue
      <3> QED BY <3>2, <1>12 DEF who_end
    <2>4. wire[s] # <<>>
      BY <1>12 DEF who_end, Pending
    <2>5. wire' \in [Server -> Seq(Request)]
      <3>1. Tail(wire[s]) \in Seq(Request)
        BY <1>3, <2>4
      <3>2. Append(Tail(wire[s]), WhoRequest(nextId, User)) \in Seq(Request)
        BY <3>1, <1>1, WhoRequestType
      <3> QED BY <3>1, <3>2, <1>1, <1>12 DEF who_end, TypeOK
    <2>6. answers' \in SUBSET Answer
      <3>1. q1 \in Queue
        BY <2>2 DEF QueueOK
      <3>2. Called(q1, BatchLen(q1), Head(wire[s]), {}) \in SUBSET Answer
        <4> HIDE DEF q1
        <4> QED BY <3>1, <2>4, <1>1, <1>3, BatchWithin, CalledType
      <3> QED BY <3>2, <1>1, <1>12 DEF who_end, TypeOK
    <2>7. /\ nextId' = m /\ connected' = connected /\ crashed' = crashed
          /\ lines' \in [Server -> SUBSET User]
      BY <1>1, <1>12 DEF who_end, TypeOK
    <2>8. nextId' \in Nat
      BY <2>1, <2>7
    <2> QED BY <1>1, <1>2, <2>3, <2>5, <2>6, <2>7, <2>8 DEF TypeOK
  <1>13. ASSUME NEW s \in Server, NickAccepted(s) PROVE QInv'
    <2>1. Tail(wire[s]) \in Seq(Request)
      BY <1>3, <1>13 DEF NickAccepted, Pending
    <2>2. wire' \in [Server -> Seq(Request)]
      BY <2>1, <1>1, <1>13 DEF NickAccepted, TypeOK
    <2> QED BY <1>1, <1>2, <1>13, <2>2 DEF NickAccepted, TypeOK
  <1>14. ASSUME NEW s \in Server, NEW orignick \in BOOLEAN, NicknameInUse(s, orignick)
         PROVE  QInv'
    <2> DEFINE n == IF orignick THEN 2 ELSE 1
               cleaned == clean_server_queues(s)
    <2>1. AllOK(cleaned, nextId)
      BY <1>1, CleanQueues
    <2>2. nextId + n - 1 \in Nat /\ nextId <= nextId + n - 1 /\ nextId + n \in Nat
          /\ n \in Nat /\ (nextId + n - 1) + 1 = nextId + n
      BY <1>1
    <2>3. QueueOK(cleaned[s]["userhost"], "userhost", nextId + n - 1)
      <3> HIDE DEF n
      <3>1. QueueOK(cleaned[s]["userhost"], "userhost", nextId)
        BY <2>1, <1>4 DEF AllOK
      <3> HIDE DEF cleaned
      <3> QED BY <3>1, <2>2, <1>1, QueueOKMonotone
    <2>4. QueueOK(cleaned[s]["userhost"] \o PlainEntries(nextId + n - 1, 1), "userhost", nextId + n)
      <3> HIDE DEF n, cleaned
      <3>1. QueueOK(cleaned[s]["userhost"] \o PlainEntries(nextId + n - 1, 1), "userhost",
                    (nextId + n - 1) + 1)
        BY <2>2, <2>3, AddPlainOK
      <3> QED BY <3>1, <2>2
    <2>5. AllOK(queue', nextId')
      <3>1. AllOK([cleaned EXCEPT ![s]["userhost"] = cleaned[s]["userhost"] \o PlainEntries(nextId + n - 1, 1)],
                  nextId + n)
        <4> HIDE DEF n, cleaned
        <4>1. nextId <= nextId + n
          BY <1>1, <2>2
        <4> QED BY <2>1, <2>2, <2>4, <4>1, <1>1, <1>4, ReplaceQueue
      <3> QED BY <3>1, <1>14 DEF NicknameInUse
    <2>6. wire' \in [Server -> Seq(Request)]
      <3>1. wire[s] # <<>>
        BY <1>14 DEF NicknameInUse, Pending
      <3>2. Requests("userhost", nextId, n) \in Seq(Request)
        BY <1>1, <1>4, <2>2, RequestsType
      <3>3. Tail(wire[s]) \o Requests("userhost", nextId, n) \in Seq(Request)
        BY <1>3, <3>1, <3>2
      <3> QED BY <3>3, <1>1, <1>14 DEF NicknameInUse, TypeOK
    <2> QED BY <1>1, <1>2, <1>14, <2>2, <2>5, <2>6 DEF NicknameInUse, TypeOK
  <1>15. ASSUME NEW s \in Server, Welcome(s) PROVE QInv'
    <2>1. QueueOK(queue[s]["userhost"] \o PlainEntries(nextId, 1), "userhost", nextId + 1)
      BY <1>1, <1>3, <1>4, AddPlainOK
    <2>2. AllOK(queue', nextId')
      <3>1. nextId + 1 \in Nat /\ nextId <= nextId + 1
        BY <1>1
      <3>2. queue' = [queue EXCEPT ![s]["userhost"] = queue[s]["userhost"] \o PlainEntries(nextId, 1)]
            /\ nextId' = nextId + 1
        BY <1>15 DEF Welcome
      <3> QED BY <1>1, <1>4, <2>1, <3>1, <3>2, ReplaceQueue
    <2>3. wire' \in [Server -> Seq(Request)]
      <3>1. Requests("userhost", nextId, 1) \in Seq(Request)
        <4>1. 1 \in Nat
          OBVIOUS
        <4> QED BY <4>1, <1>1, <1>4, RequestsType
      <3>2. wire[s] \o Requests("userhost", nextId, 1) \in Seq(Request)
        BY <1>3, <3>1
      <3> QED BY <3>2, <1>1, <1>15 DEF Welcome, TypeOK
    <2> QED BY <1>1, <1>2, <1>15, <2>2, <2>3 DEF Welcome, TypeOK
  <1>16. ASSUME NEW ctx \in Server, NEW cs \in Server, close_server(ctx, cs) PROVE QInv'
    <2>1. AllOK(queue', nextId')
      BY <1>1, <1>16, CleanQueues DEF close_server
    <2>2. wire' \in [Server -> Seq(Request)] /\ connected' \in [Server -> BOOLEAN]
      BY <1>1, <1>16 DEF close_server, TypeOK
    <2> QED BY <1>1, <1>2, <1>16, <2>1, <2>2 DEF close_server, TypeOK
  <1>17. ASSUME NEW s \in Server, SendNick(s) PROVE QInv'
    <2>1. [kind |-> "nick", id |-> 0, mask |-> {}] \in Request
      BY DEF Request
    <2>2. wire' \in [Server -> Seq(Request)]
      BY <2>1, <1>1, <1>3, <1>17 DEF SendNick, TypeOK
    <2> QED BY <1>1, <1>2, <1>17, <2>2 DEF SendNick, TypeOK
  <1>18. CASE UNCHANGED vars
    BY <1>1, <1>2, <1>18 DEF vars, TypeOK
  <1>19. \A f \in Filter : f \in SUBSET User
    OBVIOUS
  <1> QED
    BY <1>5, <1>6, <1>7, <1>8, <1>9, <1>10, <1>11, <1>12, <1>13, <1>14, <1>15, <1>16,
       <1>17, <1>18, <1>19 DEF Next, Ask, Reply, ACallbackCloses

(* QInv is an invariant of the specification. *)
LEMMA QInvHolds == Spec => []QInv
  <1> QED BY InitQInv, NextQInv, PTL DEF Spec

(***************************************************************************)
(* The variables keep their types.                                         *)
(***************************************************************************)
THEOREM TypeCorrect == Spec => []TypeOK
  <1>1. QInv => TypeOK
    BY DEF QInv
  <1> QED BY <1>1, QInvHolds, PTL

(***************************************************************************)
(* Whatever server a close_server() call cleans, whatever callbacks do and *)
(* however often a nickname is refused, the piggyback marks describe       *)
(* batches that who_queue_pop() and the reply loops cannot overrun.        *)
(***************************************************************************)
THEOREM BatchesSafe == Spec => []BatchesWellFormed
  <1>1. QInv => BatchesWellFormed
    BY DEF QInv, QueuesOK, QueueOK, BatchesWellFormed
  <1> QED BY <1>1, QInvHolds, PTL
=============================================================================
