----------------------------- MODULE DccProofs ------------------------------
(* Proofs about Dcc, for every file, every block size and any number of ports. *)
EXTENDS Dcc, TLAPS, SequenceTheorems

-----------------------------------------------------------------------------
(* Sequences *)

LEMMA HeadTail ==
  ASSUME NEW S, NEW s \in Seq(S), s # <<>>
  PROVE  Head(s) \in S /\ Tail(s) \in Seq(S)
  BY HeadTailProperties

LEMMA ConcatType ==
  ASSUME NEW S, NEW s \in Seq(S), NEW t \in Seq(S)
  PROVE  s \o t \in Seq(S)
  BY ConcatProperties

LEMMA PartType ==
  ASSUME NEW S, NEW s \in Seq(S), NEW m \in 1..Len(s)+1, NEW n \in 0..Len(s)
  PROVE  SubSeq(s, m, n) \in Seq(S)
  <1>1. Len(s) \in Nat /\ \A i \in 1..Len(s) : s[i] \in S
    OBVIOUS
  <1>2. \A i \in m..n : s[i] \in S
    BY <1>1
  <1> QED BY <1>1, <1>2, SubSeqProperties

LEMMA Rest ==
  ASSUME NEW S, NEW s \in Seq(S), NEW k \in 1..Len(s)
  PROVE  /\ SubSeq(s, k + 1, Len(s)) \in Seq(S)
         /\ Len(SubSeq(s, k + 1, Len(s))) = Len(s) - k
         /\ \A i \in 1..Len(SubSeq(s, k + 1, Len(s))) :
               k + i \in 1..Len(s) /\ SubSeq(s, k + 1, Len(s))[i] = s[k + i]
  <1> DEFINE v == SubSeq(s, k + 1, Len(s))
  <1>1. Len(s) \in Nat /\ k \in Nat /\ k <= Len(s) /\ k >= 1 /\ \A i \in 1..Len(s) : s[i] \in S
    OBVIOUS
  <1>2. k + 1 \in Int /\ Len(s) \in Int /\ \A i \in (k + 1)..Len(s) : s[i] \in S
    BY <1>1
  <1>3. /\ v \in Seq(S) /\ Len(v) = IF k + 1 <= Len(s) THEN Len(s) - (k + 1) + 1 ELSE 0
        /\ \A i \in 1..(Len(s) - (k + 1) + 1) : v[i] = s[(k + 1) + i - 1]
    BY <1>2, SubSeqProperties
  <1> HIDE DEF v
  <1>4. Len(v) = Len(s) - k
    BY <1>1, <1>3
  <1>5. ASSUME NEW i \in 1..Len(v) PROVE k + i \in 1..Len(s) /\ v[i] = s[k + i]
    <2>1. i \in 1..(Len(s) - (k + 1) + 1) /\ (k + 1) + i - 1 = k + i /\ k + i \in 1..Len(s)
      BY <1>1, <1>4
    <2> QED BY <1>3, <2>1
  <1>6. v \in Seq(S) /\ Len(v) = Len(s) - k /\ \A i \in 1..Len(v) : k + i \in 1..Len(s) /\ v[i] = s[k + i]
    BY <1>3, <1>4, <1>5
  <1> QED BY <1>6 DEF v

LEMMA RemoveType ==
  ASSUME NEW S, NEW s \in Seq(S), NEW i \in DOMAIN s
  PROVE  RemoveAt(s, i) \in Seq(S)
  <1>1. Len(s) \in Nat /\ i \in 1..Len(s)
    OBVIOUS
  <1>2. SubSeq(s, 1, i - 1) \in Seq(S) /\ SubSeq(s, i + 1, Len(s)) \in Seq(S)
    BY <1>1, PartType
  <1> QED BY <1>2, ConcatType DEF RemoveAt

-----------------------------------------------------------------------------
(* Types of what the handlers make of one connection *)

LEMMA EndTypes ==
  /\ \A st \in OutState : OutIs(st) \in OutEnd
  /\ \A st \in InState : InIs(st) \in InEnd
  /\ \A c \in Client : NoLink(c) \in Link
  BY DEF OutIs, InIs, NoLink, OutEnd, InEnd, Link, OutState, InState, Gone

LEMMA CloseTypes ==
  ASSUME NEW l \in Link
  PROVE  /\ \A st \in Gone : CloseOut(l, st) \in Link /\ CloseIn(l, st) \in Link
         /\ \A c \in Client : Erased(l, c) \in Link
  <1>0. <<>> \in Seq(Int) /\ <<>> \in Seq(1..Size)
    BY EmptySeq
  <1>1. \A st \in Gone : CloseOut(l, st) \in Link
    <2> TAKE st \in Gone
    <2>1. OutIs(st) \in OutEnd
      BY EndTypes DEF OutState
    <2> QED BY <1>0, <2>1 DEF CloseOut, Link
  <1>2. \A st \in Gone : CloseIn(l, st) \in Link
    <2> TAKE st \in Gone
    <2>1. InIs(st) \in InEnd
      BY EndTypes DEF InState
    <2> QED BY <1>0, <2>1 DEF CloseIn, Link
  <1> QED BY <1>1, <1>2 DEF Erased, Gone

LEMMA SourceType ==
  /\ Source \in Seq(1..Size) /\ Len(Source) = Size
  /\ \A i \in 1..Size : Source[i] = i
  /\ \A m, n \in Nat : m + n <= Size => SubSeq(Source, m + 1, m + n) \in Seq(1..Size)
  <1>1. Size \in Nat
    BY DccAssumption
  <1>2. Source \in Seq(1..Size) /\ Len(Source) = Size /\ \A i \in 1..Size : Source[i] = i
    BY <1>1 DEF Source
  <1>3. ASSUME NEW m \in Nat, NEW n \in Nat, m + n <= Size
        PROVE  SubSeq(Source, m + 1, m + n) \in Seq(1..Size)
    BY <1>1, <1>2, <1>3, PartType
  <1> QED BY <1>2, <1>3

LEMMA SendBlockType ==
  ASSUME NEW l \in Link, l.out.st = "open", NEW r \in SendBlock(l)
  PROVE  r \in Link
  <1> DEFINE left == Size - l.out.pos
             n == IF left < Block THEN left ELSE Block
             Sent(k) == [l EXCEPT !.out.pos = @ + k, !.out.bytes_sent = @ + k,
                             !.out.readwaiting = TRUE,
                             !.data = IF l.in.st = "open" /\ ~l.broken
                                      THEN @ \o SubSeq(Source, l.out.pos + 1, l.out.pos + k)
                                      ELSE @]
  <1>1. Size \in Nat /\ Block \in Nat \ {0} /\ l.out.pos \in Nat /\ l.out.bytes_sent \in Nat
    BY DccAssumption DEF Link, OutEnd
  <1>2. ASSUME NEW k \in 1..n, n > 0 PROVE Sent(k) \in Link
    <2>1. k \in Nat /\ l.out.pos + k <= Size
      BY <1>1, <1>2
    <2>2. SubSeq(Source, l.out.pos + 1, l.out.pos + k) \in Seq(1..Size)
      BY <1>1, <2>1, SourceType
    <2>3. l.data \o SubSeq(Source, l.out.pos + 1, l.out.pos + k) \in Seq(1..Size)
      BY <2>2, ConcatType DEF Link
    <2>4. l.out.pos + k \in Nat /\ l.out.bytes_sent + k \in Nat
      BY <1>1, <2>1
    <2> HIDE DEF n
    <2> QED BY <2>3, <2>4 DEF Link, OutEnd
  <1>3. [l EXCEPT !.out.readwaiting = TRUE] \in Link
    BY DEF Link, OutEnd
  <1>4. [l EXCEPT !.out.eof = TRUE, !.out.readwaiting = TRUE] \in Link
    BY DEF Link, OutEnd
  <1>5. CloseOut(l, "lost") \in Link /\ CloseOut(l, "complete") \in Link
    BY CloseTypes DEF Gone
  <1>6. CASE n > 0
    <2>1. r \in {Sent(n)}
             \cup (IF fast THEN {Sent(k) : k \in 1..(n - 1)} ELSE {})
             \cup (IF fast /\ l.data # <<>> THEN {[l EXCEPT !.out.readwaiting = TRUE]} ELSE {})
             \cup (IF l.in.st \in Gone \/ l.broken THEN {CloseOut(l, "lost")} ELSE {})
      BY <1>6 DEF SendBlock
    <2>2. n \in 1..n /\ \A k \in 1..(n - 1) : k \in 1..n
      BY <1>1, <1>6
    <2> HIDE DEF Sent, n
    <2> QED BY <2>1, <2>2, <1>2, <1>3, <1>5, <1>6
  <1>7. CASE ~(n > 0)
    BY <1>3, <1>4, <1>5, <1>7 DEF SendBlock
  <1> QED BY <1>6, <1>7

LEMMA SenderType ==
  ASSUME NEW l \in Link, l.out.st = "open", NEW r \in process_dcc_send1(l),
         l.acks # <<>> \/ l.in.st \in Gone \/ l.broken
  PROVE  r \in Link
  <1> DEFINE m == [l EXCEPT !.acks = Tail(@)]
             n == [m EXCEPT !.out.readwaiting = FALSE]
  <1>1. l.acks # <<>> => m \in Link /\ n \in Link /\ n.out.st = "open"
    <2>1. l.acks # <<>> => Tail(l.acks) \in Seq(Int)
      BY HeadTail DEF Link
    <2> QED BY <2>1 DEF Link, OutEnd
  <1>2. CloseOut(l, "lost") \in Link /\ CloseOut(l, "complete") \in Link
    BY CloseTypes DEF Gone
  <1>3. [l EXCEPT !.acks = <<>>, !.out.readwaiting = TRUE] \in Link
    <2>1. <<>> \in Seq(Int)
      BY EmptySeq
    <2> QED BY <2>1 DEF Link, OutEnd
  <1>4. \/ r \in SendBlock(l)
        \/ l.acks # <<>> /\ r \in SendBlock(n)
        \/ l.acks # <<>> /\ r = m
        \/ r = [l EXCEPT !.acks = <<>>, !.out.readwaiting = TRUE]
        \/ r = CloseOut(l, "lost") \/ r = CloseOut(l, "complete")
    BY DEF process_dcc_send1
  <1> HIDE DEF m, n
  <1> QED BY <1>1, <1>2, <1>3, <1>4, SendBlockType

LEMMA BegunType ==
  ASSUME NEW l \in Link, NEW r \in Begun(l)
  PROVE  r \in Link /\ r.out.st = "open"
  <1>1. l.out.byteoffset \in Nat /\ l.in.byteoffset \in Nat
    BY DEF Link, OutEnd, InEnd
  <1>2. ASSUME NEW offset \in Nat
        PROVE  [OutIs("open") EXCEPT !.byteoffset = offset, !.pos = offset] \in OutEnd
    BY DEF OutIs, OutEnd, OutState
  <1>3. <<-1, -1, -1>> \in Seq(Int)
    OBVIOUS
  <1> QED BY <1>1, <1>2, <1>3, ZenonT(60) DEF Begun, Link, OutIs

LEMMA ReceiverType ==
  ASSUME NEW l \in Link, NEW k \in 1..Len(l.data)
  PROVE  start_dcc_get(l, k) \in Link
  <1> DEFINE in == [l.in EXCEPT !.bytes_read = @ + k]
             m == [l EXCEPT !.data = SubSeq(@, k + 1, Len(@)),
                       !.in = in,
                       !.acks = IF l.out.st = "open" THEN Append(@, in.bytes_read) ELSE @]
  <1>1. l.data \in Seq(1..Size) /\ Len(l.data) \in Nat /\ k \in Nat
    BY DEF Link
  <1>2. SubSeq(l.data, k + 1, Len(l.data)) \in Seq(1..Size)
    <2>1. k + 1 \in 1..Len(l.data)+1 /\ Len(l.data) \in 0..Len(l.data)
      BY <1>1
    <2> QED BY <1>1, <2>1, PartType
  <1>3. in \in InEnd /\ in.bytes_read \in Int
    <2>1. l.in \in InEnd /\ l.in.bytes_read + k \in Nat
      BY <1>1 DEF Link, InEnd
    <2>2. in \in InEnd
      BY <2>1 DEF InEnd
    <2> QED BY <2>2 DEF InEnd
  <1>4. Append(l.acks, in.bytes_read) \in Seq(Int)
    BY <1>3 DEF Link
  <1>5. m \in Link
    BY <1>2, <1>3, <1>4 DEF Link
  <1>6. start_dcc_get(l, k) \in {m, CloseIn(m, "lost"), CloseIn(m, "complete")}
    BY DEF start_dcc_get
  <1> HIDE DEF m
  <1> QED BY <1>5, <1>6, CloseTypes DEF Gone

-----------------------------------------------------------------------------
(* Types of the other variables *)

Pending == [port : 0..MaxPort, byteoffset : Nat]

LEMMA WireTypes ==
  ASSUME TypeOK, NEW c \in Client
  PROVE  /\ \A op \in {"OFFER", "RESUME", "ACCEPT"}, port \in 0..MaxPort, offset \in Nat :
               Send(c, op, port, offset) \in [Client -> Seq(Message)]
         /\ wire[c] # <<>> => Head(wire[c]) \in Message /\ Received(c) \in [Client -> Seq(Message)]
         /\ pending[c] # <<>> => /\ Head(pending[c]) \in Pending
                                 /\ Tail(pending[c]) \in Seq(Pending)
         /\ Other(c) \in Client
  <1>1. wire \in [Client -> Seq(Message)] /\ pending \in [Client -> Seq(Pending)]
    BY DEF TypeOK, Pending
  <1>2. ASSUME NEW op \in {"OFFER", "RESUME", "ACCEPT"}, NEW port \in 0..MaxPort, NEW offset \in Nat
        PROVE  Send(c, op, port, offset) \in [Client -> Seq(Message)]
    <2>1. [op |-> op, port |-> port, offset |-> offset] \in Message
      BY DEF Message
    <2>2. Append(wire[c], [op |-> op, port |-> port, offset |-> offset]) \in Seq(Message)
      BY <1>1, <2>1
    <2> QED BY <1>1, <2>2 DEF Send
  <1>3. wire[c] # <<>> => Head(wire[c]) \in Message /\ Received(c) \in [Client -> Seq(Message)]
    BY <1>1, HeadTail DEF Received
  <1>4. pending[c] # <<>> => Head(pending[c]) \in Pending /\ Tail(pending[c]) \in Seq(Pending)
    BY <1>1, HeadTail
  <1> QED BY <1>2, <1>3, <1>4 DEF Other, Client

LEMMA RejectType ==
  ASSUME TypeOK, NEW c \in Client, MayReject(c)
  PROVE  reject' \in [Client -> BOOLEAN]
  BY DEF TypeOK, MayReject

LEMMA ConnectType ==
  ASSUME TypeOK, NEW c \in Client, NEW offset \in Nat,
         NEW start \in [there : BOOLEAN, data : Seq(1..Size)],
         pending[c] # <<>>, Connect(c, offset, start)
  PROVE  /\ used' = used
         /\ link' \in [Port -> Link]
         /\ pending' \in [Client -> Seq(Pending)]
         /\ file' \in [there : BOOLEAN, data : Seq(1..Size)]
  <1> DEFINE p == Head(pending[c]).port
             new == [st |-> "open", byteoffset |-> offset, bytes_read |-> 0]
  <1>1. pending' \in [Client -> Seq(Pending)]
    BY WireTypes DEF Connect, TypeOK, Pending
  <1>2. new \in InEnd
    BY DEF InEnd, InState
  <1>3. link \in [Port -> Link]
    BY DEF TypeOK
  <1>4. p \in Port => [link EXCEPT ![p].in = new] \in [Port -> Link]
    BY <1>2, <1>3 DEF Link
  <1>5. \/ p \in Port /\ link' = [link EXCEPT ![p].in = new] /\ file' = start
        \/ UNCHANGED <<link, file>>
    BY DEF Connect, ConnectTo
  <1>6. used' = used
    BY DEF Connect
  <1> HIDE DEF p, new
  <1> QED BY <1>1, <1>3, <1>4, <1>5, <1>6 DEF TypeOK

LEMMA OneLink ==
  ASSUME TypeOK, NEW p \in Port, NEW l \in Link
  PROVE  [link EXCEPT ![p] = l] \in [Port -> Link]
  BY DEF TypeOK

LEMMA OfferType == ASSUME TypeOK, NEW c \in Client, Offer(c) PROVE TypeOK'
  <1>1. Other(c) \in Client /\ used \in 0..MaxPort /\ MaxPort \in Nat /\ file \in [there : BOOLEAN, data : Seq(1..Size)]
    BY WireTypes, DccAssumption DEF TypeOK
  <1>2. UNCHANGED <<kind, fast, lastReq, announced, reject>>
    BY DEF Offer
  <1>3. CASE Repeat(c) /\ UNCHANGED <<used, link, pending, file>>
    <2>1. Swapped \in 0..MaxPort /\ 0 \in Nat
      BY <1>1 DEF Swapped
    <2>2. wire' \in [Client -> Seq(Message)]
      BY <1>1, <1>3, <2>1, WireTypes DEF Repeat
    <2> QED BY <1>2, <1>3, <2>2 DEF TypeOK
  <1>4. CASE UNCHANGED wire /\ UNCHANGED <<used, link, pending, file>>
    BY <1>2, <1>4 DEF TypeOK
  <1>5. CASE pending[c] # <<>> /\ Connect(c, 0, file) /\ UNCHANGED wire
    BY <1>1, <1>2, <1>5, ConnectType DEF TypeOK, Pending
  <1>6. CASE Listen(c)
    <2>1. used + 1 \in Port /\ used' = used + 1 /\ used' \in 0..MaxPort
      BY <1>1, <1>6 DEF Listen, Port
    <2>2. [NoLink(c) EXCEPT !.out.st = "wait"] \in Link
      <3>1. NoLink(c) \in Link
        BY EndTypes
      <3> QED BY <3>1 DEF Link, OutEnd, OutState
    <2>3. link' \in [Port -> Link]
      BY <1>6, <2>1, <2>2, OneLink DEF Listen
    <2>4. wire' \in [Client -> Seq(Message)]
      BY <1>1, <1>6, <2>1, WireTypes DEF Listen, Port
    <2> QED BY <1>2, <1>6, <2>1, <2>3, <2>4 DEF Listen, TypeOK
  <1> QED BY <1>3, <1>4, <1>5, <1>6 DEF Offer

LEMMA CommandType ==
  ASSUME TypeOK, \/ \E c \in Client : AnswerChat(c) \/ dcc_close(c)
                 \/ Get \/ ReGet \/ dcc_resume
  PROVE  TypeOK'
  <1>1. "b" \in Client /\ "a" \in Client /\ file \in [there : BOOLEAN, data : Seq(1..Size)] /\ Len(file.data) \in Nat
    BY DEF TypeOK, Client
  <1>2. ASSUME NEW c \in Client, AnswerChat(c) PROVE TypeOK'
    BY <1>1, <1>2, ConnectType DEF AnswerChat, TypeOK, Pending
  <1>3. ASSUME NEW c \in Client, dcc_close(c) PROVE TypeOK'
    <2>1. link' \in [Port -> Link]
      BY <1>3, CloseTypes DEF dcc_close, TypeOK
    <2>2. pending' \in [Client -> Seq(Pending)]
      <3>1. <<>> \in Seq(Pending)
        BY EmptySeq
      <3> QED BY <1>3, <3>1 DEF dcc_close, TypeOK, Pending
    <2>3. reject' \in [Client -> BOOLEAN]
      BY <1>3 DEF dcc_close, TypeOK
    <2> QED BY <1>3, <2>1, <2>2, <2>3 DEF dcc_close, TypeOK, Pending
  <1>4. CASE Get
    <2>1. Head(pending["b"]).byteoffset \in Nat /\ pending["b"] # <<>>
      BY <1>1, <1>4, WireTypes DEF Get, Pending
    <2>2. [there |-> TRUE, data |-> <<>>] \in [there : BOOLEAN, data : Seq(1..Size)]
      BY EmptySeq
    <2>3. Connect("b", Head(pending["b"]).byteoffset, [there |-> TRUE, data |-> <<>>])
      BY <1>4 DEF Get
    <2> QED BY <1>1, <1>4, <2>1, <2>2, <2>3, ConnectType DEF Get, TypeOK, Pending
  <1>5. CASE ReGet
    <2>1. [file EXCEPT !.there = TRUE] \in [there : BOOLEAN, data : Seq(1..Size)]
      BY <1>1
    <2> QED BY <1>1, <1>5, <2>1, ConnectType DEF ReGet, TypeOK, Pending
  <1>6. CASE dcc_resume
    <2>1. pending["b"] \in Seq(Pending) /\ pending["b"] # <<>>
      BY <1>1, <1>6 DEF TypeOK, Pending, dcc_resume
    <2>2. 1 \in 1..Len(pending["b"]) /\ pending["b"][1] = Head(pending["b"]) /\ pending["b"][1] \in Pending
      BY <2>1
    <2>3. [pending["b"][1] EXCEPT !.byteoffset = Len(file.data)] \in Pending
      BY <1>1, <2>2 DEF Pending
    <2>4. [pending["b"] EXCEPT ![1] = [pending["b"][1] EXCEPT !.byteoffset = Len(file.data)]] \in Seq(Pending)
      BY <2>1, <2>2, <2>3, ExceptSeq
    <2>5. pending' = [pending EXCEPT !["b"] = [pending["b"] EXCEPT ![1] = [pending["b"][1] EXCEPT !.byteoffset = Len(file.data)]]]
      BY <1>6 DEF dcc_resume
    <2>6. pending' \in [Client -> Seq(Pending)]
      BY <1>1, <2>4, <2>5 DEF TypeOK, Pending
    <2>7. wire' \in [Client -> Seq(Message)]
      BY <1>1, <1>6, <2>2, WireTypes DEF dcc_resume, Pending
    <2> QED BY <1>6, <2>6, <2>7 DEF dcc_resume, TypeOK, Pending
  <1> QED BY <1>2, <1>3, <1>4, <1>5, <1>6

LEMMA DeliverType == ASSUME TypeOK, NEW c \in Client, Deliver(c) PROVE TypeOK'
  <1> DEFINE m == Head(wire[c])
  <1>1. m \in Message /\ Received(c) \in [Client -> Seq(Message)] /\ Other(c) \in Client
    BY WireTypes DEF Deliver
  <1>2. UNCHANGED <<kind, fast>> /\ "a" \in Client /\ "b" \in Client
    BY DEF Deliver, Client
  <1>3. CASE m.op = "OFFER"
    <2>1. OfferArrives(c, m) /\ UNCHANGED <<used, reject>>
      BY <1>3 DEF Deliver
    <2>2. [op |-> "OFFER", port |-> Swapped, offset |-> 0] \in Message
      BY DccAssumption DEF Message, Swapped
    <2>3. /\ [Received(c) EXCEPT ![Other(c)] = Append(@, [op |-> "OFFER", port |-> Swapped, offset |-> 0])] \in [Client -> Seq(Message)]
          /\ [Received(c) EXCEPT !["a"] = Append(@, [op |-> "RESUME", port |-> m.port, offset |-> Len(file.data)])] \in [Client -> Seq(Message)]
      <3>1. [op |-> "RESUME", port |-> m.port, offset |-> Len(file.data)] \in Message
        BY <1>1 DEF Message, TypeOK
      <3> QED BY <1>1, <1>2, <2>2, <3>1
    <2>4. wire' \in [Client -> Seq(Message)]
      BY <1>1, <2>1, <2>3 DEF OfferArrives, ResumedAtOnce
    <2>5. ASSUME NEW n \in Nat, Noted(c, m, n) PROVE pending' \in [Client -> Seq(Pending)]
      <3>1. [port |-> m.port, byteoffset |-> n] \in Pending
        BY <1>1 DEF Pending, Message
      <3>2. <<[port |-> m.port, byteoffset |-> n]>> \in Seq(Pending)
        BY <3>1
      <3>3. pending \in [Client -> Seq(Pending)]
        BY DEF TypeOK, Pending
      <3>4. <<[port |-> m.port, byteoffset |-> n]>> \o pending[c] \in Seq(Pending)
        BY <3>2, <3>3, ConcatType
      <3> QED BY <2>5, <3>3, <3>4 DEF Noted
    <2>6. pending' \in [Client -> Seq(Pending)]
      <3>1. Len(file.data) \in Nat
        <4>1. file.data \in Seq(1..Size)
          BY DEF TypeOK
        <4> QED BY <4>1
      <3>2. pending \in [Client -> Seq(Pending)]
        BY DEF TypeOK, Pending
      <3> QED BY <2>1, <2>5, <3>1, <3>2 DEF OfferArrives, TakenAtOnce, ResumedAtOnce
    <2>7. lastReq' \in [Client -> BOOLEAN] /\ announced' \in [Client -> BOOLEAN]
      BY <2>1 DEF OfferArrives, TakenAtOnce, ResumedAtOnce, TypeOK
    <2>8. file' \in [there : BOOLEAN, data : Seq(1..Size)]
      BY <2>1 DEF OfferArrives, TakenAtOnce, ResumedAtOnce, TypeOK
    <2>9. link' \in [Port -> Link]
      <3>1. ASSUME ConnectTo(m.port, Len(file.data)) PROVE link' \in [Port -> Link]
        <4> DEFINE new == [st |-> "open", byteoffset |-> Len(file.data), bytes_read |-> 0]
        <4>1. new \in InEnd
          BY DEF InEnd, InState, TypeOK
        <4>2. link \in [Port -> Link] /\ m.port \in Port /\ link' = [link EXCEPT ![m.port].in = new]
          BY <3>1 DEF ConnectTo, TypeOK
        <4> HIDE DEF new, m
        <4> QED BY <4>1, <4>2 DEF Link
      <3> QED BY <2>1, <3>1 DEF OfferArrives, TakenAtOnce, ResumedAtOnce, TypeOK
    <2> QED BY <1>2, <2>1, <2>4, <2>6, <2>7, <2>8, <2>9 DEF TypeOK, Pending
  <1>4. CASE m.op = "RESUME"
    <2>1. ResumeArrives(c, m) /\ UNCHANGED <<used, pending, lastReq, file, announced, reject>>
      BY <1>4 DEF Deliver
    <2>2. wire' \in [Client -> Seq(Message)]
      <3>1. [m EXCEPT !.op = "ACCEPT"] \in Message
        BY <1>1 DEF Message
      <3>2. [Received(c) EXCEPT ![Other(c)] = Append(@, [m EXCEPT !.op = "ACCEPT"])] \in [Client -> Seq(Message)]
        BY <1>1, <3>1
      <3> QED BY <1>1, <2>1, <3>2 DEF ResumeArrives
    <2>3. link' \in [Port -> Link]
      <3>1. ASSUME NEW p \in Port PROVE [link[p] EXCEPT !.out.byteoffset = m.offset] \in Link
        <4>1. link[p] \in Link /\ m.offset \in Nat
          BY <1>1 DEF TypeOK, Message
        <4> QED BY <4>1 DEF Link, OutEnd
      <3> QED BY <2>1, <3>1, ZenonT(60) DEF ResumeArrives, TypeOK
    <2> QED BY <1>2, <2>1, <2>2, <2>3 DEF TypeOK, Pending
  <1>5. CASE m.op = "ACCEPT"
    <2>1. AcceptArrives(c) /\ UNCHANGED <<lastReq, announced>>
      BY <1>5 DEF Deliver
    <2>2. wire' \in [Client -> Seq(Message)] /\ file \in [there : BOOLEAN, data : Seq(1..Size)]
      BY <1>1, <2>1 DEF AcceptArrives, TypeOK
    <2>3. CASE UNCHANGED <<used, link, pending, file, reject>>
      BY <1>2, <2>1, <2>2, <2>3 DEF TypeOK
    <2>4. CASE pending[c] # <<>> /\ Connect(c, Head(pending[c]).byteoffset, file) /\ UNCHANGED reject
      <3>1. Head(pending[c]).byteoffset \in Nat
        BY <2>4, WireTypes DEF Pending
      <3> QED BY <1>2, <2>1, <2>2, <2>4, <3>1, ConnectType DEF TypeOK, Pending
    <2>5. CASE /\ pending[c] # <<>> /\ pending' = [pending EXCEPT ![c] = Tail(@)]
               /\ UNCHANGED <<used, file>>
               /\ LET p == Head(pending[c]).port
                  IN  \/ /\ p \in Port
                         /\ link' = [link EXCEPT ![p].in.st = "lost"]
                         /\ MayReject(c)
                      \/ UNCHANGED <<link, reject>>
      <3>1. pending' \in [Client -> Seq(Pending)]
        BY <2>5, WireTypes DEF TypeOK, Pending
      <3>2. reject' \in [Client -> BOOLEAN]
        BY <2>5, RejectType DEF TypeOK
      <3>3. ASSUME NEW p \in Port PROVE [link EXCEPT ![p].in.st = "lost"] \in [Port -> Link]
        <4>1. [link[p] EXCEPT !.in.st = "lost"] \in Link
          <5>1. link[p] \in Link
            BY DEF TypeOK
          <5> QED BY <5>1 DEF Link, InEnd, InState, Gone
        <4> QED BY <4>1, OneLink DEF TypeOK
      <3>4. link' \in [Port -> Link]
        BY <2>5, <3>3 DEF TypeOK
      <3> QED BY <1>2, <2>1, <2>2, <2>5, <3>1, <3>2, <3>4 DEF TypeOK, Pending
    <2> QED BY <2>1, <2>3, <2>4, <2>5 DEF AcceptArrives
  <1> QED BY <1>1, <1>3, <1>4, <1>5 DEF Message

LEMMA NetworkType ==
  ASSUME TypeOK, NEW c \in Client, Lose(c) \/ dcc_reject(c) \/ PendingTimeout(c)
  PROVE  TypeOK'
  <1>1. CASE Lose(c)
    BY <1>1, WireTypes DEF Lose, TypeOK
  <1>2. CASE dcc_reject(c)
    <2>1. link' \in [Port -> Link]
      <3>1. ASSUME NEW p \in find_dcc(c) PROVE [link EXCEPT ![p] = Erased(@, c)] \in [Port -> Link]
        <4>1. p \in Port /\ link[p] \in Link
          BY DEF find_dcc, Waiting, Active, TypeOK
        <4> QED BY <4>1, CloseTypes, OneLink
      <3> QED BY <1>2, <3>1 DEF dcc_reject, TypeOK
    <2>2. pending' \in [Client -> Seq(Pending)]
      <3>1. pending \in [Client -> Seq(Pending)]
        BY DEF TypeOK, Pending
      <3>2. pending[c] # <<>> => Tail(pending[c]) \in Seq(Pending)
        BY WireTypes
      <3>3. \/ UNCHANGED pending
            \/ pending' = [pending EXCEPT ![c] = IF @ = <<>> THEN @ ELSE Tail(@)]
        BY <1>2 DEF dcc_reject
      <3> QED BY <3>1, <3>2, <3>3
    <2>3. reject' \in [Client -> BOOLEAN]
      BY <1>2 DEF dcc_reject, TypeOK
    <2> QED BY <1>2, <2>1, <2>2, <2>3 DEF dcc_reject, TypeOK, Pending
  <1>3. CASE PendingTimeout(c)
    <2>1. PICK i \in DOMAIN pending[c] : pending' = [pending EXCEPT ![c] = RemoveAt(@, i)]
      BY <1>3 DEF PendingTimeout
    <2>2. pending \in [Client -> Seq(Pending)] /\ pending[c] \in Seq(Pending)
      BY DEF TypeOK, Pending
    <2>3. RemoveAt(pending[c], i) \in Seq(Pending)
      BY <2>2, RemoveType
    <2>4. pending' \in [Client -> Seq(Pending)]
      BY <2>1, <2>2, <2>3
    <2> QED BY <1>3, <2>4 DEF PendingTimeout, TypeOK, Pending
  <1> QED BY <1>1, <1>2, <1>3

LEMMA EndsType == ASSUME TypeOK, NEW p \in Port, Ends(p) PROVE TypeOK'
  <1> DEFINE l == link[p]
  <1>1. l \in Link /\ "b" \in Client /\ l.by \in Client /\ Other(l.by) \in Client
    BY DEF TypeOK, Link, Client, Other
  <1>2. CASE Accept(p)
    <2>1. [link EXCEPT ![p].out = OutIs("open")] \in [Port -> Link]
      <3>1. OutIs("open") \in OutEnd
        BY EndTypes DEF OutState
      <3> QED BY <3>1, ZenonT(60) DEF TypeOK, Link
    <2>2. \A b \in Begun(l) : \A r \in SendBlock(b) : [link EXCEPT ![p] = r] \in [Port -> Link]
      BY <1>1, BegunType, SendBlockType, OneLink
    <2>3. [link EXCEPT ![p] = CloseOut(l, "lost")] \in [Port -> Link]
      BY <1>1, CloseTypes, OneLink DEF Gone
    <2>4. link' \in [Port -> Link]
      BY <1>2, <2>1, <2>2, <2>3 DEF Accept
    <2>5. reject' \in [Client -> BOOLEAN]
      BY <1>1, <1>2, RejectType DEF Accept, TypeOK
    <2> QED BY <1>2, <2>4, <2>5 DEF Accept, TypeOK
  <1>3. CASE SenderReads(p)
    <2>1. CloseOut(l, "lost") \in Link
      BY <1>1, CloseTypes DEF Gone
    <2>2. \A r \in process_dcc_send1(l) : r \in Link
      BY <1>1, <1>3, SenderType DEF SenderReads
    <2>3. link' \in [Port -> Link]
      BY <1>3, <2>1, <2>2, OneLink DEF SenderReads
    <2>4. reject' \in [Client -> BOOLEAN]
      BY <1>1, <1>3, RejectType DEF SenderReads, TypeOK
    <2> QED BY <1>3, <2>3, <2>4 DEF SenderReads, TypeOK
  <1>4. CASE ReceiverReads(p)
    <2>1. CloseIn(l, "lost") \in Link /\ CloseIn(l, "complete") \in Link
      BY <1>1, CloseTypes DEF Gone
    <2>2. reject' \in [Client -> BOOLEAN]
      BY <1>1, <1>4, RejectType DEF ReceiverReads, TypeOK
    <2>3. link' \in [Port -> Link]
      <3>1. \A k \in 1..Len(l.data) : [link EXCEPT ![p] = start_dcc_get(l, k)] \in [Port -> Link]
        BY <1>1, ReceiverType, OneLink
      <3>2. /\ [link EXCEPT ![p] = CloseIn(l, "lost")] \in [Port -> Link]
            /\ [link EXCEPT ![p] = CloseIn(l, "complete")] \in [Port -> Link]
        BY <2>1, OneLink
      <3> QED BY <1>4, <3>1, <3>2 DEF ReceiverReads
    <2>4. file' \in [there : BOOLEAN, data : Seq(1..Size)]
      <3>1. ASSUME NEW k \in 1..Len(l.data) PROVE file.data \o SubSeq(l.data, 1, k) \in Seq(1..Size)
        <4>1. l.data \in Seq(1..Size) /\ Len(l.data) \in Nat /\ file.data \in Seq(1..Size)
          BY <1>1 DEF Link, TypeOK
        <4>2. SubSeq(l.data, 1, k) \in Seq(1..Size)
          <5>1. 1 \in 1..Len(l.data)+1 /\ k \in 0..Len(l.data)
            BY <4>1
          <5> QED BY <4>1, <5>1, PartType
        <4> QED BY <4>1, <4>2, ConcatType
      <3>2. \A k \in 1..Len(l.data) : Written(k) \subseteq 1..Len(l.data)
        <4>1. Len(l.data) \in Nat
          BY <1>1 DEF Link
        <4> QED BY <4>1 DEF Written
      <3>3. ASSUME NEW w \in 1..Len(l.data), file' = [file EXCEPT !.data = @ \o SubSeq(l.data, 1, w)]
            PROVE  file' \in [there : BOOLEAN, data : Seq(1..Size)]
        BY <3>1, <3>3 DEF TypeOK
      <3>4. CASE UNCHANGED file
        BY <3>4 DEF TypeOK
      <3> QED BY <1>4, <3>2, <3>3, <3>4 DEF ReceiverReads
    <2> QED BY <1>4, <2>2, <2>3, <2>4 DEF ReceiverReads, TypeOK
  <1>5. CASE WriteFails(p)
    BY <1>1, <1>5, CloseTypes, OneLink, RejectType DEF WriteFails, TypeOK, Gone
  <1>6. CASE ListenTimeout(p)
    BY <1>1, <1>6, CloseTypes, OneLink DEF ListenTimeout, TypeOK, Gone
  <1>7. CASE IdleClose(p)
    BY <1>1, <1>7, CloseTypes, OneLink, RejectType DEF IdleClose, TypeOK, Gone
  <1>8. CASE Break(p)
    <2>1. <<>> \in Seq(Int) /\ <<>> \in Seq(1..Size)
      BY EmptySeq
    <2>2. link' \in [Port -> Link]
      <3>1. [l EXCEPT !.broken = TRUE, !.data = <<>>, !.acks = <<>>] \in Link
        BY <1>1, <2>1 DEF Link
      <3>2. link' = [link EXCEPT ![p] = [l EXCEPT !.broken = TRUE, !.data = <<>>, !.acks = <<>>]]
        BY <1>8 DEF Break, TypeOK
      <3> HIDE DEF l
      <3> QED BY <3>1, <3>2, OneLink
    <2> QED BY <1>8, <2>2 DEF Break, TypeOK
  <1> QED BY <1>2, <1>3, <1>4, <1>5, <1>6, <1>7, <1>8 DEF Ends

LEMMA InitType == Init => TypeOK
  <1> SUFFICES ASSUME Init PROVE TypeOK
    OBVIOUS
  <1>1. \A S : <<>> \in Seq(S)
    BY EmptySeq
  <1>2. 0 \in 0..MaxPort
    BY DccAssumption
  <1>3. link \in [Port -> Link]
    BY EndTypes DEF Init, Client
  <1>4. fast \in BOOLEAN
    BY DEF Init
  <1> QED BY <1>1, <1>2, <1>3, <1>4 DEF Init, TypeOK

LEMMA NextType == TypeOK /\ [Next]_vars => TypeOK'
  <1> SUFFICES ASSUME TypeOK, [Next]_vars PROVE TypeOK'
    OBVIOUS
  <1>1. CASE UNCHANGED vars
    BY <1>1 DEF vars, TypeOK
  <1> QED BY <1>1, OfferType, CommandType, DeliverType, NetworkType, EndsType DEF Next, Commands

(* Every variable has its type, however many ports and however large the file
   (the messages, links and lists of source/dcc.c). *)
THEOREM TypeCorrect == Spec => []TypeOK
  BY InitType, NextType, PTL DEF Spec

-----------------------------------------------------------------------------
(***************************************************************************)
(* Why the receiver has the beginning of the file.  For chats there is     *)
(* nothing to say.  In the other types a offers and b receives; at most    *)
(* one socket of each is in use, at a's side that of the last port.  What  *)
(* is on its way to an open receiver is what follows the end of its file   *)
(* (Flow).  That this is so when a connection is made is the work of the   *)
(* other parts: an offer is at one place at a time (Once), it comes before *)
(* the answer to a request to resume it (Order), and once it was asked to  *)
(* resume it, sender, receiver and all messages agree about the offset     *)
(* (Resume).                                                               *)
(***************************************************************************)
Have == Len(file.data)

Prefix == Have <= Size /\ \A i \in 1..Have : file.data[i] = i

Live(l) == l.out.st \in {"wait", "open"}

Flow(l, n) ==
    /\ n + Len(l.data) <= Size
    /\ \A i \in 1..Len(l.data) : l.data[i] = n + i
    /\ l.out.st = "open" /\ ~l.broken => l.out.pos = n + Len(l.data)
    /\ l.out.st = "wait" => IF kind = "RESEND" THEN l.in.byteoffset = n
                                               ELSE l.out.byteoffset = n

Sockets ==
    /\ \A p \in Port : link[p].by = "a"
    /\ \A p \in Port : Live(link[p]) => p = used
    /\ \A p \in Port : link[p].out.st = "wait" => link[p].data = <<>>
    /\ \A p, q \in Port : link[p].in.st = "open" /\ link[q].in.st = "open" => p = q
    /\ \A p \in Port : link[p].in.st = "open" => Flow(link[p], Have)
    /\ file.there \/ (Have = 0 /\ \A p \in Port : link[p].in.st # "open")

Messages ==
    /\ \A i \in DOMAIN wire["a"] : /\ wire["a"][i].op = "RESUME" /\ kind # "RESEND"
                                   /\ wire["a"][i].port <= used
    /\ \A i \in DOMAIN wire["b"] : /\ \/ wire["b"][i].op = "OFFER"
                                      \/ wire["b"][i].op = "ACCEPT" /\ kind # "RESEND"
                                   /\ wire["b"][i].port <= used
    /\ \A i \in DOMAIN pending["b"] : pending["b"][i].port <= used

Is(m, op, p) == m.op = op /\ m.port = p

Offered(p) == \E i \in DOMAIN wire["b"] : Is(wire["b"][i], "OFFER", p)
Listed(p) == \E i \in DOMAIN pending["b"] : pending["b"][i].port = p

Once ==
    \A p \in Port :
       /\ \A i, j \in DOMAIN pending["b"] :
             pending["b"][i].port = p /\ pending["b"][j].port = p => i = j
       /\ \A i, j \in DOMAIN wire["b"] :
             Is(wire["b"][i], "OFFER", p) /\ Is(wire["b"][j], "OFFER", p) => i = j
       /\ ~(Listed(p) /\ Offered(p))
       /\ link[p].in.st # "none" => ~Listed(p) /\ ~Offered(p)

Order ==
    /\ \A i, j \in DOMAIN wire["b"] :
          i < j /\ wire["b"][i].op = "OFFER" /\ wire["b"][j].op = "ACCEPT"
             => wire["b"][i].port <= wire["b"][j].port
    /\ \A i \in DOMAIN pending["b"], j \in DOMAIN wire["b"] :
          wire["b"][j].op = "ACCEPT" => pending["b"][i].port <= wire["b"][j].port

Asked(p) ==
    \/ \E i \in DOMAIN wire["a"] : wire["a"][i].port = p
    \/ \E i \in DOMAIN wire["b"] : Is(wire["b"][i], "ACCEPT", p)
    \/ link[p].out.byteoffset # 0
    \/ \E i \in DOMAIN pending["b"] : pending["b"][i].port = p /\ pending["b"][i].byteoffset # 0

Agreed(p) ==
    /\ ~Offered(p)
    /\ \A i \in DOMAIN wire["b"] : Is(wire["b"][i], "ACCEPT", p) => link[p].out.byteoffset = Have
    /\ \A i \in DOMAIN pending["b"] : pending["b"][i].port = p => pending["b"][i].byteoffset = Have
    /\ \A q \in Port : link[q].in.st # "open"

Resume(p) ==
    /\ \A i \in DOMAIN wire["a"] : wire["a"][i].port = p => wire["a"][i].offset = Have
    /\ link[p].out.byteoffset \in {0, Have}
    /\ link[p].in.st = "none" /\ Asked(p) => Agreed(p)

Resumes ==
    \A p \in Port : link[p].out.st = "wait" /\ link[p].in.st \in {"none", "open"} => Resume(p)

Transfers == Sockets /\ Messages /\ Once /\ Order /\ Resumes

IInv ==
    /\ TypeOK
    /\ Prefix
    /\ kind = "CHAT" => \A p \in Port : link[p].data = <<>>
    /\ kind # "CHAT" => Transfers

-----------------------------------------------------------------------------
(* What most steps do: messages and offers disappear, and sockets are closed or go
   on with what they were doing. *)

Sub(t, s) ==
    \E f \in [DOMAIN t -> DOMAIN s] :
       /\ \A i \in DOMAIN t : t[i] = s[f[i]]
       /\ \A i, j \in DOMAIN t : i < j => f[i] < f[j]

LEMMA SubSame == ASSUME NEW S, NEW s \in Seq(S) PROVE Sub(s, s)
  <1> DEFINE f == [i \in DOMAIN s |-> i]
  <1>1. f \in [DOMAIN s -> DOMAIN s]
    OBVIOUS
  <1> QED BY <1>1 DEF Sub

LEMMA SubEmpty == ASSUME NEW S, NEW s \in Seq(S) PROVE Sub(<<>>, s)
  <1> DEFINE f == [i \in {} |-> i]
  <1>1. DOMAIN <<>> = {}
    OBVIOUS
  <1>2. f \in [DOMAIN <<>> -> DOMAIN s]
    BY <1>1
  <1> QED BY <1>1, <1>2 DEF Sub

LEMMA SubTail == ASSUME NEW S, NEW s \in Seq(S), s # <<>> PROVE Sub(Tail(s), s)
  <1> DEFINE f == [i \in DOMAIN Tail(s) |-> i + 1]
  <1>1. /\ Len(s) \in Nat /\ DOMAIN s = 1..Len(s) /\ DOMAIN Tail(s) = 1..(Len(s) - 1)
        /\ \A i \in 1..(Len(s) - 1) : Tail(s)[i] = s[i + 1]
    BY HeadTailProperties, LenProperties
  <1>2. f \in [DOMAIN Tail(s) -> DOMAIN s]
    BY <1>1
  <1>3. \A i \in DOMAIN Tail(s) : f[i] = i + 1
    OBVIOUS
  <1> HIDE DEF f
  <1> QED BY <1>1, <1>2, <1>3 DEF Sub

LEMMA SubRemove == ASSUME NEW S, NEW s \in Seq(S), NEW k \in DOMAIN s PROVE Sub(RemoveAt(s, k), s)
  <1> DEFINE t == RemoveAt(s, k)
             f == [i \in DOMAIN t |-> IF i < k THEN i ELSE i + 1]
             u == SubSeq(s, 1, k - 1)
             v == SubSeq(s, k + 1, Len(s))
  <1>1. Len(s) \in Nat /\ DOMAIN s = 1..Len(s) /\ k \in 1..Len(s) /\ \A i \in 1..Len(s) : s[i] \in S
    BY LenProperties
  <1>2. u \in Seq(S) /\ Len(u) = k - 1 /\ \A i \in 1..(k - 1) : u[i] = s[i]
    <2>1. 1 \in Int /\ k - 1 \in Int /\ (\A i \in 1..(k - 1) : s[i] \in S)
      BY <1>1
    <2>2. /\ u \in Seq(S)
          /\ Len(u) = IF 1 <= k - 1 THEN (k - 1) - 1 + 1 ELSE 0
          /\ \A i \in 1..((k - 1) - 1 + 1) : u[i] = s[1 + i - 1]
      BY <2>1, SubSeqProperties
    <2> HIDE DEF u
    <2>3. Len(u) = k - 1
      BY <1>1, <2>2
    <2>4. ASSUME NEW i \in 1..(k - 1) PROVE u[i] = s[i]
      <3>1. i \in 1..((k - 1) - 1 + 1) /\ 1 + i - 1 = i
        BY <1>1
      <3> QED BY <2>2, <3>1
    <2> QED BY <2>2, <2>3, <2>4
  <1>3. v \in Seq(S) /\ Len(v) = Len(s) - k /\ \A i \in 1..(Len(s) - k) : v[i] = s[k + i]
    <2>1. /\ v \in Seq(S) /\ Len(v) = Len(s) - k
          /\ \A i \in 1..Len(v) : k + i \in 1..Len(s) /\ v[i] = s[k + i]
      BY <1>1, Rest
    <2> HIDE DEF v
    <2> QED BY <2>1
  <1>4. t = u \o v
    BY DEF RemoveAt
  <1>5. /\ DOMAIN t = 1..(Len(s) - 1)
        /\ \A i \in 1..(Len(s) - 1) : t[i] = IF i < k THEN s[i] ELSE s[i + 1]
    <2> HIDE DEF u, v, t
    <2>1. /\ t \in Seq(S) /\ Len(t) = Len(u) + Len(v)
          /\ \A i \in 1..Len(u) + Len(v) : t[i] = IF i <= Len(u) THEN u[i] ELSE v[i - Len(u)]
      BY <1>2, <1>3, <1>4, ConcatProperties
    <2>2. Len(u) + Len(v) = Len(s) - 1 /\ DOMAIN t = 1..(Len(s) - 1)
      BY <1>1, <1>2, <1>3, <2>1
    <2>3. ASSUME NEW i \in 1..(Len(s) - 1), i < k PROVE t[i] = s[i]
      <3>1. i \in 1..(k - 1) /\ i <= Len(u) /\ i \in 1..Len(u) + Len(v)
        BY <1>1, <1>2, <2>2, <2>3
      <3> QED BY <1>2, <2>1, <3>1
    <2>4. ASSUME NEW i \in 1..(Len(s) - 1), ~(i < k) PROVE t[i] = s[i + 1]
      <3>1. ~(i <= Len(u)) /\ i \in 1..Len(u) + Len(v)
        BY <1>1, <1>2, <2>2, <2>4
      <3>2. t[i] = v[i - Len(u)]
        BY <2>1, <3>1
      <3>3. i - Len(u) \in 1..(Len(s) - k) /\ k + (i - Len(u)) = i + 1
        BY <1>1, <1>2, <2>4
      <3> QED BY <1>3, <3>2, <3>3
    <2> QED BY <2>2, <2>3, <2>4
  <1>6. f \in [DOMAIN t -> DOMAIN s]
    BY <1>1, <1>5
  <1>7. \A i \in DOMAIN t : f[i] = IF i < k THEN i ELSE i + 1
    OBVIOUS
  <1> HIDE DEF f, t
  <1>8. Sub(t, s)
    BY <1>1, <1>5, <1>6, <1>7 DEF Sub
  <1> QED BY <1>8 DEF t

Narrowed(p) ==
    /\ link'[p].by = link[p].by
    /\ Live(link'[p]) => Live(link[p])
    /\ link'[p].out.st = "wait" => /\ link[p].out.st = "wait"
                                   /\ link'[p].out.byteoffset = link[p].out.byteoffset
                                   /\ link'[p].data = <<>>
    /\ link'[p].in.st = "open" => link[p].in.st = "open" /\ Flow(link'[p], Have)
    /\ link'[p].in.st = "none" => link[p].in.st = "none"
    /\ link'[p].in.st # "none" => link[p].in.st # "none" \/ (~Listed(p)' /\ ~Offered(p)')

LEMMA Fewer ==
  ASSUME TypeOK, TypeOK', Transfers, UNCHANGED <<kind, used>>,
         Sub(wire'["a"], wire["a"]), Sub(wire'["b"], wire["b"]), Sub(pending'["b"], pending["b"]),
         \A p \in Port : link'[p].in.st # "none" =>
                            link[p].in.st # "none" \/ (~Listed(p)' /\ ~Offered(p)')
  PROVE  /\ Messages' /\ Once' /\ Order'
         /\ \A i \in DOMAIN wire'["a"] : \E j \in DOMAIN wire["a"] : wire'["a"][i] = wire["a"][j]
         /\ \A i \in DOMAIN wire'["b"] : \E j \in DOMAIN wire["b"] : wire'["b"][i] = wire["b"][j]
         /\ \A i \in DOMAIN pending'["b"] : \E j \in DOMAIN pending["b"] : pending'["b"][i] = pending["b"][j]
         /\ \A p \in Port : (Offered(p)' => Offered(p)) /\ (Listed(p)' => Listed(p))
  <1>1. PICK g \in [DOMAIN wire'["b"] -> DOMAIN wire["b"]] :
             /\ \A i \in DOMAIN wire'["b"] : wire'["b"][i] = wire["b"][g[i]]
             /\ \A i, j \in DOMAIN wire'["b"] : i < j => g[i] < g[j]
    BY DEF Sub
  <1>2. PICK h \in [DOMAIN pending'["b"] -> DOMAIN pending["b"]] :
             /\ \A i \in DOMAIN pending'["b"] : pending'["b"][i] = pending["b"][h[i]]
             /\ \A i, j \in DOMAIN pending'["b"] : i < j => h[i] < h[j]
    BY DEF Sub
  <1>3. /\ \A i \in DOMAIN wire'["a"] : \E j \in DOMAIN wire["a"] : wire'["a"][i] = wire["a"][j]
        /\ \A i \in DOMAIN wire'["b"] : \E j \in DOMAIN wire["b"] : wire'["b"][i] = wire["b"][j]
        /\ \A i \in DOMAIN pending'["b"] : \E j \in DOMAIN pending["b"] : pending'["b"][i] = pending["b"][j]
    BY DEF Sub
  <1>4. Messages'
    BY <1>3 DEF Transfers, Messages
  <1>5. \A p \in Port : (Offered(p)' => Offered(p)) /\ (Listed(p)' => Listed(p))
    BY <1>3 DEF Offered, Listed
  <1>6. Once'
    <2> SUFFICES ASSUME NEW p \in Port
                 PROVE  /\ \A i, j \in DOMAIN pending'["b"] :
                             pending'["b"][i].port = p /\ pending'["b"][j].port = p => i = j
                        /\ \A i, j \in DOMAIN wire'["b"] :
                             Is(wire'["b"][i], "OFFER", p) /\ Is(wire'["b"][j], "OFFER", p) => i = j
                        /\ ~(Listed(p)' /\ Offered(p)')
                        /\ link'[p].in.st # "none" => ~Listed(p)' /\ ~Offered(p)'
      BY DEF Once
    <2>1. DOMAIN pending'["b"] \subseteq Int /\ DOMAIN wire'["b"] \subseteq Int
      BY DEF TypeOK, Client
    <2>2. ASSUME NEW i \in DOMAIN pending'["b"], NEW j \in DOMAIN pending'["b"],
                 pending'["b"][i].port = p, pending'["b"][j].port = p
          PROVE  i = j
      <3>1. h[i] = h[j]
        BY <1>2, <2>2 DEF Transfers, Once
      <3>2. ~(i < j) /\ ~(j < i)
        <4>1. h[i] \in DOMAIN pending["b"] /\ h[i] \in Int
          BY <1>2 DEF TypeOK, Client
        <4> QED BY <1>2, <3>1, <4>1
      <3> QED BY <2>1, <3>2
    <2>3. ASSUME NEW i \in DOMAIN wire'["b"], NEW j \in DOMAIN wire'["b"],
                 Is(wire'["b"][i], "OFFER", p), Is(wire'["b"][j], "OFFER", p)
          PROVE  i = j
      <3>1. g[i] = g[j]
        BY <1>1, <2>3 DEF Transfers, Once
      <3>2. ~(i < j) /\ ~(j < i)
        <4>1. g[i] \in DOMAIN wire["b"] /\ g[i] \in Int
          BY <1>1 DEF TypeOK, Client
        <4> QED BY <1>1, <3>1, <4>1
      <3> QED BY <2>1, <3>2
    <2>4. /\ ~(Listed(p)' /\ Offered(p)')
          /\ link'[p].in.st # "none" => ~Listed(p)' /\ ~Offered(p)'
      BY <1>5 DEF Transfers, Once
    <2> QED BY <2>2, <2>3, <2>4
  <1>7. Order'
    BY <1>1, <1>2 DEF Transfers, Order
  <1> QED BY <1>3, <1>4, <1>5, <1>6, <1>7

LEMMA Narrowing ==
  ASSUME TypeOK, TypeOK', Prefix, Transfers, UNCHANGED <<kind, used>>,
         file'.data = file.data, file.there => file'.there,
         Sub(wire'["a"], wire["a"]), Sub(wire'["b"], wire["b"]), Sub(pending'["b"], pending["b"]),
         \A p \in Port : Narrowed(p)
  PROVE  Prefix' /\ Transfers'
  <1>1. /\ Messages' /\ Once' /\ Order'
        /\ \A i \in DOMAIN wire'["a"] : \E j \in DOMAIN wire["a"] : wire'["a"][i] = wire["a"][j]
        /\ \A i \in DOMAIN wire'["b"] : \E j \in DOMAIN wire["b"] : wire'["b"][i] = wire["b"][j]
        /\ \A i \in DOMAIN pending'["b"] : \E j \in DOMAIN pending["b"] : pending'["b"][i] = pending["b"][j]
        /\ \A p \in Port : (Offered(p)' => Offered(p)) /\ (Listed(p)' => Listed(p))
    BY Fewer DEF Narrowed
  <1>2. Have' = Have /\ Prefix'
    BY DEF Prefix, Have
  <1>3. Sockets'
    BY <1>2 DEF Transfers, Sockets, Narrowed, Flow, Live
  <1>4. Resumes'
    <2> SUFFICES ASSUME NEW p \in Port, link'[p].out.st = "wait", link'[p].in.st \in {"none", "open"}
                 PROVE  Resume(p)'
      BY DEF Resumes
    <2>1. Resume(p) /\ link'[p].out.byteoffset = link[p].out.byteoffset
      BY DEF Transfers, Resumes, Narrowed
    <2>2. Asked(p)' => Asked(p)
      BY <1>1, <2>1 DEF Asked
    <2>3. Agreed(p) => Agreed(p)'
      BY <1>1, <1>2, <2>1 DEF Agreed, Narrowed
    <2> QED BY <1>1, <1>2, <2>1, <2>2, <2>3 DEF Resume, Narrowed
  <1> QED BY <1>1, <1>2, <1>3, <1>4 DEF Transfers

-----------------------------------------------------------------------------
(* What the sender does to the stream *)

Goes(l, r, n) ==
    /\ r.by = l.by /\ r.in = l.in
    /\ r.out.st # "wait"
    /\ l.in.st = "open" => Flow(r, n)

LEMMA CloseOutGoes ==
  ASSUME NEW l \in Link, NEW n \in Nat, l.in.st = "open" => Flow(l, n), NEW st \in Gone
  PROVE  Goes(l, CloseOut(l, st), n) /\ CloseOut(l, st).out.st = st
  BY DEF Goes, CloseOut, OutIs, Flow, Gone, Link

LEMMA SendBlockGoes ==
  ASSUME NEW l \in Link, NEW n \in Nat, l.in.st = "open" => Flow(l, n),
         l.out.st = "open", NEW r \in SendBlock(l)
  PROVE  Goes(l, r, n)
  <1> DEFINE left == Size - l.out.pos
             most == IF left < Block THEN left ELSE Block
             part(k) == SubSeq(Source, l.out.pos + 1, l.out.pos + k)
             Sent(k) == [l EXCEPT !.out.pos = @ + k, !.out.bytes_sent = @ + k,
                             !.out.readwaiting = TRUE,
                             !.data = IF l.in.st = "open" /\ ~l.broken THEN @ \o part(k) ELSE @]
  <1>1. Size \in Nat /\ Block \in Nat \ {0} /\ l.out.pos \in Nat /\ l.data \in Seq(1..Size) /\ Len(l.data) \in Nat
    BY DccAssumption DEF Link, OutEnd
  <1>2. ASSUME NEW k \in 1..most, most > 0 PROVE Goes(l, Sent(k), n)
    <2>1. k \in Nat /\ l.out.pos + k <= Size
      BY <1>1, <1>2
    <2>2. /\ Sent(k).by = l.by /\ Sent(k).in = l.in /\ Sent(k).broken = l.broken
          /\ Sent(k).out.st = "open" /\ Sent(k).out.pos = l.out.pos + k
          /\ Sent(k).data = IF l.in.st = "open" /\ ~l.broken THEN l.data \o part(k) ELSE l.data
      <3> HIDE DEF most, part
      <3> QED BY DEF Link, OutEnd
    <2>3. CASE l.in.st # "open"
      <3> HIDE DEF Sent
      <3> QED BY <2>2, <2>3 DEF Goes
    <2>4. CASE l.in.st = "open" /\ l.broken
      <3> HIDE DEF Sent
      <3> QED BY <2>2, <2>4 DEF Goes, Flow
    <2>5. CASE l.in.st = "open" /\ ~l.broken
      <3>1. part(k) \in Seq(1..Size) /\ Len(part(k)) = k /\ \A i \in 1..k : part(k)[i] = l.out.pos + i
        <4>1. l.out.pos + 1 \in Int /\ l.out.pos + k \in Int /\ \A i \in (l.out.pos + 1)..(l.out.pos + k) : Source[i] = i /\ i \in 1..Size
          BY <1>1, <2>1, SourceType
        <4>2. /\ part(k) \in Seq(1..Size)
              /\ Len(part(k)) = IF l.out.pos + 1 <= l.out.pos + k THEN (l.out.pos + k) - (l.out.pos + 1) + 1 ELSE 0
              /\ \A i \in 1..((l.out.pos + k) - (l.out.pos + 1) + 1) : part(k)[i] = Source[(l.out.pos + 1) + i - 1]
          BY <4>1, SubSeqProperties
        <4> HIDE DEF part
        <4>3. Len(part(k)) = k
          BY <1>1, <1>2, <2>1, <4>2
        <4>4. ASSUME NEW i \in 1..k PROVE part(k)[i] = l.out.pos + i
          <5>1. i \in 1..((l.out.pos + k) - (l.out.pos + 1) + 1) /\ (l.out.pos + 1) + i - 1 = l.out.pos + i
            BY <1>1, <2>1
          <5>2. l.out.pos + i \in (l.out.pos + 1)..(l.out.pos + k)
            BY <1>1, <2>1
          <5> QED BY <4>1, <4>2, <5>1, <5>2
        <4> QED BY <4>2, <4>3, <4>4
      <3> DEFINE d == l.data \o part(k)
      <3>2. Len(d) = Len(l.data) + k /\ \A i \in 1..(Len(l.data) + k) : d[i] = IF i <= Len(l.data) THEN l.data[i] ELSE part(k)[i - Len(l.data)]
        <4> HIDE DEF part
        <4>1. /\ Len(d) = Len(l.data) + Len(part(k))
              /\ \A i \in 1..Len(l.data) + Len(part(k)) : d[i] = IF i <= Len(l.data) THEN l.data[i] ELSE part(k)[i - Len(l.data)]
          BY <1>1, <3>1, ConcatProperties, ZenonT(60)
        <4> QED BY <3>1, <4>1
      <3>3. l.out.pos = n + Len(l.data) /\ \A i \in 1..Len(l.data) : l.data[i] = n + i
        BY <2>5 DEF Flow
      <3>4. ASSUME NEW i \in 1..Len(d) PROVE d[i] = n + i
        <4> HIDE DEF d, part
        <4>1. CASE i <= Len(l.data)
          BY <1>1, <2>1, <3>2, <3>3, <4>1
        <4>2. CASE ~(i <= Len(l.data))
          <5>1. i - Len(l.data) \in 1..k /\ d[i] = part(k)[i - Len(l.data)]
            <6>1. i \in 1..(Len(l.data) + k)
              BY <3>2
            <6>2. i - Len(l.data) \in 1..k
              BY <1>1, <2>1, <4>2, <6>1
            <6> QED BY <3>2, <4>2, <6>1, <6>2
          <5> QED BY <1>1, <3>1, <3>3, <5>1
        <4> QED BY <4>1, <4>2
      <3>5. n + Len(d) <= Size /\ l.out.pos + k = n + Len(d)
        <4> HIDE DEF d
        <4> QED BY <1>1, <2>1, <3>2, <3>3
      <3>6. Sent(k).data = d
        BY <2>2, <2>5
      <3> HIDE DEF Sent, d
      <3> QED BY <2>2, <3>4, <3>5, <3>6 DEF Goes, Flow
    <2> QED BY <2>3, <2>4, <2>5
  <1>3. /\ Goes(l, [l EXCEPT !.out.readwaiting = TRUE], n)
        /\ Goes(l, [l EXCEPT !.out.eof = TRUE, !.out.readwaiting = TRUE], n)
    BY DEF Goes, Flow, Link, OutEnd
  <1>4. Goes(l, CloseOut(l, "lost"), n) /\ Goes(l, CloseOut(l, "complete"), n)
    BY CloseOutGoes DEF Gone
  <1>5. CASE most > 0
    <2>1. r \in {Sent(most)}
             \cup (IF fast THEN {Sent(k) : k \in 1..(most - 1)} ELSE {})
             \cup (IF fast /\ l.data # <<>> THEN {[l EXCEPT !.out.readwaiting = TRUE]} ELSE {})
             \cup (IF l.in.st \in Gone \/ l.broken THEN {CloseOut(l, "lost")} ELSE {})
      BY <1>5 DEF SendBlock
    <2>2. most \in 1..most /\ \A k \in 1..(most - 1) : k \in 1..most
      BY <1>1, <1>5
    <2> HIDE DEF Sent, most
    <2> QED BY <2>1, <2>2, <1>2, <1>3, <1>4, <1>5
  <1>6. CASE ~(most > 0)
    BY <1>3, <1>4, <1>6 DEF SendBlock
  <1> QED BY <1>5, <1>6

LEMMA SenderGoes ==
  ASSUME NEW l \in Link, NEW n \in Nat, l.in.st = "open" => Flow(l, n),
         l.out.st = "open", NEW r \in process_dcc_send1(l)
  PROVE  Goes(l, r, n)
  <1> DEFINE m == [l EXCEPT !.acks = Tail(@)]
             k == [m EXCEPT !.out.readwaiting = FALSE]
             e == [l EXCEPT !.acks = <<>>, !.out.readwaiting = TRUE]
  <1>1. Goes(l, m, n) /\ Goes(l, e, n)
    BY DEF Goes, Flow, Link, OutEnd
  <1>2. /\ l.acks # <<>> => k \in Link
        /\ k.out.st = "open" /\ k.in = l.in /\ k.by = l.by
        /\ k.in.st = "open" => Flow(k, n)
    <2>1. l.acks # <<>> => Tail(l.acks) \in Seq(Int)
      BY HeadTail DEF Link
    <2> QED BY <2>1 DEF Flow, Link, OutEnd
  <1>3. Goes(l, CloseOut(l, "lost"), n) /\ Goes(l, CloseOut(l, "complete"), n)
    BY CloseOutGoes DEF Gone
  <1>4. \/ r \in SendBlock(l)
        \/ l.acks # <<>> /\ r \in SendBlock(k)
        \/ r = m \/ r = e \/ r = CloseOut(l, "lost") \/ r = CloseOut(l, "complete")
    BY DEF process_dcc_send1
  <1>5. l.acks # <<>> /\ r \in SendBlock(k) => Goes(k, r, n)
    <2> HIDE DEF k
    <2> QED BY <1>2, SendBlockGoes
  <1>6. Goes(k, r, n) => Goes(l, r, n)
    BY DEF Goes, Link, OutEnd
  <1> HIDE DEF m, k, e
  <1> QED BY <1>1, <1>3, <1>4, <1>5, <1>6, SendBlockGoes

-----------------------------------------------------------------------------
(* The steps of a connection *)

LEMMA Staying ==
  ASSUME TypeOK, Transfers, NEW p \in Port, link'[p] = link[p]
  PROVE  Narrowed(p)
  BY DEF Transfers, Sockets, Narrowed

LEMMA WireSub ==
  ASSUME TypeOK, NEW c \in Client
  PROVE  /\ wire[c] # <<>> => Sub(Tail(wire[c]), wire[c])
         /\ Sub(wire[c], wire[c]) /\ Sub(pending[c], pending[c]) /\ Sub(<<>>, pending[c])
         /\ pending[c] # <<>> => Sub(Tail(pending[c]), pending[c])
         /\ \A i \in DOMAIN pending[c] : Sub(RemoveAt(pending[c], i), pending[c])
  <1>1. wire[c] \in Seq(Message) /\ pending[c] \in Seq(Pending)
    BY DEF TypeOK, Pending
  <1> QED BY <1>1, SubSame, SubEmpty, SubTail, SubRemove

LEMMA NarrowOne ==
  ASSUME TypeOK, TypeOK', Prefix, Transfers, UNCHANGED <<kind, used, file, wire, pending>>,
         NEW p \in Port, NEW r \in Link, link' = [link EXCEPT ![p] = r],
         r.by = link[p].by,
         Live(r) => Live(link[p]),
         r.out.st = "wait" => /\ link[p].out.st = "wait" /\ r.data = <<>>
                              /\ r.out.byteoffset = link[p].out.byteoffset,
         r.in.st = "open" => link[p].in.st = "open" /\ Flow(r, Have),
         r.in.st = "none" <=> link[p].in.st = "none"
  PROVE  Prefix' /\ Transfers'
  <1>1. link'[p] = r /\ \A q \in Port : q # p => link'[q] = link[q]
    BY DEF TypeOK
  <1>2. Narrowed(p)
    BY <1>1 DEF Narrowed
  <1>3. \A q \in Port : Narrowed(q)
    BY <1>1, <1>2, Staying
  <1>4. "a" \in Client /\ "b" \in Client
    BY DEF Client
  <1>5. Sub(wire'["a"], wire["a"]) /\ Sub(wire'["b"], wire["b"]) /\ Sub(pending'["b"], pending["b"])
    BY <1>4, WireSub
  <1> QED BY <1>3, <1>5, Narrowing

(* The conditions of the theorems below: users do not GET an offer they have asked to
   resume, REGET packets are in time, and no write() is short *)
NoHazards == Hazards \cap {"get_after_resume", "late_reget", "short_write"} = {}

(* the disk takes what is read *)
LEMMA ReadsWhole ==
  ASSUME NoHazards, NEW p \in Port, ReceiverReads(p)
  PROVE  \/ \E k \in 1..Len(link[p].data) :
               /\ link' = [link EXCEPT ![p] = start_dcc_get(link[p], k)]
               /\ file' = [file EXCEPT !.data = @ \o SubSeq(link[p].data, 1, k)]
         \/ /\ link[p].out.st \in Gone
            /\ link' = [link EXCEPT ![p] = CloseIn(link[p], "complete")] /\ UNCHANGED file
         \/ link' = [link EXCEPT ![p] = CloseIn(link[p], "lost")] /\ UNCHANGED file
  <1>1. \A k : Written(k) = {k}
    BY DEF NoHazards, Written
  <1> QED BY <1>1 DEF ReceiverReads

LEMMA HaveType == TypeOK => Have \in Nat
  BY DEF TypeOK, Have

LEMMA SenderInv ==
  ASSUME NoHazards, TypeOK, TypeOK', Prefix, Transfers, kind # "CHAT",
         NEW p \in Port, Accept(p) \/ SenderReads(p)
  PROVE  Prefix' /\ Transfers'
  <1> DEFINE l == link[p]
  <1>1. l \in Link /\ Have \in Nat /\ UNCHANGED <<kind, used, file, wire, pending>>
    BY HaveType DEF TypeOK, Accept, SenderReads
  <1>2. l.in.st = "open" => Flow(l, Have)
    BY DEF Transfers, Sockets
  <1>3. ASSUME NEW r \in Link, Goes(l, r, Have), Live(l), link' = [link EXCEPT ![p] = r]
        PROVE  Prefix' /\ Transfers'
    BY <1>1, <1>3, NarrowOne DEF Goes
  <1>4. CASE SenderReads(p)
    <2>1. PICK r \in process_dcc_send1(l) : link' = [link EXCEPT ![p] = r]
      BY <1>4 DEF SenderReads
    <2>2. r \in Link /\ Live(l)
      BY <1>1, <1>4, SenderType DEF SenderReads, Live
    <2>3. Goes(l, r, Have)
      BY <1>1, <1>2, <1>4, SenderGoes DEF SenderReads
    <2> QED BY <1>3, <2>1, <2>2, <2>3
  <1>5. CASE Accept(p)
    <2>1. Live(l) /\ l.out.st = "wait"
      BY <1>5 DEF Accept, Live
    <2>2. ASSUME NEW b \in Begun(l), NEW r \in SendBlock(b), link' = [link EXCEPT ![p] = r]
          PROVE  Prefix' /\ Transfers'
      <3>1. b \in Link /\ b.out.st = "open" /\ r \in Link
        BY <1>1, BegunType, SendBlockType
      <3>2. /\ b.in = l.in /\ b.by = l.by /\ b.data = l.data
            /\ b.out.pos = IF kind = "RESEND" THEN l.in.byteoffset ELSE l.out.byteoffset
        <4>1. ~("late_reget" \in Hazards)
          BY DEF NoHazards
        <4> QED BY <1>1, <4>1 DEF Begun, OutIs, Link
      <3>3. b.in.st = "open" => Flow(b, Have)
        <4>1. l.data = <<>> /\ Len(l.data) = 0
          BY <2>1 DEF Transfers, Sockets
        <4> QED BY <1>1, <1>2, <2>1, <3>1, <3>2, <4>1 DEF Flow
      <3>4. Goes(b, r, Have)
        BY <1>1, <3>1, <3>3, SendBlockGoes
      <3>5. Goes(l, r, Have)
        BY <3>2, <3>4 DEF Goes
      <3> QED BY <1>3, <2>1, <2>2, <3>1, <3>5
    <2>3. CASE link' = [link EXCEPT ![p] = CloseOut(l, "lost")]
      BY <1>1, <1>2, <1>3, <2>1, <2>3, CloseTypes, CloseOutGoes DEF Gone
    <2> QED BY <1>5, <2>2, <2>3 DEF Accept
  <1> QED BY <1>4, <1>5

LEMMA ClosingInv ==
  ASSUME TypeOK, TypeOK', Prefix, Transfers, UNCHANGED <<kind, used, file, wire, pending>>,
         NEW p \in Port,
         \/ \E st \in Gone : link[p].in.st = "open" /\ link' = [link EXCEPT ![p] = CloseIn(@, st)]
         \/ \E st \in Gone : Live(link[p]) /\ link' = [link EXCEPT ![p] = CloseOut(@, st)]
         \/ Break(p)
  PROVE  Prefix' /\ Transfers'
  <1> DEFINE l == link[p]
  <1>1. l \in Link /\ Have \in Nat
    BY HaveType DEF TypeOK
  <1>2. /\ l.in.st = "open" => Flow(l, Have)
        /\ l.out.st = "wait" => l.data = <<>>
    BY DEF Transfers, Sockets
  <1>3. ASSUME NEW st \in Gone, l.in.st = "open", link' = [link EXCEPT ![p] = CloseIn(l, st)]
        PROVE  Prefix' /\ Transfers'
    <2>1. CloseIn(l, st) \in Link
      BY <1>1, CloseTypes
    <2>2. /\ CloseIn(l, st).by = l.by /\ CloseIn(l, st).out = l.out
          /\ CloseIn(l, st).in.st = st /\ CloseIn(l, st).data = <<>>
      BY <1>1 DEF CloseIn, InIs, Link
    <2> QED BY <1>3, <2>1, <2>2, NarrowOne DEF Gone, Live
  <1>4. ASSUME NEW st \in Gone, Live(l), link' = [link EXCEPT ![p] = CloseOut(l, st)]
        PROVE  Prefix' /\ Transfers'
    <2>1. CloseOut(l, st) \in Link
      BY <1>1, CloseTypes
    <2>2. Goes(l, CloseOut(l, st), Have)
      BY <1>1, <1>2, CloseOutGoes
    <2> QED BY <1>4, <2>1, <2>2, NarrowOne DEF Goes
  <1>5. CASE Break(p)
    <2> DEFINE r == [l EXCEPT !.broken = TRUE, !.data = <<>>, !.acks = <<>>]
    <2>1. link' = [link EXCEPT ![p] = r] /\ l.in.st = "open" /\ Live(l)
      BY <1>5 DEF Break, TypeOK, Live
    <2>2. r \in Link
      BY <2>1 DEF TypeOK
    <2>3. r.by = l.by /\ r.in = l.in /\ r.out = l.out /\ r.broken /\ r.data = <<>>
      BY <1>1 DEF Link
    <2>4. Have + Len(r.data) <= Size
      BY <1>1, <2>3 DEF Prefix
    <2>5. Flow(r, Have)
      BY <1>2, <2>1, <2>3, <2>4 DEF Flow
    <2> HIDE DEF r
    <2> QED BY <2>1, <2>2, <2>3, <2>5, NarrowOne DEF Live
  <1> QED BY <1>3, <1>4, <1>5

(* The receiver appends what it reads to its file.  No other connection has been asked
   to resume, since one that has agrees that there is no receiver. *)
LEMMA ReadInv ==
  ASSUME TypeOK, TypeOK', Prefix, Transfers, NEW p \in Port, link[p].in.st = "open",
         UNCHANGED <<kind, used, pending, wire>>,
         NEW k \in 1..Len(link[p].data),
         link' = [link EXCEPT ![p] = start_dcc_get(link[p], k)],
         file' = [file EXCEPT !.data = @ \o SubSeq(link[p].data, 1, k)]
  PROVE  Prefix' /\ Transfers'
  <1> DEFINE l == link[p]
             r == start_dcc_get(l, k)
             d == l.data
  <1>1. /\ l \in Link /\ r \in Link /\ Have \in Nat /\ Size \in Nat
        /\ d \in Seq(1..Size) /\ Len(d) \in Nat /\ k \in Nat /\ k <= Len(d) /\ k \in 1..Len(d)
        /\ file.data \in Seq(1..Size) /\ Len(file.data) = Have
    <2>1. l \in Link
      BY DEF TypeOK
    <2>2. r \in Link
      BY <2>1, ReceiverType
    <2>3. d \in Seq(1..Size) /\ Len(d) \in Nat
      BY <2>1 DEF Link
    <2>4. Have \in Nat /\ file.data \in Seq(1..Size) /\ Len(file.data) = Have
      BY DEF TypeOK, Have
    <2>5. k \in Nat /\ k <= Len(d) /\ k \in 1..Len(d)
      BY <2>3
    <2> HIDE DEF r, d, l
    <2> QED BY <2>1, <2>2, <2>3, <2>4, <2>5, DccAssumption
  <1>2. /\ link'[p] = r /\ \A q \in Port : q # p => link'[q] = link[q]
        /\ file'.data = file.data \o SubSeq(d, 1, k)
    BY DEF TypeOK
  <1>3. /\ Have + Len(d) <= Size
        /\ \A i \in 1..Len(d) : d[i] = Have + i
        /\ l.out.st = "open" /\ ~l.broken => l.out.pos = Have + Len(d)
        /\ l.out.st # "wait" /\ l.by = "a"
    <2>1. Flow(l, Have) /\ l.by = "a"
      BY DEF Transfers, Sockets
    <2>2. l.out.st # "wait"
      <3> SUFFICES ASSUME l.out.st = "wait" PROVE FALSE
        OBVIOUS
      <3>1. l.data = <<>>
        BY DEF Transfers, Sockets
      <3> QED BY <1>1, <3>1
    <2> QED BY <2>1, <2>2 DEF Flow
  <1> HIDE DEF r, d
  <1>4. /\ r.by = l.by /\ r.out = l.out /\ r.broken = l.broken
        /\ r.in.st \in {"open"} \cup Gone
        /\ r.in.st = "open" => r.data = SubSeq(d, k + 1, Len(d))
    <2> DEFINE in == [l.in EXCEPT !.bytes_read = @ + k]
               a == IF l.out.st = "open" THEN Append(l.acks, in.bytes_read) ELSE l.acks
               m == [l EXCEPT !.data = SubSeq(d, k + 1, Len(d)), !.in = in, !.acks = a]
    <2>1. r = m \/ r = CloseIn(m, "lost") \/ r = CloseIn(m, "complete")
      BY DEF start_dcc_get, r, d
    <2>2. in.st = "open"
      BY <1>1 DEF Link, InEnd
    <2> HIDE DEF a, in, l
    <2>3. /\ m.by = l.by /\ m.out = l.out /\ m.broken = l.broken /\ m.in = in
          /\ m.data = SubSeq(d, k + 1, Len(d))
      BY <1>1 DEF Link
    <2>4. \A st \in Gone : /\ CloseIn(m, st).by = l.by /\ CloseIn(m, st).out = l.out
                           /\ CloseIn(m, st).broken = l.broken /\ CloseIn(m, st).in.st = st
      BY <1>1 DEF Link, CloseIn, InIs
    <2> HIDE DEF m
    <2> QED BY <2>1, <2>2, <2>3, <2>4 DEF Gone
  <1>5. /\ Have' = Have + k
        /\ \A i \in 1..Have + k : file'.data[i] = i
    <2> DEFINE u == SubSeq(d, 1, k)
    <2>1. u \in Seq(1..Size) /\ Len(u) = k /\ \A i \in 1..k : u[i] = d[i]
      <3>1. 1 \in Int /\ k \in Int /\ \A i \in 1..k : d[i] \in 1..Size
        BY <1>1, SMTT(30)
      <3>2. /\ u \in Seq(1..Size) /\ Len(u) = IF 1 <= k THEN k - 1 + 1 ELSE 0
            /\ \A i \in 1..(k - 1 + 1) : u[i] = d[1 + i - 1]
        BY <3>1, SubSeqProperties
      <3> QED BY <1>1, <3>2
    <2> HIDE DEF u
    <2>2. /\ Len(file.data \o u) = Len(file.data) + Len(u)
          /\ \A i \in 1..Len(file.data) + Len(u) : (file.data \o u)[i] = IF i <= Len(file.data) THEN file.data[i] ELSE u[i - Len(file.data)]
      BY <1>1, <2>1, ConcatProperties, ZenonT(60)
    <2>3. Have' = Have + k /\ file'.data = file.data \o u
      BY <1>1, <1>2, <2>1, <2>2 DEF Have, u
    <2>4. ASSUME NEW i \in 1..Have + k PROVE file'.data[i] = i
      <3>1. CASE i <= Have
        BY <1>1, <2>1, <2>2, <2>3, <3>1 DEF Prefix
      <3>2. CASE ~(i <= Have)
        <4>1. i - Have \in 1..k /\ i - Have \in 1..Len(d)
          BY <1>1, <3>2, SMTT(30)
        <4>2. file'.data[i] = u[i - Have]
          BY <1>1, <2>1, <2>2, <2>3, <3>2
        <4>3. u[i - Have] = Have + (i - Have)
          BY <1>3, <2>1, <4>1
        <4>4. Have + (i - Have) = i
          BY <1>1
        <4> QED BY <4>2, <4>3, <4>4
      <3> QED BY <3>1, <3>2
    <2> QED BY <2>3, <2>4
  <1>6. Prefix'
    <2>1. Have + k <= Size
      BY <1>1, <1>3
    <2> QED BY <1>5, <2>1 DEF Prefix
  <1>7. r.in.st = "open" => Flow(r, Have + k)
    <2> HAVE r.in.st = "open"
    <2> DEFINE v == SubSeq(d, k + 1, Len(d))
    <2>1. /\ v \in Seq(1..Size) /\ Len(v) = Len(d) - k
          /\ \A i \in 1..Len(v) : k + i \in 1..Len(d) /\ v[i] = d[k + i]
      BY <1>1, Rest
    <2> HIDE DEF v
    <2>2. ASSUME NEW i \in 1..Len(v) PROVE v[i] = (Have + k) + i
      <3>1. v[i] = Have + (k + i)
        BY <1>3, <2>1
      <3>2. Have + (k + i) = (Have + k) + i
        BY <1>1, <2>1
      <3> QED BY <3>1, <3>2
    <2>3. (Have + k) + Len(v) = Have + Len(d)
      BY <1>1, <2>1
    <2> QED BY <1>3, <1>4, <2>2, <2>3 DEF Flow, v
  <1>8. ASSUME NEW q \in Port, link[q].out.st = "wait", link[q].in.st \in {"none", "open"}
        PROVE  /\ q # p /\ link[q].in.st = "none" /\ ~Asked(q)
               /\ \A i \in DOMAIN wire["a"] : wire["a"][i].port # q
    <2>1. q # p
      BY <1>3, <1>8
    <2>2. link[q].in.st = "none"
      BY <1>8, <2>1 DEF Transfers, Sockets
    <2>3. Resume(q)
      BY <1>8 DEF Transfers, Resumes
    <2>4. ~Asked(q)
      BY <2>2, <2>3 DEF Resume, Agreed
    <2> QED BY <2>1, <2>2, <2>4 DEF Asked
  <1>9. Sockets'
    <2>1. ASSUME NEW q \in Port
          PROVE  /\ link'[q].by = link[q].by /\ link'[q].out = link[q].out
                 /\ link'[q].in.st = "open" => q = p /\ Flow(link'[q], Have + k)
                 /\ link'[q].out.st = "wait" => link'[q].data = <<>>
      <3>1. CASE q = p
        BY <1>2, <1>3, <1>4, <1>7, <3>1
      <3>2. CASE q # p
        BY <1>2, <3>2 DEF Transfers, Sockets
      <3> QED BY <3>1, <3>2
    <2>2. \A q \in Port : Flow(link'[q], Have + k) => Flow(link[q], Have)'
      BY <1>5 DEF Flow
    <2> QED BY <2>1, <2>2 DEF Transfers, Sockets, Live
  <1>10. Messages' /\ Order'
    BY DEF Transfers, Messages, Order
  <1>11. Once'
    <2>1. \A q \in Port : link'[q].in.st # "none" => link[q].in.st # "none"
      BY <1>2
    <2> QED BY <2>1 DEF Transfers, Once, Listed, Offered
  <1>12. Resumes'
    <2> SUFFICES ASSUME NEW q \in Port, link'[q].out.st = "wait", link'[q].in.st \in {"none", "open"}
                 PROVE  Resume(q)'
      BY DEF Resumes
    <2>1. q # p /\ link'[q] = link[q]
      BY <1>2, <1>3, <1>4
    <2>2. /\ link[q].in.st = "none" /\ ~Asked(q)
          /\ \A i \in DOMAIN wire["a"] : wire["a"][i].port # q
      BY <1>8, <2>1
    <2>3. ~Asked(q)' /\ link[q].out.byteoffset = 0
      BY <2>1, <2>2 DEF Asked
    <2> QED BY <2>1, <2>2, <2>3 DEF Resume
  <1> QED BY <1>6, <1>9, <1>10, <1>11, <1>12 DEF Transfers

LEMMA EndsInv ==
  ASSUME NoHazards, TypeOK, TypeOK', Prefix, Transfers, kind # "CHAT", NEW p \in Port, Ends(p)
  PROVE  Prefix' /\ Transfers'
  <1>1. CASE Accept(p) \/ SenderReads(p)
    BY <1>1, SenderInv
  <1>2. CASE ReceiverReads(p)
    <2>1. UNCHANGED <<kind, used, pending, wire>> /\ link[p].in.st = "open"
      BY <1>2 DEF ReceiverReads
    <2>2. ASSUME NEW st \in Gone, link' = [link EXCEPT ![p] = CloseIn(link[p], st)], UNCHANGED file
          PROVE  Prefix' /\ Transfers'
      BY <2>1, <2>2, ClosingInv
    <2>3. \/ \E k \in 1..Len(link[p].data) :
                /\ link' = [link EXCEPT ![p] = start_dcc_get(link[p], k)]
                /\ file' = [file EXCEPT !.data = @ \o SubSeq(link[p].data, 1, k)]
          \/ \E st \in Gone : link' = [link EXCEPT ![p] = CloseIn(link[p], st)] /\ UNCHANGED file
      BY <1>2, ReadsWhole DEF Gone
    <2> QED BY <2>1, <2>2, <2>3, ReadInv
  <1>3. CASE WriteFails(p)
    BY <1>3, ClosingInv DEF WriteFails, Gone
  <1>4. CASE ListenTimeout(p)
    BY <1>4, ClosingInv DEF ListenTimeout, Gone, Live
  <1>5. CASE IdleClose(p)
    BY <1>5, ClosingInv DEF IdleClose, Gone, Live
  <1>6. CASE Break(p)
    BY <1>6, ClosingInv DEF Break
  <1> QED BY <1>1, <1>2, <1>3, <1>4, <1>5, <1>6 DEF Ends

-----------------------------------------------------------------------------
(* Messages and offers that are lost or declined *)

LEMMA ErasedNarrow ==
  ASSUME TypeOK, Prefix, Transfers, NEW c \in Client, NEW p \in Port, link'[p] = Erased(link[p], c)
  PROVE  Narrowed(p)
  <1> DEFINE l == link[p]
  <1>1. l \in Link /\ Have \in Nat
    BY HaveType DEF TypeOK
  <1>2. /\ l.in.st = "open" => Flow(l, Have)
        /\ l.out.st = "wait" => l.data = <<>>
    BY DEF Transfers, Sockets
  <1>3. CASE link'[p] = l
    BY <1>3, Staying
  <1>4. CASE link'[p] = CloseOut(l, "lost") /\ Live(l)
    <2>1. Goes(l, CloseOut(l, "lost"), Have)
      BY <1>1, <1>2, CloseOutGoes DEF Gone
    <2> QED BY <1>4, <2>1 DEF Goes, Narrowed
  <1>5. CASE link'[p] = CloseIn(l, "lost") /\ l.in.st = "open"
    <2>1. /\ CloseIn(l, "lost").by = l.by /\ CloseIn(l, "lost").out = l.out
          /\ CloseIn(l, "lost").in.st = "lost" /\ CloseIn(l, "lost").data = <<>>
      BY <1>1 DEF CloseIn, InIs, Link
    <2> QED BY <1>5, <2>1 DEF Narrowed, Live
  <1> QED BY <1>3, <1>4, <1>5 DEF Erased, Live

LEMMA LosingInv ==
  ASSUME TypeOK, TypeOK', Prefix, Transfers, NEW c \in Client,
         Lose(c) \/ dcc_reject(c) \/ PendingTimeout(c) \/ dcc_close(c)
  PROVE  Prefix' /\ Transfers'
  <1>1. "a" \in Client /\ "b" \in Client /\ UNCHANGED <<kind, used, file>>
    BY DEF Client, Lose, dcc_reject, PendingTimeout, dcc_close
  <1>2. /\ wire \in [Client -> Seq(Message)] /\ pending \in [Client -> Seq(Pending)]
        /\ link \in [Port -> Link]
    BY DEF TypeOK, Pending
  <1>3. Sub(wire'["a"], wire["a"]) /\ Sub(wire'["b"], wire["b"])
    <2>1. CASE Lose(c)
      BY <1>1, <1>2, <2>1, WireSub DEF Lose, Received
    <2>2. CASE UNCHANGED wire
      BY <1>1, <2>2, WireSub
    <2> QED BY <2>1, <2>2 DEF dcc_reject, PendingTimeout, dcc_close
  <1>4. Sub(pending'["b"], pending["b"])
    <2>1. CASE UNCHANGED pending
      BY <1>1, <2>1, WireSub
    <2>2. CASE pending' = [pending EXCEPT ![c] = IF @ = <<>> THEN @ ELSE Tail(@)]
      BY <1>1, <1>2, <2>2, WireSub
    <2>3. CASE \E i \in DOMAIN pending[c] : pending' = [pending EXCEPT ![c] = RemoveAt(@, i)]
      BY <1>1, <1>2, <2>3, WireSub
    <2>4. CASE pending' = [pending EXCEPT ![c] = <<>>]
      BY <1>1, <1>2, <2>4, WireSub
    <2> QED BY <2>1, <2>2, <2>3, <2>4 DEF Lose, dcc_reject, PendingTimeout, dcc_close
  <1>5. \A p \in Port : link'[p] = link[p] \/ link'[p] = Erased(link[p], c)
    BY <1>2 DEF Lose, dcc_reject, PendingTimeout, dcc_close
  <1>6. \A p \in Port : Narrowed(p)
    BY <1>5, Staying, ErasedNarrow
  <1> QED BY <1>1, <1>3, <1>4, <1>6, Narrowing

-----------------------------------------------------------------------------
(* Connections are made *)

(* an offer that is taken from the list is nowhere else *)
LEMMA Taken ==
  ASSUME TypeOK, Transfers, pending["b"] # <<>>, pending' = [pending EXCEPT !["b"] = Tail(@)],
         NEW p \in Port, p = Head(pending["b"]).port, Sub(wire'["b"], wire["b"])
  PROVE  ~Listed(p)' /\ ~Offered(p)'
  <1> DEFINE s == pending["b"]
  <1>1. s \in Seq(Pending) /\ pending'["b"] = Tail(s)
    BY DEF TypeOK, Pending, Client
  <1>2. /\ Len(s) \in Nat /\ 1 \in DOMAIN s /\ s[1] = Head(s)
        /\ DOMAIN Tail(s) = 1..(Len(s) - 1)
        /\ \A i \in DOMAIN Tail(s) : Tail(s)[i] = s[i + 1] /\ i + 1 \in DOMAIN s /\ i + 1 # 1
    BY <1>1
  <1>3. Listed(p)
    BY <1>2 DEF Listed
  <1>4. ~Listed(p)'
    <2>1. \A i \in DOMAIN s : s[i].port = p => i = 1
      BY <1>2 DEF Transfers, Once
    <2> HIDE DEF s
    <2>2. \A i \in DOMAIN Tail(s) : Tail(s)[i].port # p
      BY <1>2, <2>1
    <2> QED BY <1>1, <2>2 DEF Listed
  <1>5. ~Offered(p)
    BY <1>3 DEF Transfers, Once
  <1>6. ~Offered(p)'
    BY <1>5 DEF Offered, Sub
  <1> QED BY <1>4, <1>6

(* the receiver's file is `start' when the connection is made *)
LEMMA JoinInv ==
  ASSUME TypeOK, TypeOK', Prefix, Transfers, UNCHANGED <<kind, used>>,
         NEW offset, NEW start, NEW p,
         wire'["a"] = wire["a"], Sub(wire'["b"], wire["b"]), Sub(pending'["b"], pending["b"]),
         \/ ConnectTo(p, offset) /\ file' = start
         \/ UNCHANGED link /\ file'.data = file.data /\ (file.there => file'.there),
         p \in Port => ~Listed(p)' /\ ~Offered(p)',
         p \in Port /\ link[p].out.st = "wait" /\ link[p].in.st = "none" =>
            /\ start.there
            /\ Len(start.data) \in Nat /\ Len(start.data) <= Size
            /\ \A i \in 1..Len(start.data) : start.data[i] = i
            /\ IF kind = "RESEND" THEN offset = Len(start.data)
                                  ELSE link[p].out.byteoffset = Len(start.data)
            /\ \A i \in DOMAIN wire["a"] : wire["a"][i].port = p => wire["a"][i].offset = Len(start.data)
            /\ link[p].out.byteoffset \in {0, Len(start.data)}
            /\ \A q \in Port : link[q].in.st # "open"
  PROVE  Prefix' /\ Transfers'
  <1> DEFINE n == Len(start.data)
             new == [st |-> "open", byteoffset |-> offset, bytes_read |-> 0]
  <1>2. /\ "a" \in Client /\ "b" \in Client /\ Sub(wire'["a"], wire["a"])
    <2>1. "a" \in Client /\ "b" \in Client
      BY DEF Client
    <2> QED BY <2>1, WireSub
  <1>3. CASE UNCHANGED link /\ file'.data = file.data /\ (file.there => file'.there)
    BY <1>2, <1>3, Staying, Narrowing
  <1>4. CASE /\ p \in Port /\ link[p].out.st = "wait" /\ link[p].in.st = "none"
             /\ link' = [link EXCEPT ![p].in = new]
             /\ file' = start
    <2>1. /\ link'[p].by = link[p].by /\ link'[p].out = link[p].out /\ link'[p].in = new
          /\ link'[p].data = link[p].data /\ \A q \in Port : q # p => link'[q] = link[q]
      <3>1. link[p] \in Link
        BY <1>4 DEF TypeOK
      <3> HIDE DEF new
      <3> QED BY <1>4, <3>1 DEF TypeOK, Link
    <2>2. link[p].data = <<>> /\ p = used
      BY <1>4 DEF Transfers, Sockets, Live
    <2>3. Have' = n /\ Prefix' /\ file'.there
      BY <1>4 DEF Have, Prefix
    <2>4. Flow(link'[p], n)
      <3>1. Len(link'[p].data) = 0 /\ link'[p].in.byteoffset = offset
        BY <2>1, <2>2
      <3>2. n \in Nat /\ n <= Size /\ link'[p].out.st = "wait"
        BY <1>4, <2>1
      <3>3. IF kind = "RESEND" THEN link'[p].in.byteoffset = n ELSE link'[p].out.byteoffset = n
        BY <1>4, <2>1, <3>1
      <3>4. n + Len(link'[p].data) <= Size /\ 1..Len(link'[p].data) = {}
        BY <3>1, <3>2, DccAssumption
      <3> QED BY <3>2, <3>3, <3>4 DEF Flow
    <2>5. Sockets'
      <3>1. ASSUME NEW q \in Port
            PROVE  /\ link'[q].by = "a" /\ link'[q].out = link[q].out /\ link'[q].data = link[q].data
                   /\ link'[q].in.st = "open" => q = p
        BY <1>4, <2>1 DEF Transfers, Sockets
      <3>2. Flow(link'[p], n) => Flow(link[p], Have)'
        BY <2>3 DEF Flow
      <3> HIDE DEF n
      <3> QED BY <2>3, <2>4, <3>1, <3>2, ZenonT(60) DEF Transfers, Sockets, Live
    <2>6. ~Listed(p)' /\ ~Offered(p)'
      BY <1>4
    <2>7. \A q \in Port : link'[q].in.st # "none" =>
                            link[q].in.st # "none" \/ (~Listed(q)' /\ ~Offered(q)')
      BY <2>1, <2>6
    <2>8. Messages' /\ Once' /\ Order'
      BY <1>2, <2>7, Fewer
    <2>9. Resumes'
      <3> SUFFICES ASSUME NEW q \in Port, link'[q].out.st = "wait", link'[q].in.st \in {"none", "open"}
                   PROVE  Resume(q)'
        BY DEF Resumes
      <3>1. q = p
        BY <1>4, <2>1, <2>2 DEF Transfers, Sockets, Live
      <3>2. link'[q].in.st = "open"
        BY <2>1, <3>1
      <3> HIDE DEF n
      <3> QED BY <1>4, <2>1, <2>3, <3>1, <3>2, ZenonT(60) DEF Resume, n
    <2> QED BY <2>3, <2>5, <2>8, <2>9 DEF Transfers
  <1> QED BY <1>3, <1>4 DEF ConnectTo

LEMMA ConnectInv ==
  ASSUME TypeOK, TypeOK', Prefix, Transfers, kind' = kind,
         NEW offset, NEW start, pending["b"] # <<>>, Connect("b", offset, start),
         wire'["a"] = wire["a"], Sub(wire'["b"], wire["b"]),
         NEW p, p = Head(pending["b"]).port,
         p \in Port /\ link[p].out.st = "wait" /\ link[p].in.st = "none" =>
            /\ start.there
            /\ Len(start.data) \in Nat /\ Len(start.data) <= Size
            /\ \A i \in 1..Len(start.data) : start.data[i] = i
            /\ IF kind = "RESEND" THEN offset = Len(start.data)
                                  ELSE link[p].out.byteoffset = Len(start.data)
            /\ \A i \in DOMAIN wire["a"] : wire["a"][i].port = p => wire["a"][i].offset = Len(start.data)
            /\ link[p].out.byteoffset \in {0, Len(start.data)}
            /\ \A q \in Port : link[q].in.st # "open"
  PROVE  Prefix' /\ Transfers'
  <1>1. /\ pending' = [pending EXCEPT !["b"] = Tail(@)] /\ UNCHANGED used
        /\ \/ ConnectTo(p, offset) /\ file' = start
           \/ UNCHANGED <<link, file>>
    BY DEF Connect
  <1>2. Sub(pending'["b"], pending["b"])
    <2>1. "b" \in Client /\ pending'["b"] = Tail(pending["b"])
      BY <1>1 DEF Client, TypeOK
    <2> QED BY <2>1, WireSub
  <1>3. p \in Port => ~Listed(p)' /\ ~Offered(p)'
    BY <1>1, Taken
  <1> QED BY <1>1, <1>2, <1>3, JoinInv

(* /DCC GET: an offer that was not asked to be resumed is sent from its beginning *)
LEMMA GetInv ==
  ASSUME NoHazards, TypeOK, TypeOK', Prefix, Transfers, Get
  PROVE  Prefix' /\ Transfers'
  <1> DEFINE start == [there |-> TRUE, data |-> <<>>]
  <1>1. PICK p : p = Head(pending["b"]).port
    OBVIOUS
  <1>2. /\ Connect("b", Head(pending["b"]).byteoffset, start) /\ pending["b"] # <<>>
        /\ UNCHANGED <<kind, wire>> /\ kind # "RESEND" /\ find_dcc("b") = {}
        /\ \A i \in DOMAIN pending["b"] : pending["b"][i].byteoffset = 0
    BY DEF Get, NoHazards
  <1>3. Sub(wire'["b"], wire["b"])
    BY <1>2, WireSub DEF Client
  <1>4. ASSUME p \in Port, link[p].out.st = "wait", link[p].in.st = "none"
        PROVE  /\ link[p].out.byteoffset = 0
               /\ \A i \in DOMAIN wire["a"] : wire["a"][i].port = p => wire["a"][i].offset = 0
    <2>1. Resume(p)
      BY <1>4 DEF Transfers, Resumes
    <2>2. 1 \in DOMAIN pending["b"] /\ pending["b"][1].port = p /\ pending["b"][1].byteoffset = 0
      BY <1>1, <1>2 DEF TypeOK, Client
    <2>3. Asked(p) => Have = 0
      BY <1>4, <2>1, <2>2 DEF Resume, Agreed
    <2> QED BY <2>1, <2>3 DEF Resume, Asked
  <1>5. \A q \in Port : link[q].in.st # "open"
    BY <1>2 DEF find_dcc, Active, Transfers, Sockets
  <1>6. start.there /\ Len(start.data) = 0 /\ 0 <= Size /\ 1..0 = {}
    BY DccAssumption
  <1> HIDE DEF start
  <1> QED BY <1>1, <1>2, <1>3, <1>4, <1>5, <1>6, ConnectInv

(* /DCC REGET: the first packet tells the sender where the file ends *)
LEMMA ReGetInv ==
  ASSUME TypeOK, TypeOK', Prefix, Transfers, ReGet
  PROVE  Prefix' /\ Transfers'
  <1> DEFINE start == [file EXCEPT !.there = TRUE]
  <1>1. PICK p : p = Head(pending["b"]).port
    OBVIOUS
  <1>2. /\ Connect("b", Len(file.data), start) /\ pending["b"] # <<>>
        /\ UNCHANGED <<kind, wire>> /\ kind = "RESEND" /\ find_dcc("b") = {}
    BY DEF ReGet
  <1>3. Sub(wire'["b"], wire["b"])
    BY <1>2, WireSub DEF Client
  <1>4. start.data = file.data /\ start.there
    BY DEF TypeOK
  <1>5. ASSUME p \in Port, link[p].out.st = "wait", link[p].in.st = "none"
        PROVE  /\ link[p].out.byteoffset \in {0, Have}
               /\ \A i \in DOMAIN wire["a"] : wire["a"][i].port = p => wire["a"][i].offset = Have
    BY <1>5 DEF Transfers, Resumes, Resume
  <1>6. \A q \in Port : link[q].in.st # "open"
    BY <1>2 DEF find_dcc, Active, Transfers, Sockets
  <1>7. Have \in Nat /\ Have = Len(file.data)
    BY HaveType DEF Have
  <1> HIDE DEF start
  <1> QED BY <1>1, <1>2, <1>3, <1>4, <1>5, <1>6, <1>7, ConnectInv DEF Prefix

(* The answer to a request to resume: an older offer is not connected to *)
LEMMA AcceptInv ==
  ASSUME TypeOK, TypeOK', Prefix, Transfers, AcceptArrives("b"), UNCHANGED kind,
         wire["b"] # <<>>, Head(wire["b"]).op = "ACCEPT"
  PROVE  Prefix' /\ Transfers'
  <1>1. PICK p : p = Head(pending["b"]).port
    OBVIOUS
  <1>2. /\ "a" \in Client /\ "b" \in Client
        /\ wire'["a"] = wire["a"] /\ wire'["b"] = Tail(wire["b"])
        /\ Sub(wire'["a"], wire["a"]) /\ Sub(wire'["b"], wire["b"])
    <2>1. "a" \in Client /\ "b" \in Client /\ "a" # "b"
      BY DEF Client
    <2>2. wire'["a"] = wire["a"] /\ wire'["b"] = Tail(wire["b"])
      BY <2>1 DEF AcceptArrives, Received, TypeOK
    <2> QED BY <2>1, <2>2, WireSub
  <1>3. CASE UNCHANGED <<used, link, pending, file>>
    BY <1>2, <1>3, Staying, WireSub, Narrowing
  <1>4. CASE /\ pending["b"] # <<>> /\ find_dcc("b") = {} /\ file.there
             /\ Connect("b", Head(pending["b"]).byteoffset, file)
    <2>1. ASSUME p \in Port, link[p].out.st = "wait", link[p].in.st = "none"
          PROVE  /\ link[p].out.byteoffset = Have
                 /\ \A i \in DOMAIN wire["a"] : wire["a"][i].port = p => wire["a"][i].offset = Have
                 /\ kind # "RESEND"
      <3>1. 1 \in DOMAIN wire["b"] /\ wire["b"][1].op = "ACCEPT" /\ wire["b"][1].port \in 0..MaxPort
        <4>1. wire["b"] \in Seq(Message)
          BY <1>2 DEF TypeOK
        <4>2. 1 \in DOMAIN wire["b"] /\ wire["b"][1] = Head(wire["b"]) /\ wire["b"][1] \in Message
          BY <4>1
        <4> QED BY <4>2 DEF Message
      <3>2. 1 \in DOMAIN pending["b"] /\ pending["b"][1].port = p
        BY <1>1, <1>2, <1>4 DEF TypeOK
      <3>3. p <= wire["b"][1].port /\ wire["b"][1].port <= used /\ kind # "RESEND"
        BY <3>1, <3>2 DEF Transfers, Order, Messages
      <3>4. p = used /\ p \in Int
        BY <2>1 DEF Transfers, Sockets, Live, Port
      <3>5. wire["b"][1].port = p
        BY <3>1, <3>3, <3>4
      <3>6. Is(wire["b"][1], "ACCEPT", p)
        BY <3>1, <3>5 DEF Is
      <3>7. Resume(p) /\ Asked(p)
        BY <2>1, <3>1, <3>6 DEF Transfers, Resumes, Asked
      <3> QED BY <2>1, <3>1, <3>3, <3>6, <3>7 DEF Resume, Agreed
    <2>2. \A q \in Port : link[q].in.st # "open"
      BY <1>4 DEF find_dcc, Active, Transfers, Sockets
    <2>3. Have \in Nat /\ Have = Len(file.data)
      BY HaveType DEF Have
    <2> QED BY <1>1, <1>2, <1>4, <2>1, <2>2, <2>3, ConnectInv DEF Prefix
  <1>5. CASE /\ pending["b"] # <<>> /\ pending' = [pending EXCEPT !["b"] = Tail(@)]
             /\ \/ /\ p \in Port /\ link[p].out.st = "wait" /\ link[p].in.st = "none"
                   /\ link' = [link EXCEPT ![p].in.st = "lost"]
                \/ UNCHANGED link
             /\ UNCHANGED <<used, file>>
    <2>1. Sub(pending'["b"], pending["b"])
      <3>1. pending'["b"] = Tail(pending["b"])
        BY <1>2, <1>5 DEF TypeOK
      <3> QED BY <1>2, <1>5, <3>1, WireSub
    <2>2. CASE UNCHANGED link
      BY <1>2, <1>5, <2>1, <2>2, Staying, Narrowing
    <2>3. CASE /\ p \in Port /\ link[p].out.st = "wait" /\ link[p].in.st = "none"
               /\ link' = [link EXCEPT ![p].in.st = "lost"]
      <3>1. /\ link'[p].by = link[p].by /\ link'[p].out = link[p].out /\ link'[p].in.st = "lost"
            /\ link'[p].data = link[p].data /\ \A q \in Port : q # p => link'[q] = link[q]
        <4>1. link[p] \in Link
          BY <2>3 DEF TypeOK
        <4>2. link[p].in \in InEnd
          BY <4>1 DEF Link
        <4> QED BY <2>3, <4>1, <4>2 DEF TypeOK, Link, InEnd
      <3>2. ~Listed(p)' /\ ~Offered(p)'
        BY <1>1, <1>2, <1>5, <2>3, Taken
      <3>3. link[p].data = <<>>
        BY <2>3 DEF Transfers, Sockets
      <3>4. Narrowed(p)
        BY <2>3, <3>1, <3>2, <3>3 DEF Narrowed, Live
      <3>5. \A q \in Port : Narrowed(q)
        BY <3>1, <3>4, Staying
      <3> QED BY <1>2, <1>5, <2>1, <3>5, Narrowing
    <2> QED BY <1>5, <2>2, <2>3
  <1> QED BY <1>1, <1>3, <1>4, <1>5 DEF AcceptArrives

-----------------------------------------------------------------------------
(* Messages that are sent, and offers that arrive *)

LEMMA SeqFacts ==
  ASSUME NEW S, NEW s \in Seq(S), NEW e \in S
  PROVE  /\ DOMAIN s = 1..Len(s) /\ Len(s) \in Nat
         /\ DOMAIN Append(s, e) = 1..(Len(s) + 1)
         /\ \A i \in 1..Len(s) : Append(s, e)[i] = s[i]
         /\ Append(s, e)[Len(s) + 1] = e
         /\ DOMAIN (<<e>> \o s) = 1..(Len(s) + 1)
         /\ (<<e>> \o s)[1] = e
         /\ \A i \in 2..(Len(s) + 1) : (<<e>> \o s)[i] = s[i - 1]
         /\ s # <<>> => /\ DOMAIN Tail(s) = 1..(Len(s) - 1) /\ 1 \in DOMAIN s /\ s[1] = Head(s)
                        /\ \A i \in 1..(Len(s) - 1) : Tail(s)[i] = s[i + 1]
  OBVIOUS

LEMMA Sent ==
  ASSUME NEW w \in Seq(Message), NEW x \in Message
  PROVE  /\ \A i \in DOMAIN Append(w, x) : \/ i \in DOMAIN w /\ Append(w, x)[i] = w[i]
                                           \/ i = Len(w) + 1 /\ Append(w, x)[i] = x
         /\ \A i \in DOMAIN w : /\ i \in DOMAIN Append(w, x) /\ Append(w, x)[i] = w[i]
                                /\ i \in Int /\ i < Len(w) + 1
         /\ Len(w) + 1 \in DOMAIN Append(w, x) /\ Append(w, x)[Len(w) + 1] = x /\ Len(w) \in Nat
         /\ DOMAIN Append(w, x) \subseteq Int
  OBVIOUS

(* register_dcc_type(): an offer becomes an entry of the list.  It has not been asked
   to be resumed, since it was still on its way; with DCC_AUTORESUME (`again') it is now. *)
LEMMA PushInv ==
  ASSUME TypeOK, TypeOK', Prefix, Transfers, UNCHANGED <<kind, used, link, file>>,
         wire["b"] # <<>>, NEW m, m = Head(wire["b"]), m.op = "OFFER",
         NEW again \in BOOLEAN,
         again => kind # "RESEND" /\ \A q \in Port : link[q].in.st # "open",
         wire' = IF again
                 THEN [Received("b") EXCEPT !["a"] =
                         Append(@, [op |-> "RESUME", port |-> m.port, offset |-> Len(file.data)])]
                 ELSE Received("b"),
         pending' = [pending EXCEPT !["b"] =
                       <<[port |-> m.port, byteoffset |-> IF again THEN Len(file.data) ELSE 0]>> \o @]
  PROVE  Prefix' /\ Transfers'
  <1> DEFINE e == [port |-> m.port, byteoffset |-> IF again THEN Len(file.data) ELSE 0]
             x == [op |-> "RESUME", port |-> m.port, offset |-> Len(file.data)]
             s == pending["b"]
             w == wire["b"]
             t == pending'["b"]
             v == wire'["b"]
             y == wire["a"]
             z == wire'["a"]
  <1>0. Have \in Nat /\ Have = Len(file.data)
    BY HaveType DEF Have
  <1>1. /\ "a" \in Client /\ "b" \in Client
        /\ y \in Seq(Message) /\ x \in Message /\ (again => z = Append(y, x)) /\ (~again => z = y)
        /\ w \in Seq(Message) /\ m \in Message /\ v = Tail(w) /\ e \in Pending
        /\ s \in Seq(Pending) /\ t = <<e>> \o s
    <2>1. "a" \in Client /\ "b" \in Client /\ "a" # "b"
      BY DEF Client
    <2>2. w \in Seq(Message) /\ m \in Message
      BY <2>1, WireTypes DEF TypeOK
    <2>3. (again => z = Append(y, x)) /\ (~again => z = y) /\ v = Tail(w)
      BY <2>1 DEF Received, TypeOK
    <2>4. e \in Pending /\ x \in Message
      BY <1>0, <2>2 DEF Message, Pending
    <2>5. s \in Seq(Pending)
      BY <2>1 DEF TypeOK, Pending
    <2>6. t = <<e>> \o s
      BY <2>1 DEF TypeOK
    <2>7. y \in Seq(Message)
      BY <2>1 DEF TypeOK
    <2> HIDE DEF w, v, s, t, e, x, y, z
    <2> QED BY <2>1, <2>2, <2>3, <2>4, <2>5, <2>6, <2>7
  <1>2. /\ DOMAIN w = 1..Len(w) /\ Len(w) \in Nat /\ 1 \in DOMAIN w /\ w[1] = m
        /\ DOMAIN v = 1..(Len(w) - 1) /\ \A i \in 1..(Len(w) - 1) : v[i] = w[i + 1]
    <2> HIDE DEF w, v
    <2>1. w # <<>>
      BY DEF w
    <2>2. m = Head(w)
      BY DEF w
    <2> QED BY <1>1, <2>1, <2>2, SeqFacts
  <1>3. /\ DOMAIN s = 1..Len(s) /\ Len(s) \in Nat /\ DOMAIN t = 1..(Len(s) + 1)
        /\ t[1] = e /\ \A i \in 2..(Len(s) + 1) : t[i] = s[i - 1]
    <2> HIDE DEF s, t, e
    <2> QED BY <1>1, SeqFacts
  <1>4. /\ \A i \in DOMAIN v : i + 1 \in DOMAIN w /\ v[i] = w[i + 1]
        /\ \A i \in DOMAIN t : \/ i = 1 /\ t[i] = e
                               \/ i > 1 /\ i - 1 \in DOMAIN s /\ t[i] = s[i - 1]
    <2> HIDE DEF w, v, s, t, e
    <2>1. ASSUME NEW i \in DOMAIN v PROVE i + 1 \in DOMAIN w /\ v[i] = w[i + 1]
      BY <1>2
    <2>2. ASSUME NEW i \in DOMAIN t, i # 1 PROVE i > 1 /\ i - 1 \in DOMAIN s /\ t[i] = s[i - 1]
      <3>1. i \in 2..(Len(s) + 1)
        BY <1>3, <2>2
      <3> QED BY <1>3, <3>1
    <2>3. \A i \in DOMAIN t : \/ i = 1 /\ t[i] = e
                              \/ i > 1 /\ i - 1 \in DOMAIN s /\ t[i] = s[i - 1]
      <3> TAKE i \in DOMAIN t
      <3>1. CASE i = 1
        BY <1>3, <3>1
      <3>2. CASE i # 1
        BY <2>2, <3>2
      <3> QED BY <3>1, <3>2
    <2> QED BY <2>1, <2>3
  <1>5. /\ m.port \in Int /\ e.port = m.port /\ e.byteoffset = IF again THEN Have ELSE 0
        /\ x.op = "RESUME" /\ x.port = m.port /\ x.offset = Have
    BY <1>0, <1>1 DEF Message
  <1>6. Have' = Have /\ Prefix' /\ Sockets'
    BY DEF Have, Prefix, Transfers, Sockets, Flow, Live
  <1> HIDE DEF w, v, s, t, e, x, y, z
  <1>11. \A i \in DOMAIN z : \/ i \in DOMAIN y /\ z[i] = y[i]
                             \/ again /\ z[i] = x
    <2>1. \A i \in DOMAIN Append(y, x) : \/ i \in DOMAIN y /\ Append(y, x)[i] = y[i]
                                         \/ i = Len(y) + 1 /\ Append(y, x)[i] = x
      BY <1>1, Sent
    <2>2. CASE again
      BY <1>1, <2>1, <2>2
    <2>3. CASE ~again
      BY <1>1, <2>3
    <2> QED BY <2>2, <2>3
  <1>7. Messages'
    <2>1. m.port <= used
      BY <1>2 DEF Transfers, Messages, w
    <2>2. \A i \in DOMAIN v : \/ v[i].op = "OFFER" /\ v[i].port <= used
                              \/ v[i].op = "ACCEPT" /\ kind # "RESEND" /\ v[i].port <= used
      BY <1>4 DEF Transfers, Messages, w
    <2>3. \A i \in DOMAIN t : t[i].port <= used
      BY <1>4, <1>5, <2>1 DEF Transfers, Messages, s
    <2>4. \A i \in DOMAIN z : z[i].op = "RESUME" /\ kind # "RESEND" /\ z[i].port <= used
      BY <1>5, <1>11, <2>1 DEF Transfers, Messages, y
    <2> QED BY <2>2, <2>3, <2>4 DEF Messages, v, t, z
  <1>8. Once'
    <2> SUFFICES ASSUME NEW p \in Port
                 PROVE  /\ \A i, j \in DOMAIN t : t[i].port = p /\ t[j].port = p => i = j
                        /\ \A i, j \in DOMAIN v : Is(v[i], "OFFER", p) /\ Is(v[j], "OFFER", p) => i = j
                        /\ ~(Listed(p)' /\ Offered(p)')
                        /\ link'[p].in.st # "none" => ~Listed(p)' /\ ~Offered(p)'
      BY DEF Once, t, v
    <2>1. /\ \A i, j \in DOMAIN s : s[i].port = p /\ s[j].port = p => i = j
          /\ \A i, j \in DOMAIN w : Is(w[i], "OFFER", p) /\ Is(w[j], "OFFER", p) => i = j
          /\ ~(Listed(p) /\ Offered(p))
          /\ link[p].in.st # "none" => ~Listed(p) /\ ~Offered(p)
      BY DEF Transfers, Once, s, w
    <2>2. /\ Listed(p) <=> \E i \in DOMAIN s : s[i].port = p
          /\ Offered(p) <=> \E i \in DOMAIN w : Is(w[i], "OFFER", p)
          /\ Listed(p)' <=> \E i \in DOMAIN t : t[i].port = p
          /\ Offered(p)' <=> \E i \in DOMAIN v : Is(v[i], "OFFER", p)
      BY DEF Listed, Offered, s, w, t, v
    <2>3. m.port = p => Offered(p) /\ ~Listed(p) /\ ~Offered(p)'
      <3> HAVE m.port = p
      <3>1. Is(w[1], "OFFER", p)
        BY <1>2 DEF Is
      <3>2. \A i \in DOMAIN v : i + 1 # 1
        BY <1>2
      <3> QED BY <1>2, <1>4, <2>1, <2>2, <3>1, <3>2
    <2>4. Offered(p)' => Offered(p)
      BY <1>4, <2>2
    <2>5. Listed(p)' => Listed(p) \/ m.port = p
      BY <1>4, <1>5, <2>2
    <2>6. ASSUME NEW i \in DOMAIN t, NEW j \in DOMAIN t, t[i].port = p, t[j].port = p PROVE i = j
      <3>1. CASE m.port = p
        BY <1>4, <2>2, <2>3, <2>6, <3>1
      <3>2. CASE m.port # p
        <4>1. i - 1 \in DOMAIN s /\ j - 1 \in DOMAIN s /\ s[i - 1].port = p /\ s[j - 1].port = p
          BY <1>4, <1>5, <2>6, <3>2
        <4>2. i - 1 = j - 1 /\ i \in Int /\ j \in Int
          BY <1>3, <2>1, <4>1
        <4> QED BY <4>2
      <3> QED BY <3>1, <3>2
    <2>7. ASSUME NEW i \in DOMAIN v, NEW j \in DOMAIN v, Is(v[i], "OFFER", p), Is(v[j], "OFFER", p) PROVE i = j
      <3>1. i + 1 = j + 1 /\ i \in Int /\ j \in Int
        BY <1>2, <1>4, <2>1, <2>7
      <3> QED BY <3>1
    <2> QED BY <2>1, <2>3, <2>4, <2>5, <2>6, <2>7
  <1>9. Order'
    <2>1. /\ \A i, j \in DOMAIN w : i < j /\ w[i].op = "OFFER" /\ w[j].op = "ACCEPT" => w[i].port <= w[j].port
          /\ \A i \in DOMAIN s, j \in DOMAIN w : w[j].op = "ACCEPT" => s[i].port <= w[j].port
      BY DEF Transfers, Order, s, w
    <2>2. ASSUME NEW i \in DOMAIN v, NEW j \in DOMAIN v, i < j, v[i].op = "OFFER", v[j].op = "ACCEPT"
          PROVE  v[i].port <= v[j].port
      <3>1. i + 1 < j + 1
        BY <1>2, <2>2
      <3> QED BY <1>4, <2>1, <2>2, <3>1
    <2>3. ASSUME NEW i \in DOMAIN t, NEW j \in DOMAIN v, v[j].op = "ACCEPT"
          PROVE  t[i].port <= v[j].port
      <3>1. 1 < j + 1
        BY <1>2
      <3>2. m.port <= v[j].port
        BY <1>2, <1>4, <2>1, <2>3, <3>1
      <3> QED BY <1>4, <1>5, <2>1, <2>3, <3>2
    <2> QED BY <2>2, <2>3 DEF Order, t, v
  <1>10. Resumes'
    <2> SUFFICES ASSUME NEW p \in Port, link[p].out.st = "wait", link[p].in.st \in {"none", "open"}
                 PROVE  Resume(p)'
      BY DEF Resumes
    <2>1. Resume(p)
      BY DEF Transfers, Resumes
    <2>5. \A i \in DOMAIN z : z[i].port = p => z[i].offset = Have
      BY <1>5, <1>11, <2>1 DEF Resume, y
    <2>6. ASSUME again, m.port = p, link[p].in.st = "none" PROVE Agreed(p)'
      <3>1. Is(w[1], "OFFER", p) /\ Offered(p)
        BY <1>2, <2>6 DEF Offered, Is, w
      <3>2. /\ ~Listed(p) /\ ~Asked(p)
            /\ \A i, j \in DOMAIN w : Is(w[i], "OFFER", p) /\ Is(w[j], "OFFER", p) => i = j
        BY <2>1, <2>6, <3>1 DEF Transfers, Once, Resume, Agreed, w
      <3>3. \A i \in DOMAIN v : i + 1 # 1
        BY <1>2
      <3>4. ~Offered(p)'
        BY <1>2, <1>4, <3>1, <3>2, <3>3 DEF Offered, v
      <3>5. \A i \in DOMAIN v : ~Is(v[i], "ACCEPT", p)
        BY <1>4, <3>2 DEF Asked, w
      <3>6. \A i \in DOMAIN t : t[i].port = p => t[i].byteoffset = Have
        BY <1>4, <1>5, <2>6, <3>2 DEF Listed, s
      <3> QED BY <1>6, <2>6, <3>4, <3>5, <3>6 DEF Agreed, v, t
    <2>2. Asked(p)' => Asked(p) \/ (again /\ m.port = p)
      BY <1>4, <1>5, <1>11 DEF Asked, s, w, t, v, y, z
    <2>3. Asked(p) /\ Agreed(p) => m.port # p
      BY <1>2 DEF Agreed, Offered, Is, w
    <2>4. m.port # p /\ Agreed(p) => Agreed(p)'
      <3> HAVE m.port # p /\ Agreed(p)
      <3>1. ~Offered(p)'
        BY <1>4 DEF Agreed, Offered, w, v
      <3>2. \A i \in DOMAIN v : Is(v[i], "ACCEPT", p) => link[p].out.byteoffset = Have
        BY <1>4 DEF Agreed, w
      <3>3. \A i \in DOMAIN t : t[i].port = p => t[i].byteoffset = Have
        BY <1>4, <1>5 DEF Agreed, s
      <3> QED BY <1>6, <3>1, <3>2, <3>3 DEF Agreed, v, t
    <2> QED BY <1>6, <2>1, <2>2, <2>3, <2>4, <2>5, <2>6 DEF Resume, z
  <1> QED BY <1>6, <1>7, <1>8, <1>9, <1>10 DEF Transfers

(* an offer that is repeated names a port that no one listens on, and one that is new
   names the next port *)
LEMMA OfferInv ==
  ASSUME TypeOK, TypeOK', Prefix, Transfers, kind # "CHAT", Offer("a")
  PROVE  Prefix' /\ Transfers'
  <1>1. /\ UNCHANGED <<kind, pending, file>> /\ Other("a") = "b" /\ "a" \in Client /\ "b" \in Client
        /\ \/ Repeat("a") /\ UNCHANGED <<used, link>>
           \/ UNCHANGED <<used, link, wire>>
           \/ Listen("a") /\ find_dcc("a") = {}
    <2>1. Other("a") = "b" /\ "a" \in Client /\ "b" \in Client
      BY DEF Other, Client
    <2> QED BY <2>1 DEF Offer, Listen
  <1>2. CASE UNCHANGED <<used, link, wire>>
    BY <1>1, <1>2, Staying, WireSub, Narrowing
  <1> DEFINE w == wire["b"]
             v == wire'["b"]
  <1>3. w \in Seq(Message) /\ used \in Nat /\ MaxPort \in Nat /\ Have' = Have /\ Prefix'
    BY <1>1, DccAssumption DEF TypeOK, Have, Prefix
  <1>4. ASSUME NEW n \in 0..MaxPort, \/ n = Swapped /\ used' = used
                                     \/ n = used + 1 /\ used' = used + 1,
               wire' = Send("b", "OFFER", n, 0),
               \A p \in Port : link'[p] = IF p = n THEN [NoLink("a") EXCEPT !.out.st = "wait"] ELSE link[p],
               n \in Port => \A p \in Port : ~Live(link[p])
        PROVE  Transfers'
    <2> DEFINE x == [op |-> "OFFER", port |-> n, offset |-> 0]
               new == [NoLink("a") EXCEPT !.out.st = "wait"]
    <2>1. x \in Message /\ x.op = "OFFER" /\ x.port = n /\ n \in Int
      BY <1>3 DEF Message
    <2>2. wire'["a"] = wire["a"] /\ v = Append(w, x)
      BY <1>1, <1>4 DEF Send, TypeOK
    <2>3. /\ new.by = "a" /\ new.out.st = "wait" /\ new.out.byteoffset = 0
          /\ new.in.st = "none" /\ new.data = <<>>
      BY DEF NoLink, OutIs, InIs
    <2> HIDE DEF x, new, w, v
    <2>4. /\ \A i \in DOMAIN v : \/ i \in DOMAIN w /\ v[i] = w[i]
                                 \/ i = Len(w) + 1 /\ v[i] = x
          /\ \A i \in DOMAIN w : i \in DOMAIN v /\ v[i] = w[i] /\ i \in Int /\ i < Len(w) + 1
          /\ Len(w) + 1 \in DOMAIN v /\ v[Len(w) + 1] = x /\ Len(w) \in Nat
          /\ DOMAIN v \subseteq Int
      <3>1. /\ \A i \in DOMAIN Append(w, x) : \/ i \in DOMAIN w /\ Append(w, x)[i] = w[i]
                                              \/ i = Len(w) + 1 /\ Append(w, x)[i] = x
            /\ \A i \in DOMAIN w : /\ i \in DOMAIN Append(w, x) /\ Append(w, x)[i] = w[i]
                                   /\ i \in Int /\ i < Len(w) + 1
            /\ Len(w) + 1 \in DOMAIN Append(w, x) /\ Append(w, x)[Len(w) + 1] = x /\ Len(w) \in Nat
            /\ DOMAIN Append(w, x) \subseteq Int
        BY <1>3, <2>1, Sent
      <3> QED BY <2>2, <3>1
    <2>5. \A p \in Port : /\ p # n => link'[p] = link[p]
                          /\ p = n => n = used' /\ n = used + 1 /\ link'[p] = new
      BY <1>4 DEF new, Swapped, Port
    <2>6. /\ \A i \in DOMAIN wire["a"] : /\ wire["a"][i].op = "RESUME" /\ kind # "RESEND"
                                         /\ wire["a"][i].port <= used /\ wire["a"][i].port \in Int
          /\ \A i \in DOMAIN w : /\ w[i].op = "OFFER" \/ (w[i].op = "ACCEPT" /\ kind # "RESEND")
                                 /\ w[i].port <= used /\ w[i].port \in Int
          /\ \A i \in DOMAIN pending["b"] : pending["b"][i].port <= used /\ pending["b"][i].port \in Int
      <3>1. /\ \A i \in DOMAIN wire["a"] : wire["a"][i] \in Message
            /\ \A i \in DOMAIN w : w[i] \in Message
            /\ \A i \in DOMAIN pending["b"] : pending["b"][i] \in Pending
        <4>1. wire["a"] \in Seq(Message) /\ w \in Seq(Message) /\ pending["b"] \in Seq(Pending)
          BY <1>1, <1>3 DEF TypeOK, Pending
        <4> QED BY <4>1, ElementOfSeq, LenProperties
      <3>2. /\ \A m \in Message : m.port \in Int
            /\ \A m \in Pending : m.port \in Int
        BY <1>3 DEF Message, Pending
      <3> QED BY <3>1, <3>2 DEF Transfers, Messages, w
    <2>7. Sockets'
      <3>1. \A p \in Port : Live(link[p]) => p = used /\ used = used'
        BY <1>3, <1>4 DEF Transfers, Sockets, Port, Swapped
      <3>2. \A p \in Port : Flow(link[p], Have) => Flow(link[p], Have')
        BY <1>3
      <3> QED BY <1>1, <1>3, <2>3, <2>5, <3>1, <3>2 DEF Transfers, Sockets, Live, Flow
    <2>8. Messages'
      <3>1. \A i \in DOMAIN v : v[i].op = "OFFER" \/ (v[i].op = "ACCEPT" /\ kind # "RESEND")
        <4> TAKE i \in DOMAIN v
        <4>1. CASE i \in DOMAIN w /\ v[i] = w[i]
          BY <2>6, <4>1
        <4>2. CASE v[i] = x
          BY <2>1, <4>2
        <4> QED BY <2>4, <4>1, <4>2
      <3>2. \A i \in DOMAIN v : v[i].port <= used'
        <4>1. n <= used' /\ used <= used' /\ used' \in Int /\ used \in Int
          BY <1>3, <1>4, <2>1 DEF Swapped
        <4> TAKE i \in DOMAIN v
        <4>2. CASE i \in DOMAIN w /\ v[i] = w[i]
          BY <2>6, <4>1, <4>2
        <4>3. CASE v[i] = x
          BY <2>1, <4>1, <4>3
        <4> QED BY <2>4, <4>2, <4>3
      <3>3. \A i \in DOMAIN wire["a"] : wire["a"][i].port <= used'
        BY <1>3, <1>4, <2>6
      <3>4. \A i \in DOMAIN pending["b"] : pending["b"][i].port <= used'
        BY <1>3, <1>4, <2>6
      <3> QED BY <1>1, <2>2, <2>6, <3>1, <3>2, <3>3, <3>4 DEF Messages, v
    <2>9. ASSUME NEW p \in Port
          PROVE  /\ Listed(p)' <=> Listed(p)
                 /\ Offered(p)' <=> Offered(p) \/ p = n
                 /\ p = n => /\ ~Listed(p) /\ ~Offered(p) /\ link'[p].in.st = "none" /\ n > used
                             /\ \A i \in DOMAIN w : w[i].port # p
                             /\ \A i \in DOMAIN wire["a"] : wire["a"][i].port # p
                             /\ \A i \in DOMAIN pending["b"] : pending["b"][i].port # p
      <3>1. Listed(p)' <=> Listed(p)
        BY <1>1 DEF Listed
      <3>2. Offered(p)' <=> Offered(p) \/ p = n
        <4>1. Offered(p) <=> \E i \in DOMAIN w : Is(w[i], "OFFER", p)
          BY DEF Offered, w
        <4>2. Offered(p)' <=> \E i \in DOMAIN v : Is(v[i], "OFFER", p)
          BY DEF Offered, v
        <4>3. Is(x, "OFFER", p) <=> p = n
          BY <2>1 DEF Is
        <4> QED BY <2>4, <4>1, <4>2, <4>3
      <3>3. ASSUME p = n
            PROVE  /\ link'[p].in.st = "none" /\ n > used
                   /\ \A i \in DOMAIN w : w[i].port # p
                   /\ \A i \in DOMAIN wire["a"] : wire["a"][i].port # p
                   /\ \A i \in DOMAIN pending["b"] : pending["b"][i].port # p
        <4>1. n = used + 1 /\ n > used
          BY <1>3, <1>4, <3>3 DEF Swapped, Port
        <4>2. link'[p].in.st = "none"
          BY <2>3, <2>5, <3>3
        <4>3. \A k \in Int : k <= used => k # p
          BY <1>3, <3>3, <4>1
        <4> QED BY <2>6, <4>1, <4>2, <4>3
      <3> QED BY <3>1, <3>2, <3>3 DEF Listed, Offered, Is, w
    <2>10. Once'
      <3> SUFFICES ASSUME NEW p \in Port
                   PROVE  /\ \A i, j \in DOMAIN pending["b"] : pending["b"][i].port = p /\ pending["b"][j].port = p => i = j
                          /\ \A i, j \in DOMAIN v : Is(v[i], "OFFER", p) /\ Is(v[j], "OFFER", p) => i = j
                          /\ ~(Listed(p)' /\ Offered(p)')
                          /\ link'[p].in.st # "none" => ~Listed(p)' /\ ~Offered(p)'
        BY <1>1 DEF Once, v
      <3>1. /\ \A i, j \in DOMAIN pending["b"] : pending["b"][i].port = p /\ pending["b"][j].port = p => i = j
            /\ \A i, j \in DOMAIN w : Is(w[i], "OFFER", p) /\ Is(w[j], "OFFER", p) => i = j
            /\ ~(Listed(p) /\ Offered(p))
            /\ link[p].in.st # "none" => ~Listed(p) /\ ~Offered(p)
        BY DEF Transfers, Once, w
      <3>2. CASE p = n
        <4>1. \A i \in DOMAIN v : Is(v[i], "OFFER", p) => i = Len(w) + 1
          BY <2>4, <2>9, <3>2 DEF Is
        <4> QED BY <2>9, <3>1, <3>2, <4>1
      <3>3. CASE p # n
        <4>1. \A i \in DOMAIN v : Is(v[i], "OFFER", p) => i \in DOMAIN w /\ v[i] = w[i]
          BY <2>1, <2>4, <3>3 DEF Is
        <4>2. link'[p] = link[p]
          BY <2>5, <3>3
        <4> QED BY <2>9, <3>1, <3>3, <4>1, <4>2
      <3> QED BY <3>2, <3>3
    <2>11. Order'
      <3>1. /\ \A i, j \in DOMAIN w : i < j /\ w[i].op = "OFFER" /\ w[j].op = "ACCEPT" => w[i].port <= w[j].port
            /\ \A i \in DOMAIN pending["b"], j \in DOMAIN w : w[j].op = "ACCEPT" => pending["b"][i].port <= w[j].port
        BY DEF Transfers, Order, w
      <3>2. \A j \in DOMAIN v : v[j].op = "ACCEPT" => j \in DOMAIN w /\ v[j] = w[j]
        BY <2>1, <2>4
      <3>3. \A i \in DOMAIN v, j \in DOMAIN w : i < j => i \in DOMAIN w /\ v[i] = w[i]
        BY <2>4
      <3> QED BY <1>1, <2>4, <3>1, <3>2, <3>3 DEF Order, v
    <2>12. Resumes'
      <3> SUFFICES ASSUME NEW p \in Port, link'[p].out.st = "wait", link'[p].in.st \in {"none", "open"}
                   PROVE  Resume(p)'
        BY DEF Resumes
      <3>1. CASE p = n
        <4>1. link'[p].out.byteoffset = 0
          BY <2>3, <2>5, <3>1
        <4>2. \A i \in DOMAIN v : ~Is(v[i], "ACCEPT", p)
          BY <2>1, <2>4, <2>9, <3>1 DEF Is
        <4>3. ~Asked(p)'
          BY <1>1, <2>2, <2>9, <3>1, <4>1, <4>2 DEF Asked, v
        <4> QED BY <2>2, <2>9, <3>1, <4>1, <4>3 DEF Resume
      <3>2. CASE p # n
        <4>1. link'[p] = link[p] /\ Live(link[p])
          BY <2>5, <3>2 DEF Live
        <4>2. n \notin Port /\ \A q \in Port : link'[q] = link[q]
          BY <1>4, <2>5, <4>1
        <4>3. Resume(p)
          BY <4>1 DEF Transfers, Resumes
        <4>4. \A i \in DOMAIN v : Is(v[i], "ACCEPT", p) => i \in DOMAIN w /\ v[i] = w[i]
          BY <2>1, <2>4 DEF Is
        <4>5. Asked(p)' => Asked(p)
          BY <1>1, <2>2, <4>1, <4>4 DEF Asked, v, w
        <4>6. Agreed(p) => Agreed(p)'
          BY <1>1, <1>3, <2>9, <3>2, <4>2, <4>4 DEF Agreed, v, w
        <4> QED BY <1>3, <2>2, <4>1, <4>3, <4>5, <4>6 DEF Resume
      <3> QED BY <3>1, <3>2
    <2> QED BY <2>7, <2>8, <2>10, <2>11, <2>12 DEF Transfers
  <1>5. CASE Repeat("a") /\ UNCHANGED <<used, link>>
    <2>1. 0 \in 0..MaxPort /\ Swapped = 0 /\ 0 \notin Port /\ used \in Nat
      BY <1>3 DEF Swapped, Port
    <2>2. wire' = Send("b", "OFFER", 0, 0)
      BY <1>1, <1>5, <2>1 DEF Repeat
    <2> QED BY <1>3, <1>4, <1>5, <2>1, <2>2
  <1>6. CASE Listen("a") /\ find_dcc("a") = {}
    <2>1. used' = used + 1 /\ used + 1 \in 0..MaxPort /\ used + 1 \in Port
      BY <1>3, <1>6 DEF Listen, Port
    <2>2. \A p \in Port : ~Live(link[p])
      BY <1>6 DEF find_dcc, Waiting, Active, Live, Transfers, Sockets
    <2>3. wire' = Send("b", "OFFER", used + 1, 0)
      BY <1>1, <1>6 DEF Listen
    <2>4. \A p \in Port : link'[p] = IF p = used + 1 THEN [NoLink("a") EXCEPT !.out.st = "wait"] ELSE link[p]
      BY <1>6 DEF Listen, TypeOK
    <2> QED BY <1>3, <1>4, <2>1, <2>2, <2>3, <2>4
  <1> QED BY <1>1, <1>2, <1>5, <1>6

(* dcc_getfile_resume_demanded(): the offer is that of the last port, so no offer is
   left for which the answer is too early *)
LEMMA ResumeInv ==
  ASSUME TypeOK, TypeOK', Prefix, Transfers, UNCHANGED <<kind, used, pending, file>>,
         wire["a"] # <<>>, NEW m, m = Head(wire["a"]), ResumeArrives("a", m)
  PROVE  Prefix' /\ Transfers'
  <1>1. /\ "a" \in Client /\ "b" \in Client /\ Other("a") = "b" /\ "a" # "b"
        /\ m \in Message /\ m.port \in Nat /\ m.offset \in Nat
    <2>1. "a" \in Client /\ "b" \in Client /\ Other("a") = "b" /\ "a" # "b"
      BY DEF Client, Other
    <2>2. m \in Message
      BY <2>1, WireTypes
    <2> QED BY <2>1, <2>2, DccAssumption DEF Message
  <1>2. Have' = Have /\ Prefix'
    BY DEF Have, Prefix
  <1>3. CASE wire' = Received("a") /\ UNCHANGED link
    <2>1. wire'["a"] = Tail(wire["a"]) /\ wire'["b"] = wire["b"]
      BY <1>1, <1>3 DEF Received, TypeOK
    <2>2. Sub(wire'["a"], wire["a"]) /\ Sub(wire'["b"], wire["b"]) /\ Sub(pending'["b"], pending["b"])
      BY <1>1, <2>1, WireSub
    <2>3. \A p \in Port : Narrowed(p)
      BY <1>3, Staying
    <2> QED BY <2>2, <2>3, Narrowing
  <1> DEFINE p == m.port
             x == [m EXCEPT !.op = "ACCEPT"]
             w == wire["b"]
             v == wire'["b"]
             y == wire["a"]
             z == wire'["a"]
  <1>4. CASE Resumed("a", m) # {}
    <2>1. p \in Port /\ Live(link[p]) /\ Resumed("a", m) = {p}
      BY <1>4 DEF Resumed, find_dcc, Waiting, Active, Live, Transfers, Sockets
    <2>2. /\ w \in Seq(Message) /\ y \in Seq(Message) /\ x \in Message
          /\ x.op = "ACCEPT" /\ x.port = p
          /\ v = Append(w, x) /\ z = Tail(y)
      <3>1. w \in Seq(Message) /\ y \in Seq(Message)
        BY <1>1 DEF TypeOK
      <3>2. x \in Message /\ x.op = "ACCEPT" /\ x.port = p
        BY <1>1 DEF Message
      <3>3. wire' = [Received("a") EXCEPT !["b"] = Append(@, x)]
        BY <1>1, <1>4 DEF ResumeArrives
      <3>4. v = Append(w, x) /\ z = Tail(y)
        BY <1>1, <3>3 DEF Received, TypeOK
      <3> QED BY <3>1, <3>2, <3>4
    <2>3. /\ link'[p].by = link[p].by /\ link'[p].in = link[p].in /\ link'[p].data = link[p].data
          /\ link'[p].broken = link[p].broken
          /\ link'[p].out.st = link[p].out.st /\ link'[p].out.pos = link[p].out.pos
          /\ link'[p].out.byteoffset = m.offset
          /\ \A q \in Port : q # p => link'[q] = link[q]
      <3>1. link[p] \in Link /\ link[p].out \in OutEnd
        BY <2>1 DEF TypeOK, Link
      <3>2. link' = [q \in Port |-> IF q = p THEN [link[p] EXCEPT !.out.byteoffset = m.offset] ELSE link[q]]
        BY <1>4, <2>1 DEF ResumeArrives
      <3> HIDE DEF p
      <3> QED BY <2>1, <3>1, <3>2 DEF Link, OutEnd
    <2>4. /\ 1 \in DOMAIN y /\ y[1] = m
          /\ \A i \in DOMAIN z : i + 1 \in DOMAIN y /\ z[i] = y[i + 1]
      <3> HIDE DEF y, z
      <3>1. y # <<>> /\ m = Head(y)
        BY DEF y
      <3>2. /\ DOMAIN y = 1..Len(y) /\ Len(y) \in Nat /\ DOMAIN z = 1..(Len(y) - 1) /\ 1 \in DOMAIN y /\ y[1] = m
            /\ \A i \in 1..(Len(y) - 1) : z[i] = y[i + 1]
        BY <2>2, <3>1, SeqFacts
      <3> QED BY <3>2
    <2>5. /\ \A i \in DOMAIN v : \/ i \in DOMAIN w /\ v[i] = w[i]
                                 \/ i = Len(w) + 1 /\ v[i] = x
          /\ \A i \in DOMAIN w : i \in DOMAIN v /\ v[i] = w[i] /\ i \in Int /\ i < Len(w) + 1
          /\ Len(w) + 1 \in DOMAIN v /\ v[Len(w) + 1] = x /\ Len(w) \in Nat
          /\ DOMAIN v \subseteq Int
      <3> HIDE DEF w, v, x
      <3>1. /\ \A i \in DOMAIN Append(w, x) : \/ i \in DOMAIN w /\ Append(w, x)[i] = w[i]
                                              \/ i = Len(w) + 1 /\ Append(w, x)[i] = x
            /\ \A i \in DOMAIN w : i \in DOMAIN Append(w, x) /\ Append(w, x)[i] = w[i] /\ i \in Int /\ i < Len(w) + 1
            /\ Len(w) + 1 \in DOMAIN Append(w, x) /\ Append(w, x)[Len(w) + 1] = x /\ Len(w) \in Nat
            /\ DOMAIN Append(w, x) \subseteq Int
        BY <2>2, Sent
      <3> QED BY <2>2, <3>1
    <2>6. p = used
      BY <2>1 DEF Transfers, Sockets
    <2>7. ASSUME link[p].out.st = "wait", link[p].in.st \in {"none", "open"} PROVE m.offset = Have
      <3>1. Resume(p)
        BY <2>1, <2>7 DEF Transfers, Resumes
      <3> QED BY <2>4, <3>1 DEF Resume
    <2> HIDE DEF x, w, v, y, z, p
    <2>8. Sockets'
      <3>1. ASSUME NEW q \in Port
            PROVE  /\ link'[q].by = "a" /\ link'[q].in = link[q].in /\ link'[q].data = link[q].data
                   /\ link'[q].out.st = link[q].out.st
        BY <2>1, <2>3 DEF Transfers, Sockets
      <3>2. ASSUME NEW q \in Port, link[q].in.st = "open" PROVE Flow(link[q], Have)'
        <4>1. Flow(link[q], Have)
          BY <3>2 DEF Transfers, Sockets
        <4>2. CASE q # p
          BY <1>2, <2>3, <4>1, <4>2 DEF Flow
        <4>3. CASE q = p
          BY <1>2, <2>3, <2>7, <3>2, <4>1, <4>3 DEF Flow
        <4> QED BY <4>2, <4>3
      <3>3. (file.there \/ (Have = 0 /\ \A q \in Port : link[q].in.st # "open"))'
        BY <1>2, <3>1 DEF Transfers, Sockets
      <3> QED BY <3>1, <3>2, <3>3 DEF Transfers, Sockets, Live
    <2>9. kind # "RESEND"
      BY <2>4 DEF Transfers, Messages, y
    <2>10. Messages'
      <3>1. \A i \in DOMAIN v : \/ v[i].op = "OFFER" /\ v[i].port <= used
                                \/ v[i].op = "ACCEPT" /\ kind # "RESEND" /\ v[i].port <= used
        <4>1. x.port <= used
          BY <1>1, <2>2, <2>6 DEF p
        <4>2. \A i \in DOMAIN w : \/ w[i].op = "OFFER" /\ w[i].port <= used
                                  \/ w[i].op = "ACCEPT" /\ kind # "RESEND" /\ w[i].port <= used
          BY DEF Transfers, Messages, w
        <4> QED BY <2>2, <2>5, <2>9, <4>1, <4>2
      <3>2. \A i \in DOMAIN z : z[i].op = "RESUME" /\ kind # "RESEND" /\ z[i].port <= used
        BY <2>4 DEF Transfers, Messages, y
      <3> QED BY <3>1, <3>2 DEF Transfers, Messages, v, z
    <2>11. \A i \in DOMAIN v : v[i].op = "OFFER" => i \in DOMAIN w /\ v[i] = w[i]
      BY <2>2, <2>5
    <2>12. \A q \in Port : /\ Listed(q)' <=> Listed(q)
                           /\ Offered(q)' <=> Offered(q)
                           /\ link'[q].in.st = link[q].in.st
      BY <2>3, <2>5, <2>11 DEF Listed, Offered, Is, v, w
    <2>13. Once'
      <3>1. \A q \in Port : \A i, j \in DOMAIN v : Is(v[i], "OFFER", q) /\ Is(v[j], "OFFER", q) => i = j
        BY <2>11 DEF Transfers, Once, Is, w
      <3> QED BY <2>12, <3>1 DEF Transfers, Once, v
    <2>14. Order'
      <3>1. /\ \A i, j \in DOMAIN w : i < j /\ w[i].op = "OFFER" /\ w[j].op = "ACCEPT" => w[i].port <= w[j].port
            /\ \A i \in DOMAIN pending["b"], j \in DOMAIN w : w[j].op = "ACCEPT" => pending["b"][i].port <= w[j].port
        BY DEF Transfers, Order, w
      <3>2. /\ \A i \in DOMAIN w : w[i].port <= p
            /\ \A i \in DOMAIN pending["b"] : pending["b"][i].port <= p
        BY <2>6 DEF Transfers, Messages, w
      <3>3. ASSUME NEW i \in DOMAIN v, NEW j \in DOMAIN v, i < j, v[i].op = "OFFER", v[j].op = "ACCEPT"
            PROVE  v[i].port <= v[j].port
        BY <2>2, <2>5, <2>11, <3>1, <3>2, <3>3
      <3>4. ASSUME NEW i \in DOMAIN pending["b"], NEW j \in DOMAIN v, v[j].op = "ACCEPT"
            PROVE  pending["b"][i].port <= v[j].port
        BY <2>2, <2>5, <3>1, <3>2, <3>4
      <3> QED BY <3>3, <3>4 DEF Order, v
    <2>15. Resumes'
      <3> SUFFICES ASSUME NEW q \in Port, link'[q].out.st = "wait", link'[q].in.st \in {"none", "open"}
                   PROVE  Resume(q)'
        BY DEF Resumes
      <3>1. q = p /\ link[p].out.st = "wait" /\ link[p].in.st \in {"none", "open"}
        <4>1. link[q].out.st = "wait" /\ link[q].in.st \in {"none", "open"}
          BY <2>3
        <4>2. q = used
          BY <4>1 DEF Transfers, Sockets, Live
        <4> QED BY <2>6, <4>1, <4>2
      <3>2. m.offset = Have /\ Resume(p)
        BY <2>7, <3>1 DEF Transfers, Resumes
      <3>3. \A i \in DOMAIN z : z[i].port = p => z[i].offset = Have
        BY <2>4, <3>2 DEF Resume, y
      <3>4. link[p].in.st = "none" => Agreed(p)
        BY <2>4, <3>2 DEF Resume, Asked, y, p
      <3>5. link[p].in.st = "none" => Agreed(p)'
        BY <1>2, <2>1, <2>3, <2>12, <3>2, <3>4 DEF Agreed
      <3> QED BY <1>2, <2>3, <3>1, <3>2, <3>3, <3>5 DEF Resume, z
    <2> QED BY <1>2, <2>8, <2>10, <2>13, <2>14, <2>15 DEF Transfers
  <1> QED BY <1>1, <1>3, <1>4 DEF ResumeArrives

(* dcc_resume(): the offer is in the list, and so is not on its way as well *)
LEMMA AskInv ==
  ASSUME TypeOK, TypeOK', Prefix, Transfers, dcc_resume
  PROVE  Prefix' /\ Transfers'
  <1> DEFINE s == pending["b"]
             t == pending'["b"]
             y == wire["a"]
             z == wire'["a"]
             x == [op |-> "RESUME", port |-> Head(s).port, offset |-> Len(file.data)]
  <1>1. /\ UNCHANGED <<kind, used, link, file>> /\ kind # "RESEND" /\ find_dcc("b") = {}
        /\ "a" \in Client /\ "b" \in Client /\ "a" # "b"
    BY DEF dcc_resume, Client
  <1>2. Have' = Have /\ Prefix' /\ Sockets' /\ Have \in Nat /\ Have = Len(file.data)
    BY <1>1, HaveType DEF Have, Prefix, Transfers, Sockets, Flow, Live
  <1>3. s \in Seq(Pending) /\ 1 \in DOMAIN s /\ s[1] = Head(s) /\ s[1] \in Pending
    <2>1. s \in Seq(Pending) /\ s # <<>>
      BY <1>1 DEF TypeOK, Pending, dcc_resume
    <2> HIDE DEF s
    <2> QED BY <2>1
  <1>4. /\ DOMAIN t = DOMAIN s
        /\ \A i \in DOMAIN s : /\ t[i].port = s[i].port
                               /\ t[i].byteoffset = IF i = 1 THEN Have ELSE s[i].byteoffset
    <2>1. t = [s EXCEPT ![1].byteoffset = Len(file.data)]
      BY <1>1 DEF dcc_resume, TypeOK
    <2>2. t = [s EXCEPT ![1] = [s[1] EXCEPT !.byteoffset = Have]]
      BY <1>2, <2>1
    <2>3. [s[1] EXCEPT !.byteoffset = Have].port = s[1].port /\ [s[1] EXCEPT !.byteoffset = Have].byteoffset = Have
      BY <1>3 DEF Pending
    <2> HIDE DEF s, t
    <2> QED BY <1>3, <2>2, <2>3
  <1>5. /\ y \in Seq(Message) /\ x \in Message /\ z = Append(y, x) /\ wire'["b"] = wire["b"]
        /\ x.op = "RESUME" /\ x.port = s[1].port /\ x.offset = Have
    <2>1. y \in Seq(Message)
      BY <1>1 DEF TypeOK
    <2>2. x \in Message /\ x.op = "RESUME" /\ x.port = s[1].port /\ x.offset = Have
      BY <1>2, <1>3 DEF Message, Pending
    <2>3. wire' = Send("a", "RESUME", Head(s).port, Len(file.data))
      BY DEF dcc_resume
    <2>4. z = Append(y, x) /\ wire'["b"] = wire["b"]
      BY <1>1, <2>3 DEF Send, TypeOK
    <2> QED BY <2>1, <2>2, <2>4
  <1> HIDE DEF s, t, x, y, z
  <1>6. /\ \A i \in DOMAIN z : \/ i \in DOMAIN y /\ z[i] = y[i]
                               \/ i = Len(y) + 1 /\ z[i] = x
    <2>1. /\ \A i \in DOMAIN Append(y, x) : \/ i \in DOMAIN y /\ Append(y, x)[i] = y[i]
                                            \/ i = Len(y) + 1 /\ Append(y, x)[i] = x
      BY <1>5, Sent
    <2> QED BY <1>5, <2>1
  <1>7. /\ \A q \in Port : (Listed(q)' <=> Listed(q)) /\ (Offered(q)' <=> Offered(q))
        /\ \A q \in Port : link[q].in.st # "open"
    <2>1. \A q \in Port : link[q].in.st # "open"
      BY <1>1 DEF find_dcc, Active, Transfers, Sockets
    <2> QED BY <1>4, <1>5, <2>1 DEF Listed, Offered, s, t
  <1>8. Messages'
    <2>1. \A i \in DOMAIN s : s[i].port <= used
      BY DEF Transfers, Messages, s
    <2>2. \A i \in DOMAIN y : y[i].op = "RESUME" /\ y[i].port <= used
      BY DEF Transfers, Messages, y
    <2>3. \A i \in DOMAIN z : z[i].op = "RESUME" /\ z[i].port <= used
      BY <1>3, <1>5, <1>6, <2>1, <2>2
    <2>4. \A i \in DOMAIN t : t[i].port <= used
      BY <1>4, <2>1
    <2> QED BY <1>1, <1>5, <2>3, <2>4 DEF Transfers, Messages, t, z
  <1>9. Once'
    <2>1. \A q \in Port : \A i, j \in DOMAIN t : t[i].port = q /\ t[j].port = q => i = j
      BY <1>4 DEF Transfers, Once, s
    <2> QED BY <1>1, <1>5, <1>7, <2>1 DEF Transfers, Once, t
  <1>10. Order'
    BY <1>4, <1>5 DEF Transfers, Order, s, t
  <1>11. Resumes'
    <2> SUFFICES ASSUME NEW p \in Port, link[p].out.st = "wait", link[p].in.st \in {"none", "open"}
                 PROVE  Resume(p)'
      BY <1>1 DEF Resumes
    <2>1. Resume(p) /\ link[p].in.st = "none"
      BY <1>7 DEF Transfers, Resumes
    <2>2. \A i \in DOMAIN z : z[i].port = p => z[i].offset = Have
      BY <1>5, <1>6, <2>1 DEF Resume, y
    <2>3. Asked(p)' => Agreed(p)'
      <3>1. CASE s[1].port = p
        <4>1. ~Offered(p)
          BY <1>3, <3>1 DEF Transfers, Once, Listed, s
        <4>2. \A i \in DOMAIN t : t[i].port = p => t[i].byteoffset = Have
          BY <1>3, <1>4, <3>1 DEF Transfers, Once, s
        <4>3. \A i \in DOMAIN wire["b"] : Is(wire["b"][i], "ACCEPT", p) => link[p].out.byteoffset = Have
          BY <2>1 DEF Resume, Asked, Agreed
        <4> QED BY <1>1, <1>2, <1>5, <1>7, <4>1, <4>2, <4>3 DEF Agreed, t
      <3>2. CASE s[1].port # p
        <4>1. Asked(p)' => Asked(p)
          <5>1. \A i \in DOMAIN z : z[i].port = p => i \in DOMAIN y /\ z[i] = y[i]
            BY <1>5, <1>6, <3>2
          <5>2. \A i \in DOMAIN t : t[i].port = p => s[i].port = p /\ t[i].byteoffset = s[i].byteoffset
            BY <1>4, <3>2
          <5> QED BY <1>1, <1>4, <1>5, <5>1, <5>2 DEF Asked, s, t, y, z
        <4>2. Agreed(p) => Agreed(p)'
          <5>1. \A i \in DOMAIN t : t[i].port = p => s[i].port = p /\ t[i].byteoffset = s[i].byteoffset
            BY <1>4, <3>2
          <5> QED BY <1>1, <1>2, <1>4, <1>5, <1>7, <5>1 DEF Agreed, s, t
        <4> QED BY <2>1, <4>1, <4>2 DEF Resume
      <3> QED BY <3>1, <3>2
    <2> QED BY <1>1, <1>2, <2>1, <2>2, <2>3 DEF Resume, z
  <1> QED BY <1>2, <1>8, <1>9, <1>10, <1>11 DEF Transfers

-----------------------------------------------------------------------------
(* Messages that arrive *)

(* DCC_AUTOGET: the offer was nowhere else, and its sender was not asked to resume it;
   a file that is not there is sent from its beginning *)
LEMMA AtOnceInv ==
  ASSUME TypeOK, TypeOK', Prefix, Transfers, kind # "CHAT", UNCHANGED <<kind, used>>,
         wire["b"] # <<>>, NEW m, m = Head(wire["b"]), m.op = "OFFER",
         find_dcc("b") = {}, TakenAtOnce(m), wire' = Received("b")
  PROVE  Prefix' /\ Transfers'
  <1> DEFINE start == [file EXCEPT !.there = TRUE]
             p == m.port
             w == wire["b"]
             v == wire'["b"]
  <1>1. /\ "a" \in Client /\ "b" \in Client /\ wire'["a"] = wire["a"] /\ v = Tail(w)
        /\ w \in Seq(Message) /\ Sub(v, w) /\ UNCHANGED pending /\ Sub(pending'["b"], pending["b"])
    <2>1. "a" \in Client /\ "b" \in Client /\ "a" # "b"
      BY DEF Client
    <2>2. wire'["a"] = wire["a"] /\ v = Tail(w) /\ w \in Seq(Message)
      BY <2>1 DEF Received, TypeOK
    <2>3. UNCHANGED pending
      BY DEF TakenAtOnce
    <2> QED BY <2>1, <2>2, <2>3, WireSub
  <1>2. /\ file' = start /\ start.there /\ start.data = file.data
        /\ \/ kind = "RESEND"
           \/ ~file.there
        /\ ConnectTo(p, Have) \/ UNCHANGED link
    BY DEF TakenAtOnce, TypeOK, Have
  <1>3. /\ DOMAIN w = 1..Len(w) /\ Len(w) \in Nat /\ 1 \in DOMAIN w /\ w[1] = m
        /\ DOMAIN v = 1..(Len(w) - 1) /\ \A i \in 1..(Len(w) - 1) : v[i] = w[i + 1]
    <2> HIDE DEF w, v
    <2>1. w # <<>> /\ m = Head(w)
      BY DEF w
    <2>2. m \in Message
      BY <1>1, <2>1
    <2> QED BY <1>1, <2>1, <2>2, SeqFacts
  <1> HIDE DEF start, p, w, v
  <1>4. ASSUME p \in Port
        PROVE  /\ Offered(p) /\ ~Listed(p)' /\ ~Offered(p)'
               /\ link[p].out.st = "wait" /\ link[p].in.st = "none" => ~Asked(p)
    <2>1. Is(w[1], "OFFER", p) /\ Offered(p)
      BY <1>3 DEF Offered, Is, w, p
    <2>2. /\ ~Listed(p)
          /\ \A i, j \in DOMAIN w : Is(w[i], "OFFER", p) /\ Is(w[j], "OFFER", p) => i = j
      BY <1>4, <2>1 DEF Transfers, Once, w
    <2>3. \A i \in DOMAIN v : i + 1 \in DOMAIN w /\ i + 1 # 1 /\ v[i] = w[i + 1]
      BY <1>3
    <2>4. ~Offered(p)' /\ ~Listed(p)'
      BY <1>1, <1>3, <2>1, <2>2, <2>3 DEF Offered, Listed, v
    <2>5. link[p].out.st = "wait" /\ link[p].in.st = "none" => ~Asked(p)
      BY <1>4, <2>1 DEF Transfers, Resumes, Resume, Agreed
    <2> QED BY <2>1, <2>4, <2>5
  <1>5. \A q \in Port : link[q].in.st # "open"
    BY DEF find_dcc, Active, Transfers, Sockets
  <1>6. Have \in Nat /\ Have = Len(start.data) /\ (~file.there => Have = 0)
    BY <1>2, HaveType DEF Have, Transfers, Sockets
  <1>7. ASSUME p \in Port, link[p].out.st = "wait", link[p].in.st = "none"
        PROVE  /\ link[p].out.byteoffset = 0
               /\ \A i \in DOMAIN wire["a"] : wire["a"][i].port = p => wire["a"][i].offset = Have
    BY <1>4, <1>7 DEF Asked
  <1>8. \A i \in 1..Have : start.data[i] = i
    BY <1>2 DEF Prefix
  <1>9. \/ ConnectTo(p, Have) /\ file' = start
        \/ UNCHANGED link /\ file'.data = file.data /\ (file.there => file'.there)
    BY <1>2
  <1>10. /\ wire'["a"] = wire["a"] /\ Sub(wire'["b"], wire["b"]) /\ Sub(pending'["b"], pending["b"])
         /\ p \in Port => ~Listed(p)' /\ ~Offered(p)'
    BY <1>1, <1>4 DEF v, w
  <1>11. Have <= Size
    BY DEF Prefix
  <1>12. p \in Port /\ link[p].out.st = "wait" /\ link[p].in.st = "none" =>
            /\ start.there
            /\ Len(start.data) \in Nat /\ Len(start.data) <= Size
            /\ \A i \in 1..Len(start.data) : start.data[i] = i
            /\ IF kind = "RESEND" THEN Have = Len(start.data)
                                  ELSE link[p].out.byteoffset = Len(start.data)
            /\ \A i \in DOMAIN wire["a"] : wire["a"][i].port = p => wire["a"][i].offset = Len(start.data)
            /\ link[p].out.byteoffset \in {0, Len(start.data)}
            /\ \A q \in Port : link[q].in.st # "open"
    BY <1>2, <1>5, <1>6, <1>7, <1>8, <1>11
  <1> QED BY <1>9, <1>10, <1>12, JoinInv

LEMMA DeliverInv ==
  ASSUME TypeOK, TypeOK', Prefix, Transfers, kind # "CHAT", NEW c \in Client, Deliver(c)
  PROVE  Prefix' /\ Transfers'
  <1>1. PICK m : m = Head(wire[c])
    OBVIOUS
  <1>2. /\ "a" \in Client /\ "b" \in Client /\ c \in {"a", "b"} /\ wire[c] # <<>>
        /\ wire[c] \in Seq(Message) /\ UNCHANGED <<kind, fast>>
    BY DEF Deliver, Client, TypeOK
  <1>3. 1 \in DOMAIN wire[c] /\ wire[c][1] = m
    BY <1>1, <1>2
  <1>4. CASE c = "a"
    <2>1. m.op = "RESUME"
      BY <1>3, <1>4 DEF Transfers, Messages
    <2>2. ResumeArrives("a", m) /\ UNCHANGED <<used, pending, file>>
      BY <1>1, <1>4, <2>1 DEF Deliver
    <2> QED BY <1>1, <1>2, <1>4, <2>2, ResumeInv
  <1>5. CASE c = "b"
    <2>1. m.op \in {"OFFER", "ACCEPT"}
      BY <1>3, <1>5 DEF Transfers, Messages
    <2>2. CASE m.op = "ACCEPT"
      <3>1. AcceptArrives("b")
        BY <1>1, <1>5, <2>2 DEF Deliver
      <3> QED BY <1>1, <1>2, <1>5, <2>2, <3>1, AcceptInv
    <2>3. CASE m.op = "OFFER"
      <3>1. OfferArrives("b", m) /\ UNCHANGED used
        BY <1>1, <1>5, <2>3 DEF Deliver
      <3>2. Waiting("b") = {}
        BY DEF Waiting, Transfers, Sockets
      <3>3. CASE wire' = Received("b") /\ UNCHANGED <<link, pending, file>>
        <4>1. wire'["a"] = wire["a"] /\ wire'["b"] = Tail(wire["b"])
          BY <1>2, <3>3 DEF Received, TypeOK
        <4> QED BY <1>2, <1>5, <3>1, <3>3, <4>1, WireSub, Staying, Narrowing
      <3>4. CASE wire' = Received("b") /\ Noted("b", m, 0) /\ UNCHANGED <<link, file>>
        BY <1>1, <1>2, <1>5, <2>3, <3>1, <3>4, PushInv DEF Noted
      <3>5. CASE find_dcc("b") = {} /\ ResumedAtOnce("b", m)
        <4>1. \A q \in Port : link[q].in.st # "open"
          BY <3>5 DEF find_dcc, Active, Transfers, Sockets
        <4> QED BY <1>1, <1>2, <1>5, <2>3, <3>1, <3>5, <4>1, PushInv DEF Noted, ResumedAtOnce
      <3>6. CASE find_dcc("b") = {} /\ TakenAtOnce(m) /\ wire' = Received("b")
        BY <1>1, <1>2, <1>5, <2>3, <3>1, <3>6, AtOnceInv
      <3> QED BY <3>1, <3>2, <3>3, <3>4, <3>5, <3>6 DEF OfferArrives
    <2> QED BY <2>1, <2>2, <2>3
  <1> QED BY <1>2, <1>4, <1>5

(* A chat moves no file. *)
LEMMA ChatInv ==
  ASSUME TypeOK, Prefix, kind = "CHAT", \A p \in Port : link[p].data = <<>>, Next
  PROVE  Prefix' /\ kind' = kind /\ \A p \in Port : link'[p].data = <<>>
  <1> SUFFICES UNCHANGED <<kind, file>> /\ \A p \in Port : link'[p].data = <<>>
    BY DEF Prefix, Have
  <1>1. /\ link \in [Port -> Link]
        /\ \A l \in Link, st \in Gone : l.data = <<>> => CloseOut(l, st).data = <<>> /\ CloseIn(l, st).data = <<>>
    BY DEF TypeOK, CloseOut, CloseIn, Link
  <1>2. \A c \in Client, p \in Port : Erased(link[p], c).data = <<>>
    BY <1>1 DEF Erased, Gone
  <1>3. ASSUME NEW c \in Client, NEW offset, Connect(c, offset, file)
        PROVE  UNCHANGED file /\ \A p \in Port : link'[p].data = <<>>
    BY <1>1, <1>3 DEF Connect, ConnectTo, Link
  <1>4. ASSUME NEW c \in Client, Commands(c)
        PROVE  UNCHANGED <<kind, file>> /\ \A p \in Port : link'[p].data = <<>>
    <2>1. CASE dcc_close(c)
      BY <1>2, <2>1 DEF dcc_close
    <2>2. CASE AnswerChat(c)
      BY <1>3, <2>2 DEF AnswerChat
    <2>3. CASE Offer(c)
      <3>1. Listen(c) => UNCHANGED file /\ \A p \in Port : link'[p].data = <<>>
        BY <1>1 DEF Listen, NoLink
      <3> QED BY <1>3, <2>3, <3>1 DEF Offer
    <2> QED BY <1>4, <2>1, <2>2, <2>3 DEF Commands
  <1>5. ASSUME NEW c \in Client, Deliver(c)
        PROVE  UNCHANGED <<kind, file>> /\ \A p \in Port : link'[p].data = <<>>
    <2>1. UNCHANGED kind
      BY <1>5 DEF Deliver
    <2>2. CASE UNCHANGED <<link, file>>
      BY <2>1, <2>2
    <2>3. CASE ResumeArrives(c, Head(wire[c])) /\ UNCHANGED file
      BY <1>1, <2>1, <2>3 DEF ResumeArrives, Link
    <2>4. CASE AcceptArrives(c)
      BY <1>1, <1>3, <2>1, <2>4 DEF AcceptArrives, Link
    <2>5. Head(wire[c]) \in Message
      BY <1>5, WireTypes DEF Deliver
    <2>6. CASE OfferArrives(c, Head(wire[c]))
      <3>1. CASE TakenAtOnce(Head(wire[c]))
        BY <1>1, <2>1, <3>1 DEF TakenAtOnce, ConnectTo, Link
      <3> QED BY <2>2, <2>6, <3>1 DEF OfferArrives, ResumedAtOnce
    <2> QED BY <1>5, <2>2, <2>3, <2>4, <2>5, <2>6 DEF Deliver, Message
  <1>6. ASSUME NEW c \in Client, Lose(c) \/ dcc_reject(c) \/ PendingTimeout(c)
        PROVE  UNCHANGED <<kind, file>> /\ \A p \in Port : link'[p].data = <<>>
    BY <1>1, <1>2, <1>6 DEF Lose, dcc_reject, PendingTimeout
  <1>7. ASSUME NEW p \in Port, Ends(p)
        PROVE  UNCHANGED <<kind, file>> /\ \A q \in Port : link'[q].data = <<>>
    <2>1. link[p] \in Link /\ link[p].data = <<>> /\ 1..Len(link[p].data) = {}
      BY <1>1
    <2>2. \A st \in Gone : CloseOut(link[p], st).data = <<>> /\ CloseIn(link[p], st).data = <<>>
      BY <1>1, <2>1
    <2>3. CASE Accept(p)
      BY <1>1, <2>1, <2>2, <2>3 DEF Accept, Link, Gone
    <2>4. CASE SenderReads(p)
      BY <1>1, <2>1, <2>2, <2>4 DEF SenderReads, Gone
    <2>5. CASE ReceiverReads(p)
      BY <1>1, <2>1, <2>2, <2>5 DEF ReceiverReads, Gone
    <2>6. CASE WriteFails(p) \/ ListenTimeout(p) \/ IdleClose(p)
      BY <1>1, <2>1, <2>2, <2>6 DEF WriteFails, ListenTimeout, IdleClose, Gone
    <2>7. CASE Break(p)
      BY <1>1, <2>1, <2>7 DEF Break, Link
    <2> QED BY <1>7, <2>3, <2>4, <2>5, <2>6, <2>7 DEF Ends
  <1>8. ~Get /\ ~ReGet /\ ~dcc_resume
    BY DEF Get, ReGet, dcc_resume
  <1> QED BY <1>4, <1>5, <1>6, <1>7, <1>8 DEF Next

LEMMA FileInv ==
  ASSUME NoHazards, TypeOK, TypeOK', Prefix, Transfers, kind # "CHAT", Next
  PROVE  Prefix' /\ Transfers' /\ kind' = kind
  <1>1. ASSUME NEW c \in Client, Commands(c) PROVE Prefix' /\ Transfers' /\ kind' = kind
    <2>1. CASE dcc_close(c)
      BY <2>1, LosingInv DEF dcc_close
    <2>2. CASE Offer(c)
      BY <2>2, OfferInv DEF Offer
    <2> QED BY <1>1, <2>1, <2>2 DEF Commands, AnswerChat
  <1>2. ASSUME NEW c \in Client, Deliver(c) PROVE Prefix' /\ Transfers' /\ kind' = kind
    BY <1>2, DeliverInv DEF Deliver
  <1>3. ASSUME NEW c \in Client, Lose(c) \/ dcc_reject(c) \/ PendingTimeout(c)
        PROVE  Prefix' /\ Transfers' /\ kind' = kind
    BY <1>3, LosingInv DEF Lose, dcc_reject, PendingTimeout
  <1>4. ASSUME NEW p \in Port, Ends(p) PROVE Prefix' /\ Transfers' /\ kind' = kind
    BY <1>4, EndsInv DEF Ends, Accept, SenderReads, ReceiverReads, WriteFails, ListenTimeout, IdleClose, Break
  <1>5. CASE Get
    BY <1>5, GetInv DEF Get
  <1>6. CASE ReGet
    BY <1>6, ReGetInv DEF ReGet
  <1>7. CASE dcc_resume
    BY <1>7, AskInv DEF dcc_resume
  <1> QED BY <1>1, <1>2, <1>3, <1>4, <1>5, <1>6, <1>7 DEF Next

LEMMA InitIInv == Init => IInv
  <1> SUFFICES ASSUME Init PROVE IInv
    OBVIOUS
  <1>1. "a" \in Client /\ "b" \in Client /\ DOMAIN <<>> = {} /\ Len(<<>>) = 0 /\ 1..0 = {}
    BY DEF Client
  <1>2. wire["a"] = <<>> /\ wire["b"] = <<>> /\ pending["b"] = <<>> /\ Have = 0
    BY <1>1 DEF Init, Have
  <1>3. \A p \in Port : /\ link[p].by = "a" /\ link[p].out.st = "none" /\ link[p].in.st = "none"
                        /\ link[p].data = <<>>
    BY DEF Init, NoLink, OutIs, InIs
  <1>4. Prefix
    BY <1>1, <1>2, DccAssumption DEF Prefix
  <1>5. Transfers
    BY <1>1, <1>2, <1>3 DEF Transfers, Sockets, Messages, Once, Order, Resumes, Live, Listed, Offered
  <1> QED BY <1>3, <1>4, <1>5, InitType DEF IInv

LEMMA NextIInv == ASSUME NoHazards PROVE IInv /\ [Next]_vars => IInv'
  <1> SUFFICES ASSUME IInv, [Next]_vars PROVE IInv'
    OBVIOUS
  <1>1. TypeOK'
    BY NextType DEF IInv
  <1>2. CASE UNCHANGED vars
    BY <1>1, <1>2, ZenonT(60) DEF IInv, vars, Prefix, Have, Transfers, Sockets, Flow, Live, Messages, Once,
                      Listed, Offered, Order, Resumes, Resume, Asked, Agreed
  <1>3. CASE Next /\ kind = "CHAT"
    BY <1>1, <1>3, ChatInv DEF IInv
  <1>4. CASE Next /\ kind # "CHAT"
    BY <1>1, <1>4, FileInv DEF IInv
  <1> QED BY <1>2, <1>3, <1>4

LEMMA PrefixOfSource == ASSUME TypeOK, Prefix PROVE FileIsPrefix
  <1> DEFINE d == file.data
             u == SubSeq(Source, 1, Have)
  <1>1. d \in Seq(1..Size) /\ Have \in Nat /\ Len(d) = Have /\ Size \in Nat
    BY HaveType, DccAssumption DEF TypeOK, Have
  <1>2. 1 \in Int /\ Have \in Int /\ \A i \in 1..Have : Source[i] \in 1..Size /\ Source[i] = i
    BY <1>1, SourceType DEF Prefix
  <1>3. /\ u \in Seq(1..Size) /\ Len(u) = IF 1 <= Have THEN Have - 1 + 1 ELSE 0
        /\ \A i \in 1..(Have - 1 + 1) : u[i] = Source[1 + i - 1]
    BY <1>2, SubSeqProperties
  <1> HIDE DEF u
  <1>4. Len(u) = Have /\ \A i \in 1..Have : u[i] = i
    <2>1. Len(u) = Have
      BY <1>1, <1>3
    <2>2. ASSUME NEW i \in 1..Have PROVE u[i] = i
      <3>1. i \in 1..(Have - 1 + 1) /\ 1 + i - 1 = i
        BY <1>1
      <3> QED BY <1>2, <1>3, <3>1
    <2> QED BY <2>1, <2>2
  <1>5. d = u
    <2>1. Len(d) = Len(u) /\ \A i \in 1..Len(d) : d[i] = u[i]
      BY <1>1, <1>4 DEF Prefix
    <2> QED BY <1>1, <1>3, <2>1, SeqEqual
  <1> QED BY <1>5 DEF FileIsPrefix, Have, u

(* However often a transfer is broken off, offered again, resumed or begun anew, the
   receiver has the beginning of the file: start_dcc_send() and start_dcc_get() agree
   about where the transfer begins.  For users who do not /DCC GET an offer that they
   asked to resume, for REGET packets that arrive within the second that the sender
   waits for them, and for disks that take a block whole or not at all: the result of a
   short write() is not looked at, and the next block is written after a gap. *)
THEOREM PrefixKept == NoHazards => (Spec => []FileIsPrefix)
  <1> SUFFICES ASSUME NoHazards PROVE Spec => []FileIsPrefix
    OBVIOUS
  <1>1. Init => IInv
    BY InitIInv
  <1>2. IInv /\ [Next]_vars => IInv'
    BY NextIInv
  <1>3. IInv => FileIsPrefix
    BY PrefixOfSource DEF IInv
  <1> QED BY <1>1, <1>2, <1>3, PTL DEF Spec

-----------------------------------------------------------------------------
(***************************************************************************)
(* The pace of a transfer.  Sender and receiver count the same units:      *)
(* both began at the same place (and a late request to resume names no     *)
(* other), every acknowledgement is a count the receiver had, and when     *)
(* nothing is left to read the last of them is what it has now.  So the    *)
(* acknowledgement of all that was sent is never missed, and none is taken *)
(* for that of the whole file before the receiver has it.                  *)
(***************************************************************************)
Counts(l) ==
    /\ l.out.byteoffset = l.in.byteoffset
    /\ l.out.pos = l.out.byteoffset + l.out.bytes_sent
    /\ l.out.eof => l.out.pos = Size
    /\ \A i \in DOMAIN l.acks : l.acks[i] <= l.in.bytes_read
    /\ l.in.byteoffset + l.in.bytes_read = Size => l.acks = <<>>

Answered(l) ==
    l.in.byteoffset + l.in.bytes_read < Size /\ l.data = <<>>
       => l.acks # <<>> /\ l.acks[Len(l.acks)] = l.in.bytes_read

Both(l) == l.out.st = "open" /\ l.in.st = "open" /\ ~l.broken

InPace(l, n) ==
    /\ l.out.st = "wait" => l.acks = <<>> /\ (l.in.st = "open" => l.in.bytes_read = 0)
    /\ l.out.st = "open" => l.in.st # "none"
    /\ l.in.st = "open" => l.in.byteoffset + l.in.bytes_read = n
    /\ Both(l) => Counts(l) /\ Answered(l)

(* A request to resume that is still on its way names the place where both began *)
ToldAlready ==
    \A p \in Port : \A i \in DOMAIN wire["a"] :
        Both(link[p]) /\ wire["a"][i].port = p => wire["a"][i].offset = link[p].in.byteoffset

Pace == kind # "CHAT" => ToldAlready /\ \A p \in Port : InPace(link[p], Have)

(* A receiver that has the whole file has closed its socket *)
Unfinished == kind # "CHAT" => \A p \in Port : link[p].in.st = "open" => Have < Size

LEMMA SendBlockPaces ==
  ASSUME NEW l \in Link, NEW n \in Nat, l.out.st = "open",
         Both(l) => /\ Flow(l, n) /\ Counts(l)
                    /\ l.in.byteoffset + l.in.bytes_read = n,
         NEW r \in SendBlock(l)
  PROVE  /\ Both(r) => Both(l) /\ Counts(r) /\ Answered(r)
         /\ r.out.st = "complete" => ~fast /\ l.out.eof /\ ~(l.out.pos < Size)
         /\ r.out.st # "wait" /\ r.in = l.in
  <1> DEFINE left == Size - l.out.pos
             most == IF left < Block THEN left ELSE Block
             part(k) == SubSeq(Source, l.out.pos + 1, l.out.pos + k)
             Some(k) == [l EXCEPT !.out.pos = @ + k, !.out.bytes_sent = @ + k,
                             !.out.readwaiting = TRUE,
                             !.data = IF l.in.st = "open" /\ ~l.broken THEN @ \o part(k) ELSE @]
             Good(x) == /\ Both(x) => Both(l) /\ Counts(x) /\ Answered(x)
                        /\ x.out.st = "complete" => ~fast /\ l.out.eof /\ ~(l.out.pos < Size)
                        /\ x.out.st # "wait" /\ x.in = l.in
  <1>1. /\ Size \in Nat /\ Block \in Nat \ {0} /\ l.out.pos \in Nat /\ l.data \in Seq(1..Size)
        /\ Len(l.data) \in Nat /\ l.out.bytes_sent \in Nat /\ l.out.byteoffset \in Nat
        /\ l.in.bytes_read \in Nat /\ l.in.byteoffset \in Nat
    BY DccAssumption DEF Link, OutEnd, InEnd
  <1>2. ASSUME NEW k \in 1..most, most > 0 PROVE Good(Some(k))
    <2>0. k \in Nat /\ k > 0 /\ l.out.pos + k <= Size
      BY <1>1, <1>2
    <2>1. k \in Nat /\ k > 0 /\ l.out.pos + k <= Size /\ ~(l.out.pos = Size)
      <3> HIDE DEF most
      <3> QED BY <1>1, <2>0
    <2>2. /\ Some(k).in = l.in /\ Some(k).broken = l.broken /\ Some(k).acks = l.acks
          /\ Some(k).out.st = "open" /\ Some(k).out.pos = l.out.pos + k
          /\ Some(k).out.bytes_sent = l.out.bytes_sent + k
          /\ Some(k).out.byteoffset = l.out.byteoffset /\ Some(k).out.eof = l.out.eof
          /\ Some(k).data = IF l.in.st = "open" /\ ~l.broken THEN l.data \o part(k) ELSE l.data
      <3> HIDE DEF most, part
      <3> QED BY DEF Link, OutEnd
    <2> HIDE DEF Some
    <2>3. CASE ~Both(l)
      BY <2>2, <2>3 DEF Both
    <2>4. CASE Both(l)
      <3>1. part(k) \in Seq(1..Size) /\ Len(part(k)) = k
        <4> DEFINE pos == l.out.pos
        <4>0. pos \in Nat /\ k \in Nat /\ pos + k <= Size /\ Size \in Nat
          BY <1>1, <2>1
        <4>1. pos + 1 \in Int /\ pos + k \in Int /\ \A i \in (pos + 1)..(pos + k) : Source[i] = i /\ i \in 1..Size
          <5> HIDE DEF pos
          <5> QED BY <4>0, SourceType
        <4>2. /\ part(k) \in Seq(1..Size)
              /\ Len(part(k)) = IF l.out.pos + 1 <= l.out.pos + k THEN (l.out.pos + k) - (l.out.pos + 1) + 1 ELSE 0
          BY <4>1, SubSeqProperties
        <4> HIDE DEF part
        <4> QED BY <1>1, <2>1, <4>2
      <3> HIDE DEF part, most
      <3>2. Len(l.data \o part(k)) = Len(l.data) + Len(part(k))
        BY <1>1, <3>1, ConcatProperties
      <3>3. Some(k).data = l.data \o part(k)
        BY <2>2, <2>4 DEF Both
      <3>4. Some(k).data # <<>>
        BY <1>1, <2>1, <3>1, <3>2, <3>3
      <3>5. l.out.pos = l.out.byteoffset + l.out.bytes_sent /\ ~l.out.eof
        BY <2>1, <2>4 DEF Counts
      <3>6. Some(k).out.pos = Some(k).out.byteoffset + Some(k).out.bytes_sent
        BY <1>1, <2>1, <2>2, <3>5
      <3>7. Counts(Some(k))
        BY <2>2, <2>4, <3>5, <3>6 DEF Counts
      <3>8. Answered(Some(k))
        BY <3>4 DEF Answered
      <3> QED BY <2>2, <2>4, <3>7, <3>8
    <2> QED BY <2>3, <2>4
  <1>3. ASSUME most > 0, l.data # <<>> PROVE Good([l EXCEPT !.out.readwaiting = TRUE])
    <2> DEFINE x == [l EXCEPT !.out.readwaiting = TRUE]
    <2>1. /\ x.in = l.in /\ x.broken = l.broken /\ x.acks = l.acks /\ x.data = l.data
          /\ x.out.st = "open" /\ x.out.pos = l.out.pos /\ x.out.bytes_sent = l.out.bytes_sent
          /\ x.out.byteoffset = l.out.byteoffset /\ x.out.eof = l.out.eof
      BY DEF Link, OutEnd
    <2> HIDE DEF x
    <2>2. Good(x)
      BY <1>3, <2>1 DEF Both, Counts, Answered
    <2> QED BY <2>2 DEF x
  <1>4. ASSUME ~(most > 0), NEW e \in BOOLEAN, e \/ l.out.eof
        PROVE  Good([l EXCEPT !.out.eof = e \/ @, !.out.readwaiting = TRUE])
    <2> DEFINE x == [l EXCEPT !.out.eof = e \/ @, !.out.readwaiting = TRUE]
    <2>1. /\ x.in = l.in /\ x.broken = l.broken /\ x.acks = l.acks /\ x.data = l.data
          /\ x.out.st = "open" /\ x.out.pos = l.out.pos /\ x.out.bytes_sent = l.out.bytes_sent
          /\ x.out.byteoffset = l.out.byteoffset
      BY DEF Link, OutEnd
    <2>5. ~(l.out.pos < Size)
      BY <1>1, <1>4
    <2> HIDE DEF x, most, part, Some
    <2>2. ASSUME ~Both(l) PROVE Good(x)
      BY <2>1, <2>2 DEF Both
    <2>3. ASSUME Both(l) PROVE Good(x)
      <3>1. l.out.pos = n + Len(l.data) /\ n + Len(l.data) <= Size /\ ~(l.out.pos < Size)
        BY <1>1, <2>3, <2>5 DEF Flow, Both
      <3>2. l.out.pos = Size /\ (n < Size => Len(l.data) # 0)
        BY <1>1, <3>1, SMTT(30)
      <3>3. n < Size => l.data # <<>>
        BY <3>2
      <3>4. Counts(x)
        BY <2>1, <2>3, <3>2 DEF Counts
      <3>5. Answered(x)
        BY <2>1, <2>3, <3>3 DEF Answered
      <3> QED BY <2>1, <2>3, <3>4, <3>5
    <2>4. Good(x)
      BY <2>2, <2>3
    <2> QED BY <2>4 DEF x
  <1>5. Good(CloseOut(l, "lost"))
    BY DEF CloseOut, OutIs, Both, Link
  <1>6. ~(most > 0) /\ ~fast /\ l.out.eof => Good(CloseOut(l, "complete"))
    <2>1. ~(most > 0) => ~(l.out.pos < Size)
      BY <1>1
    <2> HIDE DEF most
    <2> QED BY <2>1 DEF CloseOut, OutIs, Both, Link
  <1>7. CASE most > 0
    <2>1. r \in {Some(most)}
             \cup (IF fast THEN {Some(k) : k \in 1..(most - 1)} ELSE {})
             \cup (IF fast /\ l.data # <<>> THEN {[l EXCEPT !.out.readwaiting = TRUE]} ELSE {})
             \cup (IF l.in.st \in Gone \/ l.broken THEN {CloseOut(l, "lost")} ELSE {})
      BY <1>7 DEF SendBlock
    <2>2. most \in 1..most /\ \A k \in 1..(most - 1) : k \in 1..most
      BY <1>1, <1>7
    <2> HIDE DEF Some, most, Good
    <2>3. Good(r)
      BY <2>1, <2>2, <1>2, <1>3, <1>5, <1>7
    <2> QED BY <2>3 DEF Good
  <1>8. CASE ~(most > 0)
    <2>1. \/ ~l.out.eof /\ r = [l EXCEPT !.out.eof = TRUE, !.out.readwaiting = TRUE]
          \/ ~fast /\ l.out.eof /\ r = CloseOut(l, "complete")
          \/ l.out.eof /\ r = [l EXCEPT !.out.readwaiting = TRUE]
      BY <1>8 DEF SendBlock
    <2>2. [l EXCEPT !.out.eof = TRUE \/ @, !.out.readwaiting = TRUE] = [l EXCEPT !.out.eof = TRUE, !.out.readwaiting = TRUE]
      BY DEF Link, OutEnd
    <2>3. l.out.eof => [l EXCEPT !.out.eof = FALSE \/ @, !.out.readwaiting = TRUE] = [l EXCEPT !.out.readwaiting = TRUE]
      BY DEF Link, OutEnd
    <2> HIDE DEF Good, most
    <2>4. Good(r)
      BY <1>4, <1>6, <1>8, <2>1, <2>2, <2>3
    <2> QED BY <2>4 DEF Good
  <1> QED BY <1>7, <1>8

LEMMA TailIs ==
  ASSUME NEW S, NEW s \in Seq(S), s # <<>>
  PROVE  /\ Len(s) \in Nat /\ Len(s) > 0 /\ Head(s) = s[1] /\ 1 \in DOMAIN s
         /\ Tail(s) \in Seq(S) /\ Len(Tail(s)) = Len(s) - 1
         /\ \A i \in DOMAIN Tail(s) : i + 1 \in DOMAIN s /\ Tail(s)[i] = s[i + 1]
         /\ Tail(s) = <<>> <=> Len(s) = 1
  <1> DEFINE t == Tail(s)
  <1>1. /\ Len(s) \in Nat /\ Len(s) > 0 /\ Head(s) = s[1] /\ 1 \in DOMAIN s /\ DOMAIN s = 1..Len(s)
        /\ t \in Seq(S) /\ Len(t) = Len(s) - 1 /\ DOMAIN t = 1..Len(t)
    BY HeadTailProperties
  <1>2. \A i \in 1..Len(t) : t[i] = s[i + 1]
    BY HeadTailProperties
  <1> HIDE DEF t
  <1>3. \A i \in DOMAIN t : i + 1 \in DOMAIN s /\ t[i] = s[i + 1]
    BY <1>1, <1>2
  <1>4. t = <<>> <=> Len(t) = 0
    BY <1>1, EmptySeq
  <1>5. t = <<>> <=> Len(s) = 1
    BY <1>1, <1>4
  <1> QED BY <1>1, <1>3, <1>5 DEF t

(* An acknowledgement that is not the last leaves the last in place; the last one is
   what the receiver has, and then all that was sent if nothing is left to read. *)
LEMMA SenderPaces ==
  ASSUME NEW l \in Link, NEW n \in Nat, l.out.st = "open",
         l.in.st = "open" => Flow(l, n),
         InPace(l, n), NEW r \in process_dcc_send1(l),
         l.acks # <<>> \/ l.in.st \in Gone \/ l.broken
  PROVE  /\ InPace(r, n)
         /\ Both(r) => Both(l)
         /\ r.out.st = "complete" => l.in.st \in Gone \/ l.broken
  <1> DEFINE m == [l EXCEPT !.acks = Tail(@)]
             k == [m EXCEPT !.out.readwaiting = FALSE]
             e == [l EXCEPT !.acks = <<>>, !.out.readwaiting = TRUE]
             heeds == kind # "TSEND" /\ l.out.readwaiting
             Good(x) == /\ Both(x) => Both(l) /\ Counts(x) /\ Answered(x)
                        /\ x.out.st = "complete" => l.in.st \in Gone \/ l.broken
                        /\ x.out.st # "wait" /\ x.in = l.in
  <1>1. /\ Size \in Nat /\ l.out.pos \in Nat /\ l.data \in Seq(1..Size)
        /\ Len(l.data) \in Nat /\ l.out.bytes_sent \in Nat /\ l.out.byteoffset \in Nat
        /\ l.in.bytes_read \in Nat /\ l.in.byteoffset \in Nat /\ l.acks \in Seq(Int)
        /\ l.in.st \in {"open", "none"} \cup Gone
    BY DccAssumption DEF Link, OutEnd, InEnd, InState
  <1>2. Both(l) => /\ Flow(l, n) /\ Counts(l) /\ Answered(l)
                   /\ l.in.byteoffset + l.in.bytes_read = n
                   /\ l.out.pos = n + Len(l.data) /\ n + Len(l.data) <= Size
    BY DEF InPace, Both, Flow
  <1>3. ~Both(l) => l.in.st \in Gone \/ l.broken
    BY <1>1 DEF Both, InPace
  <1>4. ASSUME NEW x, Good(x)
        PROVE  /\ InPace(x, n) /\ (Both(x) => Both(l))
               /\ x.out.st = "complete" => l.in.st \in Gone \/ l.broken
    BY <1>4 DEF InPace
  <1>5. ASSUME l.acks # <<>>
        PROVE  /\ Len(l.acks) \in Nat /\ Len(l.acks) > 0 /\ Head(l.acks) = l.acks[1]
               /\ 1 \in DOMAIN l.acks /\ Tail(l.acks) \in Seq(Int)
               /\ Len(Tail(l.acks)) = Len(l.acks) - 1
               /\ \A i \in DOMAIN Tail(l.acks) : i + 1 \in DOMAIN l.acks /\ Tail(l.acks)[i] = l.acks[i + 1]
               /\ Tail(l.acks) = <<>> <=> Len(l.acks) = 1
               /\ m \in Link /\ k \in Link
               /\ m.in = l.in /\ m.broken = l.broken /\ m.data = l.data /\ m.out = l.out
               /\ m.acks = Tail(l.acks)
               /\ k.in = l.in /\ k.broken = l.broken /\ k.data = l.data /\ k.acks = Tail(l.acks)
               /\ k.out.st = "open" /\ k.out.pos = l.out.pos /\ k.out.bytes_sent = l.out.bytes_sent
               /\ k.out.byteoffset = l.out.byteoffset /\ k.out.eof = l.out.eof
    <2>1. Tail(l.acks) \in Seq(Int)
      BY <1>5, HeadTail DEF Link
    <2>2. /\ Len(l.acks) \in Nat /\ Len(l.acks) > 0 /\ Head(l.acks) = l.acks[1]
          /\ 1 \in DOMAIN l.acks
          /\ Len(Tail(l.acks)) = Len(l.acks) - 1
          /\ \A i \in DOMAIN Tail(l.acks) : i + 1 \in DOMAIN l.acks /\ Tail(l.acks)[i] = l.acks[i + 1]
          /\ Tail(l.acks) = <<>> <=> Len(l.acks) = 1
      BY <1>1, <1>5, TailIs
    <2>4. /\ m \in Link /\ k \in Link
          /\ m.in = l.in /\ m.broken = l.broken /\ m.data = l.data /\ m.out = l.out
          /\ m.acks = Tail(l.acks)
          /\ k.in = l.in /\ k.broken = l.broken /\ k.data = l.data /\ k.acks = Tail(l.acks)
          /\ k.out.st = "open" /\ k.out.pos = l.out.pos /\ k.out.bytes_sent = l.out.bytes_sent
          /\ k.out.byteoffset = l.out.byteoffset /\ k.out.eof = l.out.eof
      BY <2>1 DEF Link, OutEnd
    <2> HIDE DEF m, k
    <2> QED BY <2>1, <2>2, <2>4
  <1>6. ASSUME l.acks # <<>>, Both(l)
        PROVE  /\ l.in.byteoffset + l.in.bytes_read < Size
               /\ Head(l.acks) <= l.in.bytes_read
               /\ \A i \in DOMAIN Tail(l.acks) : Tail(l.acks)[i] <= l.in.bytes_read
               /\ Len(l.acks) # 1 /\ l.data = <<>> =>
                     Tail(l.acks)[Len(Tail(l.acks))] = l.in.bytes_read
               /\ Len(l.acks) = 1 /\ l.data = <<>> =>
                     /\ Head(l.acks) = l.in.bytes_read
                     /\ l.in.bytes_read = l.out.bytes_sent /\ ~l.out.eof
    <2>1. /\ l.in.byteoffset + l.in.bytes_read <= Size
          /\ l.in.byteoffset + l.in.bytes_read # Size
      BY <1>1, <1>2, <1>6 DEF Counts
    <2>2. l.in.byteoffset + l.in.bytes_read < Size
      <3> DEFINE R == l.in.byteoffset + l.in.bytes_read
      <3>1. R \in Nat /\ Size \in Nat /\ R <= Size /\ R # Size
        BY <1>1, <2>1, SMTT(30)
      <3> HIDE DEF R
      <3>2. R < Size
        BY <3>1
      <3> QED BY <3>2 DEF R
    <2>3. \A i \in DOMAIN l.acks : l.acks[i] <= l.in.bytes_read
      BY <1>2, <1>6 DEF Counts
    <2>4. l.data = <<>> => l.acks[Len(l.acks)] = l.in.bytes_read
      BY <1>2, <1>6, <2>2 DEF Answered
    <2>5. Len(l.acks) # 1 => /\ Len(Tail(l.acks)) \in DOMAIN Tail(l.acks)
                             /\ Len(Tail(l.acks)) + 1 = Len(l.acks)
      <3> DEFINE t == Tail(l.acks)
                 len == Len(l.acks)
      <3>1. t \in Seq(Int) /\ len \in Nat /\ len > 0 /\ Len(t) = len - 1
        BY <1>5, <1>6
      <3> HIDE DEF t, len
      <3>2. len # 1 => Len(t) \in DOMAIN t /\ Len(t) + 1 = len
        BY <3>1
      <3> QED BY <3>2 DEF t, len
    <2>6. l.data = <<>> => l.out.pos = n /\ l.out.pos # Size /\ l.in.bytes_read = l.out.bytes_sent
      <3> HAVE l.data = <<>>
      <3>1. l.out.byteoffset = l.in.byteoffset /\ l.out.pos = l.out.byteoffset + l.out.bytes_sent
        BY <1>2, <1>6 DEF Counts
      <3>2. Len(l.data) = 0 /\ l.out.pos = n + Len(l.data) /\ l.in.byteoffset + l.in.bytes_read = n
        BY <1>2, <1>6
      <3> QED BY <1>1, <2>2, <3>1, <3>2
    <2>7. l.data = <<>> => ~l.out.eof
      BY <1>2, <1>6, <2>6 DEF Counts
    <2>8. \A i \in DOMAIN Tail(l.acks) : Tail(l.acks)[i] <= l.in.bytes_read
      BY <1>5, <1>6, <2>3
    <2>9. Len(l.acks) # 1 /\ l.data = <<>> => Tail(l.acks)[Len(Tail(l.acks))] = l.in.bytes_read
      BY <1>5, <1>6, <2>4, <2>5
    <2>10. Head(l.acks) <= l.in.bytes_read /\ (Len(l.acks) = 1 /\ l.data = <<>> => Head(l.acks) = l.in.bytes_read)
      BY <1>5, <1>6, <2>3, <2>4
    <2> QED BY <2>2, <2>6, <2>7, <2>8, <2>9, <2>10
  <1>7. ASSUME l.acks # <<>>, Both(l) PROVE Counts(m) /\ Counts(k)
    <2>1. /\ l.in.byteoffset + l.in.bytes_read # Size
          /\ \A i \in DOMAIN Tail(l.acks) : Tail(l.acks)[i] <= l.in.bytes_read
      BY <1>1, <1>6, <1>7
    <2>2. Counts(l)
      BY <1>2, <1>7
    <2> HIDE DEF m, k
    <2> QED BY <1>5, <1>7, <2>1, <2>2 DEF Counts
  <1>8. ASSUME l.acks # <<>>, ~InStep(l) \/ Len(l.acks) # 1 \/ l.data # <<>> PROVE Good(m)
    <2> HIDE DEF m, k
    <2>1. Both(m) => Both(l)
      BY <1>5, <1>8 DEF Both
    <2>2. Both(l) => Answered(m)
      <3> HAVE Both(l)
      <3>1. l.data = <<>> => Len(l.acks) # 1
        BY <1>6, <1>8 DEF InStep
      <3>2. l.data = <<>> => m.acks # <<>> /\ m.acks[Len(m.acks)] = l.in.bytes_read
        BY <1>5, <1>6, <1>8, <3>1
      <3> QED BY <1>5, <1>8, <3>2 DEF Answered
    <2> QED BY <1>5, <1>7, <1>8, <2>1, <2>2
  <1>9. ASSUME l.acks # <<>>, Head(l.acks) # Size - l.out.byteoffset, InStep(l), r \in SendBlock(k)
        PROVE  Good(r)
    <2> HIDE DEF m, k
    <2>1. Both(k) <=> Both(l)
      BY <1>5, <1>9 DEF Both
    <2>2. Both(l) => Flow(k, n)
      BY <1>2, <1>5, <1>9 DEF Flow, Both
    <2>3. Both(k) => /\ Flow(k, n) /\ Counts(k) /\ k.in.byteoffset + k.in.bytes_read = n
      BY <1>2, <1>5, <1>7, <1>9, <2>1, <2>2
    <2>4. /\ Both(r) => Both(k) /\ Counts(r) /\ Answered(r)
          /\ r.out.st = "complete" => ~fast /\ k.out.eof /\ ~(k.out.pos < Size)
          /\ r.out.st # "wait" /\ r.in = k.in
      BY <1>5, <1>9, <2>3, SendBlockPaces
    <2>5. r.out.st = "complete" => ~Both(l)
      <3> SUFFICES ASSUME r.out.st = "complete", Both(l) PROVE FALSE
        OBVIOUS
      <3>1. ~fast /\ l.out.eof
        BY <1>5, <1>9, <2>4
      <3>2. Head(l.acks) = l.out.bytes_sent
        BY <3>1, <1>9 DEF InStep
      <3>3. l.out.pos = Size /\ l.out.pos = l.out.byteoffset + l.out.bytes_sent
        BY <1>2, <3>1 DEF Counts
      <3>4. Head(l.acks) = Size - l.out.byteoffset
        BY <1>1, <3>2, <3>3
      <3> QED BY <1>9, <3>4
    <2> QED BY <1>3, <1>5, <1>9, <2>1, <2>4, <2>5
  <1>10. ASSUME ~heeds, l.out.eof, l.acks # <<>> PROVE Good(e)
    <2>1. /\ e.in = l.in /\ e.broken = l.broken /\ e.data = l.data /\ e.acks = <<>>
          /\ e.out.st = "open" /\ e.out.pos = l.out.pos /\ e.out.bytes_sent = l.out.bytes_sent
          /\ e.out.byteoffset = l.out.byteoffset /\ e.out.eof = l.out.eof
      BY DEF Link, OutEnd
    <2> HIDE DEF e
    <2>2. Both(e) => Both(l)
      BY <2>1 DEF Both
    <2>3. Both(l) => Counts(e)
      BY <1>2, <2>1 DEF Counts
    <2>4. Both(l) => Answered(e)
      <3> HAVE Both(l)
      <3>1. l.out.pos = Size /\ l.out.pos = n + Len(l.data) /\ l.in.byteoffset + l.in.bytes_read = n
        BY <1>2, <1>10 DEF Counts
      <3>2. n < Size => Len(l.data) # 0
        BY <1>1, <3>1
      <3>3. n < Size => l.data # <<>>
        BY <3>2
      <3> QED BY <2>1, <3>1, <3>3 DEF Answered
    <2> QED BY <2>1, <2>2, <2>3, <2>4
  <1>11. ASSUME NEW st \in Gone, st = "complete" => ~Both(l) PROVE Good(CloseOut(l, st))
    <2>1. /\ CloseOut(l, st).in = l.in /\ CloseOut(l, st).out.st = st
      BY DEF CloseOut, OutIs, Link
    <2>2. st \notin {"wait", "open"}
      BY DEF Gone
    <2> QED BY <1>3, <1>11, <2>1, <2>2 DEF Both
  <1>12. ASSUME r \in SendBlock(l), l.acks = <<>> \/ ~heeds, ~l.out.eof \/ heeds PROVE Good(r)
    <2>1. /\ Both(r) => Both(l) /\ Counts(r) /\ Answered(r)
          /\ r.out.st = "complete" => ~fast /\ l.out.eof /\ ~(l.out.pos < Size)
          /\ r.out.st # "wait" /\ r.in = l.in
      BY <1>2, <1>12, SendBlockPaces
    <2>2. r.out.st = "complete" => ~Both(l)
      BY <1>3, <1>12, <2>1 DEF Gone, Both
    <2> QED BY <1>3, <2>1, <2>2
  <1>13. CASE heeds /\ l.acks # <<>>
    <2>1. Head(l.acks) = Size - l.out.byteoffset => ~Both(l)
      <3> SUFFICES ASSUME Head(l.acks) = Size - l.out.byteoffset, Both(l) PROVE FALSE
        OBVIOUS
      <3>1. /\ l.in.byteoffset + l.in.bytes_read < Size /\ Head(l.acks) <= l.in.bytes_read
            /\ l.out.byteoffset = l.in.byteoffset
        BY <1>2, <1>6, <1>13 DEF Counts
      <3> QED BY <1>1, <3>1
    <2>2. \/ r = CloseOut(l, "lost")
          \/ Head(l.acks) = Size - l.out.byteoffset /\ r = CloseOut(l, "complete")
          \/ Head(l.acks) # Size - l.out.byteoffset /\ ~InStep(l) /\ r = m
          \/ Head(l.acks) # Size - l.out.byteoffset /\ InStep(l) /\ r \in SendBlock(k)
      BY <1>13 DEF process_dcc_send1
    <2> HIDE DEF m, k, Good
    <2>3. Good(r)
      BY <1>8, <1>9, <1>11, <1>13, <2>1, <2>2 DEF Gone
    <2> QED BY <1>4, <2>3
  <1>14. CASE ~heeds /\ l.out.eof
    <2>1. \/ l.acks # <<>> /\ r = e
          \/ l.acks = <<>> /\ r = CloseOut(l, "complete")
          \/ r = CloseOut(l, "lost")
      BY <1>14 DEF process_dcc_send1
    <2>2. l.acks = <<>> => ~Both(l)
      BY DEF Both, Gone
    <2> HIDE DEF e, Good
    <2>3. Good(r)
      BY <1>10, <1>11, <1>14, <2>1, <2>2 DEF Gone
    <2> QED BY <1>4, <2>3
  <1>15. CASE ~(heeds /\ l.acks # <<>>) /\ ~(~heeds /\ l.out.eof)
    <2>1. r \in SendBlock(l)
      BY <1>15 DEF process_dcc_send1
    <2> HIDE DEF heeds, Good
    <2>2. Good(r)
      BY <1>12, <1>15, <2>1
    <2> QED BY <1>4, <2>2
  <1> QED BY <1>13, <1>14, <1>15

(* What the receiver acknowledges is what it has counted. *)
LEMMA ReceiverPaces ==
  ASSUME NEW l \in Link, NEW n \in Nat, l.in.st = "open", l.out.st # "wait", Flow(l, n), InPace(l, n),
         NEW k \in 1..Len(l.data)
  PROVE  /\ InPace(start_dcc_get(l, k), n + k)
         /\ start_dcc_get(l, k).in.st = "complete" => n + k = Size
         /\ start_dcc_get(l, k).in.st = "open" /\ Size > 0 => n + k < Size
         /\ Both(start_dcc_get(l, k)) => Both(l)
         /\ start_dcc_get(l, k).in.st = "open" =>
               start_dcc_get(l, k).in.byteoffset = l.in.byteoffset
         /\ start_dcc_get(l, k).out = l.out
  <1> DEFINE in == [l.in EXCEPT !.bytes_read = @ + k]
             a == IF l.out.st = "open" THEN Append(l.acks, in.bytes_read) ELSE l.acks
             rest == SubSeq(l.data, k + 1, Len(l.data))
             m == [l EXCEPT !.data = rest, !.in = in, !.acks = a]
             total == in.bytes_read + in.byteoffset
             r == start_dcc_get(l, k)
  <1>1. /\ Size \in Nat /\ l.out.pos \in Nat /\ l.data \in Seq(1..Size)
        /\ Len(l.data) \in Nat /\ l.out.bytes_sent \in Nat /\ l.out.byteoffset \in Nat
        /\ l.in.bytes_read \in Nat /\ l.in.byteoffset \in Nat /\ l.acks \in Seq(Int)
        /\ k \in Nat /\ k > 0 /\ k <= Len(l.data)
    BY DccAssumption DEF Link, OutEnd, InEnd
  <1>2. /\ in.bytes_read = l.in.bytes_read + k /\ in.byteoffset = l.in.byteoffset /\ in.st = "open"
    BY DEF Link, InEnd
  <1>3. /\ m.in = in /\ m.out = l.out /\ m.broken = l.broken /\ m.acks = a /\ m.data = rest
    <2> HIDE DEF in, a, rest
    <2> QED BY DEF Link
  <1>4. /\ \A st \in Gone : /\ CloseIn(m, st).out = l.out /\ CloseIn(m, st).acks = a
                            /\ CloseIn(m, st).in.st = st
    <2> HIDE DEF in, a, rest
    <2> QED BY DEF Link, CloseIn, InIs
  <1>5. r = IF Size > 0 /\ total > Size THEN CloseIn(m, "lost")
            ELSE IF Size > 0 /\ total = Size THEN CloseIn(m, "complete")
            ELSE m
    BY DEF start_dcc_get
  <1>6. /\ l.in.byteoffset + l.in.bytes_read = n /\ n + Len(l.data) <= Size
        /\ l.out.st = "wait" => l.in.bytes_read = 0 /\ l.acks = <<>>
        /\ Both(l) => Counts(l) /\ Answered(l)
        /\ l.out.st = "open" /\ ~l.broken => l.out.pos = n + Len(l.data)
    BY DEF InPace, Flow
  <1> DEFINE br == l.in.bytes_read
             bo == l.in.byteoffset
             dl == Len(l.data)
             ibr == in.bytes_read
             ibo == in.byteoffset
  <1>7. /\ br \in Nat /\ bo \in Nat /\ dl \in Nat /\ k \in Nat /\ k > 0 /\ k <= dl /\ Size \in Nat
        /\ bo + br = n /\ n + dl <= Size /\ ibr = br + k /\ ibo = bo
    BY <1>1, <1>2, <1>6
  <1>8. ibo + ibr = n + k /\ ibr + ibo = n + k /\ n + k <= Size /\ Size > 0 /\ ibr \in Nat /\ br <= ibr
    <2> HIDE DEF br, bo, dl, ibr, ibo
    <2> QED BY <1>7
  <1> HIDE DEF in, rest, r, m
  <1>9. ASSUME r = m, Both(l), n + k < Size
        PROVE  Counts(m) /\ Answered(m)
    <2> DEFINE len == Len(l.acks)
               x == in.bytes_read
    <2>1. a = Append(l.acks, x) /\ l.acks \in Seq(Int) /\ x \in Int /\ br <= x /\ br \in Int
      BY <1>1, <1>7, <1>8, <1>9 DEF Both
    <2>2. /\ len \in Nat /\ Len(a) = len + 1 /\ DOMAIN a = 1..(len + 1) /\ a[len + 1] = x
          /\ \A i \in 1..len : a[i] = l.acks[i] /\ DOMAIN l.acks = 1..len
      BY <2>1
    <2>3. \A i \in DOMAIN l.acks : l.acks[i] <= br /\ l.acks[i] \in Int
      BY <1>1, <1>6, <1>9 DEF Counts
    <2> HIDE DEF a, len, x, br
    <2>4. \A i \in DOMAIN a : a[i] <= x
      BY <2>1, <2>2, <2>3
    <2>5. a # <<>> /\ a[Len(a)] = x
      BY <2>2
    <2>6. in.byteoffset + in.bytes_read # Size
      <3> HIDE DEF ibo, ibr
      <3>1. ibo + ibr # Size
        BY <1>7, <1>8, <1>9
      <3> QED BY <3>1 DEF ibo, ibr
    <2>7. /\ l.out.byteoffset = in.byteoffset
          /\ l.out.pos = l.out.byteoffset + l.out.bytes_sent
          /\ l.out.eof => l.out.pos = Size
      BY <1>2, <1>6, <1>9 DEF Counts
    <2>8. Counts(m)
      BY <1>3, <2>4, <2>6, <2>7 DEF Counts, x
    <2>9. Answered(m)
      BY <1>3, <2>5 DEF Answered, x
    <2> QED BY <2>8, <2>9
  <1>10. ASSUME r = m, n + k < Size PROVE InPace(m, n + k)
    <2>1. m.out.st # "wait"
      BY <1>3
    <2>2. m.in.byteoffset + m.in.bytes_read = n + k
      BY <1>3, <1>8
    <2>3. Both(m) => Both(l)
      BY <1>2, <1>3 DEF Both
    <2> QED BY <1>2, <1>3, <1>9, <1>10, <2>1, <2>2, <2>3 DEF InPace
  <1>11. CASE n + k = Size
    <2>1. r = CloseIn(m, "complete")
      BY <1>5, <1>8, <1>11
    <2>2. r.out = l.out /\ r.acks = a /\ r.in.st = "complete"
      BY <1>4, <2>1 DEF Gone
    <2>3. InPace(r, n + k) /\ ~Both(r)
      BY <2>2 DEF InPace, Both
    <2> QED BY <1>11, <2>2, <2>3 DEF r
  <1>12. CASE n + k # Size
    <2>1. n + k < Size /\ ~(n + k > Size)
      <3> HIDE DEF br, bo, dl, ibr, ibo
      <3> QED BY <1>7, <1>8, <1>12
    <2>2. r = m
      BY <1>5, <1>8, <1>12, <2>1
    <2>3. r.out = l.out /\ r.in.st = "open" /\ r.in.byteoffset = l.in.byteoffset /\ (Both(r) => Both(l))
      BY <1>2, <1>3, <2>2 DEF Both
    <2> QED BY <1>10, <2>1, <2>2, <2>3 DEF r
  <1> QED BY <1>11, <1>12

-----------------------------------------------------------------------------
(* What a step does to a connection *)

Same(q) == link'[q] = link[q]

Shut(q) ==
    \/ link'[q] \in {CloseOut(link[q], "lost"), CloseIn(link[q], "lost")}
    \/ link'[q] = [link[q] EXCEPT !.in.st = "lost"]
    \/ link'[q] = [link[q] EXCEPT !.broken = TRUE, !.data = <<>>, !.acks = <<>>]

Fresh(q) == link'[q] = [NoLink("a") EXCEPT !.out.st = "wait"]

Told(q) ==
    \E i \in DOMAIN wire["a"] :
        /\ wire["a"][i].port = q
        /\ link'[q] = [link[q] EXCEPT !.out.byteoffset = wire["a"][i].offset]

Joined(q) ==
    /\ link[q].out.st = "wait"
    /\ link'[q] = [link[q] EXCEPT !.in = [st |-> "open", byteoffset |-> Have', bytes_read |-> 0]]

Plain == Have' = Have /\ \A q \in Port : Same(q) \/ Shut(q) \/ Fresh(q) \/ Told(q)

(* Size > 0 and ReGet's guard keep an empty rest from being asked for *)
Joins ==
    \E p \in Port :
        /\ Joined(p) /\ Have' \in Nat
        /\ Size > 0 /\ "reget_whole" \notin Hazards => Have' < Size
        /\ \A q \in Port : link[q].in.st # "open" /\ (q # p => Same(q))

Works == Have' = Have /\ \E p \in Port : Accept(p) \/ SenderReads(p)

Reads == \E p \in Port : ReceiverReads(p)

(* A request to resume is sent when nothing is being received *)
Asks ==
    \A i \in DOMAIN wire'["a"] :
        \/ \E j \in DOMAIN wire["a"] : wire'["a"][i] = wire["a"][j]
        \/ \A q \in Port : Same(q) /\ link[q].in.st # "open"

LEMMA JoinHappens ==
  ASSUME TypeOK, NEW p, ConnectTo(p, Have'), Have' \in Nat,
         Size > 0 /\ "reget_whole" \notin Hazards => Have' < Size,
         \A q \in Port : link[q].in.st # "open"
  PROVE  Joins
  <1> DEFINE new == [st |-> "open", byteoffset |-> Have', bytes_read |-> 0]
  <1>1. p \in Port /\ link[p].out.st = "wait" /\ link' = [link EXCEPT ![p].in = new]
    BY DEF ConnectTo
  <1>2. /\ link'[p] = [link[p] EXCEPT !.in = new]
        /\ \A q \in Port : q # p => link'[q] = link[q]
    <2> HIDE DEF new
    <2> QED BY <1>1 DEF TypeOK
  <1>3. Joined(p)
    BY <1>1, <1>2 DEF Joined
  <1> QED BY <1>1, <1>2, <1>3 DEF Joins, Same

LEMMA ConnectHappens ==
  ASSUME TypeOK, NEW offset \in Nat, NEW start, Connect("b", offset, start),
         start.data \in Seq(1..Size),
         \A q \in Port : link[q].in.st # "open",
         LET p == Head(pending["b"]).port
         IN  p \in Port /\ link[p].out.st = "wait" /\ link[p].in.st = "none" =>
                /\ offset = Len(start.data)
                /\ Size > 0 /\ "reget_whole" \notin Hazards => Len(start.data) < Size
  PROVE  Plain \/ Joins
  <1> DEFINE p == Head(pending["b"]).port
  <1>1. CASE UNCHANGED <<link, file>>
    BY <1>1 DEF Plain, Same, Have
  <1>2. CASE ConnectTo(p, offset) /\ file' = start
    <2>1. p \in Port /\ link[p].out.st = "wait" /\ link[p].in.st = "none"
      BY <1>2 DEF ConnectTo
    <2>2. /\ Have' = Len(start.data) /\ Have' \in Nat /\ offset = Have'
          /\ Size > 0 /\ "reget_whole" \notin Hazards => Have' < Size
      BY <1>2, <2>1 DEF Have
    <2> QED BY <1>2, <2>2, JoinHappens
  <1> QED BY <1>1, <1>2 DEF Connect

LEMMA ErasedHappens ==
  ASSUME TypeOK, NEW c \in Client, NEW q \in Port, link'[q] = Erased(link[q], c)
  PROVE  Same(q) \/ Shut(q)
  BY DEF Erased, Same, Shut

LEMMA CommandHappens ==
  ASSUME NoHazards, TypeOK, Transfers, kind # "CHAT",
         Get \/ ReGet \/ dcc_resume \/ \E c \in Client : Commands(c)
  PROVE  (Plain \/ Joins) /\ Asks
  <1>0. "a" \in Client /\ "b" \in Client /\ "a" # "b" /\ wire["a"] \in Seq(Message)
    BY DEF Client, TypeOK
  <1>1. UNCHANGED wire => Asks
    BY DEF Asks
  <1>2. find_dcc("b") = {} => \A q \in Port : link[q].in.st # "open"
    BY DEF find_dcc, Active, Transfers, Sockets
  <1>3. CASE Get
    <2> DEFINE start == [there |-> TRUE, data |-> <<>>]
               p == Head(pending["b"]).port
    <2>1. /\ Connect("b", Head(pending["b"]).byteoffset, start) /\ pending["b"] # <<>>
          /\ UNCHANGED wire /\ find_dcc("b") = {}
          /\ \A i \in DOMAIN pending["b"] : pending["b"][i].byteoffset = 0
      BY <1>3 DEF Get, NoHazards
    <2>2. Head(pending["b"]).byteoffset = 0
      <3>1. pending["b"] \in Seq(Pending)
        BY <1>0 DEF TypeOK, Pending
      <3>2. 1 \in DOMAIN pending["b"] /\ pending["b"][1] = Head(pending["b"])
        BY <2>1, <3>1
      <3> QED BY <2>1, <3>2
    <2>3. start.data \in Seq(1..Size) /\ Len(start.data) = 0
      BY EmptySeq
    <2> HIDE DEF start
    <2>4. Connect("b", 0, start)
      BY <2>1, <2>2
    <2>5. Plain \/ Joins
      BY <1>2, <2>1, <2>3, <2>4, ConnectHappens
    <2> QED BY <1>1, <2>1, <2>5
  <1>4. CASE ReGet
    <2> DEFINE start == [file EXCEPT !.there = TRUE]
    <2>1. /\ Connect("b", Len(file.data), start)
          /\ UNCHANGED wire /\ find_dcc("b") = {}
          /\ Len(file.data) < Size \/ "reget_whole" \in Hazards
      BY <1>4 DEF ReGet
    <2>2. start.data = file.data /\ file.data \in Seq(1..Size) /\ Len(file.data) \in Nat
      BY DEF TypeOK
    <2> HIDE DEF start
    <2>3. Plain \/ Joins
      BY <1>2, <2>1, <2>2, ConnectHappens
    <2> QED BY <1>1, <2>1, <2>3
  <1>5. CASE dcc_resume
    <2>1. /\ UNCHANGED <<link, file>> /\ find_dcc("b") = {}
      BY <1>5 DEF dcc_resume
    <2>2. Plain
      BY <2>1 DEF Plain, Same, Have
    <2>3. Asks
      BY <1>2, <2>1 DEF Asks, Same
    <2> QED BY <2>2, <2>3
  <1>6. CASE \E c \in Client : dcc_close(c)
    <2>1. UNCHANGED <<wire, file>>
      BY <1>6 DEF dcc_close
    <2>2. \A q \in Port : Same(q) \/ Shut(q)
      BY <1>6, ErasedHappens DEF dcc_close
    <2> QED BY <1>1, <2>1, <2>2 DEF Plain, Have
  <1>7. CASE \E c \in Client : Offer(c)
    <2>1. PICK c \in Client : Offer(c)
      BY <1>7
    <2>2. c = "a"
      BY <2>1 DEF Offer
    <2>3. CASE UNCHANGED <<link, file>> /\ (Repeat(c) \/ UNCHANGED wire)
      <3>1. wire'["a"] = wire["a"]
        BY <1>0, <2>2, <2>3 DEF Repeat, Send, Other, TypeOK
      <3> QED BY <2>3, <3>1 DEF Plain, Same, Have, Asks
    <2>4. CASE Listen(c)
      <3>1. wire'["a"] = wire["a"]
        BY <1>0, <2>2, <2>4 DEF Listen, Send, Other, TypeOK
      <3>2. \A q \in Port : Same(q) \/ Fresh(q)
        BY <2>2, <2>4 DEF Listen, Same, Fresh, TypeOK
      <3> QED BY <2>4, <3>1, <3>2 DEF Listen, Plain, Have, Asks
    <2> QED BY <2>1, <2>3, <2>4 DEF Offer
  <1> QED BY <1>3, <1>4, <1>5, <1>6, <1>7 DEF Commands, AnswerChat

LEMMA DeliverHappens ==
  ASSUME NoHazards, TypeOK, Transfers, kind # "CHAT", NEW c \in Client, Deliver(c)
  PROVE  (Plain \/ Joins) /\ Asks
  <1> DEFINE m == Head(wire[c])
  <1>0. /\ "a" \in Client /\ "b" \in Client /\ "a" # "b" /\ c \in {"a", "b"}
        /\ wire["a"] \in Seq(Message) /\ wire["b"] \in Seq(Message) /\ wire[c] # <<>>
    BY DEF Client, TypeOK, Deliver
  <1>1. /\ m = wire[c][1] /\ 1 \in DOMAIN wire[c] /\ m \in Message
        /\ \A d \in Client : wire[d] # <<>> =>
              \A i \in DOMAIN Tail(wire[d]) : \E j \in DOMAIN wire[d] : Tail(wire[d])[i] = wire[d][j]
    BY <1>0, TailIs DEF Client
  <1>2. /\ c = "a" => m.op = "RESUME"
        /\ c = "b" => m.op \in {"OFFER", "ACCEPT"}
    BY <1>0, <1>1 DEF Transfers, Messages
  <1>3. /\ c = "a" => Received(c)["a"] = Tail(wire["a"])
        /\ c = "b" => Received(c)["a"] = wire["a"]
    BY <1>0 DEF Received, TypeOK
  <1>4. CASE m.op = "OFFER"
    <2>1. c = "b" /\ OfferArrives(c, m)
      BY <1>0, <1>2, <1>4 DEF Deliver
    <2>2. Waiting("b") = {}
      BY DEF Waiting, Transfers, Sockets
    <2>3. wire' = Received(c) => Asks
      BY <1>3, <2>1 DEF Asks
    <2>4. find_dcc("b") = {} => \A q \in Port : link[q].in.st # "open"
      BY DEF find_dcc, Active, Transfers, Sockets
    <2>5. CASE wire' = Received(c) /\ UNCHANGED <<link, file>>
      BY <2>3, <2>5 DEF Plain, Same, Have
    <2>6. CASE find_dcc("b") = {} /\ ResumedAtOnce("b", m)
      BY <2>4, <2>6 DEF ResumedAtOnce, Plain, Same, Have, Asks
    <2>7. CASE find_dcc("b") = {} /\ wire' = Received(c) /\ TakenAtOnce(m)
      <3>1. /\ Have' = Have /\ Have \in Nat /\ Have = Len(file.data)
            /\ ConnectTo(m.port, Have) \/ UNCHANGED link
        BY <2>7, HaveType DEF TakenAtOnce, Have, TypeOK
      <3>2. Size > 0 /\ "reget_whole" \notin Hazards => Have < Size
        BY <2>7, <3>1 DEF TakenAtOnce, Transfers, Sockets
      <3>3. CASE UNCHANGED link
        BY <2>3, <2>7, <3>1, <3>3 DEF Plain, Same
      <3>4. CASE ConnectTo(m.port, Have)
        <4>1. ConnectTo(m.port, Have') /\ Have' \in Nat
          BY <3>1, <3>4
        <4>2. Joins
          BY <2>4, <2>7, <3>1, <3>2, <4>1, JoinHappens
        <4> QED BY <2>3, <2>7, <4>2
      <3> QED BY <3>1, <3>3, <3>4
    <2> QED BY <2>1, <2>2, <2>5, <2>6, <2>7 DEF OfferArrives
  <1>5. CASE m.op = "RESUME"
    <2>1. c = "a" /\ ResumeArrives(c, m) /\ UNCHANGED file
      BY <1>0, <1>2, <1>5 DEF Deliver
    <2>2. \A q \in Port : Same(q) \/ Told(q)
      BY <1>1, <2>1 DEF ResumeArrives, Resumed, Same, Told
    <2>3. wire'["a"] = Tail(wire["a"])
      <3>1. CASE wire' = Received(c)
        BY <1>3, <2>1, <3>1
      <3>2. CASE wire' = [Received(c) EXCEPT ![Other(c)] = Append(@, [m EXCEPT !.op = "ACCEPT"])]
        BY <1>0, <1>3, <2>1, <3>2 DEF Other, Received, TypeOK
      <3> QED BY <2>1, <3>1, <3>2 DEF ResumeArrives
    <2>4. Asks
      BY <1>0, <1>1, <2>1, <2>3 DEF Asks
    <2> QED BY <2>1, <2>2, <2>4 DEF Plain, Have
  <1>6. CASE m.op = "ACCEPT"
    <2>1. c = "b" /\ AcceptArrives("b")
      BY <1>0, <1>2, <1>6 DEF Deliver
    <2>2. Asks
      BY <1>3, <2>1 DEF Asks, AcceptArrives
    <2>3. CASE UNCHANGED <<link, file>>
      BY <2>2, <2>3 DEF Plain, Same, Have
    <2>4. CASE /\ find_dcc("b") = {} /\ pending["b"] # <<>>
               /\ UNCHANGED file
               /\ \E p \in Port : link' = [link EXCEPT ![p].in.st = "lost"]
      <3>1. \A q \in Port : Same(q) \/ Shut(q)
        BY <2>4 DEF TypeOK, Same, Shut
      <3> QED BY <2>2, <2>4, <3>1 DEF Plain, Have
    <2>5. CASE /\ find_dcc("b") = {} /\ pending["b"] # <<>>
               /\ Len(file.data) < Size
               /\ Connect("b", Head(pending["b"]).byteoffset, file)
      <3> DEFINE p == Head(pending["b"]).port
      <3>1. \A q \in Port : link[q].in.st # "open"
        BY <2>5 DEF find_dcc, Active, Transfers, Sockets
      <3>2. /\ 1 \in DOMAIN pending["b"] /\ pending["b"][1] = Head(pending["b"])
            /\ Head(pending["b"]).byteoffset \in Nat
        <4>1. pending["b"] \in Seq(Pending)
          BY <1>0 DEF TypeOK, Pending
        <4>2. 1 \in DOMAIN pending["b"] /\ pending["b"][1] = Head(pending["b"]) /\ pending["b"][1] \in Pending
          BY <2>5, <4>1
        <4> QED BY <4>2 DEF Pending
      <3>3. ASSUME p \in Port, link[p].out.st = "wait", link[p].in.st = "none"
            PROVE  Head(pending["b"]).byteoffset = Have
        <4>1. wire["b"][1].op = "ACCEPT" /\ 1 \in DOMAIN wire["b"] /\ wire["b"][1].port \in Int
          BY <1>1, <1>6, <2>1 DEF Message
        <4>2. p <= wire["b"][1].port /\ wire["b"][1].port <= used
          BY <3>2, <4>1 DEF Transfers, Order, Messages
        <4>3. p = used /\ p \in Int
          BY <3>3 DEF Transfers, Sockets, Live, Port
        <4>4. wire["b"][1].port = p
          BY <4>1, <4>2, <4>3
        <4>5. Is(wire["b"][1], "ACCEPT", p)
          BY <4>1, <4>4 DEF Is
        <4>6. Resume(p) /\ Asked(p)
          BY <3>3, <4>1, <4>5 DEF Transfers, Resumes, Asked
        <4> QED BY <3>2, <3>3, <4>6 DEF Resume, Agreed
      <3>4. file.data \in Seq(1..Size) /\ Have = Len(file.data)
        BY DEF TypeOK, Have
      <3>5. Plain \/ Joins
        BY <2>5, <3>1, <3>2, <3>3, <3>4, ConnectHappens
      <3> QED BY <2>2, <3>5
    <2> QED BY <2>1, <2>3, <2>4, <2>5 DEF AcceptArrives
  <1> QED BY <1>1, <1>4, <1>5, <1>6 DEF Message

LEMMA Happens ==
  ASSUME NoHazards, TypeOK, Transfers, kind # "CHAT", Next
  PROVE  (Plain \/ Joins \/ Works \/ Reads) /\ Asks
  <1>1. UNCHANGED wire => Asks
    BY DEF Asks
  <1>2. ASSUME NEW c \in Client, Lose(c) PROVE Plain /\ Asks
    <2>1. /\ "a" \in Client /\ wire["a"] \in Seq(Message) /\ UNCHANGED <<link, file>>
          /\ wire' = Received(c) /\ wire[c] # <<>>
      BY <1>2 DEF Client, TypeOK, Lose
    <2>2. wire'["a"] = wire["a"] \/ (wire["a"] # <<>> /\ wire'["a"] = Tail(wire["a"]))
      BY <2>1 DEF Received, TypeOK
    <2>3. \A i \in DOMAIN wire'["a"] : \E j \in DOMAIN wire["a"] : wire'["a"][i] = wire["a"][j]
      <3>1. CASE wire'["a"] = wire["a"]
        BY <3>1
      <3>2. CASE wire["a"] # <<>> /\ wire'["a"] = Tail(wire["a"])
        BY <2>1, <3>2, TailIs
      <3> QED BY <2>2, <3>1, <3>2
    <2> QED BY <2>1, <2>3 DEF Plain, Same, Have, Asks
  <1>3. ASSUME NEW c \in Client, dcc_reject(c) PROVE Plain /\ Asks
    <2>1. UNCHANGED <<wire, file>>
      BY <1>3 DEF dcc_reject
    <2>2. \A q \in Port : Same(q) \/ link'[q] = Erased(link[q], c)
      BY <1>3 DEF dcc_reject, Same, TypeOK
    <2> QED BY <1>1, <2>1, <2>2, ErasedHappens DEF Plain, Have
  <1>4. ASSUME NEW c \in Client, PendingTimeout(c) PROVE Plain /\ Asks
    BY <1>1, <1>4 DEF PendingTimeout, Plain, Same, Have
  <1>5. ASSUME NEW p \in Port, Ends(p) PROVE (Plain \/ Works \/ Reads) /\ Asks
    <2>1. UNCHANGED wire
      BY <1>5 DEF Ends, Accept, SenderReads, ReceiverReads, WriteFails, ListenTimeout, IdleClose, Break
    <2>2. Accept(p) \/ SenderReads(p) => Works
      BY DEF Works, Accept, SenderReads, Have
    <2>3. ReceiverReads(p) => Reads
      BY DEF Reads
    <2>4. CASE WriteFails(p) \/ ListenTimeout(p) \/ IdleClose(p) \/ Break(p)
      <3>1. UNCHANGED file
        BY <2>4 DEF WriteFails, ListenTimeout, IdleClose, Break
      <3>2. \A q \in Port : q # p => Same(q)
        BY <2>4 DEF WriteFails, ListenTimeout, IdleClose, Break, Same, TypeOK
      <3>3. WriteFails(p) => Shut(p)
        BY DEF WriteFails, Shut, TypeOK
      <3>4. ListenTimeout(p) \/ IdleClose(p) => Shut(p)
        BY DEF ListenTimeout, IdleClose, Shut, TypeOK
      <3>5. Break(p) => Shut(p)
        <4> HAVE Break(p)
        <4> DEFINE x == [link[p] EXCEPT !.broken = TRUE, !.data = <<>>, !.acks = <<>>]
        <4>1. link' = [link EXCEPT ![p] = x]
          BY DEF Break, TypeOK, Link
        <4>2. link'[p] = x
          <5> HIDE DEF x
          <5> QED BY <4>1 DEF TypeOK
        <4> QED BY <4>2 DEF Shut
      <3> QED BY <1>1, <2>1, <2>4, <3>1, <3>2, <3>3, <3>4, <3>5 DEF Plain, Have
    <2> QED BY <1>1, <1>5, <2>1, <2>2, <2>3, <2>4 DEF Ends
  <1> QED BY <1>2, <1>3, <1>4, <1>5, CommandHappens, DeliverHappens DEF Next

LEMMA PlainPace ==
  ASSUME TypeOK, ToldAlready, NEW q \in Port, InPace(link[q], Have),
         Same(q) \/ Shut(q) \/ Fresh(q) \/ Told(q)
  PROVE  /\ InPace(link'[q], Have)
         /\ Both(link'[q]) => Both(link[q]) /\ link'[q].in.byteoffset = link[q].in.byteoffset
         /\ link'[q].in.st = "open" => link[q].in.st = "open"
  <1> DEFINE l == link[q]
             r == link'[q]
  <1>1. l \in Link /\ l.in \in InEnd /\ l.out \in OutEnd
    BY DEF TypeOK, Link
  <1>2. CASE Same(q)
    BY <1>2 DEF Same
  <1>3. CASE Shut(q)
    <2>1. ASSUME r = CloseOut(l, "lost")
          PROVE  r.in = l.in /\ r.out.st = "lost"
      BY <1>1, <2>1 DEF CloseOut, OutIs, Link
    <2>2. ASSUME r = CloseIn(l, "lost") \/ r = [l EXCEPT !.in.st = "lost"]
          PROVE  r.out = l.out /\ r.acks = l.acks /\ r.in.st = "lost"
      <3>1. CASE r = CloseIn(l, "lost")
        BY <1>1, <3>1 DEF CloseIn, InIs, Link
      <3>2. CASE r = [l EXCEPT !.in.st = "lost"]
        BY <1>1, <3>2 DEF Link, InEnd
      <3> QED BY <2>2, <3>1, <3>2
    <2>3. ASSUME r = [l EXCEPT !.broken = TRUE, !.data = <<>>, !.acks = <<>>]
          PROVE  r.in = l.in /\ r.out = l.out /\ r.acks = <<>> /\ r.broken
      BY <1>1, <2>3 DEF Link
    <2>4. \/ r = CloseOut(l, "lost")
          \/ r = CloseIn(l, "lost") \/ r = [l EXCEPT !.in.st = "lost"]
          \/ r = [l EXCEPT !.broken = TRUE, !.data = <<>>, !.acks = <<>>]
      BY <1>3 DEF Shut
    <2> HIDE DEF r, l
    <2>5. InPace(l, Have)
      BY DEF l
    <2>6. /\ InPace(r, Have) /\ ~Both(r)
          /\ r.in.st = "open" => l.in.st = "open"
      BY <2>1, <2>2, <2>3, <2>4, <2>5 DEF InPace, Both
    <2> QED BY <2>6 DEF r, l
  <1>4. CASE Fresh(q)
    <2>1. r.out.st = "wait" /\ r.in.st = "none" /\ r.acks = <<>>
      BY <1>4 DEF Fresh, NoLink, OutIs, InIs
    <2> QED BY <2>1 DEF InPace, Both
  <1>5. CASE Told(q)
    <2>1. PICK i \in DOMAIN wire["a"] : /\ wire["a"][i].port = q
                                        /\ r = [l EXCEPT !.out.byteoffset = wire["a"][i].offset]
      BY <1>5 DEF Told
    <2>2. /\ r.in = l.in /\ r.broken = l.broken /\ r.acks = l.acks /\ r.data = l.data
          /\ r.out.st = l.out.st /\ r.out.pos = l.out.pos /\ r.out.bytes_sent = l.out.bytes_sent
          /\ r.out.eof = l.out.eof /\ r.out.byteoffset = wire["a"][i].offset
      BY <1>1, <2>1 DEF Link, OutEnd
    <2>3. Both(l) => r.out.byteoffset = l.out.byteoffset
      BY <2>1, <2>2 DEF ToldAlready, InPace, Counts
    <2> HIDE DEF r, l
    <2>4. InPace(l, Have)
      BY DEF l
    <2>5. Both(r) <=> Both(l)
      BY <2>2 DEF Both
    <2>6. Both(l) => Counts(r) /\ Answered(r)
      BY <2>2, <2>3, <2>4 DEF InPace, Counts, Answered
    <2>7. InPace(r, Have)
      BY <2>2, <2>4, <2>5, <2>6 DEF InPace
    <2> QED BY <2>2, <2>5, <2>7 DEF r, l
  <1> QED BY <1>2, <1>3, <1>4, <1>5

LEMMA JoinedPace ==
  ASSUME TypeOK, NEW p \in Port, InPace(link[p], Have), Joined(p), Have' \in Nat
  PROVE  InPace(link'[p], Have') /\ ~Both(link'[p])
  <1> DEFINE n == Have'
             new == [st |-> "open", byteoffset |-> n, bytes_read |-> 0]
             r == link'[p]
  <1>1. link[p] \in Link /\ link[p].out.st = "wait" /\ r = [link[p] EXCEPT !.in = new]
    BY DEF TypeOK, Joined
  <1>2. r.out = link[p].out /\ r.acks = link[p].acks /\ r.in = new
    <2> HIDE DEF new, r
    <2> QED BY <1>1 DEF Link
  <1>3. new.byteoffset + new.bytes_read = n /\ new.bytes_read = 0
    <2>1. n \in Nat
      OBVIOUS
    <2> HIDE DEF n
    <2> QED BY <2>1
  <1> HIDE DEF new, n, r
  <1>4. InPace(r, n) /\ ~Both(r)
    BY <1>1, <1>2, <1>3 DEF InPace, Both
  <1> QED BY <1>4 DEF r, n

(* The first block follows the place where the receiver begins. *)
LEMMA AcceptPaces ==
  ASSUME NoHazards, TypeOK, Transfers, kind # "CHAT", NEW p \in Port, Accept(p),
         InPace(link[p], Have)
  PROVE  InPace(link'[p], Have) /\ link'[p].in = link[p].in /\ link'[p].out.st # "complete"
  <1> DEFINE l == link[p]
  <1>1. /\ l \in Link /\ Have \in Nat /\ link \in [Port -> Link]
        /\ l.out.byteoffset \in Nat /\ l.in.bytes_read \in Nat /\ l.in.byteoffset \in Nat
    BY HaveType DEF TypeOK, Link, OutEnd, InEnd
  <1>2. l.out.st = "wait" /\ l.data = <<>> /\ l.acks = <<>> /\ l.in.st # "none"
    BY DEF Accept, Transfers, Sockets, InPace
  <1>3. l.in.st = "open" => Flow(l, Have) /\ l.in.byteoffset = Have
                            /\ l.in.bytes_read = 0 /\ l.in.byteoffset + l.in.bytes_read = Have
    <2> HAVE l.in.st = "open"
    <2>1. l.in.bytes_read = 0 /\ l.in.byteoffset + l.in.bytes_read = Have
      BY <1>2 DEF InPace
    <2>2. l.in.byteoffset = Have
      BY <1>1, <2>1
    <2> QED BY <2>1, <2>2 DEF Transfers, Sockets
  <1>4. CASE link' = [link EXCEPT ![p] = CloseOut(l, "lost")]
    <2>1. link'[p] = CloseOut(l, "lost")
      BY <1>1, <1>4
    <2>2. CloseOut(l, "lost").in = l.in /\ CloseOut(l, "lost").out.st = "lost"
      BY <1>1 DEF CloseOut, OutIs, Link
    <2> QED BY <2>1, <2>2 DEF InPace, Both
  <1>5. ASSUME NEW b \in Begun(l), NEW r \in SendBlock(b), link' = [link EXCEPT ![p] = r]
        PROVE  InPace(link'[p], Have) /\ link'[p].in = l.in /\ link'[p].out.st # "complete"
    <2>1. b \in Link /\ b.out.st = "open"
      BY <1>1, BegunType
    <2>2. /\ b.in = l.in /\ b.data = <<>> /\ b.acks = <<>> /\ b.broken = l.broken
          /\ b.out.pos = b.out.byteoffset /\ b.out.bytes_sent = 0 /\ ~b.out.eof
          /\ b.out.pos = IF kind = "RESEND" THEN l.in.byteoffset ELSE l.out.byteoffset
      <3>1. ~("late_reget" \in Hazards)
        BY DEF NoHazards
      <3> DEFINE at(offset) == [l EXCEPT !.out = [OutIs("open") EXCEPT !.byteoffset = offset,
                                                                      !.pos = offset]]
      <3>2. b = at(IF kind = "RESEND" THEN l.in.byteoffset ELSE l.out.byteoffset)
        BY <3>1 DEF Begun
      <3>3. ASSUME NEW offset \in Nat
            PROVE  /\ at(offset).in = l.in /\ at(offset).data = l.data /\ at(offset).acks = l.acks
                   /\ at(offset).broken = l.broken
                   /\ at(offset).out.pos = offset /\ at(offset).out.byteoffset = offset
                   /\ at(offset).out.bytes_sent = 0 /\ ~at(offset).out.eof
        BY <1>1 DEF OutIs, Link
      <3> HIDE DEF at, l
      <3> QED BY <1>1, <1>2, <3>2, <3>3
    <2>3. b.out.pos \in Nat
      BY <1>1, <2>2
    <2>4. Both(b) => /\ Flow(b, Have) /\ Counts(b)
                     /\ b.in.byteoffset + b.in.bytes_read = Have
      <3> HAVE Both(b)
      <3>1. l.in.st = "open" /\ ~l.broken
        BY <2>2 DEF Both
      <3>2. b.out.pos = Have
        BY <1>2, <1>3, <2>2, <3>1 DEF Flow
      <3>3. Len(b.data) = 0 /\ Len(l.data) = 0 /\ Have + 0 = Have /\ 1..0 = {}
        BY <1>1, <1>2, <2>2
      <3>4. Flow(b, Have)
        BY <1>2, <1>3, <2>1, <3>1, <3>2, <3>3 DEF Flow
      <3>5. b.out.pos = b.out.byteoffset + b.out.bytes_sent
        BY <2>2, <2>3
      <3>6. DOMAIN b.acks = {}
        BY <2>2
      <3>7. Counts(b)
        BY <1>3, <2>2, <3>1, <3>2, <3>5, <3>6 DEF Counts
      <3> QED BY <1>3, <2>2, <3>1, <3>4, <3>7
    <2>5. /\ Both(r) => Both(b) /\ Counts(r) /\ Answered(r)
          /\ r.out.st = "complete" => ~fast /\ b.out.eof /\ ~(b.out.pos < Size)
          /\ r.out.st # "wait" /\ r.in = b.in
      BY <1>1, <2>1, <2>4, SendBlockPaces
    <2>6. InPace(r, Have) /\ r.in = l.in /\ r.out.st # "complete"
      BY <1>2, <1>3, <2>2, <2>5 DEF InPace
    <2>7. link'[p] = r
      BY <1>1, <1>5
    <2> QED BY <2>6, <2>7
  <1> QED BY <1>4, <1>5 DEF Accept

LEMMA ReadsOn ==
  ASSUME TypeOK, NEW p \in Port, NEW k \in 1..Len(link[p].data),
         file' = [file EXCEPT !.data = @ \o SubSeq(link[p].data, 1, k)]
  PROVE  Have' = Have + k
  <1> DEFINE d == link[p].data
             u == SubSeq(d, 1, k)
  <1>1. d \in Seq(1..Size) /\ file.data \in Seq(1..Size) /\ file'.data = file.data \o u
    BY DEF TypeOK, Link
  <1>2. k \in Nat /\ k \in 1..Len(d) /\ Len(d) \in Nat /\ 1 <= k
    BY <1>1
  <1>3. u \in Seq(1..Size) /\ Len(u) = k
    <2>1. 1 \in 1..Len(d)+1 /\ k \in 0..Len(d)
      BY <1>2
    <2>2. 1 \in Int /\ k \in Int /\ \A i \in 1..k : d[i] \in 1..Size
      <3>1. \A i \in 1..k : i \in 1..Len(d)
        BY <1>2
      <3>2. \A i \in 1..Len(d) : d[i] \in 1..Size
        BY <1>1, ElementOfSeq
      <3> QED BY <1>2, <3>1, <3>2
    <2>3. u \in Seq(1..Size) /\ Len(u) = IF 1 <= k THEN k - 1 + 1 ELSE 0
      BY <2>2, SubSeqProperties
    <2> HIDE DEF u
    <2> QED BY <1>2, <2>3
  <1> HIDE DEF u
  <1>4. Len(file.data \o u) = Len(file.data) + Len(u)
    BY <1>1, <1>3, ConcatProperties
  <1> QED BY <1>1, <1>3, <1>4 DEF Have

(***************************************************************************)
(* The pace is kept by every step.                                         *)
(***************************************************************************)
LEMMA NextPace ==
  ASSUME NoHazards, IInv, Pace, [Next]_vars
  PROVE  Pace'
  <1>1. TypeOK /\ (kind # "CHAT" => Transfers) /\ Have \in Nat
    BY HaveType DEF IInv
  <1>2. CASE UNCHANGED vars
    BY <1>2 DEF vars, Pace, ToldAlready, InPace, Both, Counts, Answered, Have
  <1>3. CASE Next /\ kind = "CHAT"
    <2>1. kind' = kind
      BY <1>3, ChatInv DEF IInv
    <2> QED BY <1>3, <2>1 DEF Pace
  <1>4. CASE Next /\ kind # "CHAT"
    <2>1. ToldAlready /\ (\A q \in Port : InPace(link[q], Have)) /\ Transfers
      BY <1>1, <1>4 DEF Pace
    <2>2. (Plain \/ Joins \/ Works \/ Reads) /\ Asks
      BY <1>1, <1>4, <2>1, Happens
    <2>3. \A q \in Port : link[q].in.st = "open" => Flow(link[q], Have)
      BY <2>1 DEF Transfers, Sockets
    <2>4. ASSUME NEW q \in Port, Have' = Have, Same(q) \/ Shut(q) \/ Fresh(q) \/ Told(q)
          PROVE  /\ InPace(link'[q], Have')
                 /\ Both(link'[q]) => Both(link[q]) /\ link'[q].in.byteoffset = link[q].in.byteoffset
      BY <1>1, <2>1, <2>4, PlainPace
    <2>5. ASSUME NEW q \in Port, link[q].in.st # "open", Same(q)
          PROVE  InPace(link'[q], Have') /\ ~Both(link'[q])
      BY <2>1, <2>5 DEF Same, InPace, Both
    <2>6. ASSUME NEW p \in Port, SenderReads(p), Have' = Have
          PROVE  \A q \in Port :
                    /\ InPace(link'[q], Have')
                    /\ Both(link'[q]) => Both(link[q]) /\ link'[q].in.byteoffset = link[q].in.byteoffset
      <3>1. PICK r \in process_dcc_send1(link[p]) : link' = [link EXCEPT ![p] = r]
        BY <1>4, <2>6 DEF SenderReads
      <3>2. /\ link'[p] = r /\ (\A q \in Port : q # p => Same(q))
            /\ link[p] \in Link /\ link[p].out.st = "open"
            /\ link[p].acks # <<>> \/ link[p].in.st \in Gone \/ link[p].broken
        BY <1>1, <2>6, <3>1 DEF SenderReads, TypeOK, Same
      <3>3. InPace(r, Have) /\ (Both(r) => Both(link[p]))
        BY <1>1, <2>1, <2>3, <3>2, SenderPaces
      <3>4. r.in = link[p].in
        BY <1>1, <2>3, <3>2, SenderGoes DEF Goes
      <3>5. \A q \in Port : q # p =>
               /\ InPace(link'[q], Have')
               /\ Both(link'[q]) => Both(link[q]) /\ link'[q].in.byteoffset = link[q].in.byteoffset
        BY <2>4, <2>6, <3>2
      <3> QED BY <2>6, <3>2, <3>3, <3>4, <3>5
    <2>7. ASSUME NEW p \in Port, Accept(p), Have' = Have
          PROVE  \A q \in Port :
                    /\ InPace(link'[q], Have')
                    /\ q # p => Same(q)
                    /\ link'[p].in = link[p].in
      <3>1. InPace(link'[p], Have) /\ link'[p].in = link[p].in
        BY <1>1, <1>4, <2>1, <2>7, AcceptPaces
      <3>2. \A q \in Port : q # p => Same(q)
        BY <1>1, <2>7 DEF Accept, TypeOK, Same
      <3> QED BY <2>4, <2>7, <3>1, <3>2
    <2>8. ASSUME NEW p \in Port, ReceiverReads(p)
          PROVE  \A q \in Port :
                    /\ InPace(link'[q], Have')
                    /\ Both(link'[q]) => Both(link[q]) /\ link'[q].in.byteoffset = link[q].in.byteoffset
      <3>1. link[p] \in Link /\ link \in [Port -> Link] /\ link[p].in.st = "open"
        BY <1>1, <2>8 DEF TypeOK, ReceiverReads
      <3>2. ASSUME NEW k \in 1..Len(link[p].data),
                   link' = [link EXCEPT ![p] = start_dcc_get(link[p], k)],
                   file' = [file EXCEPT !.data = @ \o SubSeq(link[p].data, 1, k)]
            PROVE  \A q \in Port :
                    /\ InPace(link'[q], Have')
                    /\ Both(link'[q]) => Both(link[q]) /\ link'[q].in.byteoffset = link[q].in.byteoffset
        <4>1. Have' = Have + k
          BY <1>1, <3>1, <3>2, ReadsOn
        <4>2. link[p].out.st # "wait"
          BY <2>1, <3>2, DccAssumption DEF Transfers, Sockets
        <4>3. link'[p] = start_dcc_get(link[p], k) /\ \A q \in Port : q # p => Same(q)
          BY <3>1, <3>2 DEF Same
        <4>4. /\ InPace(link'[p], Have')
              /\ Both(link'[p]) => Both(link[p]) /\ link'[p].in.byteoffset = link[p].in.byteoffset
          BY <1>1, <2>1, <2>3, <3>1, <4>1, <4>2, <4>3, ReceiverPaces DEF Both
        <4>5. \A q \in Port : q # p => link[q].in.st # "open"
          BY <2>1, <3>1 DEF Transfers, Sockets
        <4> QED BY <2>5, <4>3, <4>4, <4>5
      <3>3. ASSUME NEW st \in Gone, link' = [link EXCEPT ![p] = CloseIn(link[p], st)], UNCHANGED file
            PROVE  \A q \in Port :
                    /\ InPace(link'[q], Have')
                    /\ Both(link'[q]) => Both(link[q]) /\ link'[q].in.byteoffset = link[q].in.byteoffset
        <4>1. Have' = Have /\ link'[p] = CloseIn(link[p], st) /\ \A q \in Port : q # p => Same(q)
          BY <3>1, <3>3 DEF Have, Same
        <4>2. /\ link'[p].out = link[p].out /\ link'[p].acks = link[p].acks
              /\ link'[p].in.st = st /\ st \notin {"none", "open"}
          BY <3>1, <4>1 DEF CloseIn, InIs, Link, Gone
        <4>3. InPace(link'[p], Have') /\ ~Both(link'[p])
          BY <2>1, <4>2 DEF InPace, Both
        <4> QED BY <2>4, <4>1, <4>3
      <3>4. \/ \E k \in 1..Len(link[p].data) :
                  /\ link' = [link EXCEPT ![p] = start_dcc_get(link[p], k)]
                  /\ file' = [file EXCEPT !.data = @ \o SubSeq(link[p].data, 1, k)]
            \/ \E st \in Gone : link' = [link EXCEPT ![p] = CloseIn(link[p], st)] /\ UNCHANGED file
        BY <2>8, ReadsWhole DEF Gone
      <3> QED BY <3>2, <3>3, <3>4
    <2>9. ASSUME NEW p \in Port, Joined(p), Have' \in Nat,
                 \A q \in Port : link[q].in.st # "open" /\ (q # p => Same(q))
          PROVE  \A q \in Port : InPace(link'[q], Have') /\ ~Both(link'[q])
      <3>1. InPace(link'[p], Have') /\ ~Both(link'[p])
        BY <1>1, <2>1, <2>9, JoinedPace
      <3> QED BY <2>5, <2>9, <3>1
    <2>10. \A q \in Port : InPace(link'[q], Have')
      BY <2>2, <2>4, <2>6, <2>7, <2>8, <2>9 DEF Plain, Joins, Works, Reads
    <2>11. ASSUME NEW q \in Port, NEW i \in DOMAIN wire["a"], Both(link'[q]), wire["a"][i].port = q
           PROVE  wire["a"][i].offset = link'[q].in.byteoffset
      <3>1. CASE Both(link[q]) /\ link'[q].in.byteoffset = link[q].in.byteoffset
        BY <2>1, <2>11, <3>1 DEF ToldAlready
      <3>2. CASE /\ link[q].out.st = "wait" /\ link[q].in.st = "open" /\ link'[q].in = link[q].in
        <4>1. wire["a"][i].offset = Have
          BY <2>1, <2>11, <3>2 DEF Transfers, Resumes, Resume
        <4>2. /\ link[q].in.bytes_read = 0 /\ link[q].in.byteoffset + link[q].in.bytes_read = Have
              /\ link[q].in.byteoffset \in Nat
          BY <1>1, <2>1, <3>2 DEF InPace, TypeOK, Link, InEnd
        <4>3. link[q].in.byteoffset = Have
          BY <1>1, <4>2
        <4> QED BY <3>2, <4>1, <4>3
      <3>3. CASE Plain \/ Joins \/ Reads \/ (Have' = Have /\ \E p \in Port : SenderReads(p))
        <4>1. Both(link[q]) /\ link'[q].in.byteoffset = link[q].in.byteoffset
          BY <2>4, <2>6, <2>8, <2>9, <2>11, <3>3 DEF Plain, Joins, Reads
        <4> QED BY <3>1, <4>1
      <3>4. ASSUME NEW p \in Port, Accept(p), Have' = Have
            PROVE  wire["a"][i].offset = link'[q].in.byteoffset
        <4>1. CASE q = p
          <5>1. link[q].out.st = "wait" /\ link'[q].in = link[q].in /\ link[q].in.st = "open"
            BY <2>7, <2>11, <3>4, <4>1 DEF Accept, Both
          <5> QED BY <3>2, <5>1
        <4>2. CASE q # p
          <5>1. Both(link[q]) /\ link'[q].in.byteoffset = link[q].in.byteoffset
            BY <2>7, <2>11, <3>4, <4>2 DEF Same
          <5> QED BY <3>1, <5>1
        <4> QED BY <4>1, <4>2
      <3> QED BY <2>2, <3>3, <3>4 DEF Works
    <2>12. ToldAlready'
      <3> SUFFICES ASSUME NEW q \in Port, NEW i \in DOMAIN wire'["a"],
                          Both(link'[q]), wire'["a"][i].port = q
                   PROVE  wire'["a"][i].offset = link'[q].in.byteoffset
        BY DEF ToldAlready, Both
      <3>1. CASE \E j \in DOMAIN wire["a"] : wire'["a"][i] = wire["a"][j]
        BY <2>11, <3>1
      <3>2. CASE Same(q) /\ link[q].in.st # "open"
        BY <3>2 DEF Same, Both
      <3> QED BY <2>2, <3>1, <3>2 DEF Asks
    <2>13. \A q \in Port : InPace(link[q], Have)'
      BY <2>10 DEF InPace, Both, Counts, Answered
    <2> QED BY <2>12, <2>13 DEF Pace
  <1> QED BY <1>2, <1>3, <1>4

LEMMA InitPace == Init => Pace
  <1> SUFFICES ASSUME Init PROVE Pace
    OBVIOUS
  <1>1. \A p \in Port : link[p].out.st = "none" /\ link[p].in.st = "none"
    BY DEF Init, NoLink, OutIs, InIs
  <1> QED BY <1>1 DEF Pace, ToldAlready, InPace, Both

(* Who says that a transfer is complete *)
Completes(p) ==
    /\ (link[p].in.st = "open" /\ link'[p].in.st = "complete" /\ link[p].out.st = "open")
          => Have' = Size
    /\ (link[p].out.st = "open" /\ link'[p].out.st = "complete")
          => link[p].in.st \in Gone \/ link[p].broken

LEMMA FileCompletes ==
  ASSUME NoHazards, IInv, Pace, kind # "CHAT", Next, NEW p \in Port
  PROVE  Completes(p)
  <1>1. /\ TypeOK /\ Transfers /\ Have \in Nat /\ InPace(link[p], Have)
        /\ link \in [Port -> Link] /\ link[p] \in Link
    BY HaveType DEF IInv, Pace, TypeOK
  <1>2. Plain \/ Joins \/ Works \/ Reads
    BY <1>1, Happens
  <1>3. link[p].in.st = "open" => Flow(link[p], Have)
    BY <1>1 DEF Transfers, Sockets
  <1>4. Same(p) => Completes(p)
    BY DEF Same, Completes
  <1>5. CASE Plain
    <2>1. Shut(p) => link'[p].out.st \in {link[p].out.st, "lost"} /\ link'[p].in.st \in {link[p].in.st, "lost"}
      <3> DEFINE l == link[p]
      <3>1. CloseOut(l, "lost").out.st = "lost" /\ CloseOut(l, "lost").in = l.in
        BY <1>1 DEF CloseOut, OutIs, Link
      <3>2. CloseIn(l, "lost").in.st = "lost" /\ CloseIn(l, "lost").out = l.out
        BY <1>1 DEF CloseIn, InIs, Link
      <3>3. [l EXCEPT !.in.st = "lost"].in.st = "lost" /\ [l EXCEPT !.in.st = "lost"].out = l.out
        BY <1>1 DEF Link, InEnd
      <3>4. /\ [l EXCEPT !.broken = TRUE, !.data = <<>>, !.acks = <<>>].in = l.in
            /\ [l EXCEPT !.broken = TRUE, !.data = <<>>, !.acks = <<>>].out = l.out
        BY <1>1 DEF Link
      <3> QED BY <3>1, <3>2, <3>3, <3>4 DEF Shut
    <2>2. Fresh(p) => link'[p].out.st = "wait" /\ link'[p].in.st = "none"
      BY DEF Fresh, NoLink, OutIs, InIs
    <2>3. Told(p) => link'[p].out.st = link[p].out.st /\ link'[p].in = link[p].in
      BY <1>1 DEF Told, Link, OutEnd
    <2> QED BY <1>4, <1>5, <2>1, <2>2, <2>3 DEF Plain, Completes
  <1>6. CASE Joins
    <2>1. Joined(p) => link'[p].out = link[p].out /\ link[p].out.st = "wait"
      BY <1>1 DEF Joined, Link
    <2> QED BY <1>4, <1>6, <2>1 DEF Joins, Completes
  <1>7. ASSUME NEW q \in Port, Accept(q) PROVE Completes(p)
    <2>1. CASE q = p
      <3>1. link[p].out.st = "wait"
        BY <1>7, <2>1 DEF Accept
      <3> QED BY <3>1 DEF Completes
    <2>2. CASE q # p
      BY <1>1, <1>4, <1>7, <2>2 DEF Accept, Same
    <2> QED BY <2>1, <2>2
  <1>8. ASSUME NEW q \in Port, SenderReads(q) PROVE Completes(p)
    <2>1. PICK r \in process_dcc_send1(link[q]) : link' = [link EXCEPT ![q] = r]
      BY <1>8 DEF SenderReads
    <2>2. CASE q # p
      BY <1>1, <1>4, <2>1, <2>2 DEF Same
    <2>3. CASE q = p
      <3>1. /\ link'[p] = r /\ link[p].out.st = "open" /\ r \in process_dcc_send1(link[p])
            /\ link[p].acks # <<>> \/ link[p].in.st \in Gone \/ link[p].broken
        BY <1>1, <1>8, <2>1, <2>3 DEF SenderReads
      <3>2. r.out.st = "complete" => link[p].in.st \in Gone \/ link[p].broken
        BY <1>1, <1>3, <3>1, SenderPaces
      <3>3. r.in = link[p].in
        BY <1>1, <1>3, <3>1, SenderGoes DEF Goes
      <3> QED BY <3>1, <3>2, <3>3 DEF Completes
    <2> QED BY <2>2, <2>3
  <1>9. ASSUME NEW q \in Port, ReceiverReads(q) PROVE Completes(p)
    <2>1. CASE q # p
      BY <1>1, <1>4, <1>9, <2>1 DEF ReceiverReads, Same
    <2>2. CASE q = p
      <3>1. link[p].in.st = "open"
        BY <1>9, <2>2 DEF ReceiverReads
      <3>2. ASSUME NEW k \in 1..Len(link[p].data),
                   link' = [link EXCEPT ![p] = start_dcc_get(link[p], k)],
                   file' = [file EXCEPT !.data = @ \o SubSeq(link[p].data, 1, k)]
            PROVE  Completes(p)
        <4>1. Have' = Have + k /\ link[p].out.st # "wait" /\ link'[p] = start_dcc_get(link[p], k)
          <5>1. Have' = Have + k
            BY <1>1, <3>2, ReadsOn
          <5>2. link[p].out.st # "wait"
            BY <1>1, <3>2 DEF Transfers, Sockets
          <5> QED BY <1>1, <3>2, <5>1, <5>2
        <4>2. link'[p].out = link[p].out /\ (link'[p].in.st = "complete" => Have' = Size)
          BY <1>1, <1>3, <3>1, <4>1, ReceiverPaces
        <4> QED BY <4>2 DEF Completes
      <3>3. ASSUME NEW st \in Gone, link' = [link EXCEPT ![p] = CloseIn(link[p], st)],
                   st = "complete" => link[p].out.st \in Gone
            PROVE  Completes(p)
        <4>1. link'[p].out = link[p].out /\ link'[p].in.st = st
          BY <1>1, <3>3 DEF CloseIn, InIs, Link
        <4> QED BY <3>3, <4>1 DEF Completes, Gone
      <3>4. \/ \E k \in 1..Len(link[p].data) :
                  /\ link' = [link EXCEPT ![p] = start_dcc_get(link[p], k)]
                  /\ file' = [file EXCEPT !.data = @ \o SubSeq(link[p].data, 1, k)]
            \/ \E st \in Gone : /\ link' = [link EXCEPT ![p] = CloseIn(link[p], st)]
                                /\ st = "complete" => link[p].out.st \in Gone
        BY <1>9, <2>2, ReadsWhole DEF Gone
      <3> QED BY <3>2, <3>3, <3>4
    <2> QED BY <2>1, <2>2
  <1> QED BY <1>2, <1>5, <1>6, <1>7, <1>8, <1>9 DEF Works, Reads

(* A chat is never complete. *)
LEMMA ChatCompletes ==
  ASSUME TypeOK, kind = "CHAT", \A q \in Port : link[q].data = <<>>, Next, NEW p \in Port
  PROVE  Completes(p)
  <1> DEFINE Not == /\ link'[p].out.st = "complete" => link[p].out.st # "open"
                    /\ link'[p].in.st = "complete" => link[p].in.st # "open"
  <1>0. link \in [Port -> Link] /\ link[p] \in Link /\ link[p].in \in InEnd /\ link[p].out \in OutEnd
    BY DEF TypeOK, Link
  <1>1. link'[p] = link[p] => Not
    OBVIOUS
  <1>2. \A c \in Client : link'[p] = Erased(link[p], c) => Not
    BY <1>0 DEF Erased, CloseOut, CloseIn, OutIs, InIs, Link
  <1>10. ASSUME NEW h, NEW offset, ConnectTo(h, offset) PROVE Not
    <2> DEFINE new == [st |-> "open", byteoffset |-> offset, bytes_read |-> 0]
    <2>1. h \in Port /\ link[h].in.st = "none" /\ link' = [link EXCEPT ![h].in = new]
      BY <1>10 DEF ConnectTo
    <2>2. CASE h = p
      <3>1. link'[p].out = link[p].out /\ link[p].in.st = "none" /\ link'[p].in = new
        <4> HIDE DEF new
        <4> QED BY <1>0, <2>1, <2>2 DEF Link
      <3> QED BY <3>1
    <2>3. CASE h # p
      BY <1>0, <2>1, <2>3
    <2> QED BY <2>2, <2>3
  <1>3. ASSUME NEW c \in Client, NEW offset, NEW start, Connect(c, offset, start) PROVE Not
    BY <1>1, <1>3, <1>10 DEF Connect
  <1>4. ASSUME NEW c \in Client, Commands(c) PROVE Not
    <2>1. Listen(c) => Not
      BY <1>0 DEF Listen, NoLink, OutIs, InIs
    <2> QED BY <1>1, <1>2, <1>3, <1>4, <2>1 DEF Commands, Offer, AnswerChat, dcc_close
  <1>5. ASSUME NEW c \in Client, Deliver(c) PROVE Not
    <2>1. ResumeArrives(c, Head(wire[c])) => Not
      <3> DEFINE n == Head(wire[c]).offset
                 x == [link[p] EXCEPT !.out.byteoffset = n]
      <3>1. x.out.st = link[p].out.st /\ x.in = link[p].in
        <4> HIDE DEF n
        <4> QED BY <1>0 DEF Link, OutEnd
      <3>2. ResumeArrives(c, Head(wire[c])) => link'[p] = link[p] \/ link'[p] = x
        BY DEF ResumeArrives
      <3> HIDE DEF x
      <3> QED BY <3>1, <3>2
    <2>2. AcceptArrives(c) => Not
      <3>1. ASSUME NEW q \in Port, link' = [link EXCEPT ![q].in.st = "lost"] PROVE Not
        BY <1>0, <3>1 DEF Link, InEnd
      <3> QED BY <1>1, <1>3, <3>1 DEF AcceptArrives
    <2>3. Head(wire[c]) \in Message
      BY <1>5, WireTypes DEF Deliver
    <2>4. OfferArrives(c, Head(wire[c])) => Not
      BY <1>1, <1>10 DEF OfferArrives, TakenAtOnce, ResumedAtOnce
    <2> QED BY <1>5, <2>1, <2>2, <2>3, <2>4 DEF Deliver, Message
  <1>6. ASSUME NEW c \in Client, Lose(c) \/ dcc_reject(c) \/ PendingTimeout(c) PROVE Not
    <2>1. UNCHANGED link \/ \E q \in Port : link' = [link EXCEPT ![q] = Erased(@, c)]
      BY <1>6 DEF Lose, dcc_reject, PendingTimeout, find_dcc, Waiting, Active
    <2>2. link'[p] = link[p] \/ link'[p] = Erased(link[p], c)
      BY <1>0, <2>1
    <2> QED BY <1>1, <1>2, <2>2
  <1>7. ASSUME NEW q \in Port, Ends(q) PROVE Not
    <2>1. \A st \in Gone : /\ CloseOut(link[p], st).in = link[p].in /\ CloseOut(link[p], st).out.st = st
                           /\ CloseIn(link[p], st).out = link[p].out /\ CloseIn(link[p], st).in.st = st
      BY <1>0 DEF CloseOut, CloseIn, OutIs, InIs, Link
    <2>2. \/ link'[p] = link[p]
          \/ link'[p] = CloseOut(link[p], "lost") \/ link'[p] = CloseIn(link[p], "lost")
          \/ link[p].out.st = "wait" /\ link'[p] = [link[p] EXCEPT !.out = OutIs("open")]
          \/ link'[p] = [link[p] EXCEPT !.broken = TRUE, !.data = <<>>, !.acks = <<>>]
      <3>1. Accept(q) => \/ q # p /\ link'[p] = link[p]
                         \/ link[p].out.st = "wait" /\ link'[p] = [link[p] EXCEPT !.out = OutIs("open")]
        BY <1>0 DEF Accept
      <3>2. SenderReads(q) \/ ListenTimeout(q) \/ IdleClose(q) =>
               link'[p] = link[p] \/ link'[p] = CloseOut(link[p], "lost")
        BY <1>0 DEF SenderReads, ListenTimeout, IdleClose
      <3>3. ReceiverReads(q) \/ WriteFails(q) => link'[p] = link[p] \/ link'[p] = CloseIn(link[p], "lost")
        <4>1. 1..Len(link[q].data) = {}
          OBVIOUS
        <4> QED BY <1>0, <4>1 DEF ReceiverReads, WriteFails
      <3>4. Break(q) => \/ q # p /\ link'[p] = link[p]
                        \/ link'[p] = [link[p] EXCEPT !.broken = TRUE, !.data = <<>>, !.acks = <<>>]
        BY <1>0 DEF Break
      <3> QED BY <1>7, <3>1, <3>2, <3>3, <3>4 DEF Ends
    <2>3. [link[p] EXCEPT !.out = OutIs("open")].in = link[p].in
      BY <1>0 DEF Link
    <2>4. /\ [link[p] EXCEPT !.broken = TRUE, !.data = <<>>, !.acks = <<>>].in = link[p].in
          /\ [link[p] EXCEPT !.broken = TRUE, !.data = <<>>, !.acks = <<>>].out = link[p].out
      BY <1>0 DEF Link
    <2>5. [link[p] EXCEPT !.out = OutIs("open")].out.st = "open"
      BY <1>0 DEF Link, OutIs
    <2> QED BY <2>1, <2>2, <2>3, <2>4, <2>5 DEF Gone
  <1>8. ~Get /\ ~ReGet /\ ~dcc_resume
    BY DEF Get, ReGet, dcc_resume
  <1>9. Not
    BY <1>4, <1>5, <1>6, <1>7, <1>8 DEF Next
  <1> QED BY <1>9 DEF Completes

LEMMA StepCompletes ==
  ASSUME NoHazards, IInv, IInv', Pace, [Next]_vars
  PROVE  [\A p \in Port :
             /\ (link[p].in.st = "open" /\ link'[p].in.st = "complete" /\ link[p].out.st = "open")
                   => file'.data = Source
             /\ (link[p].out.st = "open" /\ link'[p].out.st = "complete")
                   => link[p].in.st \in Gone \/ link[p].broken]_vars
  <1> SUFFICES ASSUME Next, NEW p \in Port
               PROVE  /\ (link[p].in.st = "open" /\ link'[p].in.st = "complete" /\ link[p].out.st = "open")
                            => file'.data = Source
                      /\ (link[p].out.st = "open" /\ link'[p].out.st = "complete")
                            => link[p].in.st \in Gone \/ link[p].broken
    OBVIOUS
  <1>1. Completes(p)
    BY FileCompletes, ChatCompletes DEF IInv
  <1>2. Have' = Size => file'.data = Source
    <2> HAVE Have' = Size
    <2>1. /\ file'.data \in Seq(1..Size) /\ Len(file'.data) = Size
          /\ \A i \in 1..Size : file'.data[i] = i
      BY DEF IInv, TypeOK, Prefix, Have
    <2>2. Source \in Seq(1..Size) /\ Len(Source) = Size /\ \A i \in 1..Size : Source[i] = i
      BY SourceType
    <2> QED BY <2>1, <2>2, SeqEqual
  <1> QED BY <1>1, <1>2 DEF Completes

(* A receiver that says TRANSFER COMPLETE has the file unless the sender broke off, and a
   sender that says so leaves no one reading: an acknowledgement is never taken for that
   of the last unit, also after a resume, where the counts do not begin at zero
   (process_dcc_send1(), start_dcc_get()).  Under the conditions of PrefixKept: where a
   write() may be short (a disk that fills up) the first half is wrong of this code,
   which counts the units it has read and not those it has written. *)
THEOREM CompleteIsWhole == NoHazards => (Spec => CompleteMeansWhole)
  <1> SUFFICES ASSUME NoHazards PROVE Spec => CompleteMeansWhole
    OBVIOUS
  <1>1. Init => IInv /\ Pace
    BY InitIInv, InitPace
  <1>2. IInv /\ Pace /\ [Next]_vars => IInv' /\ Pace'
    BY NextIInv, NextPace
  <1>3. IInv /\ IInv' /\ Pace /\ [Next]_vars =>
          [\A p \in Port :
             /\ (link[p].in.st = "open" /\ link'[p].in.st = "complete" /\ link[p].out.st = "open")
                   => file'.data = Source
             /\ (link[p].out.st = "open" /\ link'[p].out.st = "complete")
                   => link[p].in.st \in Gone \/ link[p].broken]_vars
    BY StepCompletes
  <1> QED BY <1>1, <1>2, <1>3, PTL DEF Spec, CompleteMeansWhole

LEMMA NextUnfinished ==
  ASSUME NoHazards, Size > 0, "reget_whole" \notin Hazards, IInv, Pace, Unfinished, [Next]_vars
  PROVE  Unfinished'
  <1>1. TypeOK /\ (kind # "CHAT" => Transfers) /\ Have \in Nat
    BY HaveType DEF IInv
  <1>2. CASE UNCHANGED vars
    BY <1>2 DEF vars, Unfinished, Have
  <1>3. CASE Next /\ kind = "CHAT"
    <2>1. kind' = kind
      BY <1>3, ChatInv DEF IInv
    <2> QED BY <1>3, <2>1 DEF Unfinished
  <1>4. CASE Next /\ kind # "CHAT"
    <2>1. ToldAlready /\ (\A q \in Port : InPace(link[q], Have)) /\ Transfers
      BY <1>1, <1>4 DEF Pace
    <2>2. Plain \/ Joins \/ Works \/ Reads
      BY <1>1, <1>4, <2>1, Happens
    <2>3. \A q \in Port : link[q].in.st = "open" => Flow(link[q], Have) /\ Have < Size
      BY <1>4, <2>1 DEF Transfers, Sockets, Unfinished
    <2>4. CASE Plain
      <3>1. \A q \in Port : link'[q].in.st = "open" => link[q].in.st = "open"
        BY <1>1, <2>1, <2>4, PlainPace DEF Plain
      <3> QED BY <2>3, <2>4, <3>1 DEF Plain, Unfinished
    <2>5. CASE Joins
      BY <2>5 DEF Joins, Unfinished
    <2>6. CASE Works
      <3>1. PICK p \in Port : Accept(p) \/ SenderReads(p)
        BY <2>6 DEF Works
      <3>2. \A q \in Port : q # p => link'[q] = link[q]
        BY <1>1, <3>1 DEF Accept, SenderReads, TypeOK
      <3>3. Accept(p) => link'[p].in = link[p].in
        BY <1>1, <1>4, <2>1, AcceptPaces
      <3>4. SenderReads(p) => link'[p].in = link[p].in
        <4> HAVE SenderReads(p)
        <4>1. PICK r \in process_dcc_send1(link[p]) : link' = [link EXCEPT ![p] = r]
          BY <1>4 DEF SenderReads
        <4>2. link[p] \in Link /\ link'[p] = r /\ link[p].out.st = "open"
          BY <1>1, <4>1 DEF SenderReads, TypeOK
        <4> QED BY <1>1, <2>3, <4>1, <4>2, SenderGoes DEF Goes
      <3> QED BY <2>3, <2>6, <3>1, <3>2, <3>3, <3>4 DEF Works, Unfinished
    <2>7. ASSUME NEW p \in Port, ReceiverReads(p) PROVE Unfinished'
      <3>1. link[p] \in Link /\ link \in [Port -> Link] /\ link[p].in.st = "open"
        BY <1>1, <2>7 DEF TypeOK, ReceiverReads
      <3>2. \A q \in Port : q # p => link'[q] = link[q] /\ link[q].in.st # "open"
        BY <2>1, <2>7, <3>1 DEF ReceiverReads, Transfers, Sockets
      <3>3. link'[p].in.st = "open" => Have' < Size
        <4>1. ASSUME NEW k \in 1..Len(link[p].data),
                     link' = [link EXCEPT ![p] = start_dcc_get(link[p], k)],
                     file' = [file EXCEPT !.data = @ \o SubSeq(link[p].data, 1, k)],
                     link'[p].in.st = "open"
              PROVE  Have' < Size
          <5>1. Have' = Have + k /\ link[p].out.st # "wait" /\ link'[p] = start_dcc_get(link[p], k)
            <6>1. Have' = Have + k
              BY <1>1, <4>1, ReadsOn
            <6>2. link[p].out.st # "wait"
              BY <2>1, <4>1 DEF Transfers, Sockets
            <6> QED BY <3>1, <4>1, <6>1, <6>2
          <5> QED BY <1>1, <2>1, <2>3, <3>1, <4>1, <5>1, ReceiverPaces
        <4>2. ASSUME NEW st \in Gone, link' = [link EXCEPT ![p] = CloseIn(link[p], st)]
              PROVE  link'[p].in.st # "open"
          BY <3>1, <4>2 DEF CloseIn, InIs, Link, Gone
        <4>3. \/ \E k \in 1..Len(link[p].data) :
                    /\ link' = [link EXCEPT ![p] = start_dcc_get(link[p], k)]
                    /\ file' = [file EXCEPT !.data = @ \o SubSeq(link[p].data, 1, k)]
              \/ \E st \in Gone : link' = [link EXCEPT ![p] = CloseIn(link[p], st)]
          BY <2>7, ReadsWhole DEF Gone
        <4> QED BY <4>1, <4>2, <4>3
      <3> QED BY <3>2, <3>3 DEF Unfinished
    <2> QED BY <2>2, <2>4, <2>5, <2>6, <2>7 DEF Reads
  <1> QED BY <1>2, <1>3, <1>4

(* The two ends of a transfer never wait for each other: as long as a unit is missing,
   there is either data to read or an acknowledgement, and the last acknowledgement is
   the one the sender compares with.  For a file that is not empty, and users who do not
   ask for the rest of a file they have already; PrefixKept's conditions hold, too. *)
THEOREM KeepsMoving ==
  NoHazards /\ Size > 0 /\ "reget_whole" \notin Hazards => (Spec => []NoStandstill)
  <1> SUFFICES ASSUME NoHazards, Size > 0, "reget_whole" \notin Hazards
               PROVE  Spec => []NoStandstill
    OBVIOUS
  <1>1. Init => IInv /\ Pace /\ Unfinished
    <2>1. Init => Unfinished
      BY DEF Init, NoLink, InIs, Unfinished
    <2> QED BY <2>1, InitIInv, InitPace
  <1>2. IInv /\ Pace /\ Unfinished /\ [Next]_vars => (IInv /\ Pace /\ Unfinished)'
    BY NextIInv, NextPace, NextUnfinished
  <1>3. Pace /\ Unfinished => NoStandstill
    BY DEF Pace, Unfinished, NoStandstill, InPace, Both, Answered
  <1> QED BY <1>1, <1>2, <1>3, PTL DEF Spec
=============================================================================
