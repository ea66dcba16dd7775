-------------------------------- MODULE Dcc ---------------------------------
(***************************************************************************)
(* Direct connections between two clients (source/dcc.c): the offer of a   *)
(* chat or of a file over the IRC network, the connection made from it,    *)
(* and the transfer of the file.                                           *)
(*                                                                         *)
(* Both clients run BitchX.  An offer is a listening socket at one client  *)
(* and, once the message has arrived, an entry of pending_dcc at the       *)
(* other.  A listening socket accepts one connection, so a connection is   *)
(* known by the port it was made to: link[p] holds both of its ends, the   *)
(* bytes on their way to the receiver and the acknowledgements on their    *)
(* way back.  DCCs of different types do not touch each other (find_dcc()  *)
(* compares the type), so a behaviour is about one type.                   *)
(***************************************************************************)
EXTENDS Integers, Sequences, SequencesExt

CONSTANTS
    Kinds,      \* the types of DCC to consider, of KindNames
    Size,       \* units of the file that is sent
    Block,      \* DCC_BLOCK_SIZE in units
    MaxPort,    \* bound: ports that are listened on, ever
    MaxMsgs,    \* bound: a user waits while so many messages are on their way
    Hazards     \* which of the situations named below occur

KindNames == {"CHAT", "SEND", "TSEND", "RESEND"}
(* get_after_resume: /DCC GET of an offer whose sender was asked to resume it
   late_reget:       the packet of a REGET takes longer than a second
   reget_whole:      /DCC REGET of a file that is there already
   short_write:      the receiver's disk fills up, and takes the first part of a block *)
HazardNames == {"get_after_resume", "late_reget", "reget_whole", "short_write"}

ASSUME DccAssumption ==
    /\ Kinds \subseteq KindNames
    /\ Size \in Nat
    /\ Block \in Nat \ {0}
    /\ MaxPort \in Nat
    /\ MaxMsgs \in Nat
    /\ Hazards \subseteq HazardNames

Client == {"a", "b"}        \* files are sent by a
Other(c) == IF c = "a" THEN "b" ELSE "a"

Port == 1..MaxPort
(* the port with its two bytes exchanged, which no one listens on *)
Swapped == 0

Source == [i \in 1..Size |-> i]
Gone == {"complete", "lost"}

VARIABLES
    kind,       \* the type of all DCCs of this behaviour
    fast,       \* DCC_FAST: sockets do not block, and no block waits for its acknowledgement
    used,       \* ports used so far
    link,       \* link[p]: the sockets of port p, and what is between them
    pending,    \* pending[c]: pending_dcc, the last offer first
    lastReq,    \* lastReq[c]: last_chat_req is set
    file,       \* the file at the receiver
    announced,  \* announced[c]: DCC_CONNECT was run for an offer that is already under way
    wire,       \* wire[c]: CTCP requests on their way to c (external)
    reject      \* reject[c]: a CTCP REJECT is on its way to c (external)

vars == <<kind, fast, used, link, pending, lastReq, file, announced, wire, reject>>

-----------------------------------------------------------------------------
(* Types *)

OutState == {"none", "wait", "open"} \cup Gone
InState == {"none", "open"} \cup Gone

(* The end that offered; pos is where it reads its file *)
OutEnd == [st : OutState, byteoffset : Nat, pos : Nat, bytes_sent : Nat,
           readwaiting : BOOLEAN, eof : BOOLEAN]
(* The end that connected *)
InEnd == [st : InState, byteoffset : Nat, bytes_read : Nat]
Link == [by : Client, out : OutEnd, in : InEnd,
         data : Seq(1..Size), acks : Seq(Int), broken : BOOLEAN]

Message == [op : {"OFFER", "RESUME", "ACCEPT"}, port : 0..MaxPort, offset : Nat]

TypeOK ==
    /\ kind \in Kinds /\ fast \in BOOLEAN
    /\ used \in 0..MaxPort
    /\ link \in [Port -> Link]
    /\ pending \in [Client -> Seq([port : 0..MaxPort, byteoffset : Nat])]
    /\ lastReq \in [Client -> BOOLEAN]
    /\ file \in [there : BOOLEAN, data : Seq(1..Size)]
    /\ announced \in [Client -> BOOLEAN]
    /\ wire \in [Client -> Seq(Message)]
    /\ reject \in [Client -> BOOLEAN]

OutIs(st) == [st |-> st, byteoffset |-> 0, pos |-> 0, bytes_sent |-> 0,
              readwaiting |-> FALSE, eof |-> FALSE]
InIs(st) == [st |-> st, byteoffset |-> 0, bytes_read |-> 0]
NoLink(c) == [by |-> c, out |-> OutIs("none"), in |-> InIs("none"),
              data |-> <<>>, acks |-> <<>>, broken |-> FALSE]

Init ==
    /\ kind \in Kinds
    /\ fast \in IF kind \in {"SEND", "RESEND"} THEN BOOLEAN ELSE {FALSE}
    /\ used = 0
    /\ link = [p \in Port |-> NoLink("a")]
    /\ pending = [c \in Client |-> <<>>]
    /\ lastReq = [c \in Client |-> FALSE]
    /\ file = [there |-> FALSE, data |-> <<>>]
    /\ announced = [c \in Client |-> FALSE]
    /\ wire = [c \in Client |-> <<>>]
    /\ reject = [c \in Client |-> FALSE]

-----------------------------------------------------------------------------
(* Sockets *)

Waiting(c) == {p \in Port : link[p].by = c /\ link[p].out.st = "wait"}
Active(c) == {p \in Port : \/ link[p].by = c /\ link[p].out.st = "open"
                           \/ link[p].by # c /\ link[p].in.st = "open"}
find_dcc(c) == Waiting(c) \cup Active(c)

(* What is unread at a socket is gone when it is closed *)
CloseOut(l, st) == [l EXCEPT !.out = OutIs(st), !.acks = <<>>]
CloseIn(l, st) == [l EXCEPT !.in = InIs(st), !.data = <<>>]

(* c closes its end of l *)
Erased(l, c) ==
    IF l.by = c THEN IF l.out.st \in {"wait", "open"} THEN CloseOut(l, "lost") ELSE l
    ELSE IF l.in.st = "open" THEN CloseIn(l, "lost") ELSE l

(* erase_dcc_info(..., 1, ...) tells the peer if it was last called less than two
   seconds ago *)
MayReject(c) == reject' \in {reject, [reject EXCEPT ![Other(c)] = TRUE]}

Send(c, op, port, offset) ==
    [wire EXCEPT ![c] = Append(@, [op |-> op, port |-> port, offset |-> offset])]

(* Bound: a user gives no further command while so much is on its way *)
Quiet(c) == Len(wire["a"]) + Len(wire["b"]) + Len(pending[c]) < MaxMsgs

-----------------------------------------------------------------------------
(* Making an offer, and accepting one *)

(* dcc_create() without DCC_OFFER: listen, and tell the other *)
Listen(c) ==
    /\ used < MaxPort
    /\ used' = used + 1
    /\ link' = [link EXCEPT ![used + 1] = [NoLink(c) EXCEPT !.out.st = "wait"]]
    /\ wire' = Send(Other(c), "OFFER", used + 1, 0)
    /\ UNCHANGED <<pending, file>>

(* An offer that waits is repeated; the port is converted once too often.  The time
   it waits begins anew. *)
Repeat(c) == wire' = Send(Other(c), "OFFER", Swapped, 0)

(* The connection is made, if someone listens there *)
ConnectTo(p, offset) ==
    /\ p \in Port /\ link[p].out.st = "wait" /\ link[p].in.st = "none"
    /\ link' = [link EXCEPT ![p].in = [st |-> "open", byteoffset |-> offset, bytes_read |-> 0]]

(* dcc_create() with DCC_OFFER: the last offer is taken from the list, and connected
   to.  `start' is the receiver's file when it goes on, and from where. *)
Connect(c, offset, start) ==
    /\ pending' = [pending EXCEPT ![c] = Tail(@)]
    /\ \/ ConnectTo(Head(pending[c]).port, offset) /\ file' = start
       \/ UNCHANGED <<link, file>>                      \* Unable to create connection
    /\ UNCHANGED used

(* /DCC CHAT, /DCC SEND, /DCC TSEND, /DCC RESEND *)
Offer(c) ==
    /\ c = "a" \/ kind = "CHAT"
    /\ Quiet(Other(c))
    /\ \/ /\ find_dcc(c) # {}
          /\ \/ Waiting(c) # {} /\ Repeat(c)
             \/ Active(c) # {} /\ UNCHANGED wire
          /\ UNCHANGED <<used, link, pending, file>>
       \/ /\ find_dcc(c) = {}
          /\ IF kind = "CHAT" /\ pending[c] # <<>>
             THEN Connect(c, 0, file) /\ UNCHANGED wire
             ELSE Listen(c)
    /\ UNCHANGED <<kind, fast, lastReq, announced, reject>>

(* /CHAT: answers the last who asked *)
AnswerChat(c) ==
    /\ kind = "CHAT" /\ lastReq[c] /\ pending[c] # <<>>
    /\ Connect(c, 0, file)
    /\ lastReq' = [lastReq EXCEPT ![c] = link' = link]
    /\ UNCHANGED <<kind, fast, announced, wire, reject>>

(* /DCC GET: the file is begun anew *)
Get ==
    /\ kind \in {"SEND", "TSEND"} /\ pending["b"] # <<>> /\ find_dcc("b") = {}
    /\ \/ \A i \in DOMAIN pending["b"] : pending["b"][i].byteoffset = 0
       \/ "get_after_resume" \in Hazards
    /\ Connect("b", Head(pending["b"]).byteoffset, [there |-> TRUE, data |-> <<>>])
    /\ UNCHANGED <<kind, fast, lastReq, announced, wire, reject>>

(* /DCC REGET: goes on at the end of the file, and says so in the first packet *)
ReGet ==
    /\ kind = "RESEND" /\ pending["b"] # <<>> /\ find_dcc("b") = {}
    /\ Len(file.data) < Size \/ "reget_whole" \in Hazards
    /\ Connect("b", Len(file.data), [file EXCEPT !.there = TRUE])
    /\ UNCHANGED <<kind, fast, lastReq, announced, wire, reject>>

(* mutant: one unit is asked for again *)
dcc_resume_rewinds ==
    /\ kind \in {"SEND", "TSEND"} /\ pending["b"] # <<>> /\ find_dcc("b") = {}
    /\ file.there /\ Quiet("a")
    /\ pending' = [pending EXCEPT !["b"][1].byteoffset = Len(file.data) - 1]
    /\ wire' = Send("a", "RESUME", Head(pending["b"]).port, Len(file.data) - 1)
    /\ UNCHANGED <<kind, fast, used, link, lastReq, file, announced, reject>>

(* /DCC RESUME: asks the sender to go on at the end of the file *)
dcc_resume ==
    /\ kind \in {"SEND", "TSEND"} /\ pending["b"] # <<>> /\ find_dcc("b") = {}
    /\ file.there /\ Quiet("a")
    /\ pending' = [pending EXCEPT !["b"][1].byteoffset = Len(file.data)]
    /\ wire' = Send("a", "RESUME", Head(pending["b"]).port, Len(file.data))
    /\ UNCHANGED <<kind, fast, used, link, lastReq, file, announced, reject>>

-----------------------------------------------------------------------------
(* Messages that arrive *)

Received(c) == [wire EXCEPT ![c] = Tail(@)]

(* The offer is put first on pending_dcc *)
Noted(c, m, offset) ==
    pending' = [pending EXCEPT ![c] = <<[port |-> m.port, byteoffset |-> offset]>> \o @]

(* BOT_MODE with a user of the list, DCC_AUTOGET: the offer is noted, connected to and
   taken from the list again.  The file of a SEND is not there; the one of a RESEND may
   be, and is appended to. *)
TakenAtOnce(m) ==
    /\ \/ kind = "CHAT" /\ UNCHANGED file
       \/ /\ Size > 0
          /\ \/ kind = "RESEND" /\ (Len(file.data) < Size \/ "reget_whole" \in Hazards)
             \/ kind \in {"SEND", "TSEND"} /\ ~file.there
          /\ file' = [file EXCEPT !.there = TRUE]
    /\ ConnectTo(m.port, Len(file.data)) \/ UNCHANGED link
    /\ UNCHANGED <<pending, lastReq>>

(* DCC_AUTORESUME: the file is there, and the rest of it is asked for *)
ResumedAtOnce(c, m) ==
    /\ kind \in {"SEND", "TSEND"} /\ Size > 0 /\ file.there
    /\ Noted(c, m, Len(file.data))
    /\ wire' = [Received(c) EXCEPT !["a"] =
                   Append(@, [op |-> "RESUME", port |-> m.port, offset |-> Len(file.data)])]
    /\ UNCHANGED <<link, lastReq, file>>

(* register_dcc_type(): an offer.  What the settings of the client do with it may change
   from one offer to the next. *)
OfferArrives(c, m) ==
    \/ /\ Active(c) # {}                    \* previous session active
       /\ wire' = Received(c)
       /\ UNCHANGED <<link, pending, lastReq, file, announced>>
    \/ /\ Waiting(c) # {}                   \* already requested connecting
       /\ wire' = [Received(c) EXCEPT ![Other(c)] =
                      Append(@, [op |-> "OFFER", port |-> Swapped, offset |-> 0])]
       /\ announced' = [announced EXCEPT ![c] = TRUE]
       /\ UNCHANGED <<link, pending, lastReq, file>>
    \/ /\ find_dcc(c) = {}
       /\ \/ /\ Noted(c, m, 0) /\ lastReq' = [lastReq EXCEPT ![c] = kind = "CHAT"]
             /\ wire' = Received(c)
             /\ UNCHANGED <<link, file>>
          \/ TakenAtOnce(m) /\ wire' = Received(c)
          \/ ResumedAtOnce(c, m)
       /\ UNCHANGED announced

(* The socket of c for an offer that is to be resumed *)
Resumed(c, m) == {p \in find_dcc(c) : p = m.port}

(* mutant: the offset is not taken over *)
ResumeArrives_deaf(c, m) ==
    /\ wire' = IF Resumed(c, m) = {} THEN Received(c)
               ELSE [Received(c) EXCEPT ![Other(c)] = Append(@, [m EXCEPT !.op = "ACCEPT"])]
    /\ UNCHANGED link

(* dcc_getfile_resume_demanded() *)
ResumeArrives(c, m) ==
    IF Resumed(c, m) = {}
    THEN wire' = Received(c) /\ UNCHANGED link
    ELSE /\ link' = [p \in Port |-> IF p \in Resumed(c, m)
                                    THEN [link[p] EXCEPT !.out.byteoffset = m.offset]
                                    ELSE link[p]]
         /\ wire' = [Received(c) EXCEPT ![Other(c)] = Append(@, [m EXCEPT !.op = "ACCEPT"])]

(* dcc_getfile_resume_start(): the size is looked at again once the connection is
   made, and a file that is complete by then is not resumed *)
AcceptArrives(c) ==
    /\ wire' = Received(c)
    /\ IF find_dcc(c) # {} \/ pending[c] = <<>>
       THEN UNCHANGED <<used, link, pending, file, reject>>
       ELSE \/ /\ file.there /\ Len(file.data) < Size
               /\ Connect(c, Head(pending[c]).byteoffset, file)
               /\ UNCHANGED reject
            \/ /\ ~file.there \/ Len(file.data) >= Size
               /\ pending' = [pending EXCEPT ![c] = Tail(@)]
               /\ LET p == Head(pending[c]).port
                  IN  \/ /\ p \in Port /\ link[p].out.st = "wait" /\ link[p].in.st = "none"
                         /\ link' = [link EXCEPT ![p].in.st = "lost"]
                         /\ MayReject(c)
                      \/ UNCHANGED <<link, reject>>
               /\ UNCHANGED <<used, file>>

(* A client handles the next CTCP request *)
Deliver(c) ==
    /\ wire[c] # <<>>
    /\ LET m == Head(wire[c])
       IN  CASE m.op = "OFFER" -> OfferArrives(c, m) /\ UNCHANGED <<used, reject>>
             [] m.op = "RESUME" ->
                    ResumeArrives(c, m)
                    /\ UNCHANGED <<used, pending, lastReq, file, announced, reject>>
             [] m.op = "ACCEPT" -> AcceptArrives(c) /\ UNCHANGED <<lastReq, announced>>
    /\ UNCHANGED <<kind, fast>>

(* The peer ignores it, or it is lost with the connection to the server *)
Lose(c) ==
    /\ wire[c] # <<>>
    /\ wire' = Received(c)
    /\ UNCHANGED <<kind, fast, used, link, pending, lastReq, file, announced, reject>>

(* dcc_reject(): a socket of the type is closed, whatever it is doing, or else the last
   offer is forgotten.  A REJECT REGET names a type the sender has no socket of. *)
dcc_reject(c) ==
    /\ reject[c]
    /\ reject' = [reject EXCEPT ![c] = FALSE]
    /\ \/ kind = "RESEND" /\ UNCHANGED <<link, pending>>
       \/ /\ kind # "RESEND"
          /\ \/ \E p \in find_dcc(c) :
                    /\ link' = [link EXCEPT ![p] = Erased(@, c)]
                    /\ UNCHANGED pending
             \/ /\ find_dcc(c) = {}
                /\ pending' = [pending EXCEPT ![c] = IF @ = <<>> THEN @ ELSE Tail(@)]
                /\ UNCHANGED link
    /\ UNCHANGED <<kind, fast, used, lastReq, file, announced, wire>>

-----------------------------------------------------------------------------
(* The sender *)

(* The end of process_dcc_send1(): the next block, or the end of the file.  Only a
   socket that does not block takes less than it is given. *)
SendBlock(l) ==
    LET left == Size - l.out.pos
        n == IF left < Block THEN left ELSE Block
        Sent(k) == [l EXCEPT !.out.pos = @ + k, !.out.bytes_sent = @ + k,
                             !.out.readwaiting = TRUE,
                             !.data = IF l.in.st = "open" /\ ~l.broken
                                      THEN @ \o SubSeq(Source, l.out.pos + 1, l.out.pos + k)
                                      ELSE @]
    IN  IF n > 0
        THEN {Sent(n)}
             \cup (IF fast THEN {Sent(k) : k \in 1..(n - 1)} ELSE {})
             \cup (IF fast /\ l.data # <<>> THEN {[l EXCEPT !.out.readwaiting = TRUE]} ELSE {})
             \cup (IF l.in.st \in Gone \/ l.broken THEN {CloseOut(l, "lost")} ELSE {})
        ELSE IF ~l.out.eof THEN {[l EXCEPT !.out.eof = TRUE, !.out.readwaiting = TRUE]}
        ELSE IF ~fast THEN {CloseOut(l, "complete")}
        ELSE {[l EXCEPT !.out.readwaiting = TRUE]}

(* mutant: the blocks are counted from the start of the file *)
InStep_from_start(l) == fast \/ Head(l.acks) = l.out.byteoffset + l.out.bytes_sent

(* In slow mode a block waits for the acknowledgement of all before it *)
InStep(l) == fast \/ Head(l.acks) = l.out.bytes_sent

(* process_dcc_send1(): the states the sender's socket can be in afterwards *)
process_dcc_send1(l) ==
    LET heeds == kind # "TSEND" /\ l.out.readwaiting    \* reads acknowledgements one by one
        m == [l EXCEPT !.acks = Tail(@)]
    IN  IF heeds /\ l.acks # <<>>
        THEN {CloseOut(l, "lost")}          \* only some bytes of it have arrived
             \cup (IF Head(l.acks) = Size - l.out.byteoffset THEN {CloseOut(l, "complete")}
                   ELSE IF ~InStep(l) THEN {m}
                   ELSE SendBlock([m EXCEPT !.out.readwaiting = FALSE]))
        ELSE IF ~heeds /\ l.out.eof
        THEN IF l.acks # <<>> THEN {[l EXCEPT !.acks = <<>>, !.out.readwaiting = TRUE]}
             ELSE {CloseOut(l, "complete")} \cup (IF l.broken THEN {CloseOut(l, "lost")} ELSE {})
        ELSE SendBlock(l)

SenderReads(p) ==
    LET l == link[p]
    IN  /\ l.out.st = "open"
        /\ l.acks # <<>> \/ l.in.st \in Gone \/ l.broken
        /\ \E r \in IF kind = "CHAT" THEN {CloseOut(l, "lost")} ELSE process_dcc_send1(l) :
               /\ link' = [link EXCEPT ![p] = r]
               /\ IF r.out.st = "lost" THEN MayReject(l.by) ELSE UNCHANGED reject
        /\ UNCHANGED <<kind, fast, used, pending, lastReq, file, announced, wire>>

(* start_dcc_send(): where the transfer begins.  A RESEND begins with the packet that
   says where; the sender waits a second for it. *)
Begun(l) ==
    LET at(offset) == [l EXCEPT !.out = [OutIs("open") EXCEPT !.byteoffset = offset,
                                                              !.pos = offset]]
    IN  IF kind # "RESEND" THEN {at(l.out.byteoffset)}
        ELSE {at(l.in.byteoffset)}
             \cup (IF "late_reget" \in Hazards
                   THEN {[at(0) EXCEPT !.acks = <<-1, -1, -1>>]} ELSE {})

(* start_dcc_chat(), start_dcc_send(): the first block is sent at once *)
Accept(p) ==
    LET l == link[p]
    IN  /\ l.out.st = "wait" /\ l.in.st # "none"
        /\ \/ /\ kind = "CHAT"
              /\ link' = [link EXCEPT ![p].out = OutIs("open")]
              /\ UNCHANGED reject
           \/ /\ kind # "CHAT"
              /\ \E b \in Begun(l) : \E r \in SendBlock(b) : link' = [link EXCEPT ![p] = r]
              /\ UNCHANGED reject
           \/ /\ kind # "CHAT"                 \* the file cannot be opened
              /\ link' = [link EXCEPT ![p] = CloseOut(l, "lost")]
              /\ MayReject(l.by)
        /\ UNCHANGED <<kind, fast, used, pending, lastReq, file, announced, wire>>

-----------------------------------------------------------------------------
(* The receiver *)

(* mutant: where the transfer began is forgotten *)
start_dcc_get_from_start(l, k) ==
    LET in == [l.in EXCEPT !.bytes_read = @ + k]
        m == [l EXCEPT !.data = SubSeq(@, k + 1, Len(@)),
                       !.in = in,
                       !.acks = IF l.out.st = "open" THEN Append(@, in.bytes_read) ELSE @]
    IN  IF in.bytes_read = Size THEN CloseIn(m, "complete") ELSE m

(* start_dcc_get(), with k units read; the file is open for writing at its end *)
start_dcc_get(l, k) ==
    LET in == [l.in EXCEPT !.bytes_read = @ + k]
        m == [l EXCEPT !.data = SubSeq(@, k + 1, Len(@)),
                       !.in = in,
                       !.acks = IF l.out.st = "open" THEN Append(@, in.bytes_read) ELSE @]
        total == in.bytes_read + in.byteoffset
    IN  IF Size > 0 /\ total > Size THEN CloseIn(m, "lost")
        ELSE IF Size > 0 /\ total = Size THEN CloseIn(m, "complete")
        ELSE m

(* How many of the k units the disk takes: fewer are no error to start_dcc_get(), which
   counts and acknowledges what it has read *)
Written(k) == IF "short_write" \in Hazards THEN 1..k ELSE {k}

ReceiverReads(p) ==
    LET l == link[p]
        ends(st) == link' = [link EXCEPT ![p] = CloseIn(l, st)] /\ UNCHANGED file
    IN  /\ l.in.st = "open"
        /\ \/ \E k \in 1..Len(l.data) :
                 /\ link' = [link EXCEPT ![p] = start_dcc_get(l, k)]
                 /\ \E w \in Written(k) :
                        file' = [file EXCEPT !.data = @ \o SubSeq(l.data, 1, w)]
                 /\ IF link'[p].in.st = "lost" THEN MayReject("b") ELSE UNCHANGED reject
           \/ /\ l.out.st \in Gone /\ l.data = <<>> /\ kind # "CHAT" /\ ~l.broken
              /\ ends("complete") /\ UNCHANGED reject
           \/ /\ l.broken \/ l.out.st \in Gone
              /\ ends("lost") /\ MayReject(Other(l.by))
        /\ UNCHANGED <<kind, fast, used, pending, lastReq, announced, wire>>

(* write() returns -1, and has written nothing: the disk was full before *)
WriteFails(p) ==
    /\ link[p].in.st = "open" /\ link[p].data # <<>>
    /\ link' = [link EXCEPT ![p] = CloseIn(@, "lost")]
    /\ MayReject("b")
    /\ UNCHANGED <<kind, fast, used, pending, lastReq, file, announced, wire>>

-----------------------------------------------------------------------------
(* What ends a DCC *)

(* scan_sockets(): no one has connected for two minutes *)
ListenTimeout(p) ==
    /\ link[p].out.st = "wait"
    /\ link' = [link EXCEPT ![p] = CloseOut(@, "lost")]
    /\ UNCHANGED <<kind, fast, used, pending, lastReq, file, announced, wire, reject>>

(* dcc_check_idle(): an offer is not answered within DCC_TIMEOUT *)
PendingTimeout(c) ==
    /\ \E i \in DOMAIN pending[c] : pending' = [pending EXCEPT ![c] = RemoveAt(@, i)]
    /\ UNCHANGED <<kind, fast, used, link, lastReq, file, announced, wire, reject>>

(* mutant: only offers that wait are closed *)
IdleClose_offers(p) ==
    /\ kind # "CHAT" /\ link[p].out.st = "wait"
    /\ link' = [link EXCEPT ![p] = CloseOut(@, "lost")]
    /\ MayReject(link[p].by)
    /\ UNCHANGED <<kind, fast, used, pending, lastReq, file, announced, wire>>

(* dcc_check_idle(): a sender with nothing to do for a long time gives up; a receiver
   and a chat do not *)
IdleClose(p) ==
    /\ kind # "CHAT" /\ link[p].out.st = "open"
    /\ link[p].data = <<>> /\ link[p].acks = <<>>
    /\ link' = [link EXCEPT ![p] = CloseOut(@, "lost")]
    /\ MayReject(link[p].by)
    /\ UNCHANGED <<kind, fast, used, pending, lastReq, file, announced, wire>>

(* /DCC CLOSE: all DCCs of the type, with a REJECT for each offer that is declined *)
dcc_close(c) ==
    /\ find_dcc(c) # {} \/ pending[c] # <<>>
    /\ link' = [p \in Port |-> Erased(link[p], c)]
    /\ pending' = [pending EXCEPT ![c] = <<>>]
    /\ \/ reject' = [reject EXCEPT ![Other(c)] = TRUE]
       \/ pending[c] = <<>> /\ UNCHANGED reject
    /\ UNCHANGED <<kind, fast, used, lastReq, file, announced, wire>>

(* The connection is reset, and what is on its way is lost (external) *)
Break(p) ==
    /\ link[p].in.st = "open" /\ link[p].out.st \in {"wait", "open"} /\ ~link[p].broken
    /\ link' = [link EXCEPT ![p].broken = TRUE, ![p].data = <<>>, ![p].acks = <<>>]
    /\ UNCHANGED <<kind, fast, used, pending, lastReq, file, announced, wire, reject>>

-----------------------------------------------------------------------------
Ends(p) == Accept(p) \/ SenderReads(p) \/ ReceiverReads(p) \/ WriteFails(p)
             \/ ListenTimeout(p) \/ IdleClose(p) \/ Break(p)

Commands(c) == Offer(c) \/ AnswerChat(c) \/ dcc_close(c)

Next ==
    \/ \E c \in Client : Commands(c) \/ Deliver(c) \/ Lose(c) \/ dcc_reject(c) \/ PendingTimeout(c)
    \/ Get \/ ReGet \/ dcc_resume
    \/ \E p \in Port : Ends(p)

Spec == Init /\ [][Next]_vars

(* scan_sockets() calls the handler of every socket that has something to read, and
   dcc_check_idle() is called in every pass of the io() loop *)
Fairness == \A p \in Port : /\ WF_vars(Accept(p)) /\ WF_vars(SenderReads(p))
                            /\ WF_vars(ReceiverReads(p)) /\ WF_vars(IdleClose(p))

FairSpec == Spec /\ Fairness

-----------------------------------------------------------------------------
(* Properties *)

(* However often a transfer is broken off, resumed or begun anew, what the receiver has
   is the beginning of the file (start_dcc_get(), dcc_resume(), the reget packet), as
   long as its disk takes a block whole or not at all. *)
FileIsPrefix == file.data = SubSeq(Source, 1, Len(file.data))

(* A receiver that says TRANSFER COMPLETE (close_dcc_file()) has the file, unless the
   sender has broken off; a sender that says so does not close a connection that the
   receiver is still reading from.  It holds while write() takes a block whole or fails:
   after a short one start_dcc_get() has counted more than the file has
   (short_write). *)
CompleteMeansWhole ==
    [][\A p \in Port :
          /\ (link[p].in.st = "open" /\ link'[p].in.st = "complete" /\ link[p].out.st = "open")
                => file'.data = Source
          /\ (link[p].out.st = "open" /\ link'[p].out.st = "complete")
                => link[p].in.st \in Gone \/ link[p].broken]_vars

(* While both ends of a transfer are there, one of them has something to read: the
   sender never waits for an acknowledgement that will not come (process_dcc_send1()
   compares it with bytes_sent, and with what is left of the file). *)
NoStandstill ==
    \A p \in Port :
        (kind # "CHAT" /\ link[p].out.st = "open" /\ link[p].in.st = "open" /\ ~link[p].broken)
            => link[p].data # <<>> \/ link[p].acks # <<>>

(* A transfer ends at both of its ends, and so does a chat that one of them has left. *)
TransferEnds ==
    \A p \in Port :
        (/\ link[p].out.st = "open" \/ link[p].in.st = "open"
         /\ kind # "CHAT" \/ {link[p].out.st, link[p].in.st} \cap Gone # {})
            ~> (link[p].out.st # "open" /\ link[p].in.st # "open")

(* DCC_CONNECT is run for connections, and not for offers (register_dcc_type()). *)
ConnectIsConnection ==
    \A c \in Client : announced[c] => \E p \in Port : link[p].in.st # "none"
=============================================================================
