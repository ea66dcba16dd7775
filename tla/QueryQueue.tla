----------------------------- MODULE QueryQueue -----------------------------
(***************************************************************************)
(* The WHO, ISON and USERHOST queues of source/who.c.                       *)
(*                                                                         *)
(* An IRC server does not say which question a reply belongs to.  BitchX   *)
(* therefore keeps, for each server, one queue per kind of question and    *)
(* hands every reply to the entry at the head of the queue of its kind.    *)
(* A WHO on the target of the previous WHO is not sent: the previous entry *)
(* gets the `piggyback' mark and both are answered by one reply.           *)
(*                                                                         *)
(* The client is single threaded; an action is one pass through a handler, *)
(* with the callbacks it runs.  The server is external: it answers the     *)
(* requests of one connection in the order they were sent.                 *)
(***************************************************************************)
EXTENDS Integers, Sequences

CONSTANTS
    Server,     \* the entries of server_list
    Target,     \* channels and masks a WHO may be about
    NoTarget,   \* the target of an entry that is not a WHO
    User,       \* the classes of users the lines of a WHO reply describe
    Opers,      \* the classes of User that are IRC operators
    Filter,     \* the switches of /WHO, as the sets of users they let through
    MaxId,      \* bound: queries numbered 0 .. MaxId - 1
    MaxSplit,   \* bound: requests one ISON or USERHOST command is split into
    Hazards     \* which of the situations named below the environment produces

HazardNames == {"foreign_close", "nick_in_use", "ask_in_end", "close_in_callback"}

ASSUME QueryQueueAssumption ==
    /\ NoTarget \notin Target
    /\ Opers \in SUBSET User
    /\ Filter \in SUBSET (SUBSET User)
    /\ MaxId \in Nat
    /\ MaxSplit \in Nat \ {0}
    /\ Hazards \in SUBSET HazardNames

VARIABLES
    connected,  \* server_list[s].connected
    queue,      \* queue[s][k]: the who_queue, ison_queue and userhost_queue of s
    wire,       \* what was sent to s and is not answered yet, oldest first
    lines,      \* the lines of the WHO reply in progress received from s so far
    nextId,     \* number of the next query
    answers,    \* history: every call of a line, end or func callback
    crashed     \* the client died of an entry that a callback had freed

vars == <<connected, queue, wire, lines, nextId, answers, crashed>>

Kind == {"who", "ison", "userhost"}

(***************************************************************************)
(* `id' and `via' are history: the number of the query and the number of   *)
(* the request whose reply it waits for (its own unless it rides on an     *)
(* earlier one).  The other fields are those of WhoEntry: who_mask and the *)
(* match arguments are folded into `filter'; `line' says that a function   *)
(* of the client, which is given every line, takes the place of output.    *)
(***************************************************************************)
Entry == [id : Nat, via : Nat, target : Target \cup {NoTarget},
          filter : SUBSET User, line : BOOLEAN, dirty : BOOLEAN, piggyback : BOOLEAN]

Request == [kind : Kind \cup {"nick"}, id : Nat, mask : SUBSET User]

Answer == [to : Nat, via : Nat, by : Nat, line : SUBSET User]

TypeOK ==
    /\ connected \in [Server -> BOOLEAN]
    /\ queue \in [Server -> [Kind -> Seq(Entry)]]
    /\ wire \in [Server -> Seq(Request)]
    /\ lines \in [Server -> SUBSET User]
    /\ nextId \in Nat
    /\ answers \in SUBSET Answer
    /\ crashed \in BOOLEAN

Init ==
    /\ connected = [s \in Server |-> FALSE]
    /\ queue = [s \in Server |-> [k \in Kind |-> <<>>]]
    /\ wire = [s \in Server |-> <<>>]
    /\ lines = [s \in Server |-> {}]
    /\ nextId = 0
    /\ answers = {}
    /\ crashed = FALSE

-----------------------------------------------------------------------------
(* Queue operations *)

EmptyQueues == [k \in Kind |-> <<>>]

(* mutant: the entry is numbered before the counter is stepped *)
Plain_off_by_one(i) == [id |-> i - 1, via |-> i - 1, target |-> NoTarget, filter |-> User,
                        line |-> TRUE, dirty |-> FALSE, piggyback |-> FALSE]

Plain(i) == [id |-> i, via |-> i, target |-> NoTarget, filter |-> User,
             line |-> TRUE, dirty |-> FALSE, piggyback |-> FALSE]

(* n ISON or USERHOST entries, one for each request the command is split into *)
PlainEntries(i, n) == [j \in 1..n |-> Plain(i + j - 1)]

Requests(k, i, n) ==
    [j \in 1..n |-> [kind |-> k, id |-> i + j - 1, mask |-> User]]

(* mutant: the check that no line of the reply has arrived yet is forgotten *)
CanPiggyback_ignores_dirty(q, t) == q # <<>> /\ q[Len(q)].target = t

(* whobase(): can a WHO about t ride on the last entry of the queue? *)
CanPiggyback(q, t) ==
    /\ q # <<>>
    /\ ~ q[Len(q)].dirty
    /\ q[Len(q)].target = t

(* mutant: the piggyback mark is put on the new entry, not on the one before *)
WhoAdd_marks_itself(q, i, t, f, func) ==
    LET ride == CanPiggyback(q, t)
    IN  Append(q, [id |-> i, via |-> IF ride THEN q[Len(q)].via ELSE i, target |-> t,
                   filter |-> f, line |-> func, dirty |-> FALSE, piggyback |-> ride])

(* who_queue_add(), and the piggyback mark whobase() leaves on the entry before *)
WhoAdd(q, i, t, f, func) ==
    LET ride == CanPiggyback(q, t)
        new  == [id |-> i, via |-> IF ride THEN q[Len(q)].via ELSE i, target |-> t,
                 filter |-> f, line |-> func, dirty |-> FALSE, piggyback |-> FALSE]
    IN  IF ride THEN Append([q EXCEPT ![Len(q)].piggyback = TRUE], new)
                ELSE Append(q, new)

(* the request of a WHO: -operators is also asked of the server *)
WhoRequest(i, f) ==
    [kind |-> "who", id |-> i, mask |-> IF f = Opers THEN Opers ELSE User]

(* the first n entries are one batch: all but the last have the piggyback mark *)
IsBatch(q, n) == ~ q[n].piggyback /\ \A i \in 1..(n - 1) : q[i].piggyback

(* mutant: one entry is popped, not the batch *)
who_queue_pop_pops_one(q) == SubSeq(q, 2, Len(q))

(* the do .. while (piggyback && next) loops go over the first BatchLen entries *)
BatchLen(q) ==
    IF \E n \in 1..Len(q) : IsBatch(q, n)
    THEN CHOOSE n \in 1..Len(q) : IsBatch(q, n)
    ELSE Len(q)

(* mutant: the answered entry stays at the head *)
ison_queue_pop_keeps_head(q) == q

who_queue_pop(q) == SubSeq(q, BatchLen(q) + 1, Len(q))

ison_queue_pop(q) == IF q = <<>> THEN q ELSE Tail(q)

userhost_queue_pop(q) == Tail(q)

MarkDirty(q, n) ==
    [i \in 1..Len(q) |-> IF i <= n THEN [q[i] EXCEPT !.dirty = TRUE] ELSE q[i]]

(* mutant: the ISON queue is not emptied *)
clean_server_queues_leaves_ison(s) ==
    [queue EXCEPT ![s]["who"] = <<>>, ![s]["userhost"] = <<>>]

(* clean_server_queues(): does nothing for a server that is not connected *)
clean_server_queues(s) ==
    [queue EXCEPT ![s] = IF connected[s] THEN EmptyQueues ELSE queue[s]]

-----------------------------------------------------------------------------
(* The commands that ask *)

isonbase(s, n) ==
    /\ connected[s]
    /\ nextId + n <= MaxId
    /\ queue' = [queue EXCEPT ![s]["ison"] = @ \o PlainEntries(nextId, n)]
    /\ wire' = [wire EXCEPT ![s] = @ \o Requests("ison", nextId, n)]
    /\ nextId' = nextId + n
    /\ UNCHANGED <<connected, lines, answers, crashed>>

userhostbase(s, n) ==
    /\ connected[s]
    /\ nextId + n <= MaxId
    /\ queue' = [queue EXCEPT ![s]["userhost"] = @ \o PlainEntries(nextId, n)]
    /\ wire' = [wire EXCEPT ![s] = @ \o Requests("userhost", nextId, n)]
    /\ nextId' = nextId + n
    /\ UNCHANGED <<connected, lines, answers, crashed>>

whobase(s, t, f, func) ==
    /\ connected[s]
    /\ nextId < MaxId
    /\ queue' = [queue EXCEPT ![s]["who"] = WhoAdd(@, nextId, t, f, func)]
    /\ wire' = [wire EXCEPT ![s] =
                  IF CanPiggyback(queue[s]["who"], t) THEN @
                  ELSE Append(@, WhoRequest(nextId, f))]
    /\ nextId' = nextId + 1
    /\ UNCHANGED <<connected, lines, answers, crashed>>

-----------------------------------------------------------------------------
(* The replies *)

Pending(s, k) == wire[s] # <<>> /\ Head(wire[s]).kind = k

(* the callbacks of the first n entries of q are called for a reply to r *)
Called(q, n, r, line) ==
    {[to |-> q[i].id, via |-> q[i].via, by |-> r.id, line |-> line] : i \in 1..n}

(***************************************************************************)
(* 303.  The callback may ask again before the entry is popped: with        *)
(* ison_notify() the ISON reply asks USERHOST for those who came online.   *)
(***************************************************************************)
ison_returned(s, n) ==
    LET q == queue[s]["ison"]
        r == Head(wire[s])
    IN  /\ Pending(s, "ison")
        /\ n > 0 => q # <<>> /\ nextId + n <= MaxId
        /\ queue' = [queue EXCEPT ![s]["ison"] = ison_queue_pop(q),
                                  ![s]["userhost"] = @ \o PlainEntries(nextId, n)]
        /\ wire' = [wire EXCEPT ![s] = Tail(@) \o Requests("userhost", nextId, n)]
        /\ answers' = answers \cup
             IF q = <<>> THEN {} ELSE Called(q, 1, r, User)
        /\ nextId' = nextId + n
        /\ UNCHANGED <<connected, lines, crashed>>

(* 302, with a func that may ask USERHOST again before the entry is popped *)
userhost_returned(s, n) ==
    LET q == queue[s]["userhost"]
        r == Head(wire[s])
    IN  /\ Pending(s, "userhost")
        /\ n > 0 => q # <<>> /\ nextId + n <= MaxId
        /\ queue' = [queue EXCEPT ![s]["userhost"] =
                       IF q = <<>> THEN q
                       ELSE userhost_queue_pop(q \o PlainEntries(nextId, n))]
        /\ wire' = [wire EXCEPT ![s] = Tail(@) \o Requests("userhost", nextId, n)]
        /\ answers' = answers \cup
             IF q = <<>> THEN {} ELSE Called(q, 1, r, User)
        /\ nextId' = nextId + n
        /\ UNCHANGED <<connected, lines, crashed>>

(***************************************************************************)
(* A callback, called while the entries it belongs to are still queued,    *)
(* disconnects its server: close_server() frees every entry of the server. *)
(* If the handler that called it then reads what is gone and `dies', the   *)
(* client is no more.                                                      *)
(***************************************************************************)
CallbackCloses(s, called, dies) ==
    LET gone == [c \in Server |-> c = s \/ dies]
    IN  /\ "close_in_callback" \in Hazards
        /\ queue' = [c \in Server |-> IF dies THEN EmptyQueues ELSE clean_server_queues(s)[c]]
        /\ crashed' = dies
        /\ connected' = [c \in Server |-> connected[c] /\ ~ gone[c]]
        /\ wire' = [c \in Server |-> IF gone[c] THEN <<>> ELSE wire[c]]
        /\ lines' = [c \in Server |-> IF gone[c] THEN {} ELSE lines[c]]
        /\ answers' = answers \cup called
        /\ UNCHANGED nextId

(* 302: the empty queue is the one userhost_queue_pop() reads save->next of *)
UserhostCallbackCloses(s) ==
    LET q == queue[s]["userhost"]
    IN  /\ Pending(s, "userhost") /\ q # <<>>
        /\ CallbackCloses(s, Called(q, 1, Head(wire[s]), User),
                          clean_server_queues(s)[s]["userhost"] = <<>>)

(* 303: ison_queue_pop() stands an empty queue *)
IsonCallbackCloses(s) ==
    LET q == queue[s]["ison"]
    IN  /\ Pending(s, "ison") /\ q # <<>>
        /\ CallbackCloses(s, Called(q, 1, Head(wire[s]), User), FALSE)

(* `ok' is set before the loop over the batch and never reset inside it *)
TakesLine(q, i, u) ==
    q[i].line \/ \A h \in 1..i : q[h].line \/ u \in q[h].filter

(***************************************************************************)
(* 352.  The loop marks an entry dirty and calls its callback, entry after *)
(* entry.  The callback of the j-th entry may ask a WHO about t (j = 0:    *)
(* none does).                                                             *)
(***************************************************************************)
whoreply(s, u, j, t) ==
    LET q    == queue[s]["who"]
        r    == Head(wire[s])
        q0   == MarkDirty(q, j)
        ride == CanPiggyback(q0, t)
        q1   == IF j = 0 THEN q ELSE WhoAdd(q0, nextId, t, User, TRUE)
        n    == IF q = <<>> THEN 0 ELSE BatchLen(q1)
    IN  /\ Pending(s, "who")
        /\ u \in r.mask \ lines[s]
        /\ j \in 0..(IF q = <<>> THEN 0 ELSE BatchLen(q))
        /\ j > 0 => nextId < MaxId /\ TakesLine(q, j, u)
        /\ lines' = [lines EXCEPT ![s] = @ \cup {u}]
        /\ queue' = [queue EXCEPT ![s]["who"] = MarkDirty(q1, n)]
        /\ wire' = IF j = 0 \/ ride THEN wire
                   ELSE [wire EXCEPT ![s] = Append(@, WhoRequest(nextId, User))]
        /\ answers' = answers \cup
             {a \in Called(q1, n, r, {u}) :
                \E i \in 1..n : a.to = q1[i].id /\ TakesLine(q1, i, u)}
        /\ nextId' = IF j = 0 THEN nextId ELSE nextId + 1
        /\ UNCHANGED <<connected, crashed>>

(***************************************************************************)
(* 315.  The end callback of the last entry of the batch may ask a WHO      *)
(* about t again, before the batch is popped.                              *)
(***************************************************************************)
who_end(s, again, t) ==
    LET q    == queue[s]["who"]
        r    == Head(wire[s])
        ride == CanPiggyback(q, t)
        q1   == IF again THEN WhoAdd(q, nextId, t, User, TRUE) ELSE q
        joins == ride /\ BatchLen(q) = Len(q)
    IN  /\ Pending(s, "who")
        /\ again => /\ q # <<>> /\ nextId < MaxId
                    /\ joins => "ask_in_end" \in Hazards
        /\ queue' = [queue EXCEPT ![s]["who"] = who_queue_pop(q1)]
        /\ wire' = [wire EXCEPT ![s] =
                      IF again /\ ~ ride THEN Append(Tail(@), WhoRequest(nextId, User))
                      ELSE Tail(@)]
        /\ lines' = [lines EXCEPT ![s] = {}]
        /\ answers' = answers \cup Called(q1, BatchLen(q1), r, {})
        /\ nextId' = IF again THEN nextId + 1 ELSE nextId
        /\ UNCHANGED <<connected, crashed>>

(***************************************************************************)
(* 352 and 315 whose callback disconnects, the j-th entry's: the loop goes *)
(* on from an entry that is freed, and reads its piggyback mark and its    *)
(* next one.  If what it reads is still there the loop ends at some entry  *)
(* n of the batch, and who_queue_pop() then stands the empty queue; if not *)
(* the client dies.                                                        *)
(***************************************************************************)
WhoLineCloses(s, u, n, dies) ==
    LET q == queue[s]["who"]
        r == Head(wire[s])
    IN  /\ Pending(s, "who") /\ q # <<>>
        /\ u \in r.mask \ lines[s]
        /\ n \in 1..BatchLen(q)
        /\ \E j \in 1..n : TakesLine(q, j, u)
        /\ CallbackCloses(s, {a \in Called(q, n, r, {u}) :
                               \E i \in 1..n : a.to = q[i].id /\ TakesLine(q, i, u)}, dies)

WhoEndCloses(s, n, dies) ==
    LET q == queue[s]["who"]
    IN  /\ Pending(s, "who") /\ q # <<>>
        /\ n \in 1..BatchLen(q)
        /\ CallbackCloses(s, Called(q, n, Head(wire[s]), {}), dies)

-----------------------------------------------------------------------------
(* Connections and nicknames *)

(* 001: server_is_connected(s, 1) and the USERHOST about oneself *)
Welcome(s) ==
    /\ ~ connected[s] /\ ~ crashed
    /\ nextId < MaxId
    /\ connected' = [connected EXCEPT ![s] = TRUE]
    /\ queue' = [queue EXCEPT ![s]["userhost"] = @ \o PlainEntries(nextId, 1)]
    /\ wire' = [wire EXCEPT ![s] = @ \o Requests("userhost", nextId, 1)]
    /\ nextId' = nextId + 1
    /\ UNCHANGED <<lines, answers, crashed>>

(***************************************************************************)
(* close_server(cs) called while from_server = ctx.  The queues it cleans  *)
(* are those of from_server, whatever the server being closed is.          *)
(***************************************************************************)
close_server(ctx, cs) ==
    /\ connected[cs]
    /\ ctx # cs => "foreign_close" \in Hazards
    /\ queue' = clean_server_queues(ctx)
    /\ connected' = [connected EXCEPT ![cs] = FALSE]
    /\ wire' = [wire EXCEPT ![cs] = <<>>]
    /\ lines' = [lines EXCEPT ![cs] = {}]
    /\ UNCHANGED <<nextId, answers, crashed>>

(* /NICK on a registered connection; no query number is used up *)
SendNick(s) ==
    /\ connected[s]
    /\ \A i \in 1..Len(wire[s]) : wire[s][i].kind # "nick"
    /\ wire' = [wire EXCEPT ![s] = Append(@, [kind |-> "nick", id |-> 0, mask |-> {}])]
    /\ UNCHANGED <<connected, queue, lines, nextId, answers, crashed>>

NickAccepted(s) ==
    /\ Pending(s, "nick")
    /\ wire' = [wire EXCEPT ![s] = Tail(@)]
    /\ UNCHANGED <<connected, queue, lines, nextId, answers, crashed>>

(***************************************************************************)
(* 433 on a registered connection.  With an orignick set, check_orig_nick  *)
(* first asks USERHOST about it; then all queues are cleaned; then         *)
(* USERHOST is asked about the nickname in use.                            *)
(***************************************************************************)
NicknameInUse(s, orignick) ==
    LET n == IF orignick THEN 2 ELSE 1 IN
    /\ Pending(s, "nick")
    /\ Len(wire[s]) > 1 \/ orignick => "nick_in_use" \in Hazards
    /\ nextId + n <= MaxId
    /\ queue' = [clean_server_queues(s) EXCEPT ![s]["userhost"] =
                   @ \o PlainEntries(nextId + n - 1, 1)]
    /\ wire' = [wire EXCEPT ![s] = Tail(@) \o Requests("userhost", nextId, n)]
    /\ nextId' = nextId + n
    /\ UNCHANGED <<connected, lines, answers, crashed>>

-----------------------------------------------------------------------------
Ask(s) ==
    \/ \E n \in 1..MaxSplit : isonbase(s, n) \/ userhostbase(s, n)
    \/ \E t \in Target, f \in Filter : whobase(s, t, f, FALSE)
    \/ \E t \in Target : whobase(s, t, User, TRUE)

Reply(s) ==
    \/ \E n \in 0..1 : ison_returned(s, n) \/ userhost_returned(s, n)
    \/ \E u \in User, j \in 0..Len(queue[s]["who"]), t \in Target : whoreply(s, u, j, t)
    \/ \E again \in BOOLEAN, t \in Target : who_end(s, again, t)
    \/ NickAccepted(s)
    \/ \E orignick \in BOOLEAN : NicknameInUse(s, orignick)
    \/ UserhostCallbackCloses(s) \/ IsonCallbackCloses(s)
    \/ \E n \in 1..Len(queue[s]["who"]), dies \in BOOLEAN :
          \/ \E u \in User : WhoLineCloses(s, u, n, dies)
          \/ WhoEndCloses(s, n, dies)

Next ==
    \/ \E s \in Server : Welcome(s) \/ Ask(s) \/ SendNick(s) \/ Reply(s)
    \/ \E ctx, cs \in Server : close_server(ctx, cs)

Spec == Init /\ [][Next]_vars

(* the server goes on answering; the io() loop goes on reading *)
FairSpec == Spec /\ \A s \in Server : WF_vars(Reply(s))
-----------------------------------------------------------------------------
(* Properties *)

Ids(q) == {q[i].via : i \in 1..Len(q)}

Outstanding(w, k) == {w[i].id : i \in {j \in 1..Len(w) : w[j].kind = k}}

(***************************************************************************)
(* The queue of each kind stands for exactly the requests of that kind the *)
(* server has still to answer (who.c keeps no other record of them).       *)
(***************************************************************************)
QueuesMatchWire ==
    \A s \in Server, k \in Kind : Ids(queue[s][k]) = Outstanding(wire[s], k)

(***************************************************************************)
(* Every reply that whoreply, who_end, ison_returned or userhost_returned  *)
(* hands to a callback answers the request that callback's query was sent  *)
(* as, or rides on.                                                        *)
(***************************************************************************)
RightAsker == \A a \in answers : a.by = a.via

(***************************************************************************)
(* What who_queue_pop() and the loops over a batch rely on: the piggyback  *)
(* mark of an entry says that there is a next one, and two entries wait    *)
(* for the same reply exactly when those from the one up to the other are  *)
(* all marked.                                                             *)
(***************************************************************************)
WellFormed(q) ==
    /\ q # <<>> => ~ q[Len(q)].piggyback
    /\ \A i, j \in 1..Len(q) :
          i < j => /\ q[i].via <= q[j].via
                   /\ q[i].via = q[j].via <=> \A h \in i..(j - 1) : q[h].piggyback

BatchesWellFormed == \A s \in Server, k \in Kind : WellFormed(queue[s][k])

(* the entries riding on the WHO reply that is being received from s *)
Riders(s) ==
    {e \in {queue[s]["who"][i] : i \in 1..Len(queue[s]["who"])} :
        Pending(s, "who") /\ e.via = Head(wire[s]).id}

LinesOf(id) == UNION {a.line : a \in {b \in answers : b.to = id}}

(***************************************************************************)
(* Each query that waits for the WHO reply in progress has been given the  *)
(* lines received so far that its switches let through, no matter when it  *)
(* joined and what the queries before it asked for.                        *)
(***************************************************************************)
EveryMatchingLine ==
    \A s \in Server : \A e \in Riders(s) :
        LinesOf(e.id) = IF e.line THEN lines[s] ELSE lines[s] \cap e.filter

(***************************************************************************)
(* Every query is answered, or dropped with its connection: since only     *)
(* MaxId queries are asked, each queue ends up empty.                      *)
(***************************************************************************)
EveryQuerySettles ==
    \A s \in Server, k \in Kind : queue[s][k] # <<>> ~> queue[s][k] = <<>>
=============================================================================
