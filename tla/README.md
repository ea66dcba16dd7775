# A TLA+ model of BitchX

BitchX is an IRC client in C. This directory models the parts of it in which
several actors meet: the connections to servers and the windows that use them,
the questions the client has asked its servers, what it knows of a channel, its
direct connections to other clients, the resolver thread, and the timers. Every
definition is translated from the sources under `src/source` and `src/include`;
`PROJECT.json` says which lines each stands for.

Contents: [inventory](#inventory) · [modules](#modules) · [runs](#runs) ·
[what the client gets wrong](#what-the-client-gets-wrong) ·
[proofs](#proofs) · [limits](#limits) · [plan](#plan)

## Inventory

BitchX is single threaded. `main()` ends in a loop of `io()` (irc.c), and one
pass of `io()`

1. sets up `select()` with the sockets of the servers, DCCs, processes and
   screens, and a time out taken from the first timer and from the servers that
   are to be reconnected;
2. handles what `select()` reported: `do_server()` reads the servers,
   `do_processes()` the children, `do_screens()` the keyboard, `scan_sockets()`
   the DCCs, `dns_check()` the resolver; after a time out, `do_idle_server()`;
3. runs `ExecuteTimers()`, sends one line of the send queue, reaps children, and
   once a minute asks for the notify list.

A handler runs to its end before the next one starts, but it may call user
code (aliases, hooks, callbacks), user code may run any command, and a command
may call `io()` again and wait. What is hard in this program is therefore not
parallelism but *state that outlives a handler*: an answer that comes passes
later, a list that is changed by the command run while it is walked, a number of
a server that was true when it was stored. The one real thread is the resolver.

| Part | State | Operations | Hard behaviour | Correct when |
|---|---|---|---|---|
| Server connections (server.c) | `server_list`: descriptors, login flags, who replaces whom, retries | connect, switch, retry, close, and the replies 001, 463, 464, KILL | connecting takes three passes, in which servers fail, commands arrive and windows move | a switch keeps the old connection until the new one stands; the client goes on until it is connected |
| Windows and servers (window.c) | server number of each window, `primary_server` | create, kill, re-associate, `window_check_servers()` | a loop that closes servers and moves windows while it looks at both | open servers have windows and the other way round |
| Query queues (who.c) | three queues per server | WHO, ISON, USERHOST and their replies | replies carry no identification; callbacks ask again and disconnect | each reply reaches the query it answers, and all of its lines |
| Threaded resolver (cdns.c) | two queues, three mutexes, a condition, a pipe | ask, look up, hand back, stop | two threads | one callback per request, no lost wakeup |
| Timers (timer.c) | sorted list of timers | add, update, delete, execute | commands of a timer change the list that is being executed | each fires as often as asked, when asked |
| Nickname (server.c, numbers.c) | wanted, sent and accepted nickname | /NICK, 433, orignick | refusals are told apart by two flags | the nickname is the one the server accepted |
| Channels (names.c, parse.c) | join list, channels, nicks, modes, bans | JOIN, PART, KICK, MODE, NICK, the four replies to a join, rejoin | a join is complete after four replies, while members come and go, and may be cut short | the lists are those of the server |
| DCC (dcc.c, ctcp.c, cdcc.c) | sockets and pending offers | offer, accept, resume, send, acknowledge, reject, time out | both sides act at once, over two connections | what arrives is the beginning of the file; every transfer ends |
| Notify (notify.c) | who is on, per server | ISON replies, USERHOST batches | is built on the query queues | arrivals and departures reported once |
| Processes (exec.c) | table of children | start, read, exit, kill | exit and end of output in either order | each is removed once, after both |
| Send queue (server.c) | lines with server numbers | add, send | the server may be another by then | a line goes where it was meant to go |
| Floods, ignores, CTCP | counters, lists | one line at a time | limits | - |
| Script language, hooks | aliases, variables, hooks | parse and run | is re-entered | - |
| Screen, input, history, logs, mail, modules, wserv | text | - | - | - |

The last three rows, the support code, the plugins under `dll/` and the other
front ends are not modelled (see `components` in `PROJECT.json` for the reason of
each); *Nickname*, *Notify*, *Processes* and the *Send queue* are in the
[plan](#plan).

The parts interact by calls and by the number of a server. A server that is
closed empties its query queues (`close_server()` → `clean_server_queues()`); a
window that is closed closes its server; timers keep the server and window they
were made in; a 433 empties the query queues; the timer `reconnect` calls
`get_connected()`. A channel is joined with a WHO in the query queues, and is
joined again by `reconnect_all_channels()` when a new connection is registered.
DCCs are agreed on by CTCP messages over a server, and then live without it.

## Modules

| Module | Models | Lines of the source |
|---|---|---|
| `QueryQueue` | the WHO, ISON and USERHOST queues | who.c; parts of server.c, numbers.c |
| `QueryQueueMC` | its small instances | |
| `QueryQueueProofs`, `QueryAnswerProofs` | theorems | |
| `ServerConn` | connections, switches, windows | server.c, window.c |
| `ServerConnMC` | the loop of `window_check_servers()` turn by turn, `CheckIsTheLoop`; the theorems extend it | window.c |
| `ServerConnProofs` | theorems | |
| `DnsService` | abstract: what the resolver promises | |
| `Cdns` | the resolver; refines `DnsService` | cdns.c |
| `CdnsProofs` | theorems | |
| `Timers`, `TimersMC` | the timers | timer.c |
| `TimersProofs` | theorems | |
| `Channels` | a channel, as the server has it and as the client knows it | names.c; parts of parse.c, numbers.c, funny.c |
| `ChannelsProofs` | theorems | |
| `Dcc` | two clients, their offers and the transfer of a file | dcc.c; parts of ctcp.c, misc.c |
| `DccProofs` | theorems | |
| `SequenceLemmas` | facts about numbers and sequences that several proofs use | |

Definitions keep the names of the functions (`whoreply`, `get_connected`,
`schedule_timer`). Operators whose comment begins with *mutant:* are not part of the
model: each is a definition with a plausible mistake in it, and `PROJECT.json`
pairs it with a property that the mistake violates.

**Hazards.** Each of `QueryQueue`, `ServerConn`, `Timers` and `Dcc` has a constant
`Hazards`: the names of situations in which the code goes wrong. The passing
runs leave them out and so show where the trouble ends; a run that is expected
to find a violation puts one in. A hazard is a guard on the environment, never on
what the code does. `Channels` leaves nothing out: a history variable `trouble`
records that such a situation has occurred, and one property excepts it.

### QueryQueue

An IRC server answers the requests of a connection in order and does not repeat
the question. The client keeps a queue per kind of question; `wire[s]` is what
was sent and not answered, the model's picture of the server (external). A WHO
about the same target as the last one in the queue is not sent; the entry
before it is marked `piggyback` and both get the one reply. `id` and `via`
number queries and requests; they are history and no guard reads them. One
action is a handler with the callbacks it runs: `whoreply(s, u, j, t)` is a 352
in which the callback of entry j asks about t while the loop is under way;
`who_end` and `userhost_returned` likewise. Masks and match switches are folded
into the set of users they let through. A callback may also disconnect its
server, which frees the entries its handler is at work on (`CallbackCloses`).
`ison_returned()` does not mind (`IsonCallbackCloses`);
`userhost_queue_pop()` meets an empty queue, and the program dies there
(`crashed`); the loops of `whoreply()` and `who_end()` go on from a freed entry
(`WhoLineCloses`, `WhoEndCloses`). What they then read is undefined: in the model
they stop at any entry of the batch, having called the callbacks up to it, or
the program dies.

### ServerConn

`do_server()` goes over the servers in order, one `Turn` each, and no command is
read between: `pass` and `scan` are the loop. `/SERVER` only sets flags
(`get_connected`); the pass after that opens the socket (`TurnReconnect`); the
pass in which it is writable logs in and hands the windows over (`TurnLogIn`,
`finalize_server_connect`). The handlers call each other, and each is an
operator from the shared state (a record `c` of `sl`, `win`, `primary`,
`attached`) to the shared state. `window_check_servers` is stated as what it
computes; `ServerConnMC` runs its loop as it is written, and `CheckIsTheLoop`
compares the two in every state. The network is external: `Events` says what it
does. `late` in `StartPass` are the attempts that took longer than
`CONNECT_TIMEOUT`.

### Cdns and DnsService

`thread` and `main` are the points the two threads have reached; what a thread
does while it holds a mutex is one action, since nothing that happens in between
can be seen by the other. `pthread_cond_wait()` may return without a signal.
The pipe holds `PipeSize` bytes and `write()` blocks when it is full.
`DnsService` is the contract: a request is answered once, or the
resolver is stopped. A request is a call of `add_to_dns_queue()` with a host: one
without enqueues nothing and its callback is never called. cdns.c is compiled with `THREAD` and `WANT_NSLOOKUP` only.

### Timers

Time is counted in ticks, `Second` of them a second, because the code treats the
two differently: the interval is kept in whole seconds, and when a timer is
rescheduled its microseconds become the last digits of the address of its
structure. `frac` is that remainder, chosen when the structure is
allocated. `FireTimer` takes the first timer out of the list, `EndTimer` puts it
back or frees it, and between them its commands may do anything a user may,
with the clock running; `now1` is read once per pass. `MayAdd` and `MayRepeat`
are the guards the hazards lift. `asked` is the delay a timer was asked for, which
the code does not keep: `interval` is what is left of it.

### Channels

Both sides are in the model: `srv` is the channel at the server, `chan` the
client's `ChannelList`, and `up` and `down` what is between them, in order. The
server, external, takes the commands one by one (`Serve`); the others join, leave,
kick, invite, and change operators, modes, bans and nicknames at any time
(`Others`). What the client does with one message is an operator named after its
handler (`p_kick`, `funny_mode`, `add_user_who`); the lines of a reply and its end
arrive together. `joining` and `gotinfo` are the entry of `join_list`: it outlives
kicks and lost connections, as in the code, and an entry that is there is used
again by `add_to_join_list()`. `here` says whether the current window belongs to
this server: `got_info()` looks the channel up there, and gives its entry the
number of that server. In this model the other server has no channel of the same
name, so that the entry is then removed without an announcement. An entry with
another window's number is the same entry here. `mode_list`, which
`reconnect_all_channels()` fills for the modes to be set again, is emptied by the
`clear_channel_list()` at its end, for all servers, and therefore is always empty.

### Dcc

Both clients run BitchX. An offer is a listening socket at one client and, when
the CTCP message has arrived, an entry of `pending[c]` at the other. A listening
socket accepts one connection, so `link[p]` is the connection to port p with both
its ends, the data on their way to the receiver and the acknowledgements on their
way back; a file is sent by client a. `kind` is the type of DCC, `fast` the
variable `DCC_FAST`: with it sockets do not block, a block may be taken in part,
and no block waits for its acknowledgement. `wire` and `reject` are CTCP requests
under way, which may be lost (`Lose`); `Break` is a reset. `Swapped` stands for
the port of a repeated offer, whose bytes are exchanged once too often, so that
nobody listens on it. What a client does with an offer on its own depends on its
settings, which may change from one offer to the next: it takes it at once
(`TakenAtOnce`: DCC_AUTOGET, or a chat in BOT_MODE), asks for the rest of a file it
has a part of (`ResumedAtOnce`: DCC_AUTORESUME), or leaves it to the user.

## Runs

| Run | Question | Bounds | Result |
|---|---|---|---|
| `queries_safe` | do replies, lines and ends reach the right queries, and is every query settled? | 2 servers, 2 targets, 4 queries, requests split in 2, one /WHO switch, callbacks of every kind that ask and that disconnect | holds |
| `queries_foreign` | the same, closing another server than `from_server` | 4 queries | `RightAsker` violated |
| `conn_switch` | does a switch keep, replace, and move? | 3 servers, 2 windows, 2 retries | holds |
| `conn_plus` | windows connected one by one | 2 servers, 2 windows | holds |
| `conn_events` | every command and event, AUTO_RECONNECT off | 2 servers, 1 window | holds |
| `conn_live` | does the client get connected in the end? | 2 servers, 1 window | holds |
| `conn_eof` | end of file from the server being left | 2 servers | `AbandonedNotRetried` violated |
| `dns_safe` | is each request answered once, by both threads in any order? | 3 requests, a pipe of 2 | holds |
| `timers_fire` | does each timer fire as often and when it should? | 2 timers, of 1 and 1.5 seconds, 6 half seconds | holds |
| `channels_sync` | does the client know the channel it has joined? | 3 nicks, 4 moves of the user and the others | holds |
| `dcc_safe` | is what arrives the beginning of the file, and does every transfer end? | a file of 4 units in blocks of 2, 2 ports, 2 messages under way | holds |
| `dcc_mutual` | two users ask each other for a chat | 2 ports | `ConnectIsConnection` violated |

Why the bounds are enough:

* *queries*: a reply can go astray only between two entries of one queue; four
  queries give a batch of two, one behind it and one asked from a callback. Two
  servers are needed because a queue is cleaned for the wrong one. The symmetry
  of targets is used where no temporal property is checked.
* *connections*: a switch is between two servers, and a third is what
  `advance_server()` can go to; `MaxReconnect` 2 is the default of
  `MAX_SERVER_RECONNECT`. Two windows tell the window that is moved from the one
  that stays.
* *dns*: three requests are one in each of the two queues and one in the thread.
  A pipe of two is full before the third.
* *timers*: one timer that is executing and one in the list show what a command
  can do to the other; six ticks let a timer that repeats every second fire three times.
  Of the two delays one is in whole seconds and one is not.
* *channels*: a move is what one of the users does, or the connection; answers and
  messages are not counted. Four moves are a join, a kick or a loss in the middle
  of it, the next join, and one change while that is under way. Three nicks are the
  client's own, one that is there and one that is new.
* *dcc*: four units in blocks of two give a first and a last block, a partial
  one, and a resume in the middle of a block. Two ports are a transfer and the one
  that resumes it, or two offers that cross.

No run bounds the length of a behaviour, except that queries, requests, timers
and ports are numbered, that the clock stops at `MaxNow`, and that the moves on a
channel are counted. Deadlock is not checked where all numbers may be used up and
nothing is left to do.

### Properties

`QueuesMatchWire` says that the entries of each queue are waiting for exactly
the outstanding requests; `RightAsker` and `EveryMatchingLine` are what it is
for: every callback gets replies to its own question, and every line it should
see. `BatchesWellFormed` is what the loops over a batch rely on.
`EveryOpenServerHasWindow`, `WindowsServed` and `PrimaryHasWindow` relate windows
to connections; `SwitchKeepsOld` says that a registered connection does not end
by a command or another server's trouble; `PendingIsReal` and `OneSuccessor`
that a server is marked as being left only for one server, which is being
connected to; `SwitchMovesWindows` that the windows follow; `KeptConnected` and
`TryingEndsServed` that the client neither gives up nor goes round in circles.
`NoLostWakeup`, `NoLostResult` and `PlainInOrder` are the safety of the two
queues, `Refines` the contract. `FiresAsAsked` says that however late the
passes are, every timer fires as often as asked, and one whose delay is in
whole seconds is due each time within a second of when it was asked to: of its
first time plus as many delays as it has fired. For the other delays that would be
false (16), and only how often they fire is checked. `NoTimerLost` says that a timer fires whatever
other timers do, `RefsUnique` that a reference names one timer.
`MembersMatch` says that when nothing is under way, the client knows who is on the
channel and who is operator, itself included, after any number of joins, kicks and
lost connections and with no exception; `SyncIsComplete` that a join announced as
synched has stored all it asked for, with two exceptions that are described below;
`JoinEnds` that joins are announced.
`FileIsPrefix` says that what the receiver has on disk is the beginning of the
file, over any number of partial transfers and resumes; `NoStandstill` that the
two ends never wait for each other; `CompleteMeansWhole` that a receiver
reports a file as complete only when it is whole or the sender is gone, and a
sender only when the receiver has finished, as long as the disk takes a block
whole or not at all (28); `TransferEnds` that no transfer
stays open for ever.

### Fairness

* `queries_safe`: `WF(Reply(s))`. A server answers what it was sent, and `io()`
  reads it. Nothing is assumed of the user.
* `conn_live`: `WF(Pass)`, since `io()` is called for ever and its time out is
  finite; and strong fairness of the steps that need luck: that a pass begins in which
  no attempt is given up, that a socket can be opened, that it
  becomes writable, that the server welcomes the client. Each can fail any number of times, but not
  every time; without that, a network that is down refutes everything. The code
  has to bring the client back to these steps again and again, and that is
  what is checked.
* `dns_safe`: weak fairness of each thread; `gethostbyname()` returns. No
  fairness of `SpuriousWakeup` and of calls.
* `timers_fire`: `WF(ExecuteTimers)`: `TimerTimeout()` limits `select()` to the
  time the first timer is due, and the commands of a timer end.
* `channels_sync`: `WF(Serve)` and `WF(Deliver)`: the server answers and the client
  reads. Nothing is assumed of users, and not that a connection that was lost comes
  back.
* `dcc_safe`: per connection, weak fairness of accepting it, of reading at both
  ends, and of the idle check, all of which `io()` makes in every pass; none of
  users and of messages.

## What the client gets wrong

Each of these is a behaviour TLC found on the model and that was followed in
the source. Three are runs (`queries_foreign`, `conn_eof`, `dcc_mutual`); the
others were confirmed by adding the situation to a run, by lifting a guard, or by
leaving out an exception of a property.

1. `close_server(i)` empties the query queues of `from_server`, not of i
   (server.c:112, `queries_foreign`).
2. The verdict on a WHO line is carried from one piggybacked query to the next
   (who.c:393). `EveryMatchingLine` fails with two /WHO with different switches.
3. A second /SERVER during a switch closes the connection the switch was to
   keep (server.c:219). `SwitchKeepsOld` fails when /SERVER is allowed then.
4. The server being left is reconnected to when it closes first: the flag is
   read after `close_server()` has reset it (server.c:542, `conn_eof`).
5. `stop_dns()` may wait for ever (cdns.c:104): its signal may come before the
   thread waits. Nothing calls it.
6. *nick_in_use*: a 433 on a registered connection empties the queues while
   their requests are under way (numbers.c:1113). With an orignick, the USERHOST sent
   a moment before is forgotten and its reply is given to the next query.
   `RightAsker` fails with this hazard.
7. A plain /WHO that rides on /WHO -operators is shown the operators only: only
   targets are compared (who.c:371).
8. Any `window_check_servers()` during a switch, such as that of /WINDOW KILL,
   takes the new connection for abandoned: `close_unattached_server()` looks
   for windows with server -1 (server.c:202). `PendingIsReal` fails with
   `"kill"` among the commands of `conn_switch`.
9. /SERVER +i moves the windows that the last switch named, because only
   `get_connected()` sets `server_change_refnum` (server.c:1401), and its first
   retry takes server 0 for the one to leave, because the entry is filled with zeros
   (server.c:766).
10. /SERVER + at the last server first closes an unregistered connection and
    then asks for a server that does not exist (server.c:1766);
    `KeptConnected` fails.
11. When the client gives up, the server that was being left keeps its mark, and the
    next /SERVER closes it (server.c:334).
12. /WINDOW SERVER of an open server marks it `try_once`, and the next command
    closes it under its windows (window.c:3893).
13. /DISCONNECT in a window without a server, while others are connected,
    closes all sockets and leaves their numbers in `server_list` (server.c:2721).
14. With `MAX_SERVER_RECONNECT` 1, a server asked for is passed over before it
    was tried (server.c:302).
15. *add_in_repeat*: a timer is not in the list while its commands run, so a timer
    they add is given its reference; when the first comes back there are two (timer.c:317), and
    /TIMER -delete takes whichever is due first. The documentation promises
    that a number in use is not given again. `RefsUnique` fails.
16. The interval of a timer is kept in whole seconds (timer.c:522). 1.5 seconds
    are repeated every second, and the timer drifts away from the times it was
    asked for: `FiresAsAsked` fails when it is asked of every delay, not only of
    whole seconds. *short_repeat*: with `-repeat *` and less than a second the
    interval is 0, and the client hangs; `PassEnds` fails.
17. *delete_all_in_timer*: /TIMER -delete all from a timer never ends: nothing
    may be deleted there, and the loop waits for an empty list (timer.c:409).
    `PassEnds` fails.
18. A join that is cut short by a kick or a lost connection leaves its entry in
    the join list with the replies it had got (names.c:1910). The next join of
    the channel is announced as synched before its own replies have come, and the
    modes and bans that come later are displayed and not stored. So it is, too,
    when an invitation is followed while replies of a join that was left are under
    way. `SyncIsComplete` fails without its first exception.
19. A ban set between the echo of the JOIN and the ban list is entered twice
    (`check_sync()`, numbers.c:104, does not look) and removed once.
    `SyncIsComplete` fails without its second exception.
20. `got_info()` looks for the channel among those of the current window's server
    (names.c:1886): who looks at another server is not told that the join is
    synched, and members are not checked for auto-op. If that server has a channel
    of this name that is being joined, too, it may be that one's entry that is
    removed. `JoinEnds` fails without `~here`.
21. An entry for a JOIN that is refused with 405, or lost with the connection,
    stays in the join list for ever, and invitations to the channel are not
    followed any more (parse.c:1183).
22. `reconnect_all_channels()` notes the modes of all channels and then empties
    the list, so that they are never set again (names.c:1653).
23. Two users who ask each other for a chat get a hook DCC_CONNECT each, no
    connection, and offers back and forth until they time out (dcc.c:1262,
    `dcc_mutual`). An offer that is repeated carries its port with the bytes
    exchanged.
24. *get_after_resume*: /DCC GET of an offer whose sender was asked to resume
    it writes the rest of the file as its beginning (dcc.c:3425). `FileIsPrefix`
    fails.
25. *late_reget*: the sender waits one second for the packet that says where a
    REGET begins; one that comes later is read as acknowledgements, and the file
    is appended to itself (dcc.c:1832). `FileIsPrefix` fails.
26. *reget_whole*: /DCC REGET of a file that is there already, and any transfer
    of an empty one, stands still until it is idle for too long: nothing is sent
    and nothing acknowledged (dcc.c:2117). `NoStandstill` fails.
27. TRANSFER COMPLETE is said of any end of file, and DCC_LOST is run after a
    transfer that was complete (dcc.c:2117); a REJECT of an offer may close a later
    one; the REJECT of a REGET has no effect; idle GETs and chats are never closed.
28. *short_write*: a disk that fills up first takes a part of a block.
    `start_dcc_get()` looks for -1 only, counts the bytes it has read, not those it
    has written, and acknowledges them (dcc.c:2117): both ends report TRANSFER
    COMPLETE for a file that lacks its end. `CompleteMeansWhole` fails with this
    hazard; if a later write succeeds the file has a gap, and
    `FileIsPrefix` fails.
29. A callback that disconnects from a 302, 352 or 315 frees the entries its
    handler goes on with (who.c:544, 576, 1038).

## Proofs

`tlapm` checks every leaf; there are no unproved steps. A theorem holds for all
values of the constants that satisfy the assumptions of its component
(`QueryQueueAssumption` and so on): any number of servers, windows, targets,
queries, requests, timers, nicknames and ports, any pipe, file and block size,
and every set of `Hazards` unless its condition says otherwise.

| Theorem | Statement | Condition |
|---|---|---|
| `QueryQueueProofs!TypeCorrect` | `Spec => []TypeOK` | |
| `QueryQueueProofs!BatchesSafe` | `Spec => []BatchesWellFormed` | |
| `QueryAnswerProofs!QueuesStandForWire` | `Spec => []QueuesMatchWire` | `NoForeign` |
| `QueryAnswerProofs!RightAskerHolds` | `Spec => []RightAsker` | `NoForeign` |
| `QueryAnswerProofs!RidersGetTheirLines` | `Spec => []EveryMatchingLine` | `NoForeign`, `Filter \subseteq {F}` |
| `ServerConnProofs!TypeCorrect` | `Spec => []TypeOK` | |
| `ServerConnProofs!OpenServersHaveWindows` | `Spec => []EveryOpenServerHasWindow` | |
| `ServerConnProofs!StaysConnected` | `Spec => []KeptConnected` | `AutoReconnect`, `"next" \notin Commands` |
| `ServerConnProofs!PrimaryIsUsed` | `Spec => []PrimaryHasWindow` | `AllTogether` |
| `ServerConnProofs!WindowsFollow` | `Spec => SwitchMovesWindows` | `AllTogether` |
| `ServerConnProofs!OnlyOneSuccessor` | `Spec => []OneSuccessor` | `OneAtATime` |
| `ServerConnProofs!OldConnectionStays` | `Spec => SwitchKeepsOld` | `OneAtATime` |
| `ServerConnProofs!LeftForReal` | `Spec => []PendingIsReal` | `OneAtATime`, `AutoReconnect`, no `"minus"`, no `"kill"` |
| `ServerConnProofs!NoWindowForgotten` | `Spec => []WindowsServed` | `AutoReconnect`, `ChecksFollow` |
| `ServerConnProofs!CheckComesToTheLoop` | `Spec => []CheckIsTheLoop` | |
| `CdnsProofs!TypeCorrect` | `Spec => []TypeOK` | |
| `CdnsProofs!WakeupSafe` | `Spec => []NoLostWakeup` | |
| `CdnsProofs!ResultSafe` | `Spec => []NoLostResult` | |
| `CdnsProofs!Implements` | `Spec => Refines` | |
| `CdnsProofs!AnsweredInOrder` | `Spec => []PlainInOrder` | |
| `TimersProofs!TypeCorrect` | `Spec => []TypeOK` | |
| `TimersProofs!StaysSorted` | `Spec => []Sorted` | |
| `TimersProofs!FiresOnTime` | `Spec => []FiresAsAsked` | |
| `TimersProofs!ReferencesStayUnique` | `Spec => []RefsUnique` | `"add_in_repeat" \notin Hazards` |
| `TimersProofs!NoneIsLost` | `Spec => NoTimerLost` | |
| `ChannelsProofs!TypeCorrect` | `Spec => []TypeOK` | |
| `ChannelsProofs!MembersAgree` | `Spec => []MembersMatch` | |
| `ChannelsProofs!SyncTells` | `Spec => []SyncIsComplete` | |
| `DccProofs!TypeCorrect` | `Spec => []TypeOK` | |
| `DccProofs!PrefixKept` | `Spec => []FileIsPrefix` | `NoHazards` |
| `DccProofs!CompleteIsWhole` | `Spec => CompleteMeansWhole` | `NoHazards` |
| `DccProofs!KeepsMoving` | `Spec => []NoStandstill` | `NoHazards`, `Size > 0`, `"reget_whole" \notin Hazards` |

The conditions are where the code goes wrong, not where the proofs ended. Each
refers to the list [above](#what-the-client-gets-wrong):

* `NoForeign`: no server is closed in the context of another (1), no 433 arrives
  while queries wait (6). With either, replies go astray; the batches stay
  sound (`BatchesSafe`).
* `Filter \subseteq {F}`: the queries that are printed use one switch; with two
  the verdict on one entry is carried over to the next (2).
* `AutoReconnect`, no `"next"`: without AUTO_RECONNECT the client is meant to give
  up, and /SERVER + may ask for a server that does not exist (10).
* `AllTogether`: no /SERVER +i, /WINDOW SERVER, /RECONNECT and KILL, the commands
  and the event that give one window a server of its own; then the primary
  server need not have a window, and the windows of another switch may move (9).
* `OneAtATime`: no /SERVER while a switch is under way (3), no end of file from the
  server that is being left (4), no /SERVER + and - (10), and no command, KILL or
  failed write that ends the connection there is or makes another beside it; /SERVER i,
  /SERVER -i, new and closed windows, refused and lost connections, 463 and 464 may
  come in any order. `LeftForReal` also leaves out what may close the new
  connection (/SERVER -i and the closing of a window, 8) or gives it up (no
  AUTO_RECONNECT). TLC finds a counterexample for each thing left out.
* `ChecksFollow`: no /SERVER i and /SERVER + and -, no failed write: `get_connected()`
  closes the server the window is with, and its number stays there until
  the one that was asked for stands; no 464, which closes the server
  while the user is asked; and no /WINDOW SERVER, whose connection is made
  only once. /SERVER +i and -i, /RECONNECT, /DISCONNECT, /WINDOW DISCON, new and closed
  windows, KILL, 463, refused and lost connections may come in any order. Without
  AUTO_RECONNECT the windows stay with the server that was given up.
* `"add_in_repeat" \notin Hazards`: no timer that repeats adds another (15).
  `NamesApart`, an assumption of `Timers`, says that the numbers given
  out do not reach those that stand for references that are names, which in the
  code are text.
* `NoHazards`: no `get_after_resume` and no `late_reget`, with which the file is not
  kept (24, 25), and no `short_write`, of which it lacks a part (28): a write is
  whole or fails. `KeepsMoving` leaves out the empty file, and the REGET of one
  that is there already (26); for `PrefixKept` and `CompleteIsWhole` both may occur.

**QueryQueue.** `QInv == TypeOK /\ QueuesOK`. `BatchesWellFormed` alone is not
inductive: a new entry gets the number `nextId`, and the order of the `via` is
kept only because all numbers in the queues are below it (`Below`), and ISON
and USERHOST entries are popped one by one only because they are never marked
(`Queue`, part of `QueueOK`). The lemmas say what each operation on a queue does to a
sequence that is in order (`AddWho`, `AddPlain`, `PopBatch`, `DirtyKeeps`);
the step proof applies them through `AllOK` and `ReplaceQueue`, one step per
action. That `BatchLen` chooses the *first* unmarked entry is `BatchIsPrefix`,
which needs the least element of a set of naturals, obtained from well-founded induction.

**Who gets which reply.** `AInv` adds to `QInv` that the numbers the entries of a
queue wait for are those of the requests outstanding (`SrvOK`, which is
`QueuesMatchWire`), and that requests of a kind are on the wire in the order of
their numbers (`WireOK`). With both orders the head of a queue waits for the
oldest request (`HeadMatches`), so that the reply that comes is its own, and
popping a batch removes one number on both sides. `LInv(F)`, for
`EveryMatchingLine`, says of every entry which lines it has been given: those of the
reply under way, as far as it is to have them, if it rides on that
reply (`Riding`), and none otherwise. It is kept because `whoreply()` marks all riders dirty
with the first line (`DirtyAll`), so that no query joins a reply that has
begun, and because a number is in one queue only (`Fresh`).

**ServerConn.** The handlers are operators on the record `c`, and so are the
lemmas: each handler, from any client, keeps `Clients` and, for the windows
that had an open server of their own, leaves them one (`HasOwn`). `SInv ==
Good(Client) /\ Control` is what they add up to, and says of *every*
state, also within a pass, what `EveryOpenServerHasWindow` says between passes: a
handler may break it in the middle, but its last call is
`window_check_servers()`, after which it holds again (`WindowCheck`). `KInv`
adds `Lively` between passes: an attached client has an open server or one that is
asked for. Within a pass it fails, between the turn in which a server fails
and the end of `do_idle_server()`; the lemmas on the turns say what is left to
be asked for. `WInv` is for one server at a time: all windows
are with the primary server (`Together`), and every server that is open or asked for is to
take over all windows (`TakesAll`: `server_change_refnum` is -1), which is handed on
from a server that fails to the next one. `Watching` says that the
servers whose sockets were reported are still open when their turn comes.

**Switches.** `XInv` adds `OneSwitch` to `WInv`: the flags of each entry agree
(`Sound`), only the primary server is logged in to, and a server that is tried,
being asked for or connecting, is the only one; if there is a registered connection
its `old_server` is that one (`Leads`). The handlers that only close keep all of
this (`FewerSwitch`); `get_connected()` asks when nothing is tried; `advance_server()`
hands the only request on. That `c_server`, by which `finalize_server_connect()`
finds the server to leave, is still `old_server` when the socket is connected is
part of `Sound`. `LeftForReal` needs `Awaited` as well: who is marked as being left has
another that is tried. The step proofs say of each turn that registered
connections to *other* servers stay, or that it is a log in (`LeavesOnly`).

**Windows and their servers.** For `WindowsServed`, `VInv` says of *every* state that
each window's server is open or asked for (`Attended`), and that none is
tried only once (`TriesAgain`), since that one would be closed without a request.
`window_check_servers()` leaves windows only with open servers, or without one,
whatever it is called with (`CheckServes`); so it remains to be shown of each handler that
after closing a server it either calls it or asks for a connection. For
463 this needs that the primary server after the check is an open one, so that the
`get_connected()` behind it is never called (`DeniesWell`).

That the loop of `window_check_servers()` computes what the model says at one stroke
is shown with the closed form `At(c, k)` of what it has after k turns: `NextTurn` takes
one turn from `At(c, k)` to `At(c, k + 1)`, case by case. The loop is a recursive
function, and induction over it is replaced by two facts: no function with its
equation differs from `At` (`OnlyRun`, by the least k at which it would), and `At` has
that equation (`ThatRun`).

**Cdns.** `IInv` adds to the two safety properties who owns which mutex at which
point (`Owners`) and when the local variables hold an entry (`Locals`). For the
refinement, `Distinct` says that a request is in one place only: in a queue, in
the hands of a thread, or answered. Most actions move no request
(`QuietStep`); each of the others is one step of `DnsService`, shown
with three lemmas on the elements of a sequence after a pop, an append and a
push at the head. For `AnsweredInOrder`, `Order` lists the places a request goes
through, the last one first, and says that the requests in each are in order and
come before those of the next, urgent ones excepted, which are pushed at the
head of a queue.

**Timers.** `TInv == TypeOK /\ GoodList(PendingTimers) /\ CurrentOK`. `GoodList`
says that the list is in order and that each timer is where its history says
(`InPlan`): its time is the `Planned` one after `fired` times, `interval` is the
whole seconds of `asked`, and what is left of its count is what was asked for
less `fired`. The times of a plan are exact but for
the fraction of a second, so that `FiresAsAsked` follows without a word about how late
passes are. While its commands run a timer is one step behind its plan
(`Running`), and `schedule_timer()` puts it right. `RefInv` is the
invariant for the references: a new one is above all that are numbers, and
`Room` says that the numbers still to be given out do not reach the names;
`CurrentApart` is what the hazard breaks: while the commands of a timer that
repeats run, its reference is not in the list.

**Channels.** `MembersMatch` speaks of states in which nothing is under way, which
says nothing about the others. `MInv` says of every state how it will end: when
the messages of `down` are handled one after the other, beginning with what the
client has now (a `View`), the last view says nothing wrong of the server's channel
(`Right`), and nothing is missing (`Whole`) unless a WHO is still to be asked or
answered (`Foretold`). `Replay` states this without recursion, by the
sequence of the views. A message the server adds is handled in the last view; a
message the client takes away was the first of the replay; and a JOIN, which
empties the list, asks for the WHO that fills it.

For `SyncIsComplete`, `JInv` foretells in the same way the modes, the bans, and
which replies have come (`Details`), by a second replay, `Follows`. The server
sends the replies in the order of the questions, and MODE, BANS and WHO are asked
together (`InTurn`): so when all of `down` is read, the replies that have come are one
of the four `Stages`, what is known from them is right (`DetailsRight`), and the next
question is about the next stage (`AsksNext`). Only of a list whose
entry of `join_list` is not a stale one (`Fresh`) do the replay's first details agree with
the client's (`Now`): a stale entry counts replies that belong to an earlier join. A
new JOIN begins the details and the history of troubles anew, and so the invariant holds
again for the join after the one in trouble.

**Dcc.** That the file is a prefix is not inductive, because a transfer begins
where a message of long ago says. `Flow` says that what is on its way to an open
receiver is what follows the end of its file. `Once` (an offer is either on its
way, or in the list, or connected to, and each only once), `Order` (an offer
comes before the answer to a RESUME of it) and `Resume` (after a RESUME of an
offer, the request, the answer, the entry and the sender's socket all name the
length of the file, and there is no receiver that could change it) make it true
when a connection is made. Most steps only lose messages and close sockets; one
lemma, `Narrowing`, covers them all, and each of the others has a lemma of its
own (`ConnectInv`, `PushInv`, `OfferInv`, `ResumeInv`, `AskInv`, `ReadInv`).
That the sender keeps `Flow` is shown for one block (`SendBlockGoes`).
`Pace` is added for the two other theorems: both ends count from the same place
(`Counts`), each acknowledgement is a count the receiver had, and when
nothing is left to read the last one is the count it has (`Answered`). So the
acknowledgement the sender waits for is never missed, and none is taken for that of the
whole file too early. `Unfinished` says that a receiver that has everything
closes at once.

The strengthenings that are new invariants of the system and not of a data
structure (`AInv` and `LInv`, `SInv`, `KInv`, `WInv`, `XInv` and `VInv`, `Order`, `TInv`
and `RefInv`, `MInv` and `JInv`, `Pace` and `Unfinished`) were checked as invariants on the small
instances before they were proved.

### Only model-checked

* Liveness: `EveryQuerySettles`, `TryingEndsServed`, `EveryRequestAnswered`,
  `DueTimersFire`, `PassEnds`, `JoinEnds`, `TransferEnds`. They rest on fairness, and so on
  `ENABLED`, which the prover's backends do not reach.
* What goes wrong: the three properties of the runs that expect a violation are not
  theorems; `RightAsker` is one under the condition that leaves the hazard out.

Every safety invariant and every action property of a passing run is a theorem, the
conditions above apart.

## Limits

Not modelled inside the modelled parts: the editing of the server list (/SERVER
-add and -delete, 465), `SERVER_GROUPS`, SSL, server hooks of plugins; USERHOST
answered from the channel lists without a request; /WHO -flush; the server and
window a timer switches to while it fires; negative -repeat counts;
`kill_timer()`, which nothing calls; what the dns thread does between
`kill_dns()` and the end of the process; voices, half-operators, keys, limits and
exemptions of a channel, `+` channels, netsplits and the whowas buffers, which
give back counters but nothing the properties see, and the kicks and mode changes
the client sends on its own (floods, user lists); cdcc.c, bot and FTP
connections, encrypted chats; an overwritten file (DCC_OVERWRITE; it is opened
without being truncated and keeps its old end), DCC_AUTORENAME, DCC_MAX_AUTOGET_SIZE,
and hooks that keep an offer from the user; what
`process_dcc_send1()` does with the memory it has freed when only some bytes of an
acknowledgement have arrived (in the model the transfer is lost then, and no
more). Of a freed entry a WHO loop goes on with, only the mark, the next entry
and the callbacks are read, not other fields that may hold something else by
then. Text is abstracted everywhere: what is
shown and how it is formatted has no part in any property.

## Plan

In this order:

1. `Nickname`: wanted, sent, accepted; orignick against /NICK.
2. `Notify` on top of `QueryQueue`; `Exec`; the send queue.

Most of BitchX is text: commands, formats, help, the screen, and the interpreter
of its script language. These parts, by far the most lines, have little state
that outlives a handler, and a model of them would repeat the code. The share of
the source that the modules cover is small for that reason.

Runs are limited to those that answer a question of their own; modules that
come later are checked with few bounds and one passing run each.
