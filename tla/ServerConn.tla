----------------------------- MODULE ServerConn -----------------------------
(***************************************************************************)
(* The connections of source/server.c and their windows (source/window.c). *)
(*                                                                         *)
(* BitchX keeps a list of servers, may be connected to several of them,    *)
(* and associates every window with one.  Connecting does not block:       *)
(* get_connected() only flags a server, the next pass of the io() loop     *)
(* opens a socket, and a later pass, when the socket is writable, logs in  *)
(* and moves the windows over from the server that is being left.          *)
(*                                                                         *)
(* A pass of do_server() handles the servers one after the other, and no   *)
(* command is read before it ends: `scan' is its loop counter.  The        *)
(* handlers call each other, so each one is an operator on the part of the *)
(* state they share, a record c of the variables sl, win, primary and      *)
(* attached.                                                               *)
(***************************************************************************)
EXTENDS Integers, FiniteSets

CONSTANTS
    N,              \* number_of_servers
    W,              \* windows have the reference numbers 1 .. W
    MaxReconnect,   \* MAX_SERVER_RECONNECT
    AutoReconnect,  \* AUTO_RECONNECT
    Commands,       \* which commands the user gives
    Events,         \* what servers do, of EventNames
    Hazards         \* which of the situations named below occur

ServerNo == 0..(N - 1)
WindowNo == 1..W

CommandNames == {"server", "next", "plus", "minus", "window server", "disconnect",
                 "discon", "reconnect", "new", "kill", "password"}
EventNames == {"refuse", "eof", "welcome", "noperm", "passwd", "killed", "unwritable"}
HazardNames == {"server_again", "eof_in_switch"}

ASSUME ServerConnAssumption ==
    /\ N \in Nat \ {0}
    /\ W \in Nat \ {0}
    /\ MaxReconnect \in Nat \ {0}
    /\ AutoReconnect \in BOOLEAN
    /\ Commands \subseteq CommandNames
    /\ Events \subseteq EventNames
    /\ Hazards \subseteq HazardNames

VARIABLES
    sl,         \* server_list
    win,        \* win[w] = server: the server of each window there is, or -1
    primary,    \* primary_server
    pass,       \* what the io() loop is doing: reading "input", or do_server()'s
                \* or do_idle_server()'s pass over the servers
    scan,       \* the server that pass is at
    watched,    \* the servers whose sockets this pass's select() reported on
    attached,   \* connected_to_server > 0: some server had a window at the last check
    prompts     \* servers whose password the user is being asked for

vars == <<sl, win, primary, pass, scan, watched, attached, prompts>>

(* retries is compared with MAX_SERVER_RECONNECT and, without AUTO_RECONNECT, with 1 *)
RetryCap == IF AutoReconnect \/ MaxReconnect > 2 THEN MaxReconnect ELSE 2

Server == [open : BOOLEAN,                  \* read, write # -1
           logged_in : BOOLEAN,             \* login_flags & LOGGED_IN
           connected : BOOLEAN,             \* the server has welcomed us
           reconnect : BOOLEAN,             \* connect in the next pass
           try_once : BOOLEAN,
           server_change_pending : 0..2,    \* 1: to be switched to, 2: to be left
           old_server : -2..(N - 1),
           req_server : -1..(N - 1),
           server_change_refnum : -1..W,    \* window to move; -1 all, 0 the current
           retries : 0..RetryCap,
           connect_wait : BOOLEAN,
           c_server : -2..(N - 1)]          \* the server to leave

TypeOK ==
    /\ sl \in [ServerNo -> Server]
    /\ DOMAIN win \in (SUBSET WindowNo) \ {{}}
    /\ \A w \in DOMAIN win : win[w] \in -1..(N - 1)
    /\ primary \in -1..(N - 1)
    /\ pass \in {"input", "server", "idle"}
    /\ scan \in 0..N
    /\ watched \in SUBSET ServerNo
    /\ attached \in BOOLEAN
    /\ prompts \in SUBSET ServerNo

(* add_to_server_list() fills the new entry with zeros *)
NewServer == [open |-> FALSE, logged_in |-> FALSE, connected |-> FALSE,
              reconnect |-> FALSE, try_once |-> FALSE,
              server_change_pending |-> 0, old_server |-> 0, req_server |-> 0,
              server_change_refnum |-> 0, retries |-> 0, connect_wait |-> FALSE,
              c_server |-> 0]

Client == [sl |-> sl, win |-> win, primary |-> primary, attached |-> attached]

-----------------------------------------------------------------------------
(* Closing *)

(* `reconnecting', set for the length of this call, chooses what becomes of the
   channels and is left out *)
close_server(c, s) ==
    IF s \notin ServerNo THEN c
    ELSE [c EXCEPT !.sl[s] = [@ EXCEPT !.open = FALSE, !.logged_in = FALSE,
                                       !.connected = FALSE, !.reconnect = FALSE,
                                       !.try_once = FALSE,
                                       !.server_change_pending = 0]]

CloseAll(c, S) ==
    [c EXCEPT !.sl = [s \in ServerNo |-> IF s \in S THEN close_server(c, s).sl[s]
                                                     ELSE c.sl[s]]]

close_unattached_servers(c) ==
    CloseAll(c, {s \in ServerNo : c.sl[s].old_server = -2 \/ c.sl[s].server_change_pending # 0})

-----------------------------------------------------------------------------
(* window_check_servers() *)

Open(c, s) == s \in ServerNo /\ c.sl[s].open

(***************************************************************************)
(* Its loop goes over the servers in order.  At a server that is not open  *)
(* it moves the windows to the primary server; an open one that has no     *)
(* window then is closed, unless it is part of a switch: if it is, only    *)
(* when it has an old server and no window waits without a server.         *)
(* WinAt(c, w, s) is the server of window w when the loop arrives at s.    *)
(***************************************************************************)
(* mutant: the windows have all been moved before the loop *)
WinAt_moved_at_once(c, w, s) ==
    IF c.win[w] # -1 /\ ~ Open(c, c.win[w]) THEN c.primary ELSE c.win[w]

WinAt(c, w, s) ==
    IF c.win[w] \in 0..(s - 1) /\ ~ c.sl[c.win[w]].open THEN c.primary ELSE c.win[w]

HasWindowAt(c, x, s) == \E w \in DOMAIN c.win : WinAt(c, w, s) = x

(* mutant: the test of server_change_pending the wrong way round *)
ClosedByCheck_pending_only(c, s) ==
    Open(c, s) /\ ~ HasWindowAt(c, s, s) /\ c.sl[s].server_change_pending # 0

ClosedByCheck(c, s) ==
    /\ Open(c, s)
    /\ ~ HasWindowAt(c, s, s)
    /\ \/ c.sl[s].server_change_pending = 0
       \/ c.sl[s].old_server >= 0 /\ ~ HasWindowAt(c, -1, s)

(* mutant: the windows of the old primary server are forgotten *)
NewPrimary_without_windows(c, prime) ==
    IF Open(c, c.primary) THEN c ELSE [c EXCEPT !.primary = prime]

(* the new primary server takes the windows of the one that is no more *)
NewPrimary(c, prime) ==
    IF Open(c, c.primary) THEN c
    ELSE [c EXCEPT !.win = [w \in DOMAIN c.win |->
                              IF c.win[w] = c.primary THEN prime ELSE c.win[w]],
                   !.primary = prime]

window_check_servers(c) ==
    LET served == {s \in ServerNo : Open(c, s) /\ HasWindowAt(c, s, s)}
        prime  == IF served = {} THEN -1
                  ELSE CHOOSE s \in served : \A t \in served : t <= s
    IN  NewPrimary(CloseAll([c EXCEPT !.win = [w \in DOMAIN c.win |-> WinAt(c, w, N)],
                                      !.attached = served # {}],
                            {s \in ServerNo : ClosedByCheck(c, s)}),
                   prime)

(* set_window_server(): ref = -1 the windows of the primary server, 0 window cur *)
set_window_server(c, ref, s, cur) ==
    IF ref = -1
    THEN [window_check_servers([c EXCEPT !.win =
             [w \in DOMAIN c.win |-> IF c.win[w] = c.primary THEN s ELSE c.win[w]]])
          EXCEPT !.primary = s]
    ELSE window_check_servers(
             [c EXCEPT !.win[IF ref \in DOMAIN c.win THEN ref ELSE cur] = s])

-----------------------------------------------------------------------------
(* Connecting *)

find_old_server(c, old) ==
    LET found == {s \in ServerNo : c.sl[s].old_server = old}
    IN  IF old \notin ServerNo \/ found = {} THEN -1
        ELSE CHOOSE s \in found : \A t \in found : s <= t

Registered(c, s) == s \in ServerNo /\ c.sl[s].connected

(* mutant: the connection is closed even if it works *)
CloseUnlessRegistered_closes(c, s) == close_server(c, s)

CloseUnlessRegistered(c, s) == IF Registered(c, s) THEN c ELSE close_server(c, s)

(* a server cannot be left before we are registered with it *)
Abandon(c, old) == CloseUnlessRegistered(CloseUnlessRegistered(c, find_old_server(c, old)), old)

AskConnect(c, s, old) ==
    IF s \notin ServerNo THEN c
    ELSE [c EXCEPT !.sl[s] = [@ EXCEPT !.reconnect = TRUE, !.req_server = s,
                                       !.old_server = IF Registered(c, old) THEN old ELSE -1,
                                       !.server_change_refnum = -1, !.retries = 0]]

InProgress(c) == \E t \in ServerNo : c.sl[t].reconnect

(* mutant: the request is made before the connections are closed *)
get_connected_asks_first(c, s, old) ==
    IF InProgress(c) THEN c ELSE Abandon(AskConnect(c, s, old), old)

(* mutant: a request is made while another one stands *)
get_connected_asks_twice(c, s, old) ==
    AskConnect(CloseUnlessRegistered(c, old), s, old)

(* get_connected(): nothing is connected here, do_server() does that *)
get_connected(c, s, old) ==
    IF InProgress(c) THEN c ELSE AskConnect(Abandon(c, old), s, old)

(* connect_to_server_by_refnum(); ok: connect_by_number() got a socket *)
connect_to_server_by_refnum(c, s, old, ok) ==
    IF c.sl[s].open \/ ~ ok THEN c
    ELSE LET c1 == [c EXCEPT !.sl[s] = [@ EXCEPT !.open = TRUE, !.connect_wait = TRUE,
                                                 !.c_server = old,
                                                 !.server_change_pending = 1]]
         IN  IF old \in ServerNo THEN [c1 EXCEPT !.sl[old].server_change_pending = 2] ELSE c1

ConnectFails(c, s, ok) == ~ c.sl[s].open /\ ~ ok

(* the next server of the list, from i on, that is not open (i itself at last) *)
next_server(c, i) ==
    LET steps == {k \in 1..N : ~ c.sl[(i + k) % N].open}
    IN  (i + CHOOSE k \in steps : \A j \in steps : k <= j) % N

Retried(c, i) ==
    [c EXCEPT !.sl[i].retries = IF @ < RetryCap THEN @ + 1 ELSE RetryCap]

(* mutant: the new server does not know which one it replaces *)
HandOver_forgets_old(c, i, nxt) ==
    [c EXCEPT !.sl[nxt].reconnect = TRUE, !.sl[nxt].req_server = c.sl[i].req_server,
              !.sl[i].old_server = -1]

(* the server nxt takes over from i what was asked for *)
HandOver(c, i, nxt) ==
    [c EXCEPT !.sl[nxt] = [@ EXCEPT !.reconnect = TRUE, !.retries = 0,
                                    !.req_server = c.sl[i].req_server,
                                    !.old_server = c.sl[i].old_server,
                                    !.server_change_refnum = c.sl[i].server_change_refnum,
                                    !.c_server = c.sl[i].c_server],
              !.sl[i]   = [@ EXCEPT !.reconnect = FALSE, !.retries = 0,
                                    !.old_server = -1, !.req_server = -1,
                                    !.connect_wait = FALSE, !.c_server = -1]]

GivesUp(c, s) == ~ AutoReconnect /\ (c.sl[s].req_server # s \/ c.sl[s].retries > 1)

(* advance_server(), called with i closed; server -1: it gives up *)
advance_server(c, i) ==
    LET c1  == Retried(c, i)
        nxt == IF c1.sl[i].retries >= MaxReconnect THEN next_server(c1, i) ELSE i
        c2  == IF nxt = i THEN c1 ELSE HandOver(c1, i, nxt)
    IN  IF GivesUp(c2, nxt) THEN [client |-> close_server(c2, nxt), server |-> -1]
                            ELSE [client |-> c2, server |-> nxt]

(* try_connect(), and its retry when no socket could be had *)
try_connect(c, s, ok) ==
    [connect_to_server_by_refnum(c, s, c.sl[s].old_server, ok)
       EXCEPT !.sl[s].reconnect = @ \/ ConnectFails(c, s, ok)]

reconnect_server(c, s, ok) ==
    LET adv == advance_server(close_server(c, s), s)
    IN  IF adv.server = -1 THEN adv.client
        ELSE try_connect(window_check_servers([adv.client EXCEPT !.sl[adv.server].reconnect = FALSE]),
                         adv.server, ok)

(***************************************************************************)
(* The socket of s is connected: leave the old server, log in, and move    *)
(* the windows.                                                            *)
(***************************************************************************)
LeaveOld(c, s) ==
    LET old == c.sl[s].c_server
    IN  IF old \in ServerNo /\ old # s
        THEN close_server([c EXCEPT !.sl[old].old_server = -1], old)
        ELSE c

LoggedIn(c, s) ==
    [c EXCEPT !.sl[s] = [@ EXCEPT !.logged_in = TRUE, !.try_once = FALSE,
                                  !.old_server = -1, !.server_change_pending = 0]]

(* mutant: the current window is moved, and then the old server is left *)
finalize_server_connect_moves_first(c, s, cur) ==
    [LeaveOld(set_window_server(LoggedIn(c, s), 0, s, cur), s) EXCEPT !.sl[s].req_server = 0]

finalize_server_connect(c, s, cur) ==
    [set_window_server(LoggedIn(LeaveOld(c, s), s), c.sl[s].server_change_refnum, s, cur)
       EXCEPT !.sl[s].req_server = 0]

-----------------------------------------------------------------------------
(* What a server can make us do *)

(* mutant: the connection is not made again *)
ConnectionClosed_forgets(c, s) == close_server(c, s)

(* do_server(): end of file on the connection to s, logged in or not *)
ConnectionClosed(c, s) ==
    LET try_once == c.sl[s].try_once
        c1 == close_server(c, s)
    IN  IF try_once THEN c1
        ELSE [c1 EXCEPT !.sl[s].reconnect = TRUE,
                        !.sl[s].old_server = IF c.sl[s].connect_wait THEN @ ELSE s]

(* /SERVER +i: connect window cur to s, without leaving any server *)
AddServer(c, s, cur, ok) ==
    LET c1 == connect_to_server_by_refnum(c, s, -1, ok)
    IN  IF ConnectFails(c, s, ok) THEN c ELSE set_window_server(c1, 0, s, cur)

(* numeric 463 *)
NoPermission(c, s) ==
    LET c1 == window_check_servers(close_server(c, s))
    IN  IF c1.primary = s THEN get_connected(c1, s + 1, s) ELSE c1

(* p_kill(): by a server, by an operator of this server, or of another one *)
Killed(c, s, by, cur, ok) ==
    LET c1 == window_check_servers(close_server(c, s))
    IN  CASE by = "server" -> AddServer(c1, s, cur, ok)
          [] by = "local"  -> IF AutoReconnect THEN AddServer(c1, (s + 1) % N, cur, ok) ELSE c1
          [] by = "remote" -> IF AutoReconnect THEN AddServer(c1, s, cur, ok) ELSE c1

-----------------------------------------------------------------------------
(* A pass of do_server() or do_idle_server() over the servers *)

Becomes(c) == /\ sl' = c.sl /\ win' = c.win
              /\ primary' = c.primary /\ attached' = c.attached

(* mutant: an attempt that takes too long is not repeated *)
StartPass_forgets(kind, late) ==
    /\ pass = "input"
    /\ kind = "idle" => \E s \in ServerNo : sl[s].reconnect
    /\ \A s \in late : sl[s].open /\ ~ sl[s].logged_in /\ "refuse" \in Events
    /\ sl' = [s \in ServerNo |-> [sl[s] EXCEPT !.open = @ /\ s \notin late]]
    /\ pass' = kind
    /\ scan' = 0
    /\ watched' = IF kind = "idle" THEN {} ELSE {s \in ServerNo \ late : sl[s].open}
    /\ UNCHANGED <<win, primary, attached, prompts>>

(***************************************************************************)
(* select() returns: because of activity, or, if a server is to be         *)
(* reconnected, because of the timeout set_server_bits() asked for.        *)
(* scan_nonblocking() drops the connection attempts `late'.                *)
(***************************************************************************)
StartPass(kind, late) ==
    /\ pass = "input"
    /\ kind = "idle" => \E s \in ServerNo : sl[s].reconnect
    /\ \A s \in late : sl[s].open /\ ~ sl[s].logged_in /\ "refuse" \in Events
    /\ sl' = [s \in ServerNo |->
                IF s \in late THEN [sl[s] EXCEPT !.open = FALSE, !.reconnect = TRUE]
                              ELSE sl[s]]
    /\ pass' = kind
    /\ scan' = 0
    /\ watched' = IF kind = "idle" THEN {} ELSE {s \in ServerNo \ late : sl[s].open}
    /\ UNCHANGED <<win, primary, attached, prompts>>

(* the rest of this pass handles c; a socket opened in it was not watched *)
EndTurn(s, c) ==
    /\ pass # "input" /\ scan = s
    /\ Becomes(c)
    /\ scan' = s + 1
    /\ watched' = {t \in watched : /\ t > s /\ c.sl[t].open
                                   /\ c.sl[t].logged_in = sl[t].logged_in}
    /\ UNCHANGED pass

(* the delay is over: connect to s, or to the next server *)
TurnReconnect(s, ok) ==
    /\ sl[s].reconnect
    /\ ~ ok => "refuse" \in Events
    /\ EndTurn(s, reconnect_server([Client EXCEPT !.sl[s].reconnect = FALSE], s, ok))
    /\ UNCHANGED prompts

TurnNothing(s) == EndTurn(s, Client) /\ UNCHANGED prompts

CanLogIn(s) == s \in watched /\ sl[s].open /\ ~ sl[s].logged_in

LogIn(s, cur) == finalize_server_connect([Client EXCEPT !.sl[s].connect_wait = FALSE], s, cur)

TurnLogIn(s, cur) == CanLogIn(s) /\ EndTurn(s, LogIn(s, cur)) /\ UNCHANGED prompts

(* data can be read from s, which may have been logged in to just before *)
Readable(s, login, cur) ==
    /\ login => CanLogIn(s)
    /\ s \in watched /\ sl[s].open

Reading(s, login, cur) == IF login THEN LogIn(s, cur) ELSE Client

BeingLeft(s) == \E t \in ServerNo \ {s} :
                   sl[t].old_server = s /\ (sl[t].reconnect \/ sl[t].open)

TurnClosed(s, login, cur) ==
    LET c == Reading(s, login, cur) IN
    /\ Readable(s, login, cur) /\ c.sl[s].open
    /\ (IF c.sl[s].logged_in THEN "eof" ELSE "refuse") \in Events
    /\ BeingLeft(s) => "eof_in_switch" \in Hazards
    /\ EndTurn(s, ConnectionClosed(c, s))
    /\ UNCHANGED prompts

(* 001 *)
TurnWelcome(s) ==
    /\ "welcome" \in Events
    /\ s \in watched /\ sl[s].logged_in /\ ~ sl[s].connected
    /\ EndTurn(s, [Client EXCEPT !.sl[s].connected = TRUE])
    /\ UNCHANGED prompts

TurnNoPermission(s) ==
    /\ "noperm" \in Events
    /\ s \in watched /\ sl[s].logged_in
    /\ EndTurn(s, NoPermission(Client, s))
    /\ UNCHANGED prompts

(* 464 before 001: ask for the password *)
TurnPassword(s) ==
    /\ "passwd" \in Events
    /\ s \in watched /\ sl[s].logged_in /\ ~ sl[s].connected
    /\ EndTurn(s, close_server(Client, s))
    /\ prompts' = prompts \cup {s}

TurnKilled(s, by, cur, ok) ==
    /\ "killed" \in Events
    /\ s \in watched /\ sl[s].connected
    /\ ~ ok => "refuse" \in Events
    /\ EndTurn(s, Killed(Client, s, by, cur, ok))
    /\ UNCHANGED prompts

EndPass ==
    /\ pass # "input" /\ scan = N
    /\ Becomes(IF pass = "server" /\ ~ Open(Client, primary)
               THEN window_check_servers(Client) ELSE Client)
    /\ pass' = "input"
    /\ scan' = 0
    /\ watched' = {}
    /\ UNCHANGED prompts

Turn(s) ==
    \/ TurnNothing(s) \/ TurnWelcome(s) \/ TurnNoPermission(s) \/ TurnPassword(s)
    \/ \E ok \in BOOLEAN : TurnReconnect(s, ok)
    \/ \E cur \in DOMAIN win :
          \/ TurnLogIn(s, cur)
          \/ \E login \in BOOLEAN : TurnClosed(s, login, cur)
          \/ \E by \in {"server", "local", "remote"}, ok \in BOOLEAN : TurnKilled(s, by, cur, ok)

Pass ==
    \/ \E kind \in {"server", "idle"}, late \in SUBSET ServerNo : StartPass(kind, late)
    \/ \E s \in ServerNo : Turn(s)
    \/ EndPass

-----------------------------------------------------------------------------
(* Commands, given in the window cur; from_server is then win[cur] *)

Command(name, c) ==
    /\ name \in Commands
    /\ pass = "input"
    /\ Becomes(c)
    /\ UNCHANGED <<pass, scan, watched>>

(* /SERVER i *)
ServerCommand(i, cur) ==
    /\ (\E s \in ServerNo : sl[s].server_change_pending # 0) => "server_again" \in Hazards
    /\ Command("server", get_connected(close_unattached_servers(Client), i, win[cur]))
    /\ UNCHANGED prompts

(* /SERVER + and /SERVER - *)
NextServer(cur) ==
    /\ Command("next", get_connected(Client, primary + 1, win[cur]))
    /\ UNCHANGED prompts

PreviousServer(cur) ==
    /\ Command("next", get_connected(Client, win[cur] - 1, win[cur]))
    /\ UNCHANGED prompts

(* /SERVER +i *)
PlusServer(i, cur, ok) ==
    /\ ~ ok => "refuse" \in Events
    /\ Command("plus", AddServer(Client, i, cur, ok))
    /\ UNCHANGED prompts

(* /SERVER -i *)
MinusServer(i) ==
    /\ i # primary
    /\ Command("minus", window_check_servers(close_server(Client, i)))
    /\ UNCHANGED prompts

(* /WINDOW SERVER i *)
WindowServer(i, cur, ok) ==
    LET c1 == close_unattached_servers(Client)
        c2 == [c1 EXCEPT !.sl[i] = [@ EXCEPT !.old_server = -2, !.try_once = TRUE,
                                             !.server_change_refnum = cur]]
    IN  /\ ~ ok => "refuse" \in Events
        /\ Command("window server",
                   window_check_servers(connect_to_server_by_refnum(c2, i, -1, ok)))
        /\ UNCHANGED prompts

(* server_disconnect() with a server *)
server_disconnect(c, i) == window_check_servers(window_check_servers(close_server(c, i)))

(* /DISCONNECT, of the window's server or of the one that is named *)
Disconnect(i) ==
    /\ Command("disconnect", server_disconnect(close_unattached_servers(Client), i))
    /\ UNCHANGED prompts

(***************************************************************************)
(* /DISCONNECT in a window without a server, when no other window has one: *)
(* otherwise server_disconnect(-1) closes all sockets and leaves their     *)
(* numbers in server_list, from where on nothing can be said.              *)
(***************************************************************************)
DisconnectNowhere(cur) ==
    /\ win[cur] = -1 /\ ~ attached
    /\ Command("disconnect", window_check_servers(close_unattached_servers(Client)))
    /\ UNCHANGED prompts

(* mutant: the window is marked with WINDOW_SERVER_CLOSED *)
WindowDiscon_closed(cur) ==
    /\ Command("discon", [Client EXCEPT !.win[cur] = -3])
    /\ UNCHANGED prompts

(* /WINDOW DISCON *)
WindowDiscon(cur) ==
    LET c == IF win[cur] = -1 THEN Client ELSE server_disconnect(Client, win[cur]) IN
    /\ Command("discon", [c EXCEPT !.win[cur] = -1])
    /\ UNCHANGED prompts

(* /RECONNECT *)
Reconnect(cur, ok) ==
    LET i == win[cur] IN
    /\ i # -1
    /\ ~ ok => "refuse" \in Events
    /\ Command("reconnect", AddServer(window_check_servers(close_server(Client, i)), i, cur, ok))
    /\ UNCHANGED prompts

NewWindow(w, cur) ==
    /\ w \notin DOMAIN win
    /\ Command("new", [Client EXCEPT !.win =
                         [v \in DOMAIN win \cup {w} |-> IF v = w THEN win[cur] ELSE win[v]]])
    /\ UNCHANGED prompts

KillWindow(w) ==
    /\ DOMAIN win # {w}
    /\ Command("kill", window_check_servers(
                         [Client EXCEPT !.win = [v \in DOMAIN win \ {w} |-> win[v]]]))
    /\ UNCHANGED prompts

(* password_sendline(): the user has typed the password of s *)
PasswordEntered(s, ok) ==
    /\ s \in prompts
    /\ ~ ok => "refuse" \in Events
    /\ Command("password", connect_to_server_by_refnum(Client, s, -1, ok))
    /\ prompts' = prompts \ {s}

(* write_to_server() fails while a command is carried out *)
WriteFails(s) ==
    /\ "unwritable" \in Events
    /\ pass = "input"
    /\ sl[s].logged_in
    /\ Becomes(get_connected(close_server(Client, s), s, s))
    /\ UNCHANGED <<pass, scan, watched, prompts>>

Input ==
    \/ \E s \in ServerNo : MinusServer(s) \/ Disconnect(s) \/ WriteFails(s)
    \/ \E s \in ServerNo, ok \in BOOLEAN : PasswordEntered(s, ok)
    \/ \E w \in WindowNo : KillWindow(w)
    \/ \E cur \in DOMAIN win :
          \/ NextServer(cur) \/ PreviousServer(cur)
          \/ DisconnectNowhere(cur) \/ WindowDiscon(cur)
          \/ \E w \in WindowNo : NewWindow(w, cur)
          \/ \E i \in ServerNo : ServerCommand(i, cur)
          \/ \E i \in ServerNo, ok \in BOOLEAN :
                PlusServer(i, cur, ok) \/ WindowServer(i, cur, ok)
          \/ \E ok \in BOOLEAN : Reconnect(cur, ok)

-----------------------------------------------------------------------------
(* main(): one window; auto_connect asks for the first server *)
Init ==
    /\ \E auto_connect \in BOOLEAN :
          sl = [s \in ServerNo |->
                  IF s = 0 /\ auto_connect
                  THEN [NewServer EXCEPT !.reconnect = TRUE, !.old_server = -1,
                                         !.server_change_refnum = -1]
                  ELSE NewServer]
    /\ win = [w \in {1} |-> -1]
    /\ primary = -1
    /\ pass = "input" /\ scan = 0 /\ watched = {}
    /\ attached = FALSE
    /\ prompts = {}

Next == Pass \/ Input

Spec == Init /\ [][Next]_vars

(***************************************************************************)
(* The io() loop goes on.  A socket that is open reports sooner or later,  *)
(* and the servers answer: of the attempts that are made again and again,  *)
(* one gets a socket, is connected, and is welcomed.                       *)
(***************************************************************************)
FairSpec ==
    /\ Spec
    /\ WF_vars(Pass)
    /\ SF_vars(\E s \in ServerNo : Open(Client, s) /\ StartPass("server", {}))
    /\ SF_vars(\E s \in ServerNo : TurnReconnect(s, TRUE))
    /\ SF_vars(\E s \in ServerNo, cur \in DOMAIN win : TurnLogIn(s, cur))
    /\ SF_vars(\E s \in ServerNo : TurnWelcome(s))
-----------------------------------------------------------------------------
(* Properties *)

(* between two passes *)
AtRest == pass = "input"

Connecting(s) == sl[s].open /\ ~ sl[s].logged_in

(* this step logs in to s; the connection may be closed again in the same turn *)
LogsIn(s) ==
    /\ pass = "server" /\ scan = s /\ Connecting(s)
    /\ sl[s].connect_wait /\ ~ sl'[s].connect_wait /\ sl'[s].req_server = 0

(***************************************************************************)
(* Every open server has a window, unless it is part of a switch           *)
(* (window_check_servers: "Every open server must have at least one window *)
(* associated with it").                                                   *)
(***************************************************************************)
EveryOpenServerHasWindow ==
    AtRest => \A s \in ServerNo :
                 sl[s].open => \/ \E w \in DOMAIN win : win[w] = s
                               \/ sl[s].server_change_pending # 0

(***************************************************************************)
(* A server that is marked as being left is left for one that a            *)
(* connection is being made to, or is going to be made to; and there is    *)
(* one such server, not several that compete for its windows.              *)
(***************************************************************************)
Successors(s) == {t \in ServerNo \ {s} : sl[t].old_server = s /\ (Connecting(t) \/ sl[t].reconnect)}

PendingIsReal ==
    \A s \in ServerNo :
       sl[s].logged_in /\ sl[s].server_change_pending = 2 => Successors(s) # {}

OneSuccessor == \A s \in ServerNo : Cardinality(Successors(s)) <= 1

(* The primary server, as long as some server is attached, is one with a window. *)
PrimaryHasWindow ==
    AtRest => IF attached THEN \E w \in DOMAIN win : win[w] = primary /\ primary # -1
                          ELSE \A w \in DOMAIN win : win[w] = primary

(* No window is left with a server that is closed and not going to be reopened. *)
WindowsServed ==
    AtRest => \A w \in DOMAIN win :
                 win[w] # -1 => Open(Client, win[w]) \/ sl[win[w]].reconnect

(***************************************************************************)
(* A registered connection ends because the server or the network ends it, *)
(* or with the log in on the server that replaces it - not with a command  *)
(* or with something that happens to another server.                       *)
(***************************************************************************)
SwitchKeepsOld ==
    [][\A s \in ServerNo :
         sl[s].connected /\ ~ sl'[s].connected =>
            \/ scan = s /\ pass # "input"
            \/ \E t \in ServerNo \ {s} : LogsIn(t) /\ sl[t].c_server = s]_vars

(* The windows of the server that is left go to the one that replaces it. *)
SwitchMovesWindows ==
    [][\A t \in ServerNo :
         LogsIn(t) /\ sl[t].c_server \in ServerNo =>
            \A w \in DOMAIN win : win[w] = sl[t].c_server => win'[w] = t]_vars

(***************************************************************************)
(* do_server: "If the previous server gets closed while we are waiting for *)
(* another server to connect we don't want to try a new connection".       *)
(***************************************************************************)
AbandonedNotRetried ==
    [][\A s \in ServerNo :
         /\ pass = "server" /\ scan = s
         /\ sl[s].logged_in /\ sl[s].server_change_pending = 2 /\ ~ sl[s].reconnect
         => ~ sl'[s].reconnect]_vars

(***************************************************************************)
(* get_connected() "traverses the server list trying to keep the user      *)
(* connected at all cost": as long as a server is attached there is a      *)
(* connection, or one is asked for.                                        *)
(***************************************************************************)
KeptConnected ==
    AtRest /\ attached => \E s \in ServerNo : sl[s].open \/ sl[s].reconnect

Trying == \E s \in ServerNo : Connecting(s) \/ sl[s].reconnect

Served == \A w \in DOMAIN win : win[w] # -1 /\ sl[win[w]].connected

(* The client goes on until the user's windows are on a server that welcomed him. *)
TryingEndsServed == Trying ~> Served
=============================================================================
