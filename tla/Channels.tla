------------------------------ MODULE Channels ------------------------------
(***************************************************************************)
(* What the client knows of a channel (source/names.c): who is on it, who  *)
(* of them are operators, its modes and bans, and how it gets to know it.  *)
(*                                                                         *)
(* The client learns of a channel from the echo of its own JOIN on, from   *)
(* changes that the server announces, and from four replies: the names,    *)
(* which come with the echo, and the modes, the bans and the WHO that it   *)
(* asks for.  An entry of join_list collects which of the four have come;  *)
(* when all have, the join is announced as synched (CHANNEL_SYNCH).        *)
(*                                                                         *)
(* The server is external: it takes commands in the order they were sent,  *)
(* and its answers and announcements arrive in the order it made them.     *)
(* Channels do not touch each other, so a behaviour is about one channel   *)
(* of one server.  A WHO is sent at once and answered to whom asked it     *)
(* (module QueryQueue).                                                    *)
(***************************************************************************)
EXTENDS Integers, Sequences

CONSTANTS
    Nicks,      \* nicknames
    Me,         \* the one that the client begins with
    MaxMoves    \* bound: what the user and the others do, in a behaviour

ASSUME ChannelsAssumption ==
    /\ Me \in Nicks
    /\ MaxMoves \in Nat

(* mutant: the WHO is not waited for *)
Info_without_who == {"NAMES", "MODE", "BANS"}

(* gotinfo: GOTNAMES, GOTMODE, GOTBANS and GOTWHO *)
Info == {"NAMES", "MODE", "BANS", "WHO"}

VARIABLES
    linked,     \* the connection is up and registered
    srv,        \* the channel at the server, and the nickname of the client there (external)
    up,         \* commands on their way to the server (external)
    down,       \* messages on their way to the client (external)
    chan,       \* the channel's entry in the server's chan_list
    me,         \* get_server_nickname()
    joining,    \* there is an entry for the channel in join_list
    gotinfo,    \* gotinfo of that entry
    here,       \* the current window belongs to this server
    announced,  \* the last join was announced as synched
    trouble,    \* what has gone wrong since the last join began (history)
    moves       \* counts towards MaxMoves

vars == <<linked, srv, up, down, chan, me, joining, gotinfo, here, announced, trouble, moves>>

-----------------------------------------------------------------------------
(* Types *)

(* mode is one mode letter and ban one ban mask *)
ServerChannel == [me : Nicks, in : SUBSET Nicks, ops : SUBSET Nicks, mode : BOOLEAN, ban : BOOLEAN]

(* on: is on the list; bans: how often the mask is in the ban list *)
ChannelList == [on : BOOLEAN, nicks : SUBSET Nicks, ops : SUBSET Nicks, have_op : BOOLEAN,
                mode : BOOLEAN, bans : Nat]
Cleared == [on |-> TRUE, nicks |-> {}, ops |-> {}, have_op |-> FALSE, mode |-> FALSE, bans |-> 0]
NotOn == [Cleared EXCEPT !.on = FALSE]

Command == {"JOIN", "PART", "MODE", "BANS", "WHO"}

Message ==
    [op : {"JOIN", "PART", "+o", "-o"}, nick : Nicks]
    \cup [op : {"NICK"}, nick : Nicks, to : Nicks]
    \cup [op : {"KICK", "INVITE", "+i", "-i", "+b", "-b", "NAMES", "REFUSED", "TOOMANY"}]
    \cup [op : {"MODE", "BANS"}, set : BOOLEAN]
    \cup [op : {"WHO"}, nicks : SUBSET Nicks, ops : SUBSET Nicks]

TypeOK ==
    /\ linked \in BOOLEAN /\ here \in BOOLEAN /\ announced \in BOOLEAN
    /\ srv \in ServerChannel /\ srv.ops \subseteq srv.in
    /\ up \in Seq(Command)
    /\ down \in Seq(Message)
    /\ chan \in ChannelList /\ (~chan.on => chan = NotOn)
    /\ chan.ops \subseteq chan.nicks
    /\ me \in Nicks
    /\ joining \in BOOLEAN
    /\ gotinfo \in SUBSET Info /\ gotinfo # Info /\ (gotinfo # {} => joining)
    /\ trouble \subseteq {"stale", "twice"}
    /\ moves \in 0..MaxMoves

Init ==
    /\ linked = TRUE /\ here = TRUE /\ announced = FALSE
    /\ \E others \in SUBSET (Nicks \ {Me}), ban \in BOOLEAN :
          srv = [me |-> Me, in |-> others, ops |-> {}, mode |-> FALSE, ban |-> ban /\ others # {}]
    /\ up = <<>> /\ down = <<>>
    /\ chan = NotOn /\ me = Me
    /\ joining = FALSE /\ gotinfo = {}
    /\ trouble = {}
    /\ moves = 0

Move == moves < MaxMoves /\ moves' = moves + 1

-----------------------------------------------------------------------------
(* The server and the other users (external) *)

OnIt == linked /\ srv.me \in srv.in

(* by the client or on the channel *)
Taken == srv.in \cup (IF linked THEN {srv.me} ELSE {})

(* the channel ends with its last user *)
Left(n) ==
    LET rest == srv.in \ {n}
    IN  [srv EXCEPT !.in = rest, !.ops = @ \ {n},
                    !.mode = @ /\ rest # {}, !.ban = @ /\ rest # {}]

(* announced to those on the channel *)
Tell(m) == down' = IF OnIt THEN Append(down, m) ELSE down

OtherJoins(n) ==
    /\ n \notin Taken
    /\ srv' = [srv EXCEPT !.in = @ \cup {n}, !.ops = IF srv.in = {} THEN {n} ELSE @]
    /\ Tell([op |-> "JOIN", nick |-> n])

(* a PART, a QUIT, or a KICK of someone else *)
OtherLeaves(n) ==
    /\ n \in srv.in /\ (linked => n # srv.me)
    /\ srv' = Left(n)
    /\ Tell([op |-> "PART", nick |-> n])

Kicked ==
    /\ OnIt
    /\ srv' = Left(srv.me)
    /\ Tell([op |-> "KICK"])

Invited ==
    /\ ~OnIt /\ srv.in # {} /\ linked
    /\ down' = Append(down, [op |-> "INVITE"])
    /\ UNCHANGED srv

OpChanges(n) ==
    /\ n \in srv.in
    /\ srv' = [srv EXCEPT !.ops = IF n \in @ THEN @ \ {n} ELSE @ \cup {n}]
    /\ Tell([op |-> IF n \in srv.ops THEN "-o" ELSE "+o", nick |-> n])

ModeChanges ==
    /\ srv.in # {}
    /\ \/ /\ srv' = [srv EXCEPT !.mode = ~@]
          /\ Tell([op |-> IF srv.mode THEN "-i" ELSE "+i"])
       \/ /\ srv' = [srv EXCEPT !.ban = ~@]
          /\ Tell([op |-> IF srv.ban THEN "-b" ELSE "+b"])

Renamed(old, new) ==
    LET change(S) == IF old \in S THEN (S \ {old}) \cup {new} ELSE S
    IN  /\ linked
        /\ old \in Taken /\ new \notin Taken
        /\ srv' = [srv EXCEPT !.me = IF @ = old THEN new ELSE @, !.in = change(@), !.ops = change(@)]
        /\ down' = IF OnIt \/ old = srv.me
                   THEN Append(down, [op |-> "NICK", nick |-> old, to |-> new]) ELSE down

Others ==
    /\ Move
    /\ \/ \E n \in Nicks : OtherJoins(n) \/ OtherLeaves(n) \/ OpChanges(n)
       \/ Kicked \/ Invited \/ ModeChanges
       \/ \E old, new \in Nicks : Renamed(old, new)
    /\ UNCHANGED <<linked, up, chan, me, joining, gotinfo, here, announced, trouble>>

ServeJoin ==
    \/ /\ OnIt
       /\ UNCHANGED <<srv, down>>
    \/ /\ ~OnIt
       /\ srv' = [srv EXCEPT !.in = @ \cup {srv.me}, !.ops = IF srv.in = {} THEN {srv.me} ELSE @]
       /\ down' = down \o <<[op |-> "JOIN", nick |-> srv.me], [op |-> "NAMES"]>>
    \/ /\ ~OnIt
       /\ \E no \in {"REFUSED", "TOOMANY"} : down' = Append(down, [op |-> no])
       /\ UNCHANGED srv

ServePart ==
    /\ srv' = Left(srv.me)
    /\ Tell([op |-> "PART", nick |-> srv.me])

Answer ==
    CASE Head(up) = "MODE" -> [op |-> "MODE", set |-> srv.mode]
      [] Head(up) = "BANS" -> [op |-> "BANS", set |-> srv.ban]
      [] Head(up) = "WHO"  -> [op |-> "WHO", nicks |-> srv.in, ops |-> srv.ops]

(* the server takes the next command *)
Serve ==
    /\ up # <<>>
    /\ up' = Tail(up)
    /\ \/ Head(up) = "JOIN" /\ ServeJoin
       \/ Head(up) = "PART" /\ ServePart
       \/ Head(up) \in {"MODE", "BANS", "WHO"} /\ down' = Append(down, Answer) /\ UNCHANGED srv
    /\ UNCHANGED <<linked, chan, me, joining, gotinfo, here, announced, trouble, moves>>

-----------------------------------------------------------------------------
(* The list of channels *)

add_channel == Cleared

(* who is on the channel, and who of them are operators; an operator who is *)
(* no longer one has been taken his flag by a MODE                          *)
add_to_channel(nicks, ops) ==
    IF ~chan.on THEN chan
    ELSE [chan EXCEPT !.nicks = @ \cup nicks, !.ops = @ \cup ops, !.have_op = @ \/ me \in ops]

remove_from_channel(n) == [chan EXCEPT !.nicks = @ \ {n}, !.ops = @ \ {n}]

(* mutant: the new entry of the nickname is a new one *)
rename_nick_anew(old, new) ==
    IF old \notin chan.nicks THEN chan
    ELSE [chan EXCEPT !.nicks = (@ \ {old}) \cup {new}, !.ops = @ \ {old}]

rename_nick(old, new) ==
    LET change(S) == IF old \in S THEN (S \ {old}) \cup {new} ELSE S
    IN  IF old \notin chan.nicks THEN chan
        ELSE [chan EXCEPT !.nicks = change(@), !.ops = change(@)]

(* what one letter of a MODE does *)
apply_channel_modes(m) ==
    CASE m.op = "+o" -> [chan EXCEPT !.ops = @ \cup ({m.nick} \cap chan.nicks),
                                     !.have_op = @ \/ m.nick = me]
      [] m.op = "-o" -> [chan EXCEPT !.ops = @ \ {m.nick}, !.have_op = @ /\ m.nick # me]
      [] m.op \in {"+i", "-i"} -> [chan EXCEPT !.mode = m.op = "+i"]
      [] m.op = "+b" -> [chan EXCEPT !.bans = IF @ = 0 THEN 1 ELSE @]
      [] m.op = "-b" -> [chan EXCEPT !.bans = IF @ = 0 THEN 0 ELSE @ - 1]

(* is_on_channel(), of the client itself *)
KnowsItIsOn == chan.on /\ me \in chan.nicks

-----------------------------------------------------------------------------
(* The join list *)

(* mutant: the entry stays *)
got_info_stays(type, c) ==
    IF ~joining THEN UNCHANGED <<joining, gotinfo, announced>>
    ELSE /\ gotinfo' = gotinfo \cup {type} /\ UNCHANGED joining
         /\ announced' = (announced \/ (gotinfo' = Info /\ here /\ c.on))

(* of the channel as it is now, c *)
got_info(type, c) ==
    IF ~joining THEN UNCHANGED <<joining, gotinfo, announced>>
    ELSE IF gotinfo \cup {type} # Info
    THEN gotinfo' = gotinfo \cup {type} /\ UNCHANGED <<joining, announced>>
    ELSE /\ joining' = FALSE /\ gotinfo' = {}
         (* prepare_command() looks the channel up in the list of the current window's server *)
         /\ announced' = (announced \/ (here /\ c.on))

add_to_join_list == joining' = TRUE /\ gotinfo' = (IF joining THEN gotinfo ELSE {})
remove_from_join_list == joining' = FALSE /\ gotinfo' = {}

-----------------------------------------------------------------------------
(* What the client does with a message *)

(* mutant: the WHO is left to the user *)
Asked_without_who == <<"MODE", "BANS">>

Asked == <<"MODE", "BANS", "WHO">>

JoinMe ==
    /\ add_to_join_list
    /\ chan' = add_channel
    /\ up' = up \o Asked
    /\ announced' = FALSE
    /\ trouble' = IF gotinfo # {} THEN {"stale"} ELSE {}
    /\ UNCHANGED me

p_channel(m) ==
    \/ m.nick = me /\ JoinMe
    \/ /\ m.nick # me
       /\ chan' = add_to_channel({m.nick}, {})
       /\ UNCHANGED <<me, joining, gotinfo, up, announced, trouble>>

p_part(m) ==
    \/ /\ m.nick = me
       /\ chan' = NotOn /\ remove_from_join_list
       /\ UNCHANGED <<me, up, announced, trouble>>
    \/ /\ m.nick # me
       /\ chan' = remove_from_channel(m.nick)
       /\ UNCHANGED <<me, joining, gotinfo, up, announced, trouble>>

(* of the client itself: with AUTO_REJOIN or without *)
p_kick ==
    /\ chan' = NotOn
    /\ \/ /\ chan.on
          /\ up' = Append(up, "JOIN")
          /\ add_to_join_list
       \/ UNCHANGED <<up, joining, gotinfo>>
    /\ UNCHANGED <<me, announced, trouble>>

(* with AUTO_JOIN_ON_INVITE, when the channel is not on the list *)
check_auto_join ==
    /\ IF joining \/ chan.on THEN UNCHANGED <<up, joining, gotinfo>>
       ELSE up' = Append(up, "JOIN") /\ add_to_join_list
    /\ UNCHANGED <<chan, me, announced, trouble>>

p_nick(m) ==
    /\ me' = IF m.nick = me THEN m.to ELSE me
    /\ chan' = rename_nick(m.nick, m.to)
    /\ UNCHANGED <<up, joining, gotinfo, announced, trouble>>

p_mode(m) ==
    /\ chan' = IF chan.on THEN apply_channel_modes(m) ELSE chan
    (* the mask is going to be listed as well *)
    /\ trouble' = IF m.op = "+b" /\ joining /\ "BANS" \notin gotinfo THEN trouble \cup {"twice"} ELSE trouble
    /\ UNCHANGED <<me, up, joining, gotinfo, announced>>

GotNames == got_info("NAMES", chan) /\ UNCHANGED <<chan, me, up, trouble>>

(* 324: displayed, or applied when the channel is being joined *)
funny_mode(m) ==
    /\ chan' = IF joining /\ chan.on /\ m.set THEN [chan EXCEPT !.mode = TRUE] ELSE chan
    /\ got_info("MODE", chan)
    /\ UNCHANGED <<me, up, trouble>>

(* 367 and 368, likewise *)
BanList(m) ==
    /\ chan' = IF joining /\ chan.on /\ m.set THEN [chan EXCEPT !.bans = @ + 1] ELSE chan
    /\ got_info("BANS", chan)
    /\ UNCHANGED <<me, up, trouble>>

(* the lines of a WHO, and its end *)
add_user_who(m) ==
    /\ chan' = add_to_channel(m.nicks, m.ops)
    /\ got_info("WHO", chan)
    /\ UNCHANGED <<me, up, trouble>>

cannot_join_channel ==
    /\ remove_from_join_list
    /\ chan' = IF KnowsItIsOn THEN chan ELSE NotOn
    /\ UNCHANGED <<me, up, announced, trouble>>

Deliver ==
    /\ down # <<>>
    /\ down' = Tail(down)
    /\ LET m == Head(down)
       IN  \/ m.op = "JOIN" /\ p_channel(m)
           \/ m.op = "PART" /\ p_part(m)
           \/ m.op = "KICK" /\ p_kick
           \/ m.op = "INVITE" /\ check_auto_join
           \/ m.op = "NICK" /\ p_nick(m)
           \/ m.op \in {"+o", "-o", "+i", "-i", "+b", "-b"} /\ p_mode(m)
           \/ m.op = "NAMES" /\ GotNames
           \/ m.op = "MODE" /\ funny_mode(m)
           \/ m.op = "BANS" /\ BanList(m)
           \/ m.op = "WHO" /\ add_user_who(m)
           \/ m.op = "REFUSED" /\ cannot_join_channel
           \/ m.op = "TOOMANY" /\ UNCHANGED <<chan, me, up, joining, gotinfo, announced, trouble>>
    /\ UNCHANGED <<linked, srv, here, moves>>

-----------------------------------------------------------------------------
(* What the user does, and the connection *)

(* /JOIN of a channel the client is on goes to its window *)
e_channel ==
    /\ linked /\ ~KnowsItIsOn
    /\ up' = Append(up, "JOIN")
    /\ UNCHANGED <<linked, srv, down, chan, me, joining, gotinfo, here, announced, trouble>>

Part ==
    /\ linked /\ chan.on
    /\ up' = Append(up, "PART")
    /\ UNCHANGED <<linked, srv, down, chan, me, joining, gotinfo, here, announced, trouble>>

(* to a window of another server, which has no channel of that name, or back *)
SwitchWindow ==
    /\ here' = ~here
    /\ UNCHANGED <<linked, srv, up, down, chan, me, joining, gotinfo, announced, trouble>>

(* The connection is lost: close_server(), which keeps the channels when    *)
(* the server is to be connected to again; join_list is left as it is       *)
Lost ==
    /\ linked
    /\ linked' = FALSE
    /\ up' = <<>> /\ down' = <<>>
    /\ srv' = Left(srv.me)
    /\ \E reconnecting \in BOOLEAN : chan' = IF reconnecting THEN chan ELSE NotOn
    /\ UNCHANGED <<me, joining, gotinfo, here, announced, trouble>>

(* The next connection is registered: channels that were kept are joined    *)
(* again, and taken off the list until they are.  A nickname that someone   *)
(* has taken meanwhile is replaced before that (external here)              *)
reconnect_all_channels ==
    /\ ~linked
    /\ linked' = TRUE
    /\ me' \in IF me \in srv.in THEN Nicks \ srv.in ELSE {me}
    /\ srv' = [srv EXCEPT !.me = me']
    /\ chan' = NotOn
    /\ IF chan.on THEN up' = Append(up, "JOIN") /\ add_to_join_list
       ELSE UNCHANGED <<up, joining, gotinfo>>
    /\ UNCHANGED <<down, here, announced, trouble>>

User == Move /\ (e_channel \/ Part \/ SwitchWindow \/ Lost)
Reconnect == reconnect_all_channels /\ UNCHANGED moves

Next == Others \/ Serve \/ Deliver \/ User \/ Reconnect

Spec == Init /\ [][Next]_vars

(* The server answers, and the client reads what it is sent.                *)
FairSpec == Spec /\ WF_vars(Serve) /\ WF_vars(Deliver)

-----------------------------------------------------------------------------
MembersKnown ==
    /\ me = srv.me
    /\ chan.nicks = srv.in /\ chan.ops = srv.ops
    /\ chan.have_op <=> me \in srv.ops

(***************************************************************************)
(* When all that was sent has been answered and all answers have been      *)
(* read, the client has the channel on its list exactly when it is on it,  *)
(* with the right nicknames, the right operators, and its own status:      *)
(* however often it joined, was kicked or lost its connection, whatever    *)
(* the others did between the echo of the JOIN and the end of the WHO, and *)
(* whether or not the join was ever announced.                             *)
(***************************************************************************)
MembersMatch ==
    linked /\ up = <<>> /\ down = <<>> =>
        /\ chan.on <=> OnIt
        /\ OnIt => MembersKnown

(***************************************************************************)
(* A join that is announced as synched is: no reply is still awaited, so   *)
(* that the client knows members, modes and bans of the channel but for    *)
(* messages that are on their way.  Not so when the entry of join_list had *)
(* collected replies before the JOIN was echoed, which belong to the time  *)
(* before a kick, a PART or a lost connection; and of bans that are set    *)
(* while they are asked for the client has two and removes one.            *)
(***************************************************************************)
SyncIsComplete ==
    linked /\ down = <<>> /\ chan.on /\ announced /\ "stale" \notin trouble =>
        /\ MembersKnown
        /\ chan.mode = srv.mode
        /\ "twice" \notin trouble => chan.bans = IF srv.ban THEN 1 ELSE 0

(***************************************************************************)
(* A join comes to an end, with its announcement: got_info() is told of    *)
(* each of the four replies, once for this join at least, unless the       *)
(* client leaves the channel before, or loses the connection.  Only a user *)
(* whose current window is of another server does not hear of it.          *)
(***************************************************************************)
JoinEnds == joining /\ chan.on ~> announced \/ ~chan.on \/ ~here \/ ~linked
=============================================================================
