--------------------------- MODULE ChannelsProofs ---------------------------
(***************************************************************************)
(* Proofs about module Channels, for every set of nicknames and however    *)
(* long a behaviour is: the variables keep their types; what the client    *)
(* knows of the members agrees with the server when nothing is on its way; *)
(* and a join that was announced as synched is complete.                   *)
(***************************************************************************)
EXTENDS Channels, SequenceTheorems, TLAPS

-----------------------------------------------------------------------------
(* Types *)

(* a WHO reply names operators among those it lists *)
Msg == {m \in Message : m.op = "WHO" => m.ops \subseteq m.nicks}

SrvOK(c) == c \in ServerChannel /\ c.ops \subseteq c.in

ChanOK(c) == c \in ChannelList /\ (~c.on => c = NotOn) /\ c.ops \subseteq c.nicks

JoinOK(j, g) == j \in BOOLEAN /\ g \in SUBSET Info /\ g # Info /\ (g # {} => j)

(* the inductive invariant of the types *)
TInv ==
    /\ linked \in BOOLEAN /\ here \in BOOLEAN /\ announced \in BOOLEAN
    /\ SrvOK(srv) /\ ChanOK(chan) /\ JoinOK(joining, gotinfo)
    /\ up \in Seq(Command) /\ down \in Seq(Msg)
    /\ me \in Nicks
    /\ trouble \subseteq {"stale", "twice"}
    /\ moves \in 0..MaxMoves

LEMMA TInvTypeOK == TInv => TypeOK
  <1>1. Msg \subseteq Message
    BY DEF Msg
  <1>2. down \in Seq(Msg) => down \in Seq(Message)
    BY <1>1
  <1> QED BY <1>2 DEF TInv, TypeOK, SrvOK, ChanOK, JoinOK

(* the messages there are *)
LEMMA Messages ==
  ASSUME NEW n \in Nicks, NEW k \in Nicks, NEW b \in BOOLEAN,
         NEW N \in SUBSET Nicks, NEW O \in SUBSET N
  PROVE  /\ \A o \in {"JOIN", "PART", "+o", "-o"} : [op |-> o, nick |-> n] \in Msg
         /\ [op |-> "NICK", nick |-> n, to |-> k] \in Msg
         /\ \A o \in {"KICK", "INVITE", "+i", "-i", "+b", "-b", "NAMES", "REFUSED", "TOOMANY"} :
               [op |-> o] \in Msg
         /\ \A o \in {"MODE", "BANS"} : [op |-> o, set |-> b] \in Msg
         /\ [op |-> "WHO", nicks |-> N, ops |-> O] \in Msg
  BY DEF Msg, Message

(* and what they carry *)
LEMMA Fields ==
  ASSUME NEW m \in Msg
  PROVE  /\ m.op \in {"JOIN", "PART", "+o", "-o", "NICK"} => m.nick \in Nicks
         /\ m.op = "NICK" => m.to \in Nicks
         /\ m.op \in {"MODE", "BANS"} => m.set \in BOOLEAN
         /\ m.op = "WHO" => m.nicks \in SUBSET Nicks /\ m.ops \subseteq m.nicks
  BY DEF Msg, Message

(* what the server may be told *)
LEMMA Tells ==
  ASSUME NEW m \in Msg, down \in Seq(Msg), Tell(m)
  PROVE  down' \in Seq(Msg)
  BY DEF Tell

(* Whoever leaves, the rest is a channel. *)
LEMMA LeftType ==
  ASSUME SrvOK(srv), NEW n
  PROVE  /\ SrvOK(Left(n)) /\ Left(n).me = srv.me
         /\ Left(n).in = srv.in \ {n} /\ Left(n).ops = srv.ops \ {n}
  BY DEF SrvOK, ServerChannel, Left

(* What the others do to the channel, and what is said of it. *)
LEMMA OthersType ==
  ASSUME TInv,
         \/ \E n \in Nicks : OtherJoins(n) \/ OtherLeaves(n) \/ OpChanges(n)
         \/ Kicked \/ Invited \/ ModeChanges
         \/ \E old, new \in Nicks : Renamed(old, new)
  PROVE  SrvOK(srv') /\ down' \in Seq(Msg)
  <1>1. SrvOK(srv) /\ down \in Seq(Msg) /\ srv.me \in Nicks
    BY DEF TInv, SrvOK, ServerChannel
  <1>2. ASSUME NEW n \in Nicks, OtherJoins(n) PROVE SrvOK(srv') /\ down' \in Seq(Msg)
    <2>1. [op |-> "JOIN", nick |-> n] \in Msg
      BY DEF Msg, Message
    <2>2. down' \in Seq(Msg)
      BY <1>1, <1>2, <2>1, Tells DEF OtherJoins
    <2>3. SrvOK(srv')
      BY <1>1, <1>2 DEF OtherJoins, SrvOK, ServerChannel
    <2> QED BY <2>2, <2>3
  <1>3. ASSUME NEW n \in Nicks, OtherLeaves(n) PROVE SrvOK(srv') /\ down' \in Seq(Msg)
    <2>1. [op |-> "PART", nick |-> n] \in Msg
      BY DEF Msg, Message
    <2>2. down' \in Seq(Msg)
      BY <1>1, <1>3, <2>1, Tells DEF OtherLeaves
    <2>3. SrvOK(srv')
      BY <1>1, <1>3, LeftType DEF OtherLeaves
    <2> QED BY <2>2, <2>3
  <1>4. ASSUME NEW n \in Nicks, OpChanges(n) PROVE SrvOK(srv') /\ down' \in Seq(Msg)
    <2>1. [op |-> IF n \in srv.ops THEN "-o" ELSE "+o", nick |-> n] \in Msg
      BY DEF Msg, Message
    <2>2. down' \in Seq(Msg)
      BY <1>1, <1>4, <2>1, Tells DEF OpChanges
    <2>3. SrvOK(srv')
      BY <1>1, <1>4 DEF OpChanges, SrvOK, ServerChannel
    <2> QED BY <2>2, <2>3
  <1>5. ASSUME Kicked PROVE SrvOK(srv') /\ down' \in Seq(Msg)
    <2>1. [op |-> "KICK"] \in Msg
      BY DEF Msg, Message
    <2>2. down' \in Seq(Msg)
      BY <1>1, <1>5, <2>1, Tells DEF Kicked
    <2>3. SrvOK(srv')
      BY <1>1, <1>5, LeftType DEF Kicked
    <2> QED BY <2>2, <2>3
  <1>6. ASSUME Invited PROVE SrvOK(srv') /\ down' \in Seq(Msg)
    <2>1. [op |-> "INVITE"] \in Msg
      BY DEF Msg, Message
    <2> QED BY <1>1, <1>6, <2>1 DEF Invited
  <1>7. ASSUME ModeChanges PROVE SrvOK(srv') /\ down' \in Seq(Msg)
    <2>1. /\ [op |-> IF srv.mode THEN "-i" ELSE "+i"] \in Msg
          /\ [op |-> IF srv.ban THEN "-b" ELSE "+b"] \in Msg
      BY DEF Msg, Message
    <2>2. down' \in Seq(Msg)
      BY <1>1, <1>7, <2>1, Tells DEF ModeChanges
    <2>3. SrvOK(srv')
      BY <1>1, <1>7 DEF ModeChanges, SrvOK, ServerChannel
    <2> QED BY <2>2, <2>3
  <1>8. ASSUME NEW old \in Nicks, NEW new \in Nicks, Renamed(old, new)
        PROVE  SrvOK(srv') /\ down' \in Seq(Msg)
    <2>1. [op |-> "NICK", nick |-> old, to |-> new] \in Msg
      BY DEF Msg, Message
    <2>2. down' \in Seq(Msg)
      <3> DEFINE m == [op |-> "NICK", nick |-> old, to |-> new]
      <3>1. down' = Append(down, m) \/ down' = down
        BY <1>8 DEF Renamed
      <3> HIDE DEF m
      <3>2. m \in Msg
        BY <2>1 DEF m
      <3> QED BY <1>1, <3>1, <3>2
    <2>3. SrvOK(srv')
      BY <1>1, <1>8 DEF Renamed, SrvOK, ServerChannel
    <2> QED BY <2>2, <2>3
  <1> QED BY <1>2, <1>3, <1>4, <1>5, <1>6, <1>7, <1>8

LEMMA ServeType ==
  ASSUME TInv, Serve PROVE SrvOK(srv') /\ down' \in Seq(Msg) /\ up' \in Seq(Command)
  <1>1. SrvOK(srv) /\ down \in Seq(Msg) /\ srv.me \in Nicks /\ up \in Seq(Command) /\ up # <<>>
    BY DEF TInv, SrvOK, ServerChannel, Serve
  <1>2. up' \in Seq(Command)
    BY <1>1 DEF Serve
  <1>3. ASSUME ServeJoin PROVE SrvOK(srv') /\ down' \in Seq(Msg)
    <2> DEFINE j == [op |-> "JOIN", nick |-> srv.me]
               n == [op |-> "NAMES"]
    <2>1. j \in Msg /\ n \in Msg
      BY <1>1 DEF Msg, Message
    <2>2. <<j, n>> \in Seq(Msg)
      <3> HIDE DEF j, n
      <3> QED BY <2>1
    <2>3. \A no \in {"REFUSED", "TOOMANY"} : [op |-> no] \in Msg
      BY DEF Msg, Message
    <2>4. down' = down \/ down' = down \o <<j, n>>
          \/ \E no \in {"REFUSED", "TOOMANY"} : down' = Append(down, [op |-> no])
      BY <1>3 DEF ServeJoin
    <2> HIDE DEF j, n
    <2>5. down' \in Seq(Msg)
      <3>1. CASE \E no \in {"REFUSED", "TOOMANY"} : down' = Append(down, [op |-> no])
        <4>1. PICK no \in {"REFUSED", "TOOMANY"} : down' = Append(down, [op |-> no])
          BY <3>1
        <4> DEFINE r == [op |-> no]
        <4>2. r \in Msg /\ down' = Append(down, r)
          BY <2>3, <4>1
        <4> HIDE DEF r
        <4> QED BY <1>1, <4>2
      <3>2. CASE down' = down \o <<j, n>>
        <4> DEFINE both == <<j, n>>
        <4>1. both \in Seq(Msg) /\ down' = down \o both
          BY <2>2, <3>2
        <4> HIDE DEF both
        <4> QED BY <1>1, <4>1
      <3> QED BY <1>1, <2>4, <3>1, <3>2
    <2>6. UNCHANGED srv \/ srv' = [srv EXCEPT !.in = srv.in \cup {srv.me},
                                             !.ops = IF srv.in = {} THEN {srv.me} ELSE srv.ops]
      BY <1>3 DEF ServeJoin
    <2>7. SrvOK(srv')
      <3> DEFINE O == IF srv.in = {} THEN {srv.me} ELSE srv.ops
      <3>1. O \subseteq srv.in \cup {srv.me} /\ O \in SUBSET Nicks
        BY <1>1 DEF SrvOK, ServerChannel
      <3> HIDE DEF O
      <3>2. UNCHANGED srv \/ srv' = [srv EXCEPT !.in = srv.in \cup {srv.me}, !.ops = O]
        BY <2>6 DEF O
      <3>3. CASE srv' = [srv EXCEPT !.in = srv.in \cup {srv.me}, !.ops = O]
        <4>1. srv.in \cup {srv.me} \in SUBSET Nicks /\ srv \in ServerChannel
          BY <1>1 DEF SrvOK, ServerChannel
        <4>2. srv' \in ServerChannel /\ srv'.in = srv.in \cup {srv.me} /\ srv'.ops = O
          BY <3>1, <3>3, <4>1 DEF ServerChannel
        <4> QED BY <3>1, <4>2 DEF SrvOK
      <3> QED BY <1>1, <3>2, <3>3
    <2> QED BY <2>5, <2>7
  <1>4. ASSUME ServePart PROVE SrvOK(srv') /\ down' \in Seq(Msg)
    <2>1. [op |-> "PART", nick |-> srv.me] \in Msg
      BY <1>1 DEF Msg, Message
    <2> QED BY <1>1, <1>4, <2>1, Tells, LeftType DEF ServePart
  <1>5. ASSUME Head(up) \in {"MODE", "BANS", "WHO"} PROVE Answer \in Msg
    BY <1>1, <1>5 DEF Answer, Msg, Message, SrvOK, ServerChannel
  <1>6. ASSUME Head(up) \in {"MODE", "BANS", "WHO"}, down' = Append(down, Answer), UNCHANGED srv
        PROVE  SrvOK(srv') /\ down' \in Seq(Msg)
    <2>1. Answer \in Msg
      BY <1>5, <1>6
    <2> HIDE DEF Answer
    <2> QED BY <1>1, <1>6, <2>1
  <1> QED BY <1>2, <1>3, <1>4, <1>6 DEF Serve

-----------------------------------------------------------------------------
(* What the client makes of its list *)

(* A list with other fields is still one, as long as the operators are on it. *)
LEMMA ListTypes ==
  ASSUME TInv
  PROVE  /\ ChanOK(Cleared) /\ ChanOK(NotOn)
         /\ \A N \in SUBSET Nicks : \A O \in SUBSET N : ChanOK(add_to_channel(N, O))
         /\ \A n \in Nicks : ChanOK(remove_from_channel(n))
         /\ \A old, new \in Nicks : ChanOK(rename_nick(old, new))
  <1>1. ChanOK(chan) /\ me \in Nicks
    BY DEF TInv
  <1>2. ChanOK(Cleared) /\ ChanOK(NotOn)
    BY DEF ChanOK, ChannelList, Cleared, NotOn
  <1>3. ASSUME NEW N \in SUBSET Nicks, NEW O \in SUBSET N PROVE ChanOK(add_to_channel(N, O))
    BY <1>1 DEF ChanOK, ChannelList, add_to_channel
  <1>4. ASSUME NEW n \in Nicks PROVE ChanOK(remove_from_channel(n))
    <2>1. CASE chan.on
      BY <1>1, <2>1 DEF ChanOK, ChannelList, remove_from_channel
    <2>2. CASE ~ chan.on
      <3>1. chan = NotOn /\ chan.nicks = {} /\ chan.ops = {} /\ chan \in ChannelList
        BY <1>1, <2>2 DEF ChanOK, NotOn, Cleared
      <3>2. remove_from_channel(n) = chan
        BY <3>1 DEF remove_from_channel, ChannelList
      <3> QED BY <1>1, <3>2
    <2> QED BY <2>1, <2>2
  <1>5. ASSUME NEW old \in Nicks, NEW new \in Nicks PROVE ChanOK(rename_nick(old, new))
    <2>1. CASE chan.on
      BY <1>1, <2>1 DEF ChanOK, ChannelList, rename_nick
    <2>2. CASE ~ chan.on
      <3>1. chan.nicks = {}
        BY <1>1, <2>2 DEF ChanOK, NotOn, Cleared
      <3> QED BY <1>1, <3>1 DEF rename_nick
    <2> QED BY <2>1, <2>2
  <1> QED BY <1>2, <1>3, <1>4, <1>5

(* the letters of MODE that concern the client *)
Letters == {"+o", "-o", "+i", "-i", "+b", "-b"}

LEMMA ModeTypes ==
  ASSUME TInv, chan.on, NEW m \in Msg, m.op \in Letters
  PROVE  ChanOK(apply_channel_modes(m))
  <1>1. ChanOK(chan) /\ chan.on /\ chan.bans \in Nat
    BY DEF TInv, ChanOK, ChannelList
  <1>2. m.op \in {"+o", "-o"} => m.nick \in Nicks
    BY Fields
  <1>3. CASE m.op \in {"+o", "-o"}
    BY <1>1, <1>2, <1>3 DEF ChanOK, ChannelList, apply_channel_modes
  <1>4. CASE m.op \in {"+i", "-i"}
    BY <1>1, <1>4 DEF ChanOK, ChannelList, apply_channel_modes
  <1>5. CASE m.op \in {"+b", "-b"}
    <2>1. (IF chan.bans = 0 THEN 1 ELSE chan.bans) \in Nat
          /\ (IF chan.bans = 0 THEN 0 ELSE chan.bans - 1) \in Nat
      BY <1>1
    <2> QED BY <1>1, <1>5, <2>1 DEF ChanOK, ChannelList, apply_channel_modes
  <1> QED BY <1>3, <1>4, <1>5 DEF Letters

(* got_info() keeps an entry that still waits for something. *)
LEMMA GotType ==
  ASSUME TInv, NEW type \in Info, NEW c, c.on \in BOOLEAN, got_info(type, c)
  PROVE  JoinOK(joining', gotinfo') /\ announced' \in BOOLEAN
  BY DEF TInv, JoinOK, got_info

LEMMA JoinTypes ==
  ASSUME TInv
  PROVE  /\ add_to_join_list => JoinOK(joining', gotinfo')
         /\ remove_from_join_list => JoinOK(joining', gotinfo')
  BY DEF TInv, JoinOK, add_to_join_list, remove_from_join_list, Info

(* The client reads a message. *)
LEMMA DeliverType == ASSUME TInv, Deliver PROVE TInv'
  <1> DEFINE m == Head(down)
  <1>1. /\ down # <<>> /\ down' = Tail(down)
        /\ UNCHANGED <<linked, srv, here, moves>>
    BY DEF Deliver
  <1>2. m \in Msg /\ down' \in Seq(Msg)
    BY <1>1 DEF TInv
  <1>3. \/ m.op = "JOIN" /\ p_channel(m)
        \/ m.op = "PART" /\ p_part(m)
        \/ m.op = "KICK" /\ p_kick
        \/ m.op = "INVITE" /\ check_auto_join
        \/ m.op = "NICK" /\ p_nick(m)
        \/ m.op \in Letters /\ p_mode(m)
        \/ m.op = "NAMES" /\ GotNames
        \/ m.op = "MODE" /\ funny_mode(m)
        \/ m.op = "BANS" /\ BanList(m)
        \/ m.op = "WHO" /\ add_user_who(m)
        \/ m.op = "REFUSED" /\ cannot_join_channel
        \/ m.op = "TOOMANY" /\ UNCHANGED <<chan, me, up, joining, gotinfo, announced, trouble>>
    BY DEF Deliver, Letters
  <1> HIDE DEF m
  <1> DEFINE Done == /\ ChanOK(chan') /\ JoinOK(joining', gotinfo') /\ announced' \in BOOLEAN
                     /\ up' \in Seq(Command) /\ me' \in Nicks /\ trouble' \subseteq {"stale", "twice"}
  <1>4. /\ ChanOK(chan) /\ JoinOK(joining, gotinfo) /\ announced \in BOOLEAN
        /\ up \in Seq(Command) /\ me \in Nicks /\ trouble \subseteq {"stale", "twice"}
        /\ chan.on \in BOOLEAN /\ chan.bans \in Nat
    BY DEF TInv, ChanOK, ChannelList
  <1>5. up \o Asked \in Seq(Command) /\ Append(up, "JOIN") \in Seq(Command)
    <2>1. Asked \in Seq(Command) /\ "JOIN" \in Command
      BY DEF Asked, Command
    <2> HIDE DEF Asked
    <2> QED BY <1>4, <2>1
  <1>6. {"NAMES", "MODE", "BANS", "WHO"} \subseteq Info
    BY DEF Info
  <1>7. ASSUME m.op = "JOIN", p_channel(m) PROVE Done
    <2>1. m.nick \in Nicks
      BY <1>2, <1>7, Fields
    <2>2. CASE JoinMe
      <3>1. add_to_join_list /\ chan' = Cleared /\ up' = up \o Asked /\ announced' = FALSE /\ me' = me
            /\ trouble' = IF gotinfo # {} THEN {"stale"} ELSE {}
        BY <2>2 DEF JoinMe, add_channel
      <3>2. trouble' \subseteq {"stale", "twice"}
        BY <3>1
      <3> QED BY <1>4, <1>5, <3>1, <3>2, JoinTypes, ListTypes
    <2>3. CASE ~ JoinMe
      <3>1. /\ chan' = add_to_channel({m.nick}, {})
            /\ UNCHANGED <<me, joining, gotinfo, up, announced, trouble>>
        BY <1>7, <2>3 DEF p_channel
      <3>2. {m.nick} \in SUBSET Nicks /\ {} \in SUBSET {m.nick}
        BY <2>1
      <3>3. ChanOK(add_to_channel({m.nick}, {}))
        BY <3>2, ListTypes
      <3> QED BY <1>4, <3>1, <3>3
    <2> QED BY <2>2, <2>3
  <1>8. ASSUME m.op = "PART", p_part(m) PROVE Done
    <2>1. m.nick \in Nicks
      BY <1>2, <1>8, Fields
    <2>2. \/ chan' = NotOn /\ remove_from_join_list /\ UNCHANGED <<me, up, announced, trouble>>
          \/ /\ chan' = remove_from_channel(m.nick)
             /\ UNCHANGED <<me, joining, gotinfo, up, announced, trouble>>
      BY <1>8 DEF p_part
    <2> QED BY <1>4, <2>1, <2>2, JoinTypes, ListTypes
  <1>9. ASSUME p_kick PROVE Done
    <2>1. /\ chan' = NotOn /\ UNCHANGED <<me, announced, trouble>>
          /\ up' = Append(up, "JOIN") \/ up' = up
          /\ add_to_join_list \/ UNCHANGED <<joining, gotinfo>>
      BY <1>9 DEF p_kick
    <2> QED BY <1>4, <1>5, <2>1, JoinTypes, ListTypes
  <1>10. ASSUME check_auto_join PROVE Done
    <2>1. /\ UNCHANGED <<chan, me, announced, trouble>>
          /\ up' = Append(up, "JOIN") \/ up' = up
          /\ add_to_join_list \/ UNCHANGED <<joining, gotinfo>>
      BY <1>10 DEF check_auto_join
    <2> QED BY <1>4, <1>5, <2>1, JoinTypes
  <1>11. ASSUME m.op = "NICK", p_nick(m) PROVE Done
    <2>1. m.nick \in Nicks /\ m.to \in Nicks
      BY <1>2, <1>11, Fields
    <2>2. ChanOK(rename_nick(m.nick, m.to))
      BY <2>1, ListTypes
    <2> QED BY <1>4, <1>11, <2>1, <2>2 DEF p_nick
  <1>12. ASSUME m.op \in Letters, p_mode(m) PROVE Done
    <2>1. chan.on => ChanOK(apply_channel_modes(m))
      BY <1>2, <1>12, ModeTypes
    <2>2. /\ chan' = IF chan.on THEN apply_channel_modes(m) ELSE chan
          /\ trouble' = trouble \/ trouble' = trouble \cup {"twice"}
          /\ UNCHANGED <<me, up, joining, gotinfo, announced>>
      BY <1>12 DEF p_mode
    <2>3. ChanOK(chan')
      BY <1>4, <2>1, <2>2
    <2>4. trouble' \subseteq {"stale", "twice"}
      BY <1>4, <2>2
    <2> QED BY <1>4, <2>2, <2>3, <2>4
  <1>13. ASSUME GotNames PROVE Done
    BY <1>4, <1>6, <1>13, GotType DEF GotNames
  <1>14. ASSUME m.op = "MODE", funny_mode(m) PROVE Done
    <2>1. ChanOK(chan')
      BY <1>4, <1>14 DEF funny_mode, ChanOK, ChannelList
    <2> QED BY <1>4, <1>6, <1>14, <2>1, GotType DEF funny_mode
  <1>15. ASSUME m.op = "BANS", BanList(m) PROVE Done
    <2>1. ChanOK(chan')
      BY <1>4, <1>15 DEF BanList, ChanOK, ChannelList
    <2> QED BY <1>4, <1>6, <1>15, <2>1, GotType DEF BanList
  <1>16. ASSUME m.op = "WHO", add_user_who(m) PROVE Done
    <2>1. m.nicks \in SUBSET Nicks /\ m.ops \in SUBSET m.nicks
      BY <1>2, <1>16, Fields
    <2>2. ChanOK(chan')
      BY <1>16, <2>1, ListTypes DEF add_user_who
    <2> QED BY <1>4, <1>6, <1>16, <2>2, GotType DEF add_user_who
  <1>17. ASSUME cannot_join_channel PROVE Done
    BY <1>4, <1>17, JoinTypes, ListTypes DEF cannot_join_channel
  <1>18. ASSUME UNCHANGED <<chan, me, up, joining, gotinfo, announced, trouble>> PROVE Done
    BY <1>4, <1>18
  <1>19. Done
    BY <1>3, <1>7, <1>8, <1>9, <1>10, <1>11, <1>12, <1>13, <1>14, <1>15, <1>16, <1>17, <1>18
  <1> QED BY <1>1, <1>2, <1>19 DEF TInv

(* The connection goes, and comes again. *)
LEMMA LostType ==
  ASSUME TInv, Lost PROVE SrvOK(srv') /\ ChanOK(chan')
  BY LeftType, ListTypes DEF TInv, Lost

LEMMA ReconnectType ==
  ASSUME TInv, reconnect_all_channels
  PROVE  SrvOK(srv') /\ ChanOK(chan') /\ JoinOK(joining', gotinfo') /\ me' \in Nicks
         /\ up' \in Seq(Command) /\ linked' = TRUE
  <1>1. /\ SrvOK(srv) /\ me \in Nicks /\ JoinOK(joining, gotinfo) /\ up \in Seq(Command)
    BY DEF TInv
  <1>2. me' \in Nicks
    BY <1>1 DEF reconnect_all_channels
  <1>3. SrvOK(srv')
    BY <1>1, <1>2 DEF reconnect_all_channels, SrvOK, ServerChannel
  <1>4. ChanOK(chan')
    BY ListTypes DEF reconnect_all_channels
  <1>5. JoinOK(joining', gotinfo') /\ up' \in Seq(Command)
    <2>1. Append(up, "JOIN") \in Seq(Command)
      BY <1>1 DEF Command
    <2>2. /\ up' = Append(up, "JOIN") \/ up' = up
          /\ add_to_join_list \/ UNCHANGED <<joining, gotinfo>>
      BY DEF reconnect_all_channels
    <2> QED BY <1>1, <2>1, <2>2, JoinTypes
  <1> QED BY <1>2, <1>3, <1>4, <1>5 DEF reconnect_all_channels

LEMMA InitTInv == Init => TInv
  <1> SUFFICES ASSUME Init PROVE TInv
    OBVIOUS
  <1>1. SrvOK(srv)
    BY ChannelsAssumption DEF Init, SrvOK, ServerChannel
  <1>2. ChanOK(chan)
    BY DEF Init, ChanOK, ChannelList, NotOn, Cleared
  <1>3. JoinOK(joining, gotinfo)
    BY DEF Init, JoinOK, Info
  <1>4. up \in Seq(Command) /\ down \in Seq(Msg)
    BY DEF Init
  <1>5. moves \in 0..MaxMoves /\ me \in Nicks /\ trouble \subseteq {"stale", "twice"}
    BY ChannelsAssumption DEF Init
  <1>6. linked \in BOOLEAN /\ here \in BOOLEAN /\ announced \in BOOLEAN
    BY DEF Init
  <1> QED BY <1>1, <1>2, <1>3, <1>4, <1>5, <1>6 DEF TInv

LEMMA NextTInv == TInv /\ [Next]_vars => TInv'
  <1> SUFFICES ASSUME TInv, [Next]_vars PROVE TInv'
    OBVIOUS
  <1>1. Move => moves' \in 0..MaxMoves
    BY ChannelsAssumption DEF TInv, Move
  <1>2. CASE Others
    <2>1. /\ moves' \in 0..MaxMoves
          /\ UNCHANGED <<linked, up, chan, me, joining, gotinfo, here, announced, trouble>>
      BY <1>1, <1>2 DEF Others
    <2>2. SrvOK(srv') /\ down' \in Seq(Msg)
      BY <1>2, OthersType DEF Others
    <2> QED BY <2>1, <2>2 DEF TInv
  <1>3. CASE Serve
    BY <1>3, ServeType DEF TInv, Serve
  <1>4. CASE Deliver
    BY <1>4, DeliverType
  <1>5. CASE User
    <2>1. moves' \in 0..MaxMoves
      BY <1>1, <1>5 DEF User
    <2>2. CASE e_channel \/ Part
      <3>1. \E c \in Command : up' = Append(up, c)
        BY <2>2 DEF e_channel, Part, Command
      <3>2. UNCHANGED <<linked, srv, down, chan, me, joining, gotinfo, here, announced, trouble>>
        BY <2>2 DEF e_channel, Part
      <3>3. up' \in Seq(Command)
        BY <3>1 DEF TInv
      <3> QED BY <2>1, <3>2, <3>3 DEF TInv
    <2>3. CASE SwitchWindow
      BY <2>1, <2>3 DEF SwitchWindow, TInv
    <2>4. CASE Lost
      <3>1. SrvOK(srv') /\ ChanOK(chan')
        BY <2>4, LostType
      <3>2. /\ linked' = FALSE /\ up' = <<>> /\ down' = <<>>
            /\ UNCHANGED <<me, joining, gotinfo, here, announced, trouble>>
        BY <2>4 DEF Lost
      <3>3. linked' \in BOOLEAN /\ up' \in Seq(Command) /\ down' \in Seq(Msg)
        <4>1. <<>> \in Seq(Command) /\ <<>> \in Seq(Msg) /\ FALSE \in BOOLEAN
          OBVIOUS
        <4>2. linked' = FALSE /\ up' = <<>> /\ down' = <<>>
          BY <3>2
        <4> QED BY <4>1, <4>2
      <3> QED BY <2>1, <3>1, <3>2, <3>3 DEF TInv
    <2> QED BY <1>5, <2>2, <2>3, <2>4 DEF User
  <1>6. CASE Reconnect
    <2>1. UNCHANGED <<down, here, announced, trouble, moves>>
      BY <1>6 DEF Reconnect, reconnect_all_channels
    <2> QED BY <1>6, <2>1, ReconnectType DEF Reconnect, TInv
  <1>7. CASE UNCHANGED vars
    BY <1>7 DEF vars, TInv
  <1> QED BY <1>2, <1>3, <1>4, <1>5, <1>6, <1>7 DEF Next

LEMMA TInvHolds == Spec => []TInv
  BY InitTInv, NextTInv, PTL DEF Spec

(***************************************************************************)
(* The variables keep their types: join_list never keeps an entry that has *)
(* collected all four replies, an entry off the list knows no one, and the *)
(* operators of a channel are on it.                                       *)
(***************************************************************************)
THEOREM TypeCorrect == Spec => []TypeOK
  BY TInvHolds, TInvTypeOK, PTL

-----------------------------------------------------------------------------
(***************************************************************************)
(* Members.  What the client will know when it has read all that is on its *)
(* way to it can be foretold: each message changes the list in one way.    *)
(* The invariant is about that last list: it agrees with the server now,   *)
(* or a WHO that will complete it has still to be answered.                *)
(***************************************************************************)

(* what a message can change of the members *)
Views == [on : BOOLEAN, nicks : SUBSET Nicks, ops : SUBSET Nicks, have_op : BOOLEAN, me : Nicks]

ViewOf(c, n) == [on |-> c.on, nicks |-> c.nicks, ops |-> c.ops, have_op |-> c.have_op, me |-> n]

View == ViewOf(chan, me)

Nobody(on, n) == [on |-> on, nicks |-> {}, ops |-> {}, have_op |-> FALSE, me |-> n]

Learns(v, N, O) ==
    IF ~v.on THEN v
    ELSE [on |-> TRUE, nicks |-> v.nicks \cup N, ops |-> v.ops \cup O,
          have_op |-> v.have_op \/ v.me \in O, me |-> v.me]

Forgets(v, n) ==
    [on |-> v.on, nicks |-> v.nicks \ {n}, ops |-> v.ops \ {n}, have_op |-> v.have_op, me |-> v.me]

Renames(S, old, new) == IF old \in S THEN (S \ {old}) \cup {new} ELSE S

SeesNick(v, old, new) ==
    [on |-> v.on, nicks |-> Renames(v.nicks, old, new),
     ops |-> IF old \in v.nicks THEN Renames(v.ops, old, new) ELSE v.ops,
     have_op |-> v.have_op, me |-> IF old = v.me THEN new ELSE v.me]

SeesOp(v, n) ==
    IF ~v.on THEN v
    ELSE [v EXCEPT !.ops = @ \cup ({n} \cap v.nicks), !.have_op = @ \/ n = v.me]

SeesDeop(v, n) ==
    IF ~v.on THEN v ELSE [v EXCEPT !.ops = @ \ {n}, !.have_op = @ /\ n # v.me]

(* the view that the message m makes of v *)
Seen(v, m) ==
    IF m.op = "JOIN" THEN IF m.nick = v.me THEN Nobody(TRUE, v.me) ELSE Learns(v, {m.nick}, {})
    ELSE IF m.op = "PART" THEN IF m.nick = v.me THEN Nobody(FALSE, v.me) ELSE Forgets(v, m.nick)
    ELSE IF m.op = "KICK" THEN Nobody(FALSE, v.me)
    ELSE IF m.op = "NICK" THEN SeesNick(v, m.nick, m.to)
    ELSE IF m.op = "+o" THEN SeesOp(v, m.nick)
    ELSE IF m.op = "-o" THEN SeesDeop(v, m.nick)
    ELSE IF m.op = "WHO" THEN Learns(v, m.nicks, m.ops)
    ELSE IF m.op = "REFUSED" THEN IF v.on /\ v.me \in v.nicks THEN v ELSE Nobody(FALSE, v.me)
    ELSE v

(* the echo of the client's own JOIN *)
Echo(v, m) == m.op = "JOIN" /\ m.nick = v.me

LEMMA SeenType ==
  ASSUME NEW v \in Views, NEW m \in Msg PROVE Seen(v, m) \in Views
  <1>1. /\ \A b \in BOOLEAN : Nobody(b, v.me) \in Views
        /\ \A N, O \in SUBSET Nicks : Learns(v, N, O) \in Views
        /\ \A n \in Nicks : Forgets(v, n) \in Views /\ SeesOp(v, n) \in Views /\ SeesDeop(v, n) \in Views
    BY DEF Views, Nobody, Learns, Forgets, SeesOp, SeesDeop
  <1>2. \A old, new \in Nicks : SeesNick(v, old, new) \in Views
    BY DEF Views, SeesNick, Renames
  <1>3. m.op \in {"JOIN", "PART", "+o", "-o", "NICK"} => m.nick \in Nicks
    BY Fields
  <1>4. m.op = "NICK" => m.to \in Nicks
    BY Fields
  <1>5. m.op = "WHO" => m.nicks \in SUBSET Nicks /\ m.ops \in SUBSET Nicks
    BY Fields
  <1>6. m.op = "JOIN" => {m.nick} \in SUBSET Nicks /\ {} \in SUBSET Nicks
    BY <1>3
  <1> QED BY <1>1, <1>2, <1>3, <1>4, <1>5, <1>6 DEF Seen

LEMMA ViewType == ASSUME TInv PROVE View \in Views
  BY DEF TInv, ChanOK, ChannelList, View, ViewOf, Views

(* The handlers do to the list what Seen() says. *)
LEMMA DeliverSeen ==
  ASSUME TInv, Deliver PROVE View' = Seen(View, Head(down))
  <1> DEFINE m == Head(down)
  <1>1. /\ chan \in ChannelList /\ ChanOK(chan) /\ down # <<>> /\ down \in Seq(Msg)
    BY DEF TInv, ChanOK, Deliver
  <1>2. m \in Msg
    BY <1>1
  <1>3. \/ m.op = "JOIN" /\ p_channel(m)
        \/ m.op = "PART" /\ p_part(m)
        \/ m.op = "KICK" /\ p_kick
        \/ m.op = "INVITE" /\ check_auto_join
        \/ m.op = "NICK" /\ p_nick(m)
        \/ m.op \in Letters /\ p_mode(m)
        \/ m.op = "NAMES" /\ GotNames
        \/ m.op = "MODE" /\ funny_mode(m)
        \/ m.op = "BANS" /\ BanList(m)
        \/ m.op = "WHO" /\ add_user_who(m)
        \/ m.op = "REFUSED" /\ cannot_join_channel
        \/ m.op = "TOOMANY" /\ UNCHANGED <<chan, me, up, joining, gotinfo, announced, trouble>>
    BY DEF Deliver, Letters
  <1> HIDE DEF m
  <1>4. View' = ViewOf(chan', me')
    BY DEF View
  <1>5. \A c, n : /\ ViewOf(c, n).on = c.on /\ ViewOf(c, n).nicks = c.nicks
                  /\ ViewOf(c, n).ops = c.ops /\ ViewOf(c, n).have_op = c.have_op
                  /\ ViewOf(c, n).me = n
    BY DEF ViewOf
  <1>6. \A n : ViewOf(Cleared, n) = Nobody(TRUE, n) /\ ViewOf(NotOn, n) = Nobody(FALSE, n)
    BY DEF ViewOf, Cleared, NotOn, Nobody
  <1>7. \A N, O : ViewOf(add_to_channel(N, O), me) = Learns(View, N, O)
    <2>1. CASE chan.on
      BY <1>1, <2>1 DEF ViewOf, View, add_to_channel, Learns, ChannelList
    <2>2. CASE ~ chan.on
      BY <2>2 DEF ViewOf, View, add_to_channel, Learns
    <2> QED BY <2>1, <2>2
  <1>8. ASSUME m.op = "JOIN", p_channel(m) PROVE View' = Seen(View, m)
    <2>1. CASE m.nick = me
      <3>1. chan' = Cleared /\ me' = me
        BY <1>8, <2>1 DEF p_channel, JoinMe, add_channel
      <3> QED BY <1>4, <1>5, <1>6, <1>8, <2>1, <3>1 DEF Seen, View
    <2>2. CASE m.nick # me
      <3>1. chan' = add_to_channel({m.nick}, {}) /\ me' = me
        BY <1>8, <2>2 DEF p_channel
      <3>2. View' = Learns(View, {m.nick}, {})
        BY <1>4, <1>7, <3>1
      <3>3. View.me = me
        BY <1>5 DEF View
      <3> QED BY <1>8, <2>2, <3>2, <3>3 DEF Seen
    <2> QED BY <2>1, <2>2
  <1>9. ASSUME m.op = "PART", p_part(m) PROVE View' = Seen(View, m)
    <2>1. CASE m.nick = me
      <3>1. chan' = NotOn /\ me' = me
        BY <1>9, <2>1 DEF p_part
      <3> QED BY <1>4, <1>5, <1>6, <1>9, <2>1, <3>1 DEF Seen, View
    <2>2. CASE m.nick # me
      <3>1. chan' = remove_from_channel(m.nick) /\ me' = me
        BY <1>9, <2>2 DEF p_part
      <3>2. View' = Forgets(View, m.nick)
        BY <1>1, <1>4, <3>1 DEF View, ViewOf, Forgets, remove_from_channel, ChannelList
      <3>3. View.me = me
        BY <1>5 DEF View
      <3> QED BY <1>9, <2>2, <3>2, <3>3 DEF Seen
    <2> QED BY <2>1, <2>2
  <1>10. ASSUME m.op = "KICK", p_kick PROVE View' = Seen(View, m)
    <2>1. chan' = NotOn /\ me' = me
      BY <1>10 DEF p_kick
    <2>2. View' = Nobody(FALSE, me) /\ View.me = me
      BY <1>4, <1>5, <1>6, <2>1 DEF View
    <2> QED BY <1>10, <2>2 DEF Seen
  <1>11. ASSUME m.op = "NICK", p_nick(m) PROVE View' = Seen(View, m)
    <2>1. chan' = rename_nick(m.nick, m.to) /\ me' = IF m.nick = me THEN m.to ELSE me
      BY <1>11 DEF p_nick
    <2>2. View' = SeesNick(View, m.nick, m.to)
      BY <1>1, <1>4, <2>1 DEF View, ViewOf, SeesNick, Renames, rename_nick, ChannelList
    <2> QED BY <1>11, <2>2 DEF Seen
  <1>12. ASSUME m.op \in Letters, p_mode(m) PROVE View' = Seen(View, m)
    <2>1. chan' = (IF chan.on THEN apply_channel_modes(m) ELSE chan) /\ me' = me
      BY <1>12 DEF p_mode
    <2>2. CASE m.op = "+o"
      <3>1. View' = SeesOp(View, m.nick)
        BY <1>1, <1>4, <2>1, <2>2 DEF View, ViewOf, SeesOp, apply_channel_modes, ChannelList
      <3> QED BY <2>2, <3>1 DEF Seen
    <2>3. CASE m.op = "-o"
      <3>1. View' = SeesDeop(View, m.nick)
        BY <1>1, <1>4, <2>1, <2>3 DEF View, ViewOf, SeesDeop, apply_channel_modes, ChannelList
      <3> QED BY <2>3, <3>1 DEF Seen
    <2>4. CASE m.op \in {"+i", "-i", "+b", "-b"}
      <3>1. View' = View
        BY <1>1, <1>4, <2>1, <2>4 DEF View, ViewOf, apply_channel_modes, ChannelList
      <3> QED BY <2>4, <3>1 DEF Seen
    <2> QED BY <1>12, <2>2, <2>3, <2>4 DEF Letters
  <1>13. ASSUME \/ m.op = "NAMES" /\ GotNames
                \/ m.op = "INVITE" /\ check_auto_join
                \/ m.op = "TOOMANY" /\ UNCHANGED <<chan, me, up, joining, gotinfo, announced, trouble>>
         PROVE  View' = Seen(View, m)
    <2>1. chan' = chan /\ me' = me /\ m.op \in {"NAMES", "INVITE", "TOOMANY"}
      BY <1>13 DEF GotNames, check_auto_join
    <2> QED BY <2>1 DEF Seen, View
  <1>14. ASSUME (m.op = "MODE" /\ funny_mode(m)) \/ (m.op = "BANS" /\ BanList(m))
         PROVE  View' = Seen(View, m)
    <2>1. /\ me' = me /\ m.op \in {"MODE", "BANS"}
          /\ chan' = chan \/ chan' = [chan EXCEPT !.mode = TRUE] \/ chan' = [chan EXCEPT !.bans = @ + 1]
      BY <1>14 DEF funny_mode, BanList
    <2>2. View' = View
      BY <1>1, <1>4, <2>1 DEF View, ViewOf, ChannelList
    <2> QED BY <2>1, <2>2 DEF Seen
  <1>15. ASSUME m.op = "WHO", add_user_who(m) PROVE View' = Seen(View, m)
    <2>1. chan' = add_to_channel(m.nicks, m.ops) /\ me' = me
      BY <1>15 DEF add_user_who
    <2>2. View' = Learns(View, m.nicks, m.ops)
      BY <1>4, <1>7, <2>1
    <2> QED BY <1>15, <2>2 DEF Seen
  <1>16. ASSUME m.op = "REFUSED", cannot_join_channel PROVE View' = Seen(View, m)
    <2>1. me' = me /\ chan' = IF chan.on /\ me \in chan.nicks THEN chan ELSE NotOn
      BY <1>16 DEF cannot_join_channel, KnowsItIsOn
    <2>2. View.on = chan.on /\ View.me = me /\ View.nicks = chan.nicks
      BY <1>5 DEF View
    <2>3. CASE chan.on /\ me \in chan.nicks
      <3>1. View' = View
        BY <2>1, <2>3 DEF View
      <3> QED BY <1>16, <2>2, <2>3, <3>1 DEF Seen
    <2>4. CASE ~ (chan.on /\ me \in chan.nicks)
      <3>1. View' = Nobody(FALSE, me)
        BY <1>4, <1>6, <2>1, <2>4
      <3> QED BY <1>16, <2>2, <2>4, <3>1 DEF Seen
    <2> QED BY <2>3, <2>4
  <1>17. View' = Seen(View, m)
    BY <1>3, <1>8, <1>9, <1>10, <1>11, <1>12, <1>13, <1>14, <1>15, <1>16
  <1> QED BY <1>17 DEF m

-----------------------------------------------------------------------------
(* Reading all that is on its way *)

(***************************************************************************)
(* The messages d take the view v to e, one after the other; asks says     *)
(* that one of them is the echo of a JOIN, at which a WHO will be sent.    *)
(***************************************************************************)
Reads(t, v, d, e, asks) ==
    /\ t[1] = v /\ t[Len(d) + 1] = e
    /\ \A i \in 1..Len(d) : t[i + 1] = Seen(t[i], d[i])
    /\ asks => \E i \in 1..Len(d) : Echo(t[i], d[i])

Replay(v, d, e, asks) == \E t \in [1..(Len(d) + 1) -> Views] : Reads(t, v, d, e, asks)

LEMMA ReplayNothing ==
  ASSUME NEW v \in Views PROVE Replay(v, <<>>, v, FALSE)
  <1> DEFINE t == [i \in 1..(Len(<<>>) + 1) |-> v]
  <1>1. t \in [1..(Len(<<>>) + 1) -> Views] /\ Len(<<>>) = 0
    OBVIOUS
  <1>2. t[1] = v /\ t[Len(<<>>) + 1] = v
    BY <1>1
  <1> HIDE DEF t
  <1>3. Reads(t, v, <<>>, v, FALSE)
    BY <1>1, <1>2 DEF Reads
  <1> QED BY <1>1, <1>3 DEF Replay

(* The server says one thing more. *)
LEMMA ReplayMore ==
  ASSUME NEW v \in Views, NEW d \in Seq(Msg), NEW e \in Views, NEW asks \in BOOLEAN,
         Replay(v, d, e, asks), NEW m \in Msg
  PROVE  Replay(v, Append(d, m), Seen(e, m), asks \/ Echo(e, m))
  <1>1. PICK t \in [1..(Len(d) + 1) -> Views] : Reads(t, v, d, e, asks)
    BY DEF Replay
  <1> DEFINE n == Len(d)
             b == Append(d, m)
             s == [i \in 1..(n + 2) |-> IF i <= n + 1 THEN t[i] ELSE Seen(e, m)]
  <1>2. /\ n \in Nat /\ Len(b) = n + 1 /\ b[n + 1] = m
        /\ \A i \in 1..n : b[i] = d[i]
    OBVIOUS
  <1>3. Seen(e, m) \in Views
    BY SeenType
  <1>4. Len(b) + 1 = n + 2
    BY <1>2
  <1>5. s \in [1..(Len(b) + 1) -> Views]
    <2>1. \A i \in 1..(n + 2) : i <= n + 1 => i \in 1..(n + 1)
      BY <1>2
    <2> HIDE DEF n, b
    <2> QED BY <1>1, <1>3, <1>4, <2>1 DEF n
  <1>6. /\ \A i \in 1..(n + 1) : s[i] = t[i]
        /\ s[n + 2] = Seen(e, m)
    BY <1>2
  <1> HIDE DEF s, b, n
  <1>7. s[1] = v /\ s[Len(b) + 1] = Seen(e, m) /\ s[n + 1] = e
    BY <1>1, <1>2, <1>4, <1>6 DEF Reads, n
  <1>8. ASSUME NEW i \in 1..Len(b) PROVE s[i + 1] = Seen(s[i], b[i])
    <2>1. CASE i = n + 1
      BY <1>2, <1>6, <1>7, <2>1
    <2>2. CASE i # n + 1
      <3>1. i \in 1..n /\ i \in 1..(n + 1) /\ i + 1 \in 1..(n + 1)
        BY <1>2, <2>2
      <3> QED BY <1>1, <1>2, <1>6, <3>1 DEF Reads, n
    <2> QED BY <2>1, <2>2
  <1>9. asks \/ Echo(e, m) => \E i \in 1..Len(b) : Echo(s[i], b[i])
    <2>1. ASSUME asks PROVE \E i \in 1..Len(b) : Echo(s[i], b[i])
      <3>1. PICK i \in 1..n : Echo(t[i], d[i])
        BY <1>1, <2>1 DEF Reads, n
      <3>2. i \in 1..Len(b) /\ i \in 1..(n + 1)
        BY <1>2
      <3> QED BY <1>2, <1>6, <3>1, <3>2
    <2>2. ASSUME Echo(e, m) PROVE \E i \in 1..Len(b) : Echo(s[i], b[i])
      <3>1. n + 1 \in 1..Len(b)
        BY <1>2
      <3> QED BY <1>2, <1>7, <2>2, <3>1
    <2> QED BY <2>1, <2>2
  <1>10. Reads(s, v, b, Seen(e, m), asks \/ Echo(e, m))
    BY <1>7, <1>8, <1>9 DEF Reads
  <1> QED BY <1>5, <1>10 DEF Replay, b

(* The client has read the first message. *)
LEMMA ReplayRest ==
  ASSUME NEW v \in Views, NEW d \in Seq(Msg), d # <<>>, NEW e \in Views, NEW asks \in BOOLEAN,
         Replay(v, d, e, asks)
  PROVE  \E rest \in BOOLEAN : /\ Replay(Seen(v, Head(d)), Tail(d), e, rest)
                               /\ asks => rest \/ Echo(v, Head(d))
  <1>1. PICK t \in [1..(Len(d) + 1) -> Views] : Reads(t, v, d, e, asks)
    BY DEF Replay
  <1> DEFINE n == Len(d)
             b == Tail(d)
             s == [i \in 1..n |-> t[i + 1]]
             rest == \E i \in 1..Len(b) : Echo(s[i], b[i])
  <1>2. /\ n \in Nat \ {0} /\ Len(b) = n - 1 /\ Head(d) = d[1]
        /\ \A i \in 1..(n - 1) : b[i] = d[i + 1]
    OBVIOUS
  <1>3. Len(b) + 1 = n
    BY <1>2
  <1>4. s \in [1..(Len(b) + 1) -> Views]
    <2>1. \A i \in 1..n : i + 1 \in 1..(n + 1)
      BY <1>2
    <2> HIDE DEF b
    <2> QED BY <1>1, <1>3, <2>1
  <1>5. \A i \in 1..n : s[i] = t[i + 1]
    OBVIOUS
  <1> HIDE DEF s, b, n
  <1>6. s[1] = Seen(v, Head(d)) /\ s[Len(b) + 1] = e
    <2>1. 1 \in 1..n /\ n \in 1..n
      BY <1>2
    <2> QED BY <1>1, <1>2, <1>3, <1>5, <2>1 DEF Reads, n
  <1>7. \A i \in 1..Len(b) : s[i + 1] = Seen(s[i], b[i])
    <2>1. \A i \in 1..(n - 1) : i \in 1..n /\ i + 1 \in 1..n
      BY <1>2
    <2> QED BY <1>1, <1>2, <1>5, <2>1 DEF Reads, n
  <1>8. rest \in BOOLEAN /\ Reads(s, Seen(v, Head(d)), b, e, rest)
    BY <1>6, <1>7 DEF Reads
  <1>9. asks => rest \/ Echo(v, Head(d))
    <2> SUFFICES ASSUME asks, ~ Echo(v, Head(d)) PROVE rest
      OBVIOUS
    <2>1. PICK i \in 1..n : Echo(t[i], d[i])
      BY <1>1 DEF Reads, n
    <2>2. i # 1
      BY <1>1, <1>2, <2>1 DEF Reads
    <2>3. i - 1 \in 1..Len(b) /\ i - 1 \in 1..n /\ (i - 1) + 1 = i
      BY <1>2, <2>2
    <2>4. s[i - 1] = t[i] /\ b[i - 1] = d[i]
      BY <1>2, <1>5, <2>3
    <2> QED BY <2>1, <2>3, <2>4
  <1> HIDE DEF rest
  <1>10. Replay(Seen(v, Head(d)), b, e, rest)
    BY <1>4, <1>8 DEF Replay
  <1> QED BY <1>8, <1>9, <1>10 DEF b

(* Nothing is left to read. *)
LEMMA ReplayEnd ==
  ASSUME NEW v, NEW e, NEW asks, Replay(v, <<>>, e, asks)
  PROVE  e = v /\ ~ asks
  <1>1. Len(<<>>) = 0 /\ 0 + 1 = 1 /\ ~ \E i \in 1..0 : TRUE
    OBVIOUS
  <1> QED BY <1>1 DEF Replay, Reads

-----------------------------------------------------------------------------
(* What the last view is worth *)

(* it says nothing wrong of the server's channel c *)
Right(e, c) ==
    /\ e.me = c.me
    /\ e.on <=> c.me \in c.in
    /\ e.ops \subseteq e.nicks
    /\ e.on => /\ e.nicks \subseteq c.in /\ e.ops \subseteq c.ops
               /\ e.have_op => c.me \in c.ops
    /\ ~ e.on => e.nicks = {} /\ ~ e.have_op

(* and nothing is missing *)
Whole(e, c) == e.nicks = c.in /\ e.ops = c.ops /\ (e.have_op <=> c.me \in c.ops)

(* from e to f while the channel goes from c to b *)
Keeps(e, c, f, b) ==
    /\ Right(f, b)
    /\ f.on => e.on /\ (Whole(e, c) => Whole(f, b))

AsksWho(u) == \E i \in 1..Len(u) : u[i] = "WHO"

(* the last view e, when the messages d and the commands u are on their way *)
Foretold(v, d, u, c, e, asks) ==
    /\ Replay(v, d, e, asks) /\ Right(e, c)
    /\ e.on => Whole(e, c) \/ asks \/ AsksWho(u)

MInv ==
    /\ TInv
    /\ ~ linked => up = <<>> /\ down = <<>>
    /\ linked => \E e \in Views, asks \in BOOLEAN : Foretold(View, down, up, srv, e, asks)

LEMMA MInvMatch == MInv => MembersMatch
  <1> SUFFICES ASSUME MInv, linked, up = <<>>, down = <<>>
               PROVE  (chan.on <=> OnIt) /\ (OnIt => MembersKnown)
    BY DEF MembersMatch
  <1>1. PICK e \in Views, asks \in BOOLEAN : Foretold(View, down, up, srv, e, asks)
    BY DEF MInv
  <1>2. e = View /\ ~ asks
    BY <1>1, ReplayEnd DEF Foretold
  <1>3. ~ AsksWho(up)
    <2>1. Len(<<>>) = 0 /\ ~ \E i \in 1..0 : TRUE
      OBVIOUS
    <2> QED BY <2>1 DEF AsksWho
  <1>4. /\ e.on = chan.on /\ e.nicks = chan.nicks /\ e.ops = chan.ops
        /\ e.have_op = chan.have_op /\ e.me = me
    BY <1>2 DEF View, ViewOf
  <1>5. chan.on <=> OnIt
    BY <1>1, <1>4 DEF Foretold, Right, OnIt
  <1>6. OnIt => MembersKnown
    BY <1>1, <1>2, <1>3, <1>4, <1>5 DEF Foretold, Right, Whole, MembersKnown
  <1> QED BY <1>5, <1>6

-----------------------------------------------------------------------------
(* What is said keeps the last view right. *)

(* from the last view e to the next, with at most one message *)
Said(e) ==
    \/ down' = down /\ Keeps(e, srv, e, srv')
    \/ \E m \in Msg : /\ down' = Append(down, m)
                      /\ Keeps(e, srv, Seen(e, m), srv')

LEMMA OthersSay ==
  ASSUME TInv, linked, NEW e \in Views, Right(e, srv),
         \/ \E n \in Nicks : OtherJoins(n) \/ OtherLeaves(n) \/ OpChanges(n)
         \/ Kicked \/ Invited \/ ModeChanges
         \/ \E old, new \in Nicks : Renamed(old, new)
  PROVE  Said(e)
  <1>1. /\ srv \in ServerChannel /\ srv.ops \subseteq srv.in /\ srv.me \in Nicks
        /\ OnIt <=> e.on /\ e.on \in BOOLEAN
    BY DEF TInv, SrvOK, ServerChannel, Right, OnIt, Views
  <1>2. ASSUME NEW n \in Nicks, OtherJoins(n) PROVE Said(e)
    <2> DEFINE m == [op |-> "JOIN", nick |-> n]
    <2>1. m \in Msg /\ m.op = "JOIN" /\ m.nick = n
      BY DEF Msg, Message
    <2>2. /\ n \notin srv.in /\ n # srv.me
          /\ srv'.in = srv.in \cup {n} /\ srv'.me = srv.me
          /\ srv.ops \subseteq srv'.ops /\ (srv.in # {} => srv'.ops = srv.ops)
          /\ srv'.ops \subseteq srv.ops \cup {n}
          /\ down' = IF OnIt THEN Append(down, m) ELSE down
      BY <1>1, <1>2 DEF OtherJoins, Taken, Tell, ServerChannel
    <2> HIDE DEF m
    <2>3. CASE e.on
      <3>1. Seen(e, m) = Learns(e, {n}, {})
        BY <2>1, <2>2 DEF Seen, Right
      <3>2. srv.in # {} /\ srv.me \in srv.in
        BY <2>3 DEF Right
      <3>3. Keeps(e, srv, Learns(e, {n}, {}), srv')
        BY <2>2, <2>3, <3>2 DEF Keeps, Right, Whole, Learns
      <3> QED BY <1>1, <2>1, <2>2, <2>3, <3>1, <3>3 DEF Said
    <2>4. CASE ~ e.on
      <3>1. Keeps(e, srv, e, srv')
        BY <2>2, <2>4 DEF Keeps, Right
      <3> QED BY <1>1, <2>2, <2>4, <3>1 DEF Said
    <2> QED BY <2>3, <2>4
  <1>3. ASSUME NEW n \in Nicks, OtherLeaves(n) PROVE Said(e)
    <2> DEFINE m == [op |-> "PART", nick |-> n]
    <2>1. m \in Msg /\ m.op = "PART" /\ m.nick = n
      BY DEF Msg, Message
    <2>2. /\ n # srv.me /\ srv'.in = srv.in \ {n} /\ srv'.me = srv.me /\ srv'.ops = srv.ops \ {n}
          /\ down' = IF OnIt THEN Append(down, m) ELSE down
      BY <1>1, <1>3, LeftType DEF OtherLeaves, Tell, SrvOK
    <2> HIDE DEF m
    <2>3. CASE e.on
      <3>1. Seen(e, m) = Forgets(e, n)
        BY <2>1, <2>2 DEF Seen, Right
      <3>2. Keeps(e, srv, Forgets(e, n), srv')
        BY <2>2, <2>3 DEF Keeps, Right, Whole, Forgets
      <3> QED BY <1>1, <2>1, <2>2, <2>3, <3>1, <3>2 DEF Said
    <2>4. CASE ~ e.on
      <3>1. Keeps(e, srv, e, srv')
        BY <2>2, <2>4 DEF Keeps, Right
      <3> QED BY <1>1, <2>2, <2>4, <3>1 DEF Said
    <2> QED BY <2>3, <2>4
  <1>4. ASSUME NEW n \in Nicks, OpChanges(n) PROVE Said(e)
    <2> DEFINE m == [op |-> IF n \in srv.ops THEN "-o" ELSE "+o", nick |-> n]
    <2>1. m \in Msg /\ m.op = (IF n \in srv.ops THEN "-o" ELSE "+o") /\ m.nick = n
      BY DEF Msg, Message
    <2>2. /\ n \in srv.in /\ srv'.in = srv.in /\ srv'.me = srv.me
          /\ srv'.ops = (IF n \in srv.ops THEN srv.ops \ {n} ELSE srv.ops \cup {n})
          /\ down' = IF OnIt THEN Append(down, m) ELSE down
      BY <1>1, <1>4 DEF OpChanges, Tell, ServerChannel
    <2> HIDE DEF m
    <2>3. CASE e.on
      <3>1. CASE n \in srv.ops
        <4>1. Seen(e, m) = [e EXCEPT !.ops = @ \ {n}, !.have_op = @ /\ n # e.me]
          BY <2>1, <2>3, <3>1 DEF Seen, SeesDeop
        <4>2. Keeps(e, srv, Seen(e, m), srv')
          <5> DEFINE f == Seen(e, m)
          <5>1. /\ f.on = e.on /\ f.me = e.me /\ f.nicks = e.nicks /\ f.ops = e.ops \ {n}
                /\ f.have_op = (e.have_op /\ n # e.me)
            BY <4>1 DEF Views
          <5> HIDE DEF f
          <5>2. Right(f, srv')
            BY <2>2, <2>3, <3>1, <5>1 DEF Right
          <5>3. Whole(e, srv) => Whole(f, srv')
            BY <2>2, <3>1, <5>1 DEF Right, Whole
          <5> QED BY <2>3, <5>2, <5>3 DEF Keeps, f
        <4> QED BY <1>1, <2>1, <2>2, <2>3, <4>2 DEF Said
      <3>2. CASE n \notin srv.ops
        <4>1. Seen(e, m) = [e EXCEPT !.ops = @ \cup ({n} \cap e.nicks), !.have_op = @ \/ n = e.me]
          BY <2>1, <2>3, <3>2 DEF Seen, SeesOp
        <4>2. Keeps(e, srv, Seen(e, m), srv')
          BY <2>2, <2>3, <3>2, <4>1 DEF Keeps, Right, Whole, Views
        <4> QED BY <1>1, <2>1, <2>2, <2>3, <4>2 DEF Said
      <3> QED BY <3>1, <3>2
    <2>4. CASE ~ e.on
      <3>1. Keeps(e, srv, e, srv')
        BY <2>2, <2>4 DEF Keeps, Right
      <3> QED BY <1>1, <2>2, <2>4, <3>1 DEF Said
    <2> QED BY <2>3, <2>4
  <1>5. ASSUME Kicked PROVE Said(e)
    <2> DEFINE m == [op |-> "KICK"]
    <2>1. m \in Msg /\ m.op = "KICK"
      BY DEF Msg, Message
    <2>2. srv'.in = srv.in \ {srv.me} /\ srv'.me = srv.me /\ down' = Append(down, m)
      BY <1>1, <1>5, LeftType DEF Kicked, Tell, SrvOK
    <2> HIDE DEF m
    <2>3. Seen(e, m) = Nobody(FALSE, e.me)
      BY <2>1 DEF Seen
    <2>4. Keeps(e, srv, Nobody(FALSE, e.me), srv')
      BY <2>2 DEF Keeps, Right, Nobody
    <2> QED BY <2>1, <2>2, <2>3, <2>4 DEF Said
  <1>6. ASSUME Invited PROVE Said(e)
    <2> DEFINE m == [op |-> "INVITE"]
    <2>1. m \in Msg /\ m.op = "INVITE"
      BY DEF Msg, Message
    <2>2. srv' = srv /\ down' = Append(down, m)
      BY <1>6 DEF Invited
    <2> HIDE DEF m
    <2>3. Seen(e, m) = e
      BY <2>1 DEF Seen
    <2>4. Keeps(e, srv, e, srv')
      BY <2>2 DEF Keeps
    <2> QED BY <2>1, <2>2, <2>3, <2>4 DEF Said
  <1>7. ASSUME ModeChanges PROVE Said(e)
    <2>1. PICK m \in {[op |-> "+i"], [op |-> "-i"], [op |-> "+b"], [op |-> "-b"]} : Tell(m)
      BY <1>7 DEF ModeChanges
    <2>2. m \in Msg /\ m.op \in {"+i", "-i", "+b", "-b"}
      BY <2>1 DEF Msg, Message
    <2>3. /\ srv'.in = srv.in /\ srv'.me = srv.me /\ srv'.ops = srv.ops
          /\ down' = IF OnIt THEN Append(down, m) ELSE down
      BY <1>1, <1>7, <2>1 DEF ModeChanges, Tell, ServerChannel
    <2>4. Seen(e, m) = e
      BY <2>2 DEF Seen
    <2>5. Keeps(e, srv, e, srv')
      BY <2>3 DEF Keeps, Right, Whole
    <2> QED BY <2>2, <2>3, <2>4, <2>5 DEF Said
  <1>8. ASSUME NEW old \in Nicks, NEW new \in Nicks, Renamed(old, new) PROVE Said(e)
    <2> DEFINE m == [op |-> "NICK", nick |-> old, to |-> new]
    <2>1. m \in Msg /\ m.op = "NICK" /\ m.nick = old /\ m.to = new
      BY DEF Msg, Message
    <2>2. /\ old \in srv.in \cup {srv.me} /\ new \notin srv.in /\ new # srv.me
          /\ srv'.in = Renames(srv.in, old, new) /\ srv'.ops = Renames(srv.ops, old, new)
          /\ srv'.me = (IF srv.me = old THEN new ELSE srv.me)
          /\ down' = IF OnIt \/ old = srv.me THEN Append(down, m) ELSE down
      BY <1>1, <1>8 DEF Renamed, Taken, Renames, ServerChannel
    <2> HIDE DEF m
    <2>3. Seen(e, m) = SeesNick(e, old, new)
      BY <2>1 DEF Seen
    <2>4. CASE e.on \/ old = srv.me
      <3>1. Right(SeesNick(e, old, new), srv')
        BY <1>1, <2>2, <2>4 DEF Right, SeesNick, Renames
      <3>2. e.on /\ Whole(e, srv) => Whole(SeesNick(e, old, new), srv')
        BY <1>1, <2>2 DEF Right, Whole, SeesNick, Renames
      <3>3. SeesNick(e, old, new).on = e.on
        BY DEF SeesNick
      <3>4. Keeps(e, srv, SeesNick(e, old, new), srv')
        BY <3>1, <3>2, <3>3 DEF Keeps
      <3> QED BY <1>1, <2>1, <2>2, <2>3, <2>4, <3>4 DEF Said
    <2>5. CASE ~ e.on /\ old # srv.me
      <3>1. Keeps(e, srv, e, srv')
        BY <2>2, <2>5 DEF Keeps, Right, Renames
      <3> QED BY <1>1, <2>2, <2>5, <3>1 DEF Said
    <2> QED BY <2>4, <2>5
  <1> QED BY <1>2, <1>3, <1>4, <1>5, <1>6, <1>7, <1>8

(* at most one message more, and the commands that ask a WHO still there *)
LEMMA SaidForetold ==
  ASSUME NEW v \in Views, down \in Seq(Msg), NEW u, NEW u1, NEW e \in Views, NEW asks \in BOOLEAN,
         Foretold(v, down, u, srv, e, asks), AsksWho(u) => AsksWho(u1), Said(e)
  PROVE  \E f \in Views, more \in BOOLEAN : Foretold(v, down', u1, srv', f, more)
  <1>1. CASE down' = down /\ Keeps(e, srv, e, srv')
    BY <1>1 DEF Foretold, Keeps
  <1>2. ASSUME NEW m \in Msg, down' = Append(down, m), Keeps(e, srv, Seen(e, m), srv')
        PROVE  \E f \in Views, more \in BOOLEAN : Foretold(v, down', u1, srv', f, more)
    <2> DEFINE f == Seen(e, m)
               more == asks \/ Echo(e, m)
    <2>1. f \in Views /\ more \in BOOLEAN
      BY SeenType DEF Echo
    <2>2. Replay(v, down', f, more)
      BY <1>2, ReplayMore DEF Foretold
    <2>3. Right(f, srv') /\ (f.on => Whole(f, srv') \/ asks \/ AsksWho(u1))
      BY <1>2 DEF Foretold, Keeps
    <2>4. f.on => Whole(f, srv') \/ more \/ AsksWho(u1)
      BY <2>3
    <2> HIDE DEF f, more
    <2> QED BY <2>1, <2>2, <2>3, <2>4 DEF Foretold
  <1> QED BY <1>1, <1>2 DEF Said

LEMMA TailAsks ==
  ASSUME NEW u \in Seq(Command), u # <<>>, Head(u) # "WHO"
  PROVE  AsksWho(u) => AsksWho(Tail(u))
  <1>1. /\ Len(u) \in Nat \ {0} /\ Len(Tail(u)) = Len(u) - 1 /\ Head(u) = u[1]
        /\ \A i \in 1..(Len(u) - 1) : Tail(u)[i] = u[i + 1]
    OBVIOUS
  <1> SUFFICES ASSUME NEW i \in 1..Len(u), u[i] = "WHO" PROVE AsksWho(Tail(u))
    BY DEF AsksWho
  <1>2. i - 1 \in 1..Len(Tail(u)) /\ (i - 1) + 1 = i
    BY <1>1
  <1> QED BY <1>1, <1>2 DEF AsksWho

LEMMA AppendAsks ==
  ASSUME NEW u \in Seq(Command), NEW c \in Command
  PROVE  AsksWho(u) => AsksWho(Append(u, c))
  <1>1. Len(Append(u, c)) = Len(u) + 1 /\ \A i \in 1..Len(u) : Append(u, c)[i] = u[i]
    OBVIOUS
  <1>2. \A i \in 1..Len(u) : i \in 1..(Len(u) + 1)
    OBVIOUS
  <1> QED BY <1>1, <1>2 DEF AsksWho

(* The echo of a JOIN makes the client ask. *)
LEMMA EchoAsks ==
  ASSUME NEW u \in Seq(Command)
  PROVE  AsksWho(u \o Asked)
  <1>1. Asked \in Seq(Command) /\ Len(Asked) = 3 /\ Asked[3] = "WHO"
    BY DEF Asked, Command
  <1> HIDE DEF Asked
  <1>2. Len(u) \in Nat /\ Len(u \o Asked) = Len(u) + 3 /\ (u \o Asked)[Len(u) + 3] = Asked[3]
    <2>1. /\ Len(u) \in Nat /\ Len(u \o Asked) = Len(u) + Len(Asked)
          /\ \A i \in 1..(Len(u) + Len(Asked)) :
                (u \o Asked)[i] = IF i <= Len(u) THEN u[i] ELSE Asked[i - Len(u)]
      <3>1. u \in Seq(Command) /\ Asked \in Seq(Command)
        BY <1>1
      <3> QED BY <3>1, ConcatProperties
    <2>2. /\ Len(u) + 3 \in 1..(Len(u) + 3) /\ ~ (Len(u) + 3 <= Len(u))
          /\ (Len(u) + 3) - Len(u) = 3
      BY <2>1
    <2> QED BY <1>1, <2>1, <2>2
  <1>3. Len(u) + 3 \in 1..Len(u \o Asked)
    BY <1>2
  <1> QED BY <1>1, <1>2, <1>3 DEF AsksWho

(* The server takes a command. *)
LEMMA ServeSay ==
  ASSUME TInv, linked, Serve, NEW e \in Views, NEW asks \in BOOLEAN, NEW v \in Views,
         Foretold(v, down, up, srv, e, asks)
  PROVE  \E f \in Views, more \in BOOLEAN : Foretold(v, down', up', srv', f, more)
  <1> DEFINE Goal == \E f \in Views, more \in BOOLEAN : Foretold(v, down', up', srv', f, more)
  <1>1. /\ srv \in ServerChannel /\ srv.ops \subseteq srv.in /\ srv.me \in Nicks
        /\ Right(e, srv) /\ (OnIt <=> e.on) /\ e.on \in BOOLEAN
        /\ up \in Seq(Command) /\ up # <<>> /\ up' = Tail(up) /\ down \in Seq(Msg)
    BY DEF TInv, SrvOK, ServerChannel, Foretold, Right, OnIt, Views, Serve
  <1>2. Head(up) # "WHO" => (AsksWho(up) => AsksWho(up'))
    BY <1>1, TailAsks
  <1>3. ASSUME Head(up) # "WHO", Said(e) PROVE Goal
    BY <1>1, <1>2, <1>3, SaidForetold
  <1>4. ASSUME Head(up) = "JOIN", ServeJoin PROVE Goal
    <2>1. CASE srv' = srv /\ down' = down
      <3>1. Keeps(e, srv, e, srv')
        BY <1>1, <2>1 DEF Keeps
      <3> QED BY <1>3, <1>4, <2>1, <3>1 DEF Said
    <2>2. CASE \E no \in {"REFUSED", "TOOMANY"} : down' = Append(down, [op |-> no]) /\ srv' = srv /\ ~ OnIt
      <3>1. PICK no \in {"REFUSED", "TOOMANY"} : /\ down' = Append(down, [op |-> no])
                                                 /\ srv' = srv /\ ~ OnIt
        BY <2>2
      <3> DEFINE m == [op |-> no]
      <3>2. m \in Msg /\ m.op = no /\ down' = Append(down, m)
        BY <3>1 DEF Msg, Message
      <3> HIDE DEF m
      <3>3. CASE no = "TOOMANY"
        <4>1. Seen(e, m) = e
          BY <3>2, <3>3 DEF Seen
        <4>2. Keeps(e, srv, e, srv')
          BY <1>1, <3>1 DEF Keeps
        <4> QED BY <1>3, <1>4, <3>2, <4>1, <4>2 DEF Said
      <3>4. CASE no = "REFUSED"
        <4>1. Seen(e, m) = Nobody(FALSE, e.me)
          BY <1>1, <3>1, <3>2, <3>4 DEF Seen
        <4>2. Keeps(e, srv, Nobody(FALSE, e.me), srv')
          BY <1>1, <3>1 DEF Keeps, Right, Nobody
        <4> QED BY <1>3, <1>4, <3>2, <4>1, <4>2 DEF Said
      <3> QED BY <3>3, <3>4
    <2>3. CASE /\ ~ OnIt
               /\ srv' = [srv EXCEPT !.in = @ \cup {srv.me}, !.ops = IF srv.in = {} THEN {srv.me} ELSE @]
               /\ down' = down \o <<[op |-> "JOIN", nick |-> srv.me], [op |-> "NAMES"]>>
      <3> DEFINE j == [op |-> "JOIN", nick |-> srv.me]
                 n == [op |-> "NAMES"]
                 f == Nobody(TRUE, srv.me)
      <3>1. j \in Msg /\ j.op = "JOIN" /\ j.nick = srv.me /\ n \in Msg /\ n.op = "NAMES"
        BY <1>1 DEF Msg, Message
      <3>2. /\ f.on /\ f.nicks = {} /\ f.ops = {} /\ ~ f.have_op /\ f.me = srv.me /\ f \in Views
        BY <1>1 DEF Nobody, Views
      <3>3. srv'.me = srv.me /\ srv'.in = srv.in \cup {srv.me}
        BY <1>1, <2>3 DEF ServerChannel
      <3>4. down' = Append(Append(down, j), n) /\ Append(down, j) \in Seq(Msg)
        <4>1. down' = down \o <<j, n>>
          BY <2>3
        <4> HIDE DEF j, n
        <4> QED BY <1>1, <3>1, <4>1
      <3> HIDE DEF j, n, f
      <3>5. Seen(e, j) = f /\ Echo(e, j)
        BY <1>1, <3>1 DEF Seen, Right, Echo, f
      <3>6. Seen(f, n) = f
        BY <3>1 DEF Seen
      <3>7. Replay(v, Append(down, j), f, TRUE)
        <4>1. Replay(v, Append(down, j), Seen(e, j), asks \/ Echo(e, j))
          BY <1>1, <3>1, ReplayMore DEF Foretold
        <4>2. (asks \/ Echo(e, j)) = TRUE
          BY <3>5
        <4> QED BY <3>5, <4>1, <4>2
      <3>8. Replay(v, down', f, TRUE)
        <4>1. Replay(v, Append(Append(down, j), n), Seen(f, n), TRUE \/ Echo(f, n))
          BY <3>1, <3>2, <3>4, <3>7, ReplayMore
        <4>2. (TRUE \/ Echo(f, n)) = TRUE
          OBVIOUS
        <4> QED BY <3>4, <3>6, <4>1, <4>2
      <3>9. Right(f, srv')
        BY <3>2, <3>3 DEF Right
      <3>10. Foretold(v, down', up', srv', f, TRUE)
        BY <3>8, <3>9 DEF Foretold
      <3> QED BY <3>2, <3>10
    <2> QED BY <1>4, <2>1, <2>2, <2>3 DEF ServeJoin
  <1>5. ASSUME Head(up) = "PART", ServePart PROVE Goal
    <2> DEFINE m == [op |-> "PART", nick |-> srv.me]
    <2>1. m \in Msg /\ m.op = "PART" /\ m.nick = srv.me
      BY <1>1 DEF Msg, Message
    <2>2. /\ srv'.in = srv.in \ {srv.me} /\ srv'.me = srv.me /\ srv'.ops = srv.ops \ {srv.me}
          /\ down' = IF OnIt THEN Append(down, m) ELSE down
      BY <1>1, <1>5, LeftType DEF ServePart, Tell, SrvOK
    <2> HIDE DEF m
    <2>3. CASE e.on
      <3>1. Seen(e, m) = Nobody(FALSE, e.me)
        BY <1>1, <2>1 DEF Seen, Right
      <3>2. Keeps(e, srv, Nobody(FALSE, e.me), srv')
        BY <1>1, <2>2 DEF Keeps, Right, Nobody
      <3>3. Said(e)
        BY <1>1, <2>1, <2>2, <2>3, <3>1, <3>2 DEF Said
      <3> QED BY <1>3, <1>5, <3>3
    <2>4. CASE ~ e.on
      <3>1. Keeps(e, srv, e, srv')
        BY <1>1, <2>2, <2>4 DEF Keeps, Right
      <3>2. Said(e)
        BY <1>1, <2>2, <2>4, <3>1 DEF Said
      <3> QED BY <1>3, <1>5, <3>2
    <2> QED BY <2>3, <2>4
  <1>6. ASSUME Head(up) \in {"MODE", "BANS"}, down' = Append(down, Answer), srv' = srv PROVE Goal
    <2> DEFINE m == Answer
    <2>1. m \in Msg /\ m.op \in {"MODE", "BANS"}
      BY <1>1, <1>6 DEF Answer, Msg, Message, ServerChannel
    <2> HIDE DEF m
    <2>2. Seen(e, m) = e
      BY <2>1 DEF Seen
    <2>3. Keeps(e, srv, e, srv') /\ down' = Append(down, m)
      BY <1>1, <1>6 DEF Keeps, m
    <2>4. Said(e)
      BY <2>1, <2>2, <2>3 DEF Said
    <2> QED BY <1>3, <1>6, <2>4
  <1>7. ASSUME Head(up) = "WHO", down' = Append(down, Answer), srv' = srv PROVE Goal
    <2> DEFINE m == Answer
               f == Seen(e, m)
    <2>1. m \in Msg /\ m.op = "WHO" /\ m.nicks = srv.in /\ m.ops = srv.ops
      BY <1>1, <1>7 DEF Answer, Msg, Message, ServerChannel
    <2>2. down' = Append(down, m)
      BY <1>7
    <2> HIDE DEF m
    <2>3. f \in Views
      BY <2>1, SeenType
    <2>4. f = Learns(e, srv.in, srv.ops) /\ ~ Echo(e, m)
      BY <2>1 DEF Seen, Echo
    <2>5. Replay(v, down', f, asks)
      <3>1. Replay(v, Append(down, m), Seen(e, m), asks \/ Echo(e, m))
        BY <1>1, <2>1, ReplayMore DEF Foretold
      <3>2. (asks \/ Echo(e, m)) = asks
        BY <2>4
      <3> QED BY <2>2, <3>1, <3>2
    <2> HIDE DEF f
    <2>6. Right(f, srv')
      BY <1>1, <1>7, <2>4 DEF Right, Learns
    <2>7. f.on => Whole(f, srv')
      BY <1>1, <1>7, <2>4 DEF Right, Whole, Learns
    <2>8. Foretold(v, down', up', srv', f, asks)
      BY <2>5, <2>6, <2>7 DEF Foretold
    <2> QED BY <2>3, <2>8
  <1> QED BY <1>4, <1>5, <1>6, <1>7 DEF Serve

(* The client reads a message. *)
LEMMA DeliverForetold ==
  ASSUME TInv, Deliver, NEW e \in Views, NEW asks \in BOOLEAN,
         Foretold(View, down, up, srv, e, asks)
  PROVE  \E rest \in BOOLEAN : Foretold(View', down', up', srv', e, rest)
  <1> DEFINE m == Head(down)
  <1>1. /\ View \in Views /\ down \in Seq(Msg) /\ up \in Seq(Command) /\ down # <<>>
        /\ down' = Tail(down) /\ srv' = srv /\ View' = Seen(View, m)
    BY ViewType, DeliverSeen DEF TInv, Deliver
  <1>2. Replay(View, down, e, asks) /\ Right(e, srv)
        /\ (e.on => Whole(e, srv) \/ asks \/ AsksWho(up))
    BY DEF Foretold
  <1>3. PICK rest \in BOOLEAN : /\ Replay(Seen(View, m), Tail(down), e, rest)
                                /\ asks => rest \/ Echo(View, m)
    BY <1>1, <1>2, ReplayRest
  <1>4. up' = up \/ up' = Append(up, "JOIN") \/ up' = up \o Asked
    BY DEF Deliver, p_channel, JoinMe, p_part, p_kick, check_auto_join, p_nick, p_mode, GotNames,
           funny_mode, BanList, add_user_who, cannot_join_channel
  <1>5. AsksWho(up) => AsksWho(up')
    <2>1. "JOIN" \in Command
      BY DEF Command
    <2> QED BY <1>1, <1>4, <2>1, AppendAsks, EchoAsks
  <1>6. Echo(View, m) => AsksWho(up')
    <2> SUFFICES ASSUME Echo(View, m) PROVE AsksWho(up')
      OBVIOUS
    <2>1. m.op = "JOIN" /\ m.nick = me
      BY DEF Echo, View, ViewOf
    <2>2. p_channel(m)
      BY <2>1 DEF Deliver
    <2> HIDE DEF m
    <2>3. up' = up \o Asked
      BY <2>1, <2>2 DEF p_channel, JoinMe
    <2> QED BY <1>1, <2>3, EchoAsks
  <1> HIDE DEF m
  <1>7. Replay(View', down', e, rest) /\ Right(e, srv')
    BY <1>1, <1>2, <1>3
  <1>8. e.on => Whole(e, srv') \/ rest \/ AsksWho(up')
    BY <1>1, <1>2, <1>3, <1>5, <1>6
  <1> QED BY <1>7, <1>8 DEF Foretold

(* A connection begins with the channel off the list. *)
LEMMA FromNothing ==
  ASSUME NEW n \in Nicks, NEW c, c.me = n, n \notin c.in, NEW u
  PROVE  /\ ViewOf(NotOn, n) \in Views
         /\ Foretold(ViewOf(NotOn, n), <<>>, u, c, ViewOf(NotOn, n), FALSE)
  <1> DEFINE v == ViewOf(NotOn, n)
  <1>1. v = Nobody(FALSE, n)
    BY DEF ViewOf, NotOn, Cleared, Nobody
  <1> HIDE DEF v
  <1>2. v \in Views
    BY <1>1 DEF Nobody, Views
  <1>3. Replay(v, <<>>, v, FALSE)
    BY <1>2, ReplayNothing
  <1>4. Right(v, c) /\ ~ v.on
    BY <1>1 DEF Right, Nobody
  <1>5. Foretold(v, <<>>, u, c, v, FALSE)
    BY <1>3, <1>4 DEF Foretold
  <1> QED BY <1>2, <1>5 DEF v

LEMMA InitMInv == Init => MInv
  <1> SUFFICES ASSUME Init PROVE MInv
    OBVIOUS
  <1>1. TInv
    BY InitTInv
  <1>2. srv.me \notin srv.in /\ chan = NotOn /\ me = srv.me /\ down = <<>> /\ up = <<>>
    BY DEF Init
  <1>3. \E e \in Views, asks \in BOOLEAN : Foretold(View, down, up, srv, e, asks)
    <2>1. me \in Nicks /\ View = ViewOf(NotOn, me)
      BY <1>1, <1>2 DEF TInv, View
    <2> QED BY <1>2, <2>1, FromNothing
  <1> QED BY <1>1, <1>2, <1>3 DEF MInv

LEMMA NextMInv == MInv /\ [Next]_vars => MInv'
  <1> SUFFICES ASSUME MInv, [Next]_vars PROVE MInv'
    OBVIOUS
  <1> DEFINE Told == \E e \in Views, asks \in BOOLEAN : Foretold(View, down, up, srv, e, asks)
  <1>1. TInv /\ TInv' /\ (~ linked => up = <<>> /\ down = <<>>) /\ (linked => Told)
    BY NextTInv DEF MInv
  <1>2. SUFFICES (~ linked' => up' = <<>> /\ down' = <<>>) /\ (linked' => Told')
    BY <1>1 DEF MInv
  <1>3. View \in Views /\ down \in Seq(Msg) /\ up \in Seq(Command)
    BY <1>1, ViewType DEF TInv
  <1>4. CASE Others
    <2>1. /\ linked' = linked /\ up' = up /\ View' = View
          /\ \/ \E n \in Nicks : OtherJoins(n) \/ OtherLeaves(n) \/ OpChanges(n)
             \/ Kicked \/ Invited \/ ModeChanges
             \/ \E old, new \in Nicks : Renamed(old, new)
      BY <1>4 DEF Others, View
    <2>2. CASE linked
      <3>1. PICK e \in Views, asks \in BOOLEAN : Foretold(View, down, up, srv, e, asks)
        BY <1>1, <2>2
      <3>2. Said(e)
        BY <1>1, <2>1, <2>2, <3>1, OthersSay DEF Foretold
      <3>3. \E f \in Views, more \in BOOLEAN : Foretold(View, down', up, srv', f, more)
        BY <1>3, <3>1, <3>2, SaidForetold
      <3>4. Told'
        BY <2>1, <3>3
      <3> QED BY <2>1, <2>2, <3>4
    <2>3. CASE ~ linked
      <3>1. down' = down
        BY <2>1, <2>3 DEF OtherJoins, OtherLeaves, OpChanges, Kicked, Invited, ModeChanges, Renamed,
                          Tell, OnIt
      <3> QED BY <1>1, <2>1, <2>3, <3>1
    <2> QED BY <2>2, <2>3
  <1>5. CASE Serve
    <2>1. linked' = linked /\ View' = View /\ up # <<>>
      BY <1>5 DEF Serve, View
    <2>2. linked
      BY <1>1, <2>1
    <2>3. PICK e \in Views, asks \in BOOLEAN : Foretold(View, down, up, srv, e, asks)
      BY <1>1, <2>2
    <2>4. \E f \in Views, more \in BOOLEAN : Foretold(View, down', up', srv', f, more)
      BY <1>1, <1>3, <1>5, <2>2, <2>3, ServeSay
    <2> QED BY <2>1, <2>2, <2>4
  <1>6. CASE Deliver
    <2>1. linked' = linked /\ down # <<>>
      BY <1>6 DEF Deliver
    <2>2. linked
      BY <1>1, <2>1
    <2>3. PICK e \in Views, asks \in BOOLEAN : Foretold(View, down, up, srv, e, asks)
      BY <1>1, <2>2
    <2>4. \E rest \in BOOLEAN : Foretold(View', down', up', srv', e, rest)
      BY <1>1, <1>6, <2>3, DeliverForetold
    <2> QED BY <2>1, <2>2, <2>4
  <1>7. CASE User
    <2>1. CASE e_channel \/ Part
      <3>1. PICK c \in Command : up' = Append(up, c)
        BY <2>1 DEF e_channel, Part, Command
      <3>2. linked /\ linked' = linked /\ View' = View /\ UNCHANGED <<srv, down>>
        BY <2>1 DEF e_channel, Part, View
      <3>3. PICK e \in Views, asks \in BOOLEAN : Foretold(View, down, up, srv, e, asks)
        BY <1>1, <3>2
      <3>4. AsksWho(up) => AsksWho(up')
        BY <1>3, <3>1, AppendAsks
      <3>5. Foretold(View', down', up', srv', e, asks)
        BY <3>2, <3>3, <3>4 DEF Foretold
      <3> QED BY <3>2, <3>5
    <2>2. CASE SwitchWindow
      BY <1>1, <2>2 DEF SwitchWindow, View
    <2>3. CASE Lost
      BY <2>3 DEF Lost
    <2> QED BY <1>7, <2>1, <2>2, <2>3 DEF User
  <1>8. CASE Reconnect
    <2>1. /\ ~ linked /\ linked' = TRUE /\ chan' = NotOn /\ srv' = [srv EXCEPT !.me = me']
          /\ me' \in IF me \in srv.in THEN Nicks \ srv.in ELSE {me}
          /\ down' = down
      BY <1>8 DEF Reconnect, reconnect_all_channels
    <2>2. srv \in ServerChannel
      BY <1>1 DEF TInv, SrvOK
    <2>3. srv'.me = me' /\ srv'.in = srv.in /\ me' \notin srv.in
      BY <2>1, <2>2 DEF ServerChannel
    <2>4. down' = <<>>
      BY <1>1, <2>1
    <2>5. Told'
      <3>1. me' \in Nicks /\ View' = ViewOf(NotOn, me')
        BY <1>1, <2>1 DEF TInv, View
      <3>2. View' \in Views /\ Foretold(View', down', up', srv', View', FALSE)
        BY <2>3, <2>4, <3>1, FromNothing
      <3> QED BY <3>2
    <2> QED BY <2>1, <2>5
  <1>9. CASE UNCHANGED vars
    BY <1>1, <1>9 DEF vars, View
  <1> QED BY <1>4, <1>5, <1>6, <1>7, <1>8, <1>9 DEF Next

(***************************************************************************)
(* However many nicknames there are, however often the client joins, is    *)
(* kicked or loses its connection, and whatever the others do meanwhile:   *)
(* when all commands are answered and all answers read, the client has the *)
(* channel on its list exactly when it is on it, with the right members,   *)
(* operators and status of its own.                                        *)
(***************************************************************************)
THEOREM MembersAgree == Spec => []MembersMatch
  BY InitMInv, NextMInv, MInvMatch, PTL DEF Spec

-----------------------------------------------------------------------------
(***************************************************************************)
(* Joins.  The same for the modes, the bans and the replies that have come *)
(* for the join: what they will be when all is read can be foretold from   *)
(* what they are, unless the entry of join_list is a stale one.            *)
(***************************************************************************)

(* twice: a ban was set while the bans were asked for *)
Details == [got : SUBSET Info, mode : BOOLEAN, bans : Nat, twice : BOOLEAN]

Begun == [got |-> {}, mode |-> FALSE, bans |-> 0, twice |-> FALSE]

(* a reply is applied while something is still awaited *)
NotesReply(k, m) ==
    [got   |-> k.got \cup {m.op},
     mode  |-> k.mode \/ (m.op = "MODE" /\ k.got # Info /\ m.set),
     bans  |-> IF m.op = "BANS" /\ k.got # Info /\ m.set THEN k.bans + 1 ELSE k.bans,
     twice |-> k.twice]

(* the details that the message m makes of k, with the view v *)
Notes(v, k, m) ==
    IF Echo(v, m) THEN Begun
    ELSE IF m.op \in Info THEN NotesReply(k, m)
    ELSE IF m.op \in {"+i", "-i"} THEN [k EXCEPT !.mode = m.op = "+i"]
    ELSE IF m.op = "+b" THEN [k EXCEPT !.bans = IF @ = 0 THEN 1 ELSE @, !.twice = @ \/ "BANS" \notin k.got]
    ELSE IF m.op = "-b" THEN [k EXCEPT !.bans = IF @ = 0 THEN 0 ELSE @ - 1]
    ELSE IF m.op = "REFUSED" /\ v.on /\ v.me \in v.nicks THEN [k EXCEPT !.got = Info]
    ELSE k

(* a view and its details; those of a channel that is off the list are anything *)
Lists == [view : Views, det : Details]

Listed(v, k) == [view |-> v, det |-> k]

Takes(s, m) ==
    Listed(Seen(s.view, m),
           IF s.view.on \/ Echo(s.view, m) THEN Notes(s.view, s.det, m) ELSE s.det)

LEMMA NotesType ==
  ASSUME NEW v, NEW k \in Details, NEW m \in Msg PROVE Notes(v, k, m) \in Details
  <1>1. /\ k.got \in SUBSET Info /\ k.mode \in BOOLEAN /\ k.bans \in Nat /\ k.twice \in BOOLEAN
    BY DEF Details
  <1>2. Begun \in Details
    BY DEF Begun, Details
  <1>3. m.op \in Info => NotesReply(k, m) \in Details
    <2>1. (IF m.op = "BANS" /\ k.got # Info /\ m.set THEN k.bans + 1 ELSE k.bans) \in Nat
      BY <1>1
    <2>2. (k.mode \/ (m.op = "MODE" /\ k.got # Info /\ m.set)) \in BOOLEAN
      OBVIOUS
    <2>3. m.op \in Info => k.got \cup {m.op} \in SUBSET Info
      BY <1>1
    <2> QED BY <1>1, <2>1, <2>2, <2>3 DEF NotesReply, Details
  <1>4. \A b \in BOOLEAN : [k EXCEPT !.mode = b] \in Details
    BY DEF Details
  <1>5. \A n \in Nat, b \in BOOLEAN : [k EXCEPT !.bans = n, !.twice = b] \in Details
                                      /\ [k EXCEPT !.bans = n] \in Details
    BY DEF Details
  <1>6. [k EXCEPT !.got = Info] \in Details
    BY DEF Details
  <1>7. /\ (IF k.bans = 0 THEN 1 ELSE k.bans) \in Nat
        /\ (IF k.bans = 0 THEN 0 ELSE k.bans - 1) \in Nat
        /\ (k.twice \/ "BANS" \notin k.got) \in BOOLEAN /\ (m.op = "+i") \in BOOLEAN
    BY <1>1
  <1> QED BY <1>2, <1>3, <1>4, <1>5, <1>6, <1>7 DEF Notes

LEMMA ListedType ==
  ASSUME NEW v \in Views, NEW k \in Details
  PROVE  Listed(v, k) \in Lists /\ Listed(v, k).view = v /\ Listed(v, k).det = k
  BY DEF Listed, Lists

LEMMA TakesType ==
  ASSUME NEW s \in Lists, NEW m \in Msg
  PROVE  /\ Takes(s, m) \in Lists /\ Takes(s, m).view = Seen(s.view, m)
         /\ Takes(s, m).det = IF s.view.on \/ Echo(s.view, m) THEN Notes(s.view, s.det, m) ELSE s.det
  <1>1. s.view \in Views /\ s.det \in Details
    BY DEF Lists
  <1>2. Seen(s.view, m) \in Views /\ Notes(s.view, s.det, m) \in Details
    BY <1>1, SeenType, NotesType
  <1> QED BY <1>1, <1>2, ListedType DEF Takes

(* the messages d take the list s to e, one after the other *)
Follows(s, d, e) ==
    \E t \in [1..(Len(d) + 1) -> Lists] :
        /\ t[1] = s /\ t[Len(d) + 1] = e
        /\ \A i \in 1..Len(d) : t[i + 1] = Takes(t[i], d[i])

LEMMA FollowsNothing ==
  ASSUME NEW s \in Lists PROVE Follows(s, <<>>, s)
  <1> DEFINE t == [i \in 1..(Len(<<>>) + 1) |-> s]
  <1>1. t \in [1..(Len(<<>>) + 1) -> Lists] /\ Len(<<>>) = 0
    OBVIOUS
  <1>2. t[1] = s /\ t[Len(<<>>) + 1] = s
    BY <1>1
  <1> HIDE DEF t
  <1> QED BY <1>1, <1>2 DEF Follows

LEMMA FollowsMore ==
  ASSUME NEW s \in Lists, NEW d \in Seq(Msg), NEW e \in Lists, Follows(s, d, e), NEW m \in Msg
  PROVE  Follows(s, Append(d, m), Takes(e, m))
  <1>1. PICK t \in [1..(Len(d) + 1) -> Lists] :
           /\ t[1] = s /\ t[Len(d) + 1] = e
           /\ \A i \in 1..Len(d) : t[i + 1] = Takes(t[i], d[i])
    BY DEF Follows
  <1> DEFINE n == Len(d)
             b == Append(d, m)
             r == [i \in 1..(n + 2) |-> IF i <= n + 1 THEN t[i] ELSE Takes(e, m)]
  <1>2. /\ n \in Nat /\ Len(b) = n + 1 /\ b[n + 1] = m
        /\ \A i \in 1..n : b[i] = d[i]
    OBVIOUS
  <1>3. Takes(e, m) \in Lists
    BY TakesType
  <1>4. Len(b) + 1 = n + 2
    BY <1>2
  <1>5. r \in [1..(Len(b) + 1) -> Lists]
    <2>1. \A i \in 1..(n + 2) : i <= n + 1 => i \in 1..(n + 1)
      BY <1>2
    <2> HIDE DEF n, b
    <2> QED BY <1>1, <1>3, <1>4, <2>1 DEF n
  <1>6. /\ \A i \in 1..(n + 1) : r[i] = t[i]
        /\ r[n + 2] = Takes(e, m)
    BY <1>2
  <1> HIDE DEF r, b, n
  <1>7. r[1] = s /\ r[Len(b) + 1] = Takes(e, m) /\ r[n + 1] = e
    BY <1>1, <1>2, <1>4, <1>6 DEF n
  <1>8. ASSUME NEW i \in 1..Len(b) PROVE r[i + 1] = Takes(r[i], b[i])
    <2>1. CASE i = n + 1
      BY <1>2, <1>6, <1>7, <2>1
    <2>2. CASE i # n + 1
      <3>1. i \in 1..n /\ i \in 1..(n + 1) /\ i + 1 \in 1..(n + 1)
        BY <1>2, <2>2
      <3> QED BY <1>1, <1>2, <1>6, <3>1 DEF n
    <2> QED BY <2>1, <2>2
  <1>9. Follows(s, b, Takes(e, m))
    BY <1>5, <1>7, <1>8 DEF Follows
  <1> QED BY <1>9 DEF b

LEMMA FollowsRest ==
  ASSUME NEW s \in Lists, NEW d \in Seq(Msg), d # <<>>, NEW e \in Lists, Follows(s, d, e)
  PROVE  Follows(Takes(s, Head(d)), Tail(d), e)
  <1>1. PICK t \in [1..(Len(d) + 1) -> Lists] :
           /\ t[1] = s /\ t[Len(d) + 1] = e
           /\ \A i \in 1..Len(d) : t[i + 1] = Takes(t[i], d[i])
    BY DEF Follows
  <1> DEFINE n == Len(d)
             b == Tail(d)
             r == [i \in 1..n |-> t[i + 1]]
  <1>2. /\ n \in Nat \ {0} /\ Len(b) = n - 1 /\ Head(d) = d[1]
        /\ \A i \in 1..(n - 1) : b[i] = d[i + 1]
    OBVIOUS
  <1>3. Len(b) + 1 = n
    BY <1>2
  <1>4. r \in [1..(Len(b) + 1) -> Lists]
    <2>1. \A i \in 1..n : i + 1 \in 1..(n + 1)
      BY <1>2
    <2> HIDE DEF b
    <2> QED BY <1>1, <1>3, <2>1
  <1>5. \A i \in 1..n : r[i] = t[i + 1]
    OBVIOUS
  <1> HIDE DEF r, b, n
  <1>6. r[1] = Takes(s, Head(d)) /\ r[Len(b) + 1] = e
    <2>1. 1 \in 1..n /\ n \in 1..n
      BY <1>2
    <2> QED BY <1>1, <1>2, <1>3, <1>5, <2>1 DEF n
  <1>7. \A i \in 1..Len(b) : r[i + 1] = Takes(r[i], b[i])
    <2>1. \A i \in 1..(n - 1) : i \in 1..n /\ i + 1 \in 1..n
      BY <1>2
    <2> QED BY <1>1, <1>2, <1>5, <2>1 DEF n
  <1>8. Follows(Takes(s, Head(d)), b, e)
    BY <1>4, <1>6, <1>7 DEF Follows
  <1> QED BY <1>8 DEF b

LEMMA FollowsEnd ==
  ASSUME NEW s, NEW e, Follows(s, <<>>, e) PROVE e = s
  <1>1. Len(<<>>) = 0 /\ 0 + 1 = 1
    OBVIOUS
  <1> QED BY <1>1 DEF Follows

-----------------------------------------------------------------------------
(* What the handlers do to the details *)

(* the details can be told from what has come *)
Fresh == chan.on /\ "stale" \notin trouble

Now == [got  |-> IF joining THEN gotinfo ELSE Info, mode |-> chan.mode, bans |-> chan.bans,
        twice |-> "twice" \in trouble]

LEMMA NowType == ASSUME TInv PROVE Now \in Details
  <1>1. gotinfo \in SUBSET Info /\ chan.mode \in BOOLEAN /\ chan.bans \in Nat
    BY DEF TInv, JoinOK, ChanOK, ChannelList
  <1> QED BY <1>1 DEF Now, Details

(* got_info() is told of the reply m, which has changed the list to c *)
LEMMA GotNotes ==
  ASSUME TInv, NEW m \in Msg, m.op \in Info, got_info(m.op, chan), chan.on,
         chan'.mode = (chan.mode \/ (joining /\ m.op = "MODE" /\ m.set)),
         chan'.bans = (IF joining /\ m.op = "BANS" /\ m.set THEN chan.bans + 1 ELSE chan.bans),
         trouble' = trouble, announced => ~ joining
  PROVE  Now' = NotesReply(Now, m) /\ (announced' => ~ joining')
  <1>1. /\ joining \in BOOLEAN /\ gotinfo \in SUBSET Info /\ gotinfo # Info /\ (gotinfo # {} => joining)
        /\ chan.mode \in BOOLEAN /\ chan.bans \in Nat
    BY DEF TInv, JoinOK, ChanOK, ChannelList
  <1>2. /\ Now.got = (IF joining THEN gotinfo ELSE Info) /\ Now.mode = chan.mode
        /\ Now.bans = chan.bans /\ Now.twice = ("twice" \in trouble)
    BY DEF Now
  <1>3. Now'.got = Now.got \cup {m.op}
    <2>1. Now'.got = IF joining' THEN gotinfo' ELSE Info
      BY DEF Now
    <2>2. CASE ~ joining
      <3>1. joining' = joining
        BY <2>2 DEF got_info
      <3> QED BY <1>1, <1>2, <2>1, <2>2, <3>1
    <2>3. CASE joining /\ gotinfo \cup {m.op} # Info
      <3>1. joining' = joining /\ gotinfo' = gotinfo \cup {m.op}
        BY <2>3 DEF got_info
      <3> QED BY <1>2, <2>1, <2>3, <3>1
    <2>4. CASE joining /\ gotinfo \cup {m.op} = Info
      <3>1. joining' = FALSE
        BY <2>4 DEF got_info
      <3> QED BY <1>2, <2>1, <2>4, <3>1
    <2> QED BY <1>1, <2>2, <2>3, <2>4
  <1>4. Now.got # Info <=> joining
    BY <1>1, <1>2
  <1>5. Now' = [got |-> Now'.got, mode |-> chan'.mode, bans |-> chan'.bans, twice |-> "twice" \in trouble']
    BY DEF Now
  <1>6. chan'.mode = (Now.mode \/ (m.op = "MODE" /\ Now.got # Info /\ m.set))
    BY <1>2, <1>4
  <1>7. chan'.bans = IF m.op = "BANS" /\ Now.got # Info /\ m.set THEN Now.bans + 1 ELSE Now.bans
    BY <1>2, <1>4
  <1>8. Now' = NotesReply(Now, m)
    BY <1>2, <1>3, <1>5, <1>6, <1>7 DEF NotesReply
  <1>9. announced' => ~ joining'
    BY <1>1 DEF got_info
  <1> QED BY <1>8, <1>9

(* The handlers do to the details what Notes() says. *)
LEMMA DeliverNotes ==
  ASSUME TInv, Deliver, Fresh', Fresh /\ announced => ~ joining
  PROVE  /\ Fresh \/ Echo(View, Head(down))
         /\ View.on \/ Echo(View, Head(down))
         /\ Now' = Notes(View, Now, Head(down))
         /\ announced' => ~ joining'
  <1> DEFINE m == Head(down)
  <1>1. /\ chan \in ChannelList /\ ChanOK(chan) /\ down # <<>> /\ down \in Seq(Msg)
        /\ joining \in BOOLEAN /\ gotinfo \in SUBSET Info /\ trouble \subseteq {"stale", "twice"}
    BY DEF TInv, ChanOK, JoinOK, Deliver
  <1>2. m \in Msg
    BY <1>1
  <1>3. \/ m.op = "JOIN" /\ p_channel(m)
        \/ m.op = "PART" /\ p_part(m)
        \/ m.op = "KICK" /\ p_kick
        \/ m.op = "INVITE" /\ check_auto_join
        \/ m.op = "NICK" /\ p_nick(m)
        \/ m.op \in Letters /\ p_mode(m)
        \/ m.op = "NAMES" /\ GotNames
        \/ m.op = "MODE" /\ funny_mode(m)
        \/ m.op = "BANS" /\ BanList(m)
        \/ m.op = "WHO" /\ add_user_who(m)
        \/ m.op = "REFUSED" /\ cannot_join_channel
        \/ m.op = "TOOMANY" /\ UNCHANGED <<chan, me, up, joining, gotinfo, announced, trouble>>
    BY DEF Deliver, Letters
  <1> HIDE DEF m
  <1>4. View.me = me /\ View.on = chan.on /\ View.nicks = chan.nicks
    BY DEF View, ViewOf
  <1>5. /\ Now.got = (IF joining THEN gotinfo ELSE Info) /\ Now.mode = chan.mode
        /\ Now.bans = chan.bans /\ Now.twice = ("twice" \in trouble)
        /\ Now \in Details
    BY NowType DEF Now
  <1>6. chan'.on /\ "stale" \notin trouble'
    BY DEF Fresh
  <1> DEFINE Goal == /\ Fresh \/ Echo(View, m)
                     /\ View.on \/ Echo(View, m)
                     /\ Now' = Notes(View, Now, m)
                     /\ announced' => ~ joining'
  (* nothing but the members changes *)
  <1>7. ASSUME chan.on, chan'.mode = chan.mode, chan'.bans = chan.bans,
               UNCHANGED <<joining, gotinfo, announced, trouble>>, ~ Echo(View, m),
               m.op \notin Info \cup {"+i", "-i", "+b", "-b", "REFUSED"}
        PROVE  Goal
    <2>1. Now' = Now /\ Fresh
      BY <1>6, <1>7 DEF Now, Fresh
    <2>2. Notes(View, Now, m) = Now
      BY <1>7 DEF Notes
    <2> QED BY <1>4, <1>7, <2>1, <2>2
  <1>8. \A o \in {"JOIN", "PART", "KICK", "INVITE", "NICK", "+o", "-o", "TOOMANY"} :
           o \notin Info \cup {"+i", "-i", "+b", "-b", "REFUSED"}
    BY DEF Info
  <1>9. ASSUME m.op = "JOIN", p_channel(m) PROVE Goal
    <2>1. CASE m.nick = me
      <3>1. /\ add_to_join_list /\ chan' = Cleared /\ announced' = FALSE
            /\ trouble' = IF gotinfo # {} THEN {"stale"} ELSE {}
        BY <1>9, <2>1 DEF p_channel, JoinMe, add_channel
      <3>2. gotinfo = {} /\ trouble' = {}
        BY <1>6, <3>1
      <3>3. joining' = TRUE /\ gotinfo' = {}
        BY <3>1, <3>2 DEF add_to_join_list
      <3>4. chan'.mode = FALSE /\ chan'.bans = 0
        BY <3>1 DEF Cleared
      <3>5. Now' = Begun
        <4>1. Now' = [got |-> IF joining' THEN gotinfo' ELSE Info, mode |-> chan'.mode,
                      bans |-> chan'.bans, twice |-> "twice" \in trouble']
          BY DEF Now
        <4>2. ("twice" \in trouble') = FALSE
          BY <3>2
        <4> QED BY <3>3, <3>4, <4>1, <4>2 DEF Begun
      <3>6. Echo(View, m)
        BY <1>4, <1>9, <2>1 DEF Echo
      <3> QED BY <3>1, <3>5, <3>6 DEF Notes
    <2>2. CASE m.nick # me
      <3>1. chan' = add_to_channel({m.nick}, {}) /\ UNCHANGED <<joining, gotinfo, announced, trouble>>
        BY <1>9, <2>2 DEF p_channel
      <3>2. chan.on /\ chan'.mode = chan.mode /\ chan'.bans = chan.bans
        BY <1>1, <1>6, <3>1 DEF add_to_channel, ChannelList
      <3>3. ~ Echo(View, m)
        BY <1>4, <2>2 DEF Echo
      <3> QED BY <1>7, <1>8, <1>9, <3>1, <3>2, <3>3
    <2> QED BY <2>1, <2>2
  <1>10. m.op # "JOIN" => ~ Echo(View, m)
    BY DEF Echo
  <1>11. ASSUME m.op = "PART", p_part(m) PROVE Goal
    <2>1. chan' # NotOn
      BY <1>6 DEF NotOn, Cleared
    <2>2. chan' = remove_from_channel(m.nick) /\ UNCHANGED <<joining, gotinfo, announced, trouble>>
      BY <1>11, <2>1 DEF p_part
    <2>3. chan.on /\ chan'.mode = chan.mode /\ chan'.bans = chan.bans
      BY <1>1, <1>6, <2>2 DEF remove_from_channel, ChannelList
    <2> QED BY <1>7, <1>8, <1>10, <1>11, <2>2, <2>3
  <1>12. ASSUME p_kick PROVE Goal
    <2>1. chan' = NotOn
      BY <1>12 DEF p_kick
    <2> QED BY <1>6, <2>1 DEF NotOn, Cleared
  <1>13. ASSUME m.op = "INVITE", check_auto_join PROVE Goal
    <2>1. chan' = chan /\ UNCHANGED <<announced, trouble>>
      BY <1>13 DEF check_auto_join
    <2>2. UNCHANGED <<joining, gotinfo>>
      BY <1>6, <1>13, <2>1 DEF check_auto_join
    <2> QED BY <1>6, <1>7, <1>8, <1>10, <1>13, <2>1, <2>2
  <1>14. ASSUME m.op = "NICK", p_nick(m) PROVE Goal
    <2>1. chan' = rename_nick(m.nick, m.to) /\ UNCHANGED <<joining, gotinfo, announced, trouble>>
      BY <1>14 DEF p_nick
    <2>2. chan.on /\ chan'.mode = chan.mode /\ chan'.bans = chan.bans
      BY <1>1, <1>6, <2>1 DEF rename_nick, ChannelList
    <2> QED BY <1>7, <1>8, <1>10, <1>14, <2>1, <2>2
  <1>15. ASSUME m.op \in Letters, p_mode(m) PROVE Goal
    <2>1. chan.on
      BY <1>6, <1>15 DEF p_mode
    <2>2. /\ chan' = apply_channel_modes(m) /\ UNCHANGED <<joining, gotinfo, announced>>
          /\ trouble' = IF m.op = "+b" /\ joining /\ "BANS" \notin gotinfo THEN trouble \cup {"twice"} ELSE trouble
      BY <1>15, <2>1 DEF p_mode
    <2>3. Fresh /\ (announced' => ~ joining')
      BY <1>6, <2>1, <2>2 DEF Fresh
    <2>4. Now' = [got |-> Now.got, mode |-> chan'.mode, bans |-> chan'.bans, twice |-> "twice" \in trouble']
      BY <1>5, <2>2 DEF Now
    <2>5. m.op \notin Info
      BY <1>15 DEF Letters, Info
    <2>6. Now = [got |-> Now.got, mode |-> Now.mode, bans |-> Now.bans, twice |-> Now.twice]
      BY DEF Now
    <2>7. CASE m.op \in {"+o", "-o"}
      <3>1. chan'.mode = chan.mode /\ chan'.bans = chan.bans /\ trouble' = trouble
        BY <1>1, <2>2, <2>7 DEF apply_channel_modes, ChannelList
      <3> QED BY <1>7, <1>8, <1>10, <2>1, <2>2, <2>7, <3>1
    <2>8. CASE m.op \in {"+i", "-i"}
      <3>1. chan'.mode = (m.op = "+i") /\ chan'.bans = chan.bans /\ trouble' = trouble
        BY <1>1, <2>2, <2>8 DEF apply_channel_modes, ChannelList
      <3>2. Notes(View, Now, m) = [Now EXCEPT !.mode = m.op = "+i"]
        BY <1>10, <2>5, <2>8 DEF Notes
      <3>3. [Now EXCEPT !.mode = m.op = "+i"]
               = [got |-> Now.got, mode |-> m.op = "+i", bans |-> Now.bans, twice |-> Now.twice]
        BY <2>6
      <3>4. Now' = Notes(View, Now, m)
        BY <1>5, <2>4, <3>1, <3>2, <3>3
      <3> QED BY <1>4, <2>1, <2>3, <3>4
    <2>9. CASE m.op = "+b"
      <3>1. /\ chan'.mode = chan.mode /\ chan'.bans = (IF chan.bans = 0 THEN 1 ELSE chan.bans)
        BY <1>1, <2>2, <2>9 DEF apply_channel_modes, ChannelList
      <3>2. joining /\ "BANS" \notin gotinfo <=> "BANS" \notin Now.got
        BY <1>5 DEF Info
      <3>3. ("twice" \in trouble') = (Now.twice \/ "BANS" \notin Now.got)
        <4>1. trouble' = IF "BANS" \notin Now.got THEN trouble \cup {"twice"} ELSE trouble
          BY <2>2, <2>9, <3>2
        <4>2. Now.twice = ("twice" \in trouble)
          BY <1>5
        <4>3. CASE "BANS" \notin Now.got
          <5>1. "twice" \in trouble'
            BY <4>1, <4>3
          <5> QED BY <4>3, <5>1
        <4>4. CASE "BANS" \in Now.got
          <5>1. trouble' = trouble
            BY <4>1, <4>4
          <5>2. ("twice" \in trouble) = (Now.twice \/ "BANS" \notin Now.got)
            BY <4>2, <4>4, Now.twice \in BOOLEAN DEF Now
          <5> QED BY <5>1, <5>2
        <4> QED BY <4>3, <4>4
      <3>4. Notes(View, Now, m)
               = [Now EXCEPT !.bans = IF Now.bans = 0 THEN 1 ELSE Now.bans,
                             !.twice = Now.twice \/ "BANS" \notin Now.got]
        BY <1>10, <2>5, <2>9 DEF Notes
      <3>5. Notes(View, Now, m)
               = [got |-> Now.got, mode |-> Now.mode, bans |-> IF Now.bans = 0 THEN 1 ELSE Now.bans,
                  twice |-> Now.twice \/ "BANS" \notin Now.got]
        BY <2>6, <3>4
      <3>6. Now' = Notes(View, Now, m)
        BY <1>5, <2>4, <3>1, <3>3, <3>5
      <3> QED BY <1>4, <2>1, <2>3, <3>6
    <2>10. CASE m.op = "-b"
      <3>1. /\ chan'.mode = chan.mode /\ chan'.bans = (IF chan.bans = 0 THEN 0 ELSE chan.bans - 1)
            /\ trouble' = trouble
        BY <1>1, <2>2, <2>10 DEF apply_channel_modes, ChannelList
      <3>2. Notes(View, Now, m) = [Now EXCEPT !.bans = IF Now.bans = 0 THEN 0 ELSE Now.bans - 1]
        BY <1>10, <2>5, <2>10 DEF Notes
      <3>3. Notes(View, Now, m)
               = [got |-> Now.got, mode |-> Now.mode, bans |-> IF Now.bans = 0 THEN 0 ELSE Now.bans - 1,
                  twice |-> Now.twice]
        BY <2>6, <3>2
      <3>4. Now' = Notes(View, Now, m)
        BY <1>5, <2>4, <3>1, <3>3
      <3> QED BY <1>4, <2>1, <2>3, <3>4
    <2> QED BY <1>15, <2>7, <2>8, <2>9, <2>10 DEF Letters
  (* a reply *)
  <1>16. ASSUME m.op \in Info, got_info(m.op, chan), chan.on, trouble' = trouble,
                chan'.mode = (chan.mode \/ (joining /\ m.op = "MODE" /\ m.set)),
                chan'.bans = (IF joining /\ m.op = "BANS" /\ m.set THEN chan.bans + 1 ELSE chan.bans)
         PROVE  Goal
    <2>1. Fresh
      BY <1>6, <1>16 DEF Fresh
    <2>2. Now' = NotesReply(Now, m) /\ (announced' => ~ joining')
      BY <1>2, <1>16, <2>1, GotNotes
    <2>3. ~ Echo(View, m)
      BY <1>10, <1>16 DEF Info
    <2>4. Notes(View, Now, m) = NotesReply(Now, m)
      BY <1>16, <2>3 DEF Notes
    <2> QED BY <1>4, <1>16, <2>1, <2>2, <2>4
  <1>17. ASSUME m.op = "NAMES", GotNames PROVE Goal
    <2>1. chan' = chan /\ trouble' = trouble /\ got_info("NAMES", chan)
      BY <1>17 DEF GotNames
    <2>2. chan.mode \in BOOLEAN
      BY <1>1 DEF ChannelList
    <2> QED BY <1>6, <1>16, <1>17, <2>1, <2>2 DEF Info
  <1>18. ASSUME m.op = "MODE", funny_mode(m) PROVE Goal
    <2>1. trouble' = trouble /\ got_info("MODE", chan)
          /\ chan' = IF joining /\ chan.on /\ m.set THEN [chan EXCEPT !.mode = TRUE] ELSE chan
      BY <1>18 DEF funny_mode
    <2>2. chan.on
      BY <1>1, <1>6, <2>1
    <2>3. chan'.mode = (chan.mode \/ (joining /\ m.set)) /\ chan'.bans = chan.bans
      BY <1>1, <2>1, <2>2 DEF ChannelList
    <2>4. m.op \in Info /\ m.op # "BANS"
      BY <1>18 DEF Info
    <2> QED BY <1>16, <1>18, <2>1, <2>2, <2>3, <2>4
  <1>19. ASSUME m.op = "BANS", BanList(m) PROVE Goal
    <2>1. trouble' = trouble /\ got_info("BANS", chan)
          /\ chan' = IF joining /\ chan.on /\ m.set THEN [chan EXCEPT !.bans = @ + 1] ELSE chan
      BY <1>19 DEF BanList
    <2>2. chan.on
      BY <1>1, <1>6, <2>1 DEF ChannelList
    <2>3. chan'.mode = chan.mode /\ chan'.bans = IF joining /\ m.set THEN chan.bans + 1 ELSE chan.bans
      BY <1>1, <2>1, <2>2 DEF ChannelList
    <2>4. m.op \in Info /\ m.op # "MODE" /\ chan.mode \in BOOLEAN
      BY <1>1, <1>19 DEF Info, ChannelList
    <2> QED BY <1>16, <1>19, <2>1, <2>2, <2>3, <2>4
  <1>20. ASSUME m.op = "WHO", add_user_who(m) PROVE Goal
    <2>1. trouble' = trouble /\ got_info("WHO", chan) /\ chan' = add_to_channel(m.nicks, m.ops)
      BY <1>20 DEF add_user_who
    <2>2. chan.on /\ chan'.mode = chan.mode /\ chan'.bans = chan.bans
      BY <1>1, <1>6, <2>1 DEF add_to_channel, ChannelList
    <2>3. m.op \in Info /\ m.op # "MODE" /\ m.op # "BANS" /\ chan.mode \in BOOLEAN
      BY <1>1, <1>20 DEF Info, ChannelList
    <2> QED BY <1>16, <1>20, <2>1, <2>2, <2>3
  <1>21. ASSUME m.op = "REFUSED", cannot_join_channel PROVE Goal
    <2>1. /\ joining' = FALSE /\ gotinfo' = {} /\ UNCHANGED <<announced, trouble>>
          /\ chan' = IF chan.on /\ me \in chan.nicks THEN chan ELSE NotOn
      BY <1>21 DEF cannot_join_channel, remove_from_join_list, KnowsItIsOn
    <2>2. chan.on /\ me \in chan.nicks /\ chan' = chan
      BY <1>6, <2>1 DEF NotOn, Cleared
    <2>3. Notes(View, Now, m) = [Now EXCEPT !.got = Info]
      BY <1>4, <1>10, <1>21, <2>2 DEF Notes, Info
    <2>4. Now' = [got |-> Info, mode |-> chan.mode, bans |-> chan.bans, twice |-> "twice" \in trouble]
      BY <2>1, <2>2 DEF Now
    <2>5. Now' = Notes(View, Now, m)
      BY <2>3, <2>4 DEF Now
    <2> QED BY <1>4, <1>6, <2>1, <2>2, <2>5 DEF Fresh
  <1>22. ASSUME m.op = "TOOMANY", UNCHANGED <<chan, me, up, joining, gotinfo, announced, trouble>> PROVE Goal
    BY <1>6, <1>7, <1>8, <1>10, <1>22
  <1>23. Goal
    BY <1>3, <1>9, <1>11, <1>12, <1>13, <1>14, <1>15, <1>17, <1>18, <1>19, <1>20, <1>21, <1>22
  <1> QED BY <1>23 DEF m

-----------------------------------------------------------------------------
(* What the last list is worth *)

(* the replies come in the order in which they were asked for *)
Stages == {{"NAMES"}, {"NAMES", "MODE"}, {"NAMES", "MODE", "BANS"}, Info}

DetailsRight(k, c) ==
    /\ k.got \in Stages
    /\ k.mode => c.mode
    /\ "MODE" \in k.got /\ c.mode => k.mode
    /\ ~ k.twice => k.bans = IF "BANS" \in k.got /\ c.ban THEN 1 ELSE 0

(* the next command of u is the one that the details wait for *)
AsksNext(k, u) ==
    /\ k.got = {"NAMES"} => u = <<>> \/ Head(u) \notin {"BANS", "WHO"}
    /\ k.got = {"NAMES", "MODE"} => u # <<>> /\ Head(u) = "BANS"
    /\ k.got = {"NAMES", "MODE", "BANS"} => u # <<>> /\ Head(u) = "WHO"

JoinRight(e, c, u) ==
    /\ Right(e.view, c)
    /\ e.view.on => /\ DetailsRight(e.det, c) /\ AsksNext(e.det, u)
                    /\ e.det.got = Info => Whole(e.view, c)

(* MODE, BANS and WHO are sent together *)
InTurn(u) ==
    \A i \in 1..Len(u) :
        /\ u[i] = "MODE" => i < Len(u) /\ u[i + 1] = "BANS"
        /\ u[i] = "BANS" => i < Len(u) /\ u[i + 1] = "WHO"
        /\ u[i] \notin {"MODE", "BANS"} /\ i < Len(u) => u[i + 1] \notin {"BANS", "WHO"}

LEMMA InTurnTail ==
  ASSUME NEW u \in Seq(Command), u # <<>>, InTurn(u)
  PROVE  /\ InTurn(Tail(u))
         /\ Head(u) = "MODE" => Tail(u) # <<>> /\ Head(Tail(u)) = "BANS"
         /\ Head(u) = "BANS" => Tail(u) # <<>> /\ Head(Tail(u)) = "WHO"
         /\ Head(u) \notin {"MODE", "BANS"} => Tail(u) = <<>> \/ Head(Tail(u)) \notin {"BANS", "WHO"}
  <1> DEFINE b == Tail(u)
  <1>1. /\ Len(u) \in Nat \ {0} /\ b \in Seq(Command) /\ Len(b) = Len(u) - 1 /\ Head(u) = u[1]
        /\ \A i \in 1..(Len(u) - 1) : b[i] = u[i + 1]
    OBVIOUS
  <1>2. (b # <<>> <=> Len(u) > 1) /\ (b # <<>> => Head(b) = b[1])
    BY <1>1
  <1> HIDE DEF b
  <1>3. InTurn(b)
    <2> SUFFICES ASSUME NEW i \in 1..Len(b)
                 PROVE  /\ b[i] = "MODE" => i < Len(b) /\ b[i + 1] = "BANS"
                        /\ b[i] = "BANS" => i < Len(b) /\ b[i + 1] = "WHO"
                        /\ b[i] \notin {"MODE", "BANS"} /\ i < Len(b) => b[i + 1] \notin {"BANS", "WHO"}
      BY DEF InTurn
    <2>1. i + 1 \in 1..Len(u) /\ b[i] = u[i + 1]
      BY <1>1
    <2>2. (i < Len(b) <=> i + 1 < Len(u)) /\ (i < Len(b) => b[i + 1] = u[(i + 1) + 1])
      BY <1>1
    <2> QED BY <2>1, <2>2 DEF InTurn
  <1>4. 1 \in 1..Len(u) /\ (Len(u) > 1 <=> 1 < Len(u)) /\ (1 < Len(u) => b[1] = u[1 + 1])
    BY <1>1
  <1>5. /\ u[1] = "MODE" => 1 < Len(u) /\ u[1 + 1] = "BANS"
        /\ u[1] = "BANS" => 1 < Len(u) /\ u[1 + 1] = "WHO"
        /\ u[1] \notin {"MODE", "BANS"} /\ 1 < Len(u) => u[1 + 1] \notin {"BANS", "WHO"}
    BY <1>4 DEF InTurn
  <1>6. /\ Head(u) = "MODE" => b # <<>> /\ Head(b) = "BANS"
        /\ Head(u) = "BANS" => b # <<>> /\ Head(b) = "WHO"
        /\ Head(u) \notin {"MODE", "BANS"} => b = <<>> \/ Head(b) \notin {"BANS", "WHO"}
    BY <1>1, <1>2, <1>4, <1>5
  <1> QED BY <1>3, <1>6 DEF b

LEMMA InTurnAppend ==
  ASSUME NEW u \in Seq(Command), InTurn(u), NEW c \in {"JOIN", "PART"}
  PROVE  InTurn(Append(u, c))
  <1> DEFINE b == Append(u, c)
  <1>1. /\ Len(u) \in Nat /\ Len(b) = Len(u) + 1 /\ b[Len(u) + 1] = c
        /\ \A i \in 1..Len(u) : b[i] = u[i]
    OBVIOUS
  <1> HIDE DEF b
  <1>2. InTurn(b)
    <2> SUFFICES ASSUME NEW i \in 1..Len(b)
                 PROVE  /\ b[i] = "MODE" => i < Len(b) /\ b[i + 1] = "BANS"
                        /\ b[i] = "BANS" => i < Len(b) /\ b[i + 1] = "WHO"
                        /\ b[i] \notin {"MODE", "BANS"} /\ i < Len(b) => b[i + 1] \notin {"BANS", "WHO"}
      BY DEF InTurn
    <2>1. CASE i = Len(u) + 1
      BY <1>1, <2>1
    <2>2. CASE i # Len(u) + 1
      <3>1. i \in 1..Len(u) /\ b[i] = u[i] /\ i < Len(b)
        BY <1>1, <2>2
      <3>2. i < Len(u) => b[i + 1] = u[i + 1]
        BY <1>1, <3>1
      <3>3. ~ (i < Len(u)) => b[i + 1] = c
        BY <1>1, <3>1
      <3> QED BY <3>1, <3>2, <3>3 DEF InTurn
    <2> QED BY <2>1, <2>2
  <1> QED BY <1>2 DEF b

LEMMA InTurnAsked ==
  ASSUME NEW u \in Seq(Command), InTurn(u)
  PROVE  InTurn(u \o Asked)
  <1> DEFINE b == u \o Asked
             n == Len(u)
  <1>1. /\ Asked \in Seq(Command) /\ Len(Asked) = 3
        /\ Asked[1] = "MODE" /\ Asked[2] = "BANS" /\ Asked[3] = "WHO"
    BY DEF Asked, Command
  <1> HIDE DEF Asked
  <1>2. /\ n \in Nat /\ Len(b) = n + 3
        /\ \A i \in 1..(n + 3) : b[i] = IF i <= n THEN u[i] ELSE Asked[i - n]
    <2>1. /\ Len(u) \in Nat /\ Len(u \o Asked) = Len(u) + Len(Asked)
          /\ \A i \in 1..(Len(u) + Len(Asked)) :
                (u \o Asked)[i] = IF i <= Len(u) THEN u[i] ELSE Asked[i - Len(u)]
      <3>1. u \in Seq(Command) /\ Asked \in Seq(Command)
        BY <1>1
      <3> QED BY <3>1, ConcatProperties
    <2> QED BY <1>1, <2>1
  <1> HIDE DEF b, n
  <1>3. /\ \A i \in 1..n : b[i] = u[i]
        /\ b[n + 1] = "MODE" /\ b[n + 2] = "BANS" /\ b[n + 3] = "WHO"
    <2>1. /\ n + 1 \in 1..(n + 3) /\ n + 2 \in 1..(n + 3) /\ n + 3 \in 1..(n + 3)
          /\ (n + 1) - n = 1 /\ (n + 2) - n = 2 /\ (n + 3) - n = 3
          /\ ~ (n + 1 <= n) /\ ~ (n + 2 <= n) /\ ~ (n + 3 <= n)
      BY <1>2
    <2>2. \A i \in 1..n : i \in 1..(n + 3) /\ i <= n
      BY <1>2
    <2> QED BY <1>1, <1>2, <2>1, <2>2
  <1>4. InTurn(b)
    <2> SUFFICES ASSUME NEW i \in 1..Len(b)
                 PROVE  /\ b[i] = "MODE" => i < Len(b) /\ b[i + 1] = "BANS"
                        /\ b[i] = "BANS" => i < Len(b) /\ b[i + 1] = "WHO"
                        /\ b[i] \notin {"MODE", "BANS"} /\ i < Len(b) => b[i + 1] \notin {"BANS", "WHO"}
      BY DEF InTurn
    <2>1. CASE i \in 1..n
      <3>1. b[i] = u[i] /\ i < Len(b) /\ (i < n => b[i + 1] = u[i + 1]) /\ (~ (i < n) => b[i + 1] = "MODE")
        <4>1. i < n => i + 1 \in 1..n
          BY <1>2, <2>1
        <4>2. ~ (i < n) => i + 1 = n + 1
          BY <1>2, <2>1
        <4> QED BY <1>2, <1>3, <2>1, <4>1, <4>2
      <3>2. /\ u[i] = "MODE" => i < n /\ u[i + 1] = "BANS"
            /\ u[i] = "BANS" => i < n /\ u[i + 1] = "WHO"
            /\ u[i] \notin {"MODE", "BANS"} /\ i < n => u[i + 1] \notin {"BANS", "WHO"}
        BY <2>1 DEF InTurn, n
      <3> QED BY <3>1, <3>2
    <2>2. CASE i = n + 1
      <3>1. i + 1 = n + 2 /\ i < Len(b)
        BY <1>2, <2>2
      <3> QED BY <1>3, <2>2, <3>1
    <2>3. CASE i = n + 2
      <3>1. i + 1 = n + 3 /\ i < Len(b)
        BY <1>2, <2>3
      <3> QED BY <1>3, <2>3, <3>1
    <2>4. CASE i = n + 3
      <3>1. ~ (i < Len(b))
        BY <1>2, <2>4
      <3> QED BY <1>3, <2>4, <3>1
    <2>5. i \in 1..n \/ i = n + 1 \/ i = n + 2 \/ i = n + 3
      BY <1>2
    <2> QED BY <2>1, <2>2, <2>3, <2>4, <2>5
  <1> QED BY <1>4 DEF b

(* What the client sends comes after what it waits for. *)
LEMMA AsksNextGrows ==
  ASSUME NEW u \in Seq(Command), NEW u1, NEW k, AsksNext(k, u),
         u1 = u \/ u1 = u \o Asked \/ \E c \in {"JOIN", "PART"} : u1 = Append(u, c)
  PROVE  AsksNext(k, u1)
  <1>1. /\ Asked \in Seq(Command) /\ Len(Asked) = 3 /\ Asked[1] = "MODE"
    BY DEF Asked, Command
  <1> HIDE DEF Asked
  <1>2. CASE u = <<>>
    <2>1. u1 # <<>> => Head(u1) \notin {"BANS", "WHO"}
      <3>1. ASSUME u1 = u \o Asked PROVE Head(u1) = "MODE"
        <4>1. u1 = Asked
          BY <1>1, <1>2, <3>1
        <4> QED BY <1>1, <4>1
      <3>2. ASSUME NEW c \in {"JOIN", "PART"}, u1 = Append(u, c) PROVE Head(u1) = c
        BY <1>2, <3>2
      <3> QED BY <1>2, <3>1, <3>2
    <2> QED BY <1>2, <2>1 DEF AsksNext
  <1>3. CASE u # <<>>
    <2>1. u1 # <<>> /\ Head(u1) = Head(u)
      <3>1. ASSUME u1 = u \o Asked PROVE u1 # <<>> /\ Head(u1) = Head(u)
        <4>1. /\ Len(u1) = Len(u) + Len(Asked) /\ u1 \in Seq(Command)
              /\ \A i \in 1..(Len(u) + Len(Asked)) :
                    u1[i] = IF i <= Len(u) THEN u[i] ELSE Asked[i - Len(u)]
          <5>1. u \in Seq(Command) /\ Asked \in Seq(Command)
            BY <1>1
          <5> QED BY <3>1, <5>1, ConcatProperties
        <4>2. Len(u) \in Nat \ {0} /\ Head(u) = u[1]
          BY <1>3
        <4>3. 1 \in 1..(Len(u) + Len(Asked)) /\ 1 <= Len(u)
          BY <1>1, <4>2
        <4>4. u1[1] = u[1] /\ Len(u1) # 0
          BY <1>1, <4>1, <4>2, <4>3
        <4> QED BY <4>1, <4>2, <4>4
      <3>2. ASSUME NEW c \in {"JOIN", "PART"}, u1 = Append(u, c) PROVE u1 # <<>> /\ Head(u1) = Head(u)
        BY <1>3, <3>2
      <3> QED BY <1>3, <3>1, <3>2
    <2> QED BY <1>3, <2>1 DEF AsksNext
  <1> QED BY <1>2, <1>3

-----------------------------------------------------------------------------
(* What is said keeps the last list right. *)

(* what the message m says of modes and bans is so, and it is no echo *)
SaysModes(m) ==
    \/ /\ m.op \in {"JOIN", "PART", "KICK", "NICK", "+o", "-o", "INVITE"}
       /\ ~ (m.op = "JOIN" /\ m.nick = srv.me)
       /\ srv'.me \in srv'.in => srv'.mode = srv.mode /\ srv'.ban = srv.ban
    \/ m.op \in {"+i", "-i"} /\ srv'.mode = (m.op = "+i") /\ srv'.ban = srv.ban
    \/ m.op \in {"+b", "-b"} /\ srv'.ban = (m.op = "+b") /\ srv.ban = (m.op = "-b") /\ srv'.mode = srv.mode

LEMMA LeftModes ==
  ASSUME SrvOK(srv), NEW n
  PROVE  Left(n).me \in Left(n).in => Left(n).mode = srv.mode /\ Left(n).ban = srv.ban
  <1>1. srv \in ServerChannel
    BY DEF SrvOK
  <1> QED BY <1>1 DEF Left, ServerChannel

LEMMA OthersSayModes ==
  ASSUME TInv, linked, srv.me \in srv.in,
         \/ \E n \in Nicks : OtherJoins(n) \/ OtherLeaves(n) \/ OpChanges(n)
         \/ Kicked \/ Invited \/ ModeChanges
         \/ \E old, new \in Nicks : Renamed(old, new)
  PROVE  \E m \in Msg : down' = Append(down, m) /\ SaysModes(m)
  <1> DEFINE Goal == \E m \in Msg : down' = Append(down, m) /\ SaysModes(m)
  <1>1. /\ srv \in ServerChannel /\ SrvOK(srv) /\ OnIt
        /\ \A m : Tell(m) => down' = Append(down, m)
    BY DEF TInv, SrvOK, OnIt, Tell
  <1>2. ASSUME NEW n \in Nicks, OtherJoins(n) PROVE Goal
    <2> DEFINE m == [op |-> "JOIN", nick |-> n]
    <2>1. m \in Msg /\ m.op = "JOIN" /\ m.nick = n
      BY DEF Msg, Message
    <2>2. down' = Append(down, m)
      BY <1>1, <1>2 DEF OtherJoins
    <2>3. n # srv.me /\ srv'.mode = srv.mode /\ srv'.ban = srv.ban
      BY <1>1, <1>2 DEF OtherJoins, Taken, ServerChannel
    <2> HIDE DEF m
    <2> QED BY <2>1, <2>2, <2>3 DEF SaysModes
  <1>3. ASSUME NEW n \in Nicks, OtherLeaves(n) PROVE Goal
    <2> DEFINE m == [op |-> "PART", nick |-> n]
    <2>1. m \in Msg /\ m.op = "PART"
      BY DEF Msg, Message
    <2>2. down' = Append(down, m) /\ srv' = Left(n)
      BY <1>1, <1>3 DEF OtherLeaves
    <2> HIDE DEF m
    <2> QED BY <1>1, <2>1, <2>2, LeftModes DEF SaysModes
  <1>4. ASSUME NEW n \in Nicks, OpChanges(n) PROVE Goal
    <2> DEFINE m == [op |-> IF n \in srv.ops THEN "-o" ELSE "+o", nick |-> n]
    <2>1. m \in Msg /\ m.op \in {"+o", "-o"}
      BY DEF Msg, Message
    <2>2. down' = Append(down, m)
      BY <1>1, <1>4 DEF OpChanges
    <2>3. srv'.mode = srv.mode /\ srv'.ban = srv.ban
      BY <1>1, <1>4 DEF OpChanges, ServerChannel
    <2> HIDE DEF m
    <2> QED BY <2>1, <2>2, <2>3 DEF SaysModes
  <1>5. ASSUME Kicked PROVE Goal
    <2> DEFINE m == [op |-> "KICK"]
    <2>1. m \in Msg /\ m.op = "KICK"
      BY DEF Msg, Message
    <2>2. down' = Append(down, m) /\ srv' = Left(srv.me)
      BY <1>1, <1>5 DEF Kicked
    <2> HIDE DEF m
    <2> QED BY <1>1, <2>1, <2>2, LeftModes DEF SaysModes
  <1>6. ~ Invited
    BY <1>1 DEF Invited
  <1>7. ASSUME ModeChanges PROVE Goal
    <2>1. CASE Tell([op |-> IF srv.mode THEN "-i" ELSE "+i"]) /\ srv' = [srv EXCEPT !.mode = ~@]
      <3> DEFINE m == [op |-> IF srv.mode THEN "-i" ELSE "+i"]
      <3>1. m \in Msg /\ m.op = IF srv.mode THEN "-i" ELSE "+i"
        BY DEF Msg, Message
      <3>2. down' = Append(down, m)
        BY <1>1, <2>1
      <3>3. srv'.mode = (~ srv.mode) /\ srv'.ban = srv.ban /\ srv.mode \in BOOLEAN
        BY <1>1, <2>1 DEF ServerChannel
      <3> HIDE DEF m
      <3>4. m.op \in {"+i", "-i"} /\ srv'.mode = (m.op = "+i")
        BY <3>1, <3>3
      <3> QED BY <3>1, <3>2, <3>3, <3>4 DEF SaysModes
    <2>2. CASE Tell([op |-> IF srv.ban THEN "-b" ELSE "+b"]) /\ srv' = [srv EXCEPT !.ban = ~@]
      <3> DEFINE m == [op |-> IF srv.ban THEN "-b" ELSE "+b"]
      <3>1. m \in Msg /\ m.op = IF srv.ban THEN "-b" ELSE "+b"
        BY DEF Msg, Message
      <3>2. down' = Append(down, m)
        BY <1>1, <2>2
      <3>3. srv'.ban = (~ srv.ban) /\ srv'.mode = srv.mode /\ srv.ban \in BOOLEAN
        BY <1>1, <2>2 DEF ServerChannel
      <3> HIDE DEF m
      <3>4. m.op \in {"+b", "-b"} /\ srv'.ban = (m.op = "+b") /\ srv.ban = (m.op = "-b")
        BY <3>1, <3>3
      <3> QED BY <3>1, <3>2, <3>3, <3>4 DEF SaysModes
    <2> QED BY <1>7, <2>1, <2>2 DEF ModeChanges
  <1>8. ASSUME NEW old \in Nicks, NEW new \in Nicks, Renamed(old, new) PROVE Goal
    <2> DEFINE m == [op |-> "NICK", nick |-> old, to |-> new]
    <2>1. m \in Msg /\ m.op = "NICK"
      BY DEF Msg, Message
    <2>2. down' = Append(down, m) /\ srv'.mode = srv.mode /\ srv'.ban = srv.ban
      BY <1>1, <1>8 DEF Renamed, ServerChannel
    <2> HIDE DEF m
    <2> QED BY <2>1, <2>2 DEF SaysModes
  <1> QED BY <1>2, <1>3, <1>4, <1>5, <1>6, <1>7, <1>8

(* A change that is told of is noted. *)
LEMMA ModesNoted ==
  ASSUME NEW e \in Lists, NEW u, JoinRight(e, srv, u), e.view.on, SrvOK(srv),
         NEW m \in Msg, SaysModes(m), Keeps(e.view, srv, Seen(e.view, m), srv')
  PROVE  JoinRight(Takes(e, m), srv', u)
  <1> DEFINE f == Takes(e, m)
             k == e.det
  <1>1. f.view = Seen(e.view, m) /\ f.det = Notes(e.view, k, m)
    BY TakesType
  <1>2. Right(f.view, srv') /\ (Whole(e.view, srv) /\ f.view.on => Whole(f.view, srv'))
    BY <1>1 DEF Keeps
  <1>3. /\ k \in Details /\ k.got \in SUBSET Info /\ k.mode \in BOOLEAN /\ k.bans \in Nat /\ k.twice \in BOOLEAN
        /\ DetailsRight(k, srv) /\ AsksNext(k, u) /\ (k.got = Info => Whole(e.view, srv))
    BY DEF Lists, Details, JoinRight
  <1>4. e.view.me = srv.me
    BY DEF JoinRight, Right
  <1>5. SUFFICES ASSUME f.view.on
                 PROVE  DetailsRight(f.det, srv') /\ f.det.got = k.got
    BY <1>2, <1>3 DEF JoinRight, AsksNext
  <1> HIDE DEF f
  <1>6. srv'.me \in srv'.in
    BY <1>2, <1>5 DEF Right
  <1>7. m.op \notin Info /\ ~ Echo(e.view, m) /\ m.op # "REFUSED"
    BY <1>4 DEF SaysModes, Info, Echo
  <1>8. CASE m.op \in {"JOIN", "PART", "KICK", "NICK", "+o", "-o", "INVITE"}
    <2>1. f.det = k
      BY <1>1, <1>7, <1>8 DEF Notes
    <2>2. srv'.mode = srv.mode /\ srv'.ban = srv.ban
      BY <1>6, <1>8 DEF SaysModes
    <2> QED BY <1>3, <2>1, <2>2 DEF DetailsRight
  <1>9. CASE m.op \in {"+i", "-i"}
    <2>1. f.det = [k EXCEPT !.mode = m.op = "+i"]
      BY <1>1, <1>7, <1>9 DEF Notes
    <2>2. /\ f.det.got = k.got /\ f.det.bans = k.bans /\ f.det.twice = k.twice
          /\ f.det.mode = (m.op = "+i")
      BY <1>3, <2>1 DEF Details
    <2>3. srv'.mode = (m.op = "+i") /\ srv'.ban = srv.ban
      BY <1>9 DEF SaysModes
    <2> QED BY <1>3, <2>2, <2>3 DEF DetailsRight
  <1>10. CASE m.op = "+b"
    <2>1. f.det = [k EXCEPT !.bans = IF k.bans = 0 THEN 1 ELSE k.bans, !.twice = k.twice \/ "BANS" \notin k.got]
      BY <1>1, <1>7, <1>10 DEF Notes
    <2>2. /\ f.det.got = k.got /\ f.det.mode = k.mode
          /\ f.det.bans = (IF k.bans = 0 THEN 1 ELSE k.bans)
          /\ f.det.twice = (k.twice \/ "BANS" \notin k.got)
      BY <1>3, <2>1 DEF Details
    <2>3. srv'.ban = TRUE /\ srv.ban = FALSE /\ srv'.mode = srv.mode
      BY <1>10 DEF SaysModes
    <2>4. ASSUME ~ f.det.twice
          PROVE  f.det.bans = IF "BANS" \in f.det.got /\ srv'.ban THEN 1 ELSE 0
      <3>1. "BANS" \in k.got /\ ~ k.twice
        BY <1>3, <2>2, <2>4
      <3>2. k.bans = 0
        BY <1>3, <2>3, <3>1 DEF DetailsRight
      <3> QED BY <2>2, <2>3, <3>1, <3>2
    <2> QED BY <1>3, <2>2, <2>3, <2>4 DEF DetailsRight
  <1>11. CASE m.op = "-b"
    <2>1. f.det = [k EXCEPT !.bans = IF k.bans = 0 THEN 0 ELSE k.bans - 1]
      BY <1>1, <1>7, <1>11 DEF Notes
    <2>2. /\ f.det.got = k.got /\ f.det.mode = k.mode /\ f.det.twice = k.twice
          /\ f.det.bans = (IF k.bans = 0 THEN 0 ELSE k.bans - 1)
      BY <1>3, <2>1 DEF Details
    <2>3. srv'.ban = FALSE /\ srv.ban = TRUE /\ srv'.mode = srv.mode
      BY <1>11 DEF SaysModes
    <2>4. ASSUME ~ f.det.twice PROVE f.det.bans = 0
      <3>1. k.bans = 0 \/ k.bans = 1
        BY <1>3, <2>2, <2>4 DEF DetailsRight
      <3> QED BY <2>2, <3>1
    <2> QED BY <1>3, <2>2, <2>3, <2>4 DEF DetailsRight
  <1> QED BY <1>8, <1>9, <1>10, <1>11 DEF SaysModes

(* the last list e becomes f, with at most one message *)
Grows(e, f) ==
    \/ down' = down /\ f = e
    \/ \E m \in Msg : down' = Append(down, m) /\ f = Takes(e, m)

LEMMA GrowsFollows ==
  ASSUME NEW s \in Lists, down \in Seq(Msg), NEW e \in Lists, NEW f, Follows(s, down, e), Grows(e, f)
  PROVE  f \in Lists /\ Follows(s, down', f)
  BY FollowsMore, TakesType DEF Grows

LEMMA OffRight ==
  ASSUME NEW e, NEW c, NEW u, Right(e.view, c), ~ e.view.on PROVE JoinRight(e, c, u)
  BY DEF JoinRight

LEMMA OthersJoinRight ==
  ASSUME TInv, linked, NEW e \in Lists, NEW u, JoinRight(e, srv, u),
         \/ \E n \in Nicks : OtherJoins(n) \/ OtherLeaves(n) \/ OpChanges(n)
         \/ Kicked \/ Invited \/ ModeChanges
         \/ \E old, new \in Nicks : Renamed(old, new)
  PROVE  \E f : Grows(e, f) /\ JoinRight(f, srv', u)
  <1>1. e.view \in Views /\ Right(e.view, srv) /\ down \in Seq(Msg) /\ SrvOK(srv)
    BY DEF Lists, JoinRight, TInv
  <1>2. Said(e.view)
    BY <1>1, OthersSay
  <1>3. CASE e.view.on
    <2>1. srv.me \in srv.in
      BY <1>1, <1>3 DEF Right
    <2>2. PICK m \in Msg : down' = Append(down, m) /\ SaysModes(m)
      BY <2>1, OthersSayModes
    <2>3. Keeps(e.view, srv, Seen(e.view, m), srv')
      <3>1. down' # down
        <4>1. Len(down) \in Nat /\ Len(Append(down, m)) = Len(down) + 1
          BY <1>1
        <4> QED BY <2>2, <4>1
      <3>2. PICK n \in Msg : down' = Append(down, n) /\ Keeps(e.view, srv, Seen(e.view, n), srv')
        BY <1>2, <3>1 DEF Said
      <3>3. n = m
        <4>1. Append(down, n)[Len(down) + 1] = n /\ Append(down, m)[Len(down) + 1] = m
          BY <1>1
        <4> QED BY <2>2, <3>2, <4>1
      <3> QED BY <3>2, <3>3
    <2>4. JoinRight(Takes(e, m), srv', u)
      BY <1>1, <1>3, <2>2, <2>3, ModesNoted
    <2> QED BY <2>2, <2>4 DEF Grows
  <1>4. CASE ~ e.view.on
    <2>1. CASE down' = down /\ Keeps(e.view, srv, e.view, srv')
      <3>1. JoinRight(e, srv', u)
        BY <1>4, <2>1, OffRight DEF Keeps
      <3> QED BY <2>1, <3>1 DEF Grows
    <2>2. ASSUME NEW m \in Msg, down' = Append(down, m), Keeps(e.view, srv, Seen(e.view, m), srv')
          PROVE  \E f : Grows(e, f) /\ JoinRight(f, srv', u)
      <3>1. Takes(e, m).view = Seen(e.view, m)
        BY TakesType
      <3>2. Right(Takes(e, m).view, srv') /\ ~ Takes(e, m).view.on
        BY <1>4, <2>2, <3>1 DEF Keeps
      <3>3. JoinRight(Takes(e, m), srv', u)
        BY <3>2, OffRight
      <3> QED BY <2>2, <3>3 DEF Grows
    <2> QED BY <1>2, <2>1, <2>2 DEF Said
  <1> QED BY <1>3, <1>4

(* The server takes a command, the next one that the details wait for. *)
LEMMA ServeJoinRight ==
  ASSUME TInv, linked, Serve, InTurn(up), NEW s \in Lists, NEW e \in Lists,
         Follows(s, down, e), JoinRight(e, srv, up)
  PROVE  \E f \in Lists : Follows(s, down', f) /\ JoinRight(f, srv', up')
  <1> DEFINE Goal == \E f \in Lists : Follows(s, down', f) /\ JoinRight(f, srv', up')
             k == e.det
  <1>1. /\ srv \in ServerChannel /\ srv.ops \subseteq srv.in /\ srv.me \in Nicks /\ SrvOK(srv)
        /\ up \in Seq(Command) /\ up # <<>> /\ up' = Tail(up) /\ down \in Seq(Msg)
    BY DEF TInv, SrvOK, ServerChannel, Serve
  <1>2. /\ e.view \in Views /\ Right(e.view, srv) /\ (OnIt <=> e.view.on) /\ e.view.on \in BOOLEAN
        /\ k \in Details /\ k.got \in SUBSET Info /\ k.mode \in BOOLEAN /\ k.bans \in Nat /\ k.twice \in BOOLEAN
    BY DEF JoinRight, Lists, Views, Right, OnIt, Details
  <1>3. e.view.on => /\ DetailsRight(k, srv) /\ AsksNext(k, up)
                     /\ k.got = Info => Whole(e.view, srv)
    BY DEF JoinRight
  <1>4. /\ Head(up) = "MODE" => up' # <<>> /\ Head(up') = "BANS"
        /\ Head(up) = "BANS" => up' # <<>> /\ Head(up') = "WHO"
        /\ Head(up) \notin {"MODE", "BANS"} => up' = <<>> \/ Head(up') \notin {"BANS", "WHO"}
    BY <1>1, InTurnTail
  <1>5. ASSUME NEW f, Grows(e, f), JoinRight(f, srv', up') PROVE Goal
    BY <1>1, <1>5, GrowsFollows
  <1> HIDE DEF k
  (* a list that does not have the channel *)
  <1>6. ASSUME NEW m \in Msg, down' = Append(down, m), Right(Seen(e.view, m), srv'), ~ Seen(e.view, m).on
        PROVE  Goal
    <2>1. Takes(e, m).view = Seen(e.view, m)
      BY TakesType
    <2>2. JoinRight(Takes(e, m), srv', up')
      BY <1>6, <2>1, OffRight
    <2> QED BY <1>5, <1>6, <2>2 DEF Grows
  <1>7. ASSUME ~ e.view.on, down' = down, Right(e.view, srv') PROVE Goal
    <2>1. JoinRight(e, srv', up')
      BY <1>7, OffRight
    <2> QED BY <1>5, <1>7, <2>1 DEF Grows
  <1>8. ASSUME Head(up) = "JOIN", ServeJoin PROVE Goal
    <2>1. CASE srv' = srv /\ down' = down /\ OnIt
      <3>1. k.got \notin {{"NAMES", "MODE"}, {"NAMES", "MODE", "BANS"}}
        BY <1>2, <1>3, <1>8, <2>1 DEF AsksNext
      <3>2. AsksNext(k, up')
        BY <1>4, <1>8, <3>1 DEF AsksNext
      <3>3. JoinRight(e, srv', up')
        BY <1>2, <1>3, <2>1, <3>2 DEF JoinRight, k
      <3> QED BY <1>5, <2>1, <3>3 DEF Grows
    <2>2. CASE \E no \in {"REFUSED", "TOOMANY"} : down' = Append(down, [op |-> no]) /\ srv' = srv /\ ~ OnIt
      <3>1. PICK no \in {"REFUSED", "TOOMANY"} : /\ down' = Append(down, [op |-> no])
                                                 /\ srv' = srv /\ ~ OnIt
        BY <2>2
      <3> DEFINE m == [op |-> no]
      <3>2. m \in Msg /\ m.op = no /\ down' = Append(down, m)
        BY <3>1 DEF Msg, Message
      <3> HIDE DEF m
      <3>3. Seen(e.view, m) = e.view \/ Seen(e.view, m) = Nobody(FALSE, e.view.me)
        BY <3>2 DEF Seen
      <3>4. Right(Nobody(FALSE, e.view.me), srv) /\ ~ Nobody(FALSE, e.view.me).on
        BY <1>2, <3>1 DEF Right, Nobody
      <3> QED BY <1>2, <1>6, <3>1, <3>2, <3>3, <3>4
    <2>3. CASE /\ ~ OnIt
               /\ srv' = [srv EXCEPT !.in = @ \cup {srv.me}, !.ops = IF srv.in = {} THEN {srv.me} ELSE @]
               /\ down' = down \o <<[op |-> "JOIN", nick |-> srv.me], [op |-> "NAMES"]>>
      <3> DEFINE j == [op |-> "JOIN", nick |-> srv.me]
                 n == [op |-> "NAMES"]
                 v == Nobody(TRUE, srv.me)
                 f == Takes(e, j)
                 g == Takes(f, n)
      <3>1. j \in Msg /\ j.op = "JOIN" /\ j.nick = srv.me /\ n \in Msg /\ n.op = "NAMES"
        BY <1>1 DEF Msg, Message
      <3>2. /\ v.on /\ v.nicks = {} /\ v.ops = {} /\ ~ v.have_op /\ v.me = srv.me
        BY DEF Nobody
      <3>3. srv'.me = srv.me /\ srv'.in = srv.in \cup {srv.me}
        BY <1>1, <2>3 DEF ServerChannel
      <3>4. down' = Append(Append(down, j), n) /\ Append(down, j) \in Seq(Msg)
        <4>1. down' = down \o <<j, n>>
          BY <2>3
        <4> HIDE DEF j, n
        <4> QED BY <1>1, <3>1, <4>1
      <3> HIDE DEF j, n, v
      <3>5. Seen(e.view, j) = v /\ Echo(e.view, j)
        BY <1>2, <3>1 DEF Seen, Right, Echo, v
      <3>6. Seen(v, n) = v /\ ~ Echo(v, n)
        BY <3>1 DEF Seen, Echo
      <3>7. f \in Lists /\ f.view = v /\ f.det = Begun
        <4>1. f \in Lists /\ f.view = Seen(e.view, j)
              /\ f.det = IF e.view.on \/ Echo(e.view, j) THEN Notes(e.view, e.det, j) ELSE e.det
          BY <3>1, TakesType
        <4> QED BY <3>5, <4>1 DEF Notes
      <3>8. g \in Lists /\ g.view = v /\ g.det = NotesReply(Begun, n)
        <4> HIDE DEF f
        <4>1. g \in Lists /\ g.view = Seen(f.view, n)
              /\ g.det = IF f.view.on \/ Echo(f.view, n) THEN Notes(f.view, f.det, n) ELSE f.det
          BY <3>1, <3>7, TakesType
        <4>2. Notes(v, Begun, n) = NotesReply(Begun, n)
          BY <3>1, <3>6 DEF Notes, Info
        <4> QED BY <3>2, <3>6, <3>7, <4>1, <4>2
      <3>9. Follows(s, down', g)
        <4>1. Follows(s, Append(down, j), f)
          BY <1>1, <3>1, FollowsMore
        <4> HIDE DEF f
        <4> QED BY <3>1, <3>4, <3>7, <4>1, FollowsMore
      <3> HIDE DEF f, g
      <3>10. g.det.got = {"NAMES"} /\ g.det.mode = FALSE /\ g.det.bans = 0
        <4>1. Begun.got = {} /\ Begun.mode = FALSE /\ Begun.bans = 0
          BY DEF Begun
        <4>2. g.det.got = Begun.got \cup {n.op}
              /\ g.det.mode = (Begun.mode \/ (n.op = "MODE" /\ Begun.got # Info /\ n.set))
              /\ g.det.bans = IF n.op = "BANS" /\ Begun.got # Info /\ n.set THEN Begun.bans + 1 ELSE Begun.bans
          BY <3>8 DEF NotesReply
        <4>3. n.op # "MODE" /\ n.op # "BANS"
          BY <3>1
        <4> QED BY <3>1, <4>1, <4>2, <4>3
      <3>11. Right(g.view, srv')
        BY <3>2, <3>3, <3>8 DEF Right
      <3>12. DetailsRight(g.det, srv')
        BY <3>10 DEF DetailsRight, Stages
      <3>13. AsksNext(g.det, up') /\ g.det.got # Info
        <4> DEFINE got == g.det.got
        <4>1. got = {"NAMES"}
          BY <3>10
        <4> HIDE DEF got
        <4>2. got # {"NAMES", "MODE"} /\ got # {"NAMES", "MODE", "BANS"} /\ got # Info
          BY <4>1 DEF Info
        <4>3. Head(up) \notin {"MODE", "BANS"}
          BY <1>8
        <4>4. up' = <<>> \/ Head(up') \notin {"BANS", "WHO"}
          BY <1>4, <4>3
        <4> QED BY ONLY <4>2, <4>4 DEF AsksNext, got
      <3>14. JoinRight(g, srv', up')
        BY <3>11, <3>12, <3>13 DEF JoinRight
      <3> QED BY <3>8, <3>9, <3>14
    <2> QED BY <1>8, <2>1, <2>2, <2>3 DEF ServeJoin
  <1>9. ASSUME Head(up) = "PART", ServePart PROVE Goal
    <2> DEFINE m == [op |-> "PART", nick |-> srv.me]
    <2>1. m \in Msg /\ m.op = "PART" /\ m.nick = srv.me
      BY <1>1 DEF Msg, Message
    <2>2. /\ srv'.in = srv.in \ {srv.me} /\ srv'.me = srv.me /\ srv'.ops = srv.ops \ {srv.me}
          /\ down' = IF OnIt THEN Append(down, m) ELSE down
      BY <1>1, <1>9, LeftType DEF ServePart, Tell
    <2> HIDE DEF m
    <2>3. CASE e.view.on
      <3>1. Seen(e.view, m) = Nobody(FALSE, e.view.me)
        BY <1>2, <2>1 DEF Seen, Right
      <3>2. Right(Nobody(FALSE, e.view.me), srv') /\ ~ Nobody(FALSE, e.view.me).on
        BY <1>2, <2>2 DEF Right, Nobody
      <3> QED BY <1>2, <1>6, <2>1, <2>2, <2>3, <3>1, <3>2
    <2>4. CASE ~ e.view.on
      <3>1. Right(e.view, srv')
        BY <1>2, <2>2, <2>4 DEF Right
      <3> QED BY <1>2, <1>7, <2>2, <2>4, <3>1
    <2> QED BY <2>3, <2>4
  <1>10. ASSUME Head(up) \in {"MODE", "BANS", "WHO"}, down' = Append(down, Answer), srv' = srv PROVE Goal
    <2> DEFINE m == Answer
               f == Takes(e, m)
    <2>1. m \in Msg /\ m.op = Head(up)
          /\ (m.op = "MODE" => m.set = srv.mode) /\ (m.op = "BANS" => m.set = srv.ban)
          /\ (m.op = "WHO" => m.nicks = srv.in /\ m.ops = srv.ops)
      BY <1>1, <1>10 DEF Answer, Msg, Message, ServerChannel
    <2>2. down' = Append(down, m)
      BY <1>10
    <2> HIDE DEF m
    <2>3. Seen(e.view, m) = (IF m.op = "WHO" THEN Learns(e.view, srv.in, srv.ops) ELSE e.view)
          /\ ~ Echo(e.view, m) /\ m.op \in Info
      BY <1>10, <2>1 DEF Seen, Echo, Info
    <2>4. Right(Seen(e.view, m), srv')
          /\ Seen(e.view, m).on = e.view.on
          /\ (e.view.on /\ (m.op = "WHO" \/ Whole(e.view, srv)) => Whole(Seen(e.view, m), srv'))
      <3>1. CASE m.op # "WHO"
        BY <1>2, <1>10, <2>3, <3>1
      <3>2. CASE m.op = "WHO"
        <4>1. Seen(e.view, m) = Learns(e.view, srv.in, srv.ops)
          BY <2>3, <3>2
        <4>2. CASE e.view.on
          <5> DEFINE w == Seen(e.view, m)
          <5>1. /\ w.on = TRUE /\ w.me = e.view.me /\ w.nicks = e.view.nicks \cup srv.in
                /\ w.ops = e.view.ops \cup srv.ops
                /\ w.have_op = (e.view.have_op \/ e.view.me \in srv.ops)
            BY <4>1, <4>2 DEF Learns
          <5> HIDE DEF w
          <5>2. /\ e.view.me = srv.me /\ srv.me \in srv.in /\ e.view.nicks \subseteq srv.in
                /\ e.view.ops \subseteq srv.ops /\ (e.view.have_op => srv.me \in srv.ops)
            BY <1>2, <4>2 DEF Right
          <5>3. w.nicks = srv.in /\ w.ops = srv.ops
            BY <5>1, <5>2
          <5>4. w.have_op <=> srv.me \in srv.ops
            BY <5>1, <5>2
          <5>5. Right(w, srv) /\ Whole(w, srv)
            BY <1>1, <5>1, <5>2, <5>3, <5>4 DEF Right, Whole
          <5>6. w.on = e.view.on
            BY <1>2, <4>2, <5>1
          <5> QED BY <1>10, <5>5, <5>6 DEF w
        <4>3. CASE ~ e.view.on
          BY <1>2, <1>10, <4>1, <4>3 DEF Learns
        <4> QED BY <4>2, <4>3
      <3> QED BY <3>1, <3>2
    <2>5. CASE ~ e.view.on
      BY <1>6, <2>1, <2>2, <2>4, <2>5
    <2>6. CASE e.view.on
      <3>1. f.view = Seen(e.view, m) /\ f.det = NotesReply(k, m)
        BY <2>1, <2>3, <2>6, TakesType DEF Notes, k
      <3> HIDE DEF f
      <3>2. /\ f.det.got = k.got \cup {m.op} /\ f.det.twice = k.twice
            /\ f.det.mode = (k.mode \/ (m.op = "MODE" /\ k.got # Info /\ m.set))
            /\ f.det.bans = (IF m.op = "BANS" /\ k.got # Info /\ m.set THEN k.bans + 1 ELSE k.bans)
        BY <3>1 DEF NotesReply
      <3>3. DetailsRight(k, srv) /\ AsksNext(k, up) /\ (k.got = Info => Whole(e.view, srv))
        BY <1>3, <2>6
      <3>4. m.op \in {"MODE", "BANS", "WHO"} /\ m.op = Head(up) /\ srv.mode \in BOOLEAN /\ srv.ban \in BOOLEAN
        BY <1>1, <1>10, <2>1 DEF ServerChannel
      <3>5. k.got \in Stages
        BY <3>3 DEF DetailsRight
      <3>6. /\ DetailsRight(f.det, srv) /\ AsksNext(f.det, up')
            /\ f.det.got = Info => m.op = "WHO" \/ Whole(e.view, srv)
        <4>1. CASE k.got = Info
          <5>1. f.det.got = Info /\ f.det.mode = k.mode /\ f.det.bans = k.bans
            BY <1>2, <2>3, <3>2, <4>1
          <5>2. Info # {"NAMES"} /\ Info # {"NAMES", "MODE"} /\ Info # {"NAMES", "MODE", "BANS"}
            BY DEF Info
          <5> QED BY <3>2, <3>3, <4>1, <5>1, <5>2 DEF DetailsRight, AsksNext
        <4>2. CASE k.got = {"NAMES"}
          <5>1. m.op = "MODE"
            BY <1>1, <3>3, <3>4, <4>2 DEF AsksNext
          <5>2. f.det.got = {"NAMES", "MODE"} /\ k.got # Info /\ "BANS" \notin k.got
            BY <3>2, <4>2, <5>1 DEF Info
          <5>3. f.det.mode = (k.mode \/ srv.mode) /\ f.det.bans = k.bans
            BY <2>1, <3>2, <5>1, <5>2
          <5>4. (k.mode => srv.mode) /\ (~ k.twice => k.bans = 0)
            BY <3>3, <5>2 DEF DetailsRight
          <5>5. DetailsRight(f.det, srv)
            <6>1. ~ f.det.twice => f.det.bans = 0
              BY <3>2, <5>3, <5>4
            <6>2. "BANS" \notin f.det.got /\ f.det.got \in Stages
              BY <5>2 DEF Stages
            <6>3. (f.det.mode => srv.mode) /\ (srv.mode => f.det.mode)
              BY <5>3, <5>4
            <6> QED BY <6>1, <6>2, <6>3 DEF DetailsRight
          <5>6. AsksNext(f.det, up') /\ f.det.got # Info
            BY <1>4, <3>4, <5>1, <5>2 DEF AsksNext, Info
          <5> QED BY <5>5, <5>6
        <4>3. CASE k.got = {"NAMES", "MODE"}
          <5>1. m.op = "BANS"
            BY <3>3, <3>4, <4>3 DEF AsksNext
          <5>2. f.det.got = {"NAMES", "MODE", "BANS"} /\ k.got # Info /\ "BANS" \notin k.got /\ "MODE" \in k.got
            BY <3>2, <4>3, <5>1 DEF Info
          <5>3. f.det.mode = k.mode /\ f.det.bans = IF srv.ban THEN k.bans + 1 ELSE k.bans
            BY <1>2, <2>1, <3>2, <5>1, <5>2
          <5>4. (k.mode => srv.mode) /\ (srv.mode => k.mode) /\ (~ k.twice => k.bans = 0)
            BY <3>3, <5>2 DEF DetailsRight
          <5>5. DetailsRight(f.det, srv)
            <6>1. ~ f.det.twice => f.det.bans = IF srv.ban THEN 1 ELSE 0
              BY <3>2, <5>3, <5>4
            <6>2. "BANS" \in f.det.got /\ f.det.got \in Stages
              BY <5>2 DEF Stages
            <6>3. (f.det.mode => srv.mode) /\ (srv.mode => f.det.mode)
              BY <5>3, <5>4
            <6> QED BY <6>1, <6>2, <6>3 DEF DetailsRight
          <5>6. AsksNext(f.det, up') /\ f.det.got # Info
            BY <1>4, <3>4, <5>1, <5>2 DEF AsksNext, Info
          <5> QED BY <5>5, <5>6
        <4>4. CASE k.got = {"NAMES", "MODE", "BANS"}
          <5>1. m.op = "WHO"
            BY <3>3, <3>4, <4>4 DEF AsksNext
          <5>2. f.det.got = Info /\ f.det.mode = k.mode /\ f.det.bans = k.bans
                /\ "BANS" \in k.got /\ "BANS" \in f.det.got /\ "MODE" \in k.got
            BY <1>2, <3>2, <4>4, <5>1 DEF Info
          <5>3. Info # {"NAMES"} /\ Info # {"NAMES", "MODE"} /\ Info # {"NAMES", "MODE", "BANS"}
            BY DEF Info
          <5>4. DetailsRight(f.det, srv)
            BY <3>2, <3>3, <5>2 DEF DetailsRight, Stages
          <5>5. AsksNext(f.det, up')
            BY <5>2, <5>3 DEF AsksNext
          <5> QED BY <5>1, <5>4, <5>5
        <4> QED BY <3>5, <4>1, <4>2, <4>3, <4>4 DEF Stages
      <3>7. JoinRight(f, srv', up')
        BY <1>10, <2>4, <2>6, <3>1, <3>6 DEF JoinRight
      <3>8. Grows(e, f)
        BY <2>1, <2>2 DEF Grows, f
      <3> QED BY <1>5, <3>7, <3>8
    <2> QED BY <1>2, <2>5, <2>6
  <1> QED BY <1>8, <1>9, <1>10 DEF Serve

(* The client reads a message. *)
LEMMA DeliverJoinRight ==
  ASSUME TInv, Deliver, InTurn(up), Fresh /\ announced => ~ joining,
         NEW k \in Details, Fresh => k = Now, NEW e \in Lists,
         Follows(Listed(View, k), down, e), JoinRight(e, srv, up)
  PROVE  /\ InTurn(up') /\ (Fresh' /\ announced' => ~ joining')
         /\ \E i \in Details : /\ Fresh' => i = Now'
                               /\ Follows(Listed(View', i), down', e) /\ JoinRight(e, srv', up')
  <1> DEFINE m == Head(down)
             s == Listed(View, k)
             i == IF View.on \/ Echo(View, m) THEN Notes(View, k, m) ELSE k
  <1>1. /\ View \in Views /\ down \in Seq(Msg) /\ up \in Seq(Command) /\ down # <<>>
        /\ down' = Tail(down) /\ srv' = srv /\ View' = Seen(View, m)
    BY ViewType, DeliverSeen DEF TInv, Deliver
  <1>2. m \in Msg
    BY <1>1
  <1>3. up' = up \/ up' = Append(up, "JOIN") \/ up' = up \o Asked
    BY DEF Deliver, p_channel, JoinMe, p_part, p_kick, check_auto_join, p_nick, p_mode, GotNames,
           funny_mode, BanList, add_user_who, cannot_join_channel
  <1>4. InTurn(up')
    BY <1>1, <1>3, InTurnAppend, InTurnAsked
  <1>5. Fresh' => /\ Fresh \/ Echo(View, m)
                  /\ View.on \/ Echo(View, m)
                  /\ Now' = Notes(View, Now, m)
                  /\ announced' => ~ joining'
    BY DeliverNotes
  <1> HIDE DEF m
  <1>6. s \in Lists /\ s.view = View /\ s.det = k
    BY <1>1, ListedType
  <1>7. i \in Details
    BY <1>2, NotesType
  <1>8. Takes(s, m) = Listed(View', i)
    <2> HIDE DEF s
    <2> QED BY <1>1, <1>6 DEF Takes
  <1>9. Follows(Listed(View', i), down', e)
    <2> HIDE DEF s, i
    <2>1. Follows(Takes(s, Head(down)), Tail(down), e)
      BY <1>1, <1>6, FollowsRest DEF s
    <2> QED BY <1>1, <1>8, <2>1 DEF m
  <1>10. JoinRight(e, srv', up')
    <2>1. e.view.on => AsksNext(e.det, up')
      BY <1>1, <1>3, AsksNextGrows DEF JoinRight
    <2> QED BY <1>1, <2>1 DEF JoinRight
  <1>11. Fresh' => i = Now'
    <2> SUFFICES ASSUME Fresh' PROVE i = Now'
      OBVIOUS
    <2>1. i = Notes(View, k, m)
      BY <1>5
    <2>2. CASE Echo(View, m)
      BY <1>5, <2>1, <2>2 DEF Notes
    <2>3. CASE Fresh
      BY <1>5, <2>1, <2>3
    <2> QED BY <1>5, <2>2, <2>3
  <1> HIDE DEF i
  <1> QED BY <1>4, <1>5, <1>7, <1>9, <1>10, <1>11

(* the inductive invariant of a join *)
JInv ==
    /\ TInv
    /\ ~ linked => up = <<>> /\ down = <<>>
    /\ InTurn(up)
    /\ Fresh /\ announced => ~ joining
    /\ linked => \E k \in Details, e \in Lists :
                    /\ Fresh => k = Now
                    /\ Follows(Listed(View, k), down, e) /\ JoinRight(e, srv, up)

LEMMA JInvSync == JInv => SyncIsComplete
  <1> SUFFICES ASSUME JInv, linked, down = <<>>, chan.on, announced, "stale" \notin trouble
               PROVE  /\ MembersKnown /\ chan.mode = srv.mode
                      /\ "twice" \notin trouble => chan.bans = IF srv.ban THEN 1 ELSE 0
    BY DEF SyncIsComplete
  <1>1. Fresh /\ ~ joining
    BY DEF Fresh, JInv
  <1>2. PICK e \in Lists : Follows(Listed(View, Now), down, e) /\ JoinRight(e, srv, up)
    BY <1>1 DEF JInv
  <1>3. e = Listed(View, Now)
    BY <1>2, FollowsEnd
  <1>4. e.view = View /\ e.det = Now
    BY <1>3 DEF Listed
  <1>5. /\ View.on = chan.on /\ View.nicks = chan.nicks /\ View.ops = chan.ops
        /\ View.have_op = chan.have_op /\ View.me = me
    BY DEF View, ViewOf
  <1>6. /\ Now.got = Info /\ Now.mode = chan.mode /\ Now.bans = chan.bans
        /\ (Now.twice <=> "twice" \in trouble)
    BY <1>1 DEF Now
  <1>7. Right(View, srv) /\ DetailsRight(Now, srv) /\ Whole(View, srv)
    BY <1>2, <1>4, <1>5, <1>6 DEF JoinRight
  <1>8. MembersKnown
    BY <1>5, <1>7 DEF Right, Whole, MembersKnown
  <1>9. "MODE" \in Info /\ "BANS" \in Info
    BY DEF Info
  <1>10. chan.mode = srv.mode
    <2>1. chan.mode \in BOOLEAN /\ srv.mode \in BOOLEAN
      BY DEF JInv, TInv, ChanOK, ChannelList, SrvOK, ServerChannel
    <2> QED BY <1>6, <1>7, <1>9, <2>1 DEF DetailsRight
  <1>11. "twice" \notin trouble => chan.bans = IF srv.ban THEN 1 ELSE 0
    BY <1>6, <1>7, <1>9 DEF DetailsRight
  <1> QED BY <1>8, <1>10, <1>11

(* A connection begins with nothing on its way. *)
LEMMA JoinFromNothing ==
  ASSUME NEW n \in Nicks, NEW c, c.me = n, n \notin c.in, NEW u
  PROVE  \E k \in Details, e \in Lists :
            Follows(Listed(ViewOf(NotOn, n), k), <<>>, e) /\ JoinRight(e, c, u)
  <1> DEFINE v == ViewOf(NotOn, n)
             e == Listed(v, Begun)
  <1>1. v = Nobody(FALSE, n)
    BY DEF ViewOf, NotOn, Cleared, Nobody
  <1> HIDE DEF v
  <1>2. v \in Views /\ Begun \in Details
    BY <1>1 DEF Nobody, Views, Begun, Details
  <1>3. e \in Lists /\ e.view = v
    BY <1>2, ListedType
  <1> HIDE DEF e
  <1>4. Follows(e, <<>>, e)
    BY <1>3, FollowsNothing
  <1>5. Right(v, c) /\ ~ v.on
    BY <1>1 DEF Right, Nobody
  <1>6. JoinRight(e, c, u)
    BY <1>3, <1>5, OffRight
  <1> QED BY <1>2, <1>3, <1>4, <1>6 DEF v, e

LEMMA InTurnNothing == InTurn(<<>>) /\ InTurn(<<"JOIN">>)
  <1>1. InTurn(<<>>)
    BY DEF InTurn
  <1>2. <<"JOIN">> = Append(<<>>, "JOIN") /\ <<>> \in Seq(Command)
    OBVIOUS
  <1> QED BY <1>1, <1>2, InTurnAppend

LEMMA InitJInv == Init => JInv
  <1> SUFFICES ASSUME Init PROVE JInv
    OBVIOUS
  <1>1. TInv
    BY InitTInv
  <1>2. /\ srv.me \notin srv.in /\ chan = NotOn /\ me = srv.me /\ down = <<>> /\ up = <<>>
    BY DEF Init
  <1>3. ~ Fresh
    BY <1>2 DEF Fresh, NotOn, Cleared
  <1>4. me \in Nicks /\ View = ViewOf(NotOn, me)
    BY <1>1, <1>2 DEF TInv, View
  <1>5. \E k \in Details, e \in Lists : Follows(Listed(View, k), down, e) /\ JoinRight(e, srv, up)
    BY <1>2, <1>4, JoinFromNothing
  <1>6. InTurn(up)
    BY <1>2, InTurnNothing
  <1> QED BY <1>1, <1>2, <1>3, <1>5, <1>6 DEF JInv

LEMMA NextJInv == JInv /\ [Next]_vars => JInv'
  <1> SUFFICES ASSUME JInv, [Next]_vars PROVE JInv'
    OBVIOUS
  <1>1. TInv /\ TInv' /\ (~ linked => up = <<>> /\ down = <<>>) /\ InTurn(up)
        /\ (Fresh /\ announced => ~ joining)
    BY NextTInv DEF JInv
  <1>2. ASSUME linked
        PROVE  \E k \in Details, e \in Lists :
                    /\ Fresh => k = Now
                    /\ Follows(Listed(View, k), down, e) /\ JoinRight(e, srv, up)
    BY <1>2 DEF JInv
  <1>3. View \in Views /\ down \in Seq(Msg) /\ up \in Seq(Command)
    BY <1>1, ViewType DEF TInv
  (* the client is left alone *)
  <1>4. ASSUME UNCHANGED <<chan, me, joining, gotinfo, announced, trouble>>
        PROVE  View' = View /\ Now' = Now /\ Fresh' = Fresh /\ (Fresh' /\ announced' => ~ joining')
    BY <1>1, <1>4 DEF View, Now, Fresh
  <1>5. CASE Others
    <2>1. /\ linked' = linked /\ up' = up
          /\ UNCHANGED <<chan, me, joining, gotinfo, announced, trouble>>
          /\ \/ \E n \in Nicks : OtherJoins(n) \/ OtherLeaves(n) \/ OpChanges(n)
             \/ Kicked \/ Invited \/ ModeChanges
             \/ \E old, new \in Nicks : Renamed(old, new)
      BY <1>5 DEF Others
    <2>2. View' = View /\ Now' = Now /\ Fresh' = Fresh /\ (Fresh' /\ announced' => ~ joining')
      BY <1>4, <2>1
    <2>3. CASE linked
      <3>1. PICK k \in Details, e \in Lists :
                    /\ Fresh => k = Now
                    /\ Follows(Listed(View, k), down, e) /\ JoinRight(e, srv, up)
        BY <1>2, <2>3
      <3>2. PICK f : Grows(e, f) /\ JoinRight(f, srv', up)
        BY <1>1, <2>1, <2>3, <3>1, OthersJoinRight
      <3>3. Listed(View, k) \in Lists
        BY <1>3, ListedType
      <3>4. f \in Lists /\ Follows(Listed(View, k), down', f)
        BY <1>3, <3>1, <3>2, <3>3, GrowsFollows
      <3>5. \E i \in Details, g \in Lists :
                    /\ Fresh' => i = Now'
                    /\ Follows(Listed(View', i), down', g) /\ JoinRight(g, srv', up')
        BY <2>1, <2>2, <3>1, <3>2, <3>4
      <3> QED BY <1>1, <2>1, <2>2, <2>3, <3>5 DEF JInv
    <2>4. CASE ~ linked
      <3>1. down' = down
        BY <2>1, <2>4 DEF OtherJoins, OtherLeaves, OpChanges, Kicked, Invited, ModeChanges, Renamed,
                          Tell, OnIt
      <3> QED BY <1>1, <2>1, <2>2, <2>4, <3>1 DEF JInv
    <2> QED BY <2>3, <2>4
  <1>6. CASE Serve
    <2>1. /\ linked' = linked /\ up # <<>> /\ up' = Tail(up)
          /\ UNCHANGED <<chan, me, joining, gotinfo, announced, trouble>>
      BY <1>6 DEF Serve
    <2>2. View' = View /\ Now' = Now /\ Fresh' = Fresh /\ (Fresh' /\ announced' => ~ joining')
      BY <1>4, <2>1
    <2>3. linked /\ InTurn(up')
      BY <1>1, <1>3, <2>1, InTurnTail
    <2>4. PICK k \in Details, e \in Lists :
                    /\ Fresh => k = Now
                    /\ Follows(Listed(View, k), down, e) /\ JoinRight(e, srv, up)
      BY <1>2, <2>3
    <2>5. Listed(View, k) \in Lists
      BY <1>3, ListedType
    <2>6. PICK f \in Lists : Follows(Listed(View, k), down', f) /\ JoinRight(f, srv', up')
      BY <1>1, <1>6, <2>3, <2>4, <2>5, ServeJoinRight
    <2>7. \E i \in Details, g \in Lists :
                    /\ Fresh' => i = Now'
                    /\ Follows(Listed(View', i), down', g) /\ JoinRight(g, srv', up')
      BY <2>2, <2>4, <2>6
    <2> QED BY <1>1, <2>1, <2>2, <2>3, <2>7 DEF JInv
  <1>7. CASE Deliver
    <2>1. linked' = linked /\ down # <<>>
      BY <1>7 DEF Deliver
    <2>2. linked
      BY <1>1, <2>1
    <2>3. PICK k \in Details, e \in Lists :
                    /\ Fresh => k = Now
                    /\ Follows(Listed(View, k), down, e) /\ JoinRight(e, srv, up)
      BY <1>2, <2>2
    <2>4. /\ InTurn(up') /\ (Fresh' /\ announced' => ~ joining')
          /\ \E i \in Details : /\ Fresh' => i = Now'
                                /\ Follows(Listed(View', i), down', e) /\ JoinRight(e, srv', up')
      BY <1>1, <1>7, <2>3, DeliverJoinRight
    <2> QED BY <1>1, <2>1, <2>2, <2>4 DEF JInv
  <1>8. CASE User
    <2>1. CASE e_channel \/ Part
      <3>1. PICK c \in {"JOIN", "PART"} : up' = Append(up, c)
        BY <2>1 DEF e_channel, Part
      <3>2. linked /\ linked' = linked /\ UNCHANGED <<srv, down, chan, me, joining, gotinfo, announced, trouble>>
        BY <2>1 DEF e_channel, Part
      <3>3. View' = View /\ Now' = Now /\ Fresh' = Fresh /\ (Fresh' /\ announced' => ~ joining')
        BY <1>4, <3>2
      <3>4. PICK k \in Details, e \in Lists :
                    /\ Fresh => k = Now
                    /\ Follows(Listed(View, k), down, e) /\ JoinRight(e, srv, up)
        BY <1>2, <3>2
      <3>5. e.view.on => AsksNext(e.det, up')
        BY <1>3, <3>1, <3>4, AsksNextGrows DEF JoinRight
      <3>6. JoinRight(e, srv', up')
        BY <3>2, <3>4, <3>5 DEF JoinRight
      <3>7. InTurn(up')
        BY <1>1, <1>3, <3>1, InTurnAppend
      <3>8. \E i \in Details, g \in Lists :
                    /\ Fresh' => i = Now'
                    /\ Follows(Listed(View', i), down', g) /\ JoinRight(g, srv', up')
        BY <3>2, <3>3, <3>4, <3>6
      <3> QED BY <1>1, <3>2, <3>3, <3>7, <3>8 DEF JInv
    <2>2. CASE SwitchWindow
      <3>1. UNCHANGED <<linked, srv, up, down, chan, me, joining, gotinfo, announced, trouble>>
        BY <2>2 DEF SwitchWindow
      <3>2. View' = View /\ Now' = Now /\ Fresh' = Fresh /\ (Fresh' /\ announced' => ~ joining')
        BY <1>4, <3>1
      <3> QED BY <1>1, <1>2, <3>1, <3>2 DEF JInv
    <2>3. CASE Lost
      <3>1. /\ linked' = FALSE /\ up' = <<>> /\ down' = <<>>
            /\ chan' = chan \/ chan' = NotOn
            /\ UNCHANGED <<joining, announced, trouble>>
        BY <2>3 DEF Lost
      <3>2. Fresh' => Fresh
        BY <3>1 DEF Fresh, NotOn, Cleared
      <3> QED BY <1>1, <3>1, <3>2, InTurnNothing DEF JInv
    <2> QED BY <1>8, <2>1, <2>2, <2>3 DEF User
  <1>9. CASE Reconnect
    <2>1. /\ ~ linked /\ linked' = TRUE /\ chan' = NotOn /\ srv' = [srv EXCEPT !.me = me']
          /\ me' \in IF me \in srv.in THEN Nicks \ srv.in ELSE {me}
          /\ down' = down /\ (up' = Append(up, "JOIN") \/ up' = up)
      BY <1>9 DEF Reconnect, reconnect_all_channels
    <2>2. srv \in ServerChannel
      BY <1>1 DEF TInv, SrvOK
    <2>3. srv'.me = me' /\ srv'.in = srv.in /\ me' \notin srv.in
      BY <2>1, <2>2 DEF ServerChannel
    <2>4. down' = <<>> /\ InTurn(up')
      BY <1>1, <1>3, <2>1, InTurnAppend
    <2>5. ~ Fresh'
      BY <2>1 DEF Fresh, NotOn, Cleared
    <2>6. me' \in Nicks /\ View' = ViewOf(NotOn, me')
      BY <1>1, <2>1 DEF TInv, View
    <2>7. \E k \in Details, e \in Lists : Follows(Listed(View', k), down', e) /\ JoinRight(e, srv', up')
      BY <2>3, <2>4, <2>6, JoinFromNothing
    <2> QED BY <1>1, <2>1, <2>4, <2>5, <2>7 DEF JInv
  <1>10. CASE UNCHANGED vars
    <2>1. UNCHANGED <<linked, srv, up, down, chan, me, joining, gotinfo, announced, trouble>>
      BY <1>10 DEF vars
    <2>2. View' = View /\ Now' = Now /\ Fresh' = Fresh /\ (Fresh' /\ announced' => ~ joining')
      BY <1>4, <2>1
    <2> QED BY <1>1, <1>2, <2>1, <2>2 DEF JInv
  <1> QED BY <1>5, <1>6, <1>7, <1>8, <1>9, <1>10 DEF Next

(***************************************************************************)
(* However many nicknames there are and however long it goes on: when a    *)
(* join has been announced as synched and nothing is on its way, the       *)
(* client knows the members, the mode and the bans of the channel, but for *)
(* an entry of join_list that was a stale one, and but for a ban that was  *)
(* set while the bans were asked for.                                      *)
(***************************************************************************)
THEOREM SyncTells == Spec => []SyncIsComplete
  BY InitJInv, NextJInv, JInvSync, PTL DEF Spec
=============================================================================
