------------------------------- MODULE Timers -------------------------------
(***************************************************************************)
(* /TIMER and the client's own timers, source/timer.c.                     *)
(*                                                                         *)
(* Timers wait in a list sorted by time.  Every pass of io() calls         *)
(* ExecuteTimers(), which takes those that are due out of the list, runs   *)
(* their commands one after the other, and puts those that repeat back.    *)
(* The commands may add, update and delete timers themselves, and take     *)
(* time: a pass is several actions here, with the clock running.           *)
(*                                                                         *)
(* The clock counts ticks, Second of them a second.  The program keeps     *)
(* seconds and microseconds; Second = 2 tells a whole second from a        *)
(* fraction of one.  A reference is a number; those from Name on stand for *)
(* names, and 0 for the empty string.                                      *)
(***************************************************************************)
EXTENDS Integers, SequencesExt

CONSTANTS
    Second,     \* ticks of a second
    Name,       \* the references from here on are names
    MaxNow,     \* bound: the clock stops here
    MaxId,      \* bound: the timers ever added
    Delays,     \* how long (ticks) timers are asked to wait
    Repeats,    \* -repeat: how often they fire, -1 for ever
    Refs,       \* references asked for, 0 when the user doesn't care
    Whoms,      \* the client's own timers: what they are for, 0 for none
    Hazards     \* the situations included in which the code goes wrong

ASSUME TimersAssumption ==
    /\ Second \in Nat \ {0} /\ Name \in Nat \ {0}
    /\ MaxNow \in Nat /\ MaxId \in Nat
    /\ Delays \subseteq Nat
    /\ Repeats \subseteq (Nat \ {0}) \cup {-1}
    /\ Refs \subseteq Nat
    /\ Whoms \subseteq {0} \cup (Nat \ (0..Name - 1))
    /\ Hazards \subseteq {"add_in_repeat", "delete_all_in_timer", "short_repeat"}

(* the numbers given out stay below those that stand for names *)
ASSUME NamesApart == \A r \in Refs \cup {0} : r < Name => r + MaxId < Name

VARIABLES
    now,            \* get_time()
    PendingTimers,  \* the list
    parsingtimer,   \* is ExecuteTimers() running?
    now1,           \* its local variable: when it started
    current,        \* its local variable: the timer whose commands run
    stuck,          \* BX_delete_all_timers() loops for ever
    made            \* history: how many timers were added

vars == <<now, PendingTimers, parsingtimer, now1, current, stuck, made>>

None == [id |-> 0]

(* `frac' is what the address of the structure leaves of a second.  History: *)
(* the delay asked for, the first time it is due, how often it fired and is  *)
(* to, since it was added or updated.                                        *)
Timer == [id: 1..MaxId, ref: Nat, whom: Nat, time: Nat, interval: Nat, events: Int,
          frac: 0..Second - 1, asked: Nat, first: Nat, fired: Nat, total: Int]

TypeOK ==
    /\ now \in 0..MaxNow /\ now1 \in 0..now
    /\ PendingTimers \in Seq(Timer)
    /\ parsingtimer \in BOOLEAN /\ stuck \in BOOLEAN
    /\ current \in Timer \cup {None}
    /\ current # None => parsingtimer
    /\ made \in 0..MaxId

Init ==
    /\ now = 0 /\ now1 = 0
    /\ PendingTimers = <<>>
    /\ parsingtimer = FALSE /\ stuck = FALSE
    /\ current = None
    /\ made = 0

-----------------------------------------------------------------------------
Once(events) == events \in {0, 1}

(* mutant: in front of the timers of the same or a later second *)
schedule_timer_whole_seconds(q, t) ==
    LET i == SelectInSeq(q, LAMBDA o : o.time \div Second >= t.time \div Second)
    IN  InsertAt(q, IF i = 0 THEN Len(q) + 1 ELSE i, t)

(* in front of the first that is later *)
schedule_timer(q, t) ==
    LET i == SelectInSeq(q, LAMBDA o : o.time > t.time)
    IN  InsertAt(q, IF i = 0 THEN Len(q) + 1 ELSE i, t)

(* mutant: delete_timer() doesn't look at current_exec_timer *)
MayDelete_always == TRUE

(* "You may not remove a TIMER from another TIMER" *)
MayDelete == current = None

delete_timer(q, ref) == RemoveFirstMatch(q, LAMBDA t : t.ref = ref)

RefTaken(q, ref) == \E i \in DOMAIN q : q[i].ref = ref

(* get_timer() also takes what a timer is for as its name; 0 when none is *)
get_timer(q, ref) == SelectInSeq(q, LAMBDA t : t.ref = ref \/ (t.whom # 0 /\ t.whom = ref))

(* my_atol() *)
Number(ref) == IF ref < Name THEN ref ELSE 0

(* mutant: counts the timers *)
NewRef_count(q) == Len(q) + 1

(* one more than the highest number in the list *)
NewRef(q) == Max({0} \cup {Number(q[i].ref) : i \in DOMAIN q}) + 1

(* mutant: from the time it is, not from the time it was due *)
Rescheduled_from_now(t) ==
    [t EXCEPT !.time = now + t.interval * Second,
              !.events = IF @ = -1 THEN -1 ELSE @ - 1]

(* mutant: the interval is left out *)
Rescheduled_at_once(t) ==
    [t EXCEPT !.time = (t.time \div Second) * Second + t.frac,
              !.events = IF @ = -1 THEN -1 ELSE @ - 1]

(* The time it was due and the interval, in whole seconds; the microseconds *)
(* are those of the address.                                                *)
Rescheduled(t) ==
    [t EXCEPT !.time = (t.time \div Second + t.interval) * Second + t.frac,
              !.events = IF @ = -1 THEN -1 ELSE @ - 1]

-----------------------------------------------------------------------------
(* Timers are added by commands the user types, and by those of the timer   *)
(* that fires.                                                              *)

(* A timer that repeats is not in the list while its commands run, so that  *)
(* its reference is given to those they add.                                *)
MayAdd == current # None /\ ~Once(current.events) => "add_in_repeat" \in Hazards

(* Its interval is in whole seconds; with 0 it is due again at once. *)
MayRepeat(t) == Once(t.events) \/ t.interval > 0 \/ "short_repeat" \in Hazards

(* add_timer() without -update, or what is left of it when nothing was found *)
Fresh(id, ref, whom, when, events, frac) ==
    [id |-> id, ref |-> ref, whom |-> whom, time |-> now + when,
     interval |-> when \div Second, events |-> events, frac |-> frac,
     asked |-> when, first |-> now + when, fired |-> 0, total |-> events]

(* where the structure lies matters for those that repeat *)
Fracs(events) == IF Once(events) THEN {0} ELSE 0..Second - 1

AddTimer(want, whom, when, events) ==
    /\ made < MaxId
    /\ want = 0 \/ ~RefTaken(PendingTimers, want)
    /\ made' = made + 1
    /\ \E frac \in Fracs(events) :
           LET t == Fresh(made + 1, IF want = 0 THEN NewRef(PendingTimers) ELSE want,
                          whom, when, events, frac)
           IN  MayRepeat(t) /\ PendingTimers' = schedule_timer(PendingTimers, t)

(* /TIMER [-refnum want] [-repeat events] when *)
TimerCommand ==
    /\ ~stuck /\ MayAdd
    /\ \E want \in Refs, when \in Delays, events \in Repeats : AddTimer(want, 0, when, events)
    /\ UNCHANGED <<now, parsingtimer, now1, current, stuck>>

(* add_timer(0, empty_string, ..), called by the client *)
ClientTimer ==
    /\ ~stuck /\ MayAdd
    /\ \E whom \in Whoms, when \in Delays : whom # 0 /\ AddTimer(0, whom, when, 1)
    /\ UNCHANGED <<now, parsingtimer, now1, current, stuck>>

(* the timer goes on as before with -1, whether -repeat was given or not *)
UpdatedEvents(old, events) == IF events = -1 THEN old.events ELSE events

(* The new timer takes its values from the one get_timer() finds, and the   *)
(* place of the one delete_timer() deletes: none while a timer fires, and   *)
(* none when `want' is only what a timer is for.                            *)
UpdateTimer(want, when, events) ==
    LET old     == PendingTimers[get_timer(PendingTimers, want)]
        deletes == MayDelete /\ RefTaken(PendingTimers, want)
        rest    == IF deletes THEN delete_timer(PendingTimers, want) ELSE PendingTimers
        place   == SelectInSeq(PendingTimers, LAMBDA t : t.ref = want)
        id      == IF deletes THEN PendingTimers[place].id ELSE made + 1
        ev      == UpdatedEvents(old, events)
    IN  IF RefTaken(rest, want)
        THEN PendingTimers' = rest /\ UNCHANGED made
        ELSE /\ id \in 1..MaxId
             /\ made' = IF deletes THEN made ELSE made + 1
             /\ \E frac \in Fracs(ev) :
                    LET new == Fresh(id, want, 0, IF when = -1 THEN 0 ELSE when, ev, frac)
                        t   == IF when # -1 THEN new
                               ELSE [new EXCEPT !.time = old.time, !.first = old.time,
                                                !.interval = old.interval,
                                                !.asked = old.asked]
                    IN  MayRepeat(t) /\ PendingTimers' = schedule_timer(rest, t)

(* /TIMER -update -refnum want [-repeat events] [when] *)
UpdateCommand ==
    /\ ~stuck /\ MayAdd
    /\ \E want \in Refs \ {0}, when \in Delays \cup {-1}, events \in Repeats \cup {-1} :
           get_timer(PendingTimers, want) # 0 /\ UpdateTimer(want, when, events)
    /\ UNCHANGED <<now, parsingtimer, now1, current, stuck>>

(* /TIMER -delete ref *)
DeleteCommand ==
    /\ ~stuck /\ MayDelete
    /\ \E i \in DOMAIN PendingTimers :
           PendingTimers' = delete_timer(PendingTimers, PendingTimers[i].ref)
    /\ UNCHANGED <<now, parsingtimer, now1, current, stuck, made>>

(* /TIMER -delete all, and what calls BX_delete_all_timers(); it goes on    *)
(* until the list is empty, also when nothing may be deleted                *)
DeleteAll ==
    /\ PendingTimers # <<>> /\ ~stuck
    /\ \/ MayDelete /\ PendingTimers' = <<>> /\ UNCHANGED stuck
       \/ /\ ~MayDelete /\ "delete_all_in_timer" \in Hazards
          /\ stuck' = TRUE /\ UNCHANGED PendingTimers
    /\ UNCHANGED <<now, parsingtimer, now1, current, made>>

-----------------------------------------------------------------------------
(* ExecuteTimers().  What it does to from_server and to the current window, *)
(* and puts back, is left out; nothing sets `delete'.                       *)

DueAt(time) == PendingTimers # <<>> /\ PendingTimers[1].time < time

(* with nothing due, the call has no effect *)
StartPass ==
    /\ ~parsingtimer /\ DueAt(now)
    /\ parsingtimer' = TRUE /\ now1' = now
    /\ UNCHANGED <<now, PendingTimers, current, stuck, made>>

FireTimer ==
    /\ parsingtimer /\ current = None /\ DueAt(now1)
    /\ current' = [PendingTimers[1] EXCEPT !.fired = @ + 1]
    /\ PendingTimers' = Tail(PendingTimers)
    /\ UNCHANGED <<now, parsingtimer, now1, stuck, made>>

(* its commands have been run *)
EndTimer ==
    /\ current # None /\ ~stuck
    /\ current' = None
    /\ PendingTimers' = IF Once(current.events) THEN PendingTimers
                        ELSE schedule_timer(PendingTimers, Rescheduled(current))
    /\ UNCHANGED <<now, parsingtimer, now1, stuck, made>>

(* mutant: not when the commands have returned *)
PassOver_meanwhile == ~DueAt(now1)

PassOver == current = None /\ ~DueAt(now1)

EndPass ==
    /\ parsingtimer /\ PassOver
    /\ parsingtimer' = FALSE /\ now1' = 0
    /\ UNCHANGED <<now, PendingTimers, current, stuck, made>>

TimePasses ==
    /\ now < MaxNow
    /\ now' = now + 1
    /\ UNCHANGED <<PendingTimers, parsingtimer, now1, current, stuck, made>>

ExecuteTimers == StartPass \/ FireTimer \/ EndTimer \/ EndPass

Next ==
    \/ TimerCommand \/ ClientTimer \/ UpdateCommand \/ DeleteCommand \/ DeleteAll
    \/ ExecuteTimers \/ TimePasses

Spec == Init /\ [][Next]_vars

(* io() comes back to ExecuteTimers() however long it waits in select():    *)
(* TimerTimeout() limits that to the time the first timer is due.           *)
FairSpec == Spec /\ WF_vars(ExecuteTimers)

-----------------------------------------------------------------------------
(***************************************************************************)
(* ExecuteTimers() looks at the head of the list only: no timer waits      *)
(* behind a later one.                                                     *)
(***************************************************************************)
Sorted ==
    \A i, j \in DOMAIN PendingTimers :
       i < j => PendingTimers[i].time <= PendingTimers[j].time

(***************************************************************************)
(* "A specific reference number may be specified, though the number may    *)
(* not be one that is already in use" (the documentation of /TIMER): a     *)
(* reference says which timer is meant.                                    *)
(***************************************************************************)
RefsUnique ==
    \A i, j \in DOMAIN PendingTimers :
       PendingTimers[i].ref = PendingTimers[j].ref => i = j

(* less than a second off the time it was asked for: as often as it fired, *)
(* so often the delay it was given is added to the first time              *)
OnTime(t) ==
    LET due == t.first + t.fired * t.asked
    IN  due - Second < t.time /\ t.time < due + Second

(* However late a pass is and however long commands take, a timer whose    *)
(* delay is in whole seconds stays near the times it was asked for.        *)
NoDrift ==
    \A i \in DOMAIN PendingTimers :
       PendingTimers[i].asked % Second = 0 => OnTime(PendingTimers[i])

(* What is left is what was asked for less what was done. *)
CountKept ==
    /\ \A i \in DOMAIN PendingTimers :
          LET t == PendingTimers[i]
          IN  IF t.total = -1 THEN t.events = -1 ELSE t.events = t.total - t.fired /\ t.events > 0
    /\ current # None /\ Once(current.events) => current.fired = current.total

(***************************************************************************)
(* A timer fires as often as it was asked to before it is freed.  One that *)
(* was given whole seconds is due every time within a second of when it    *)
(* was asked to, however late passes are and however long the commands of  *)
(* timers take.  Nothing is said of when the others are due: add_timer()   *)
(* keeps the whole seconds of a delay, so that 1.5 s is honoured once and  *)
(* then repeated every second.                                             *)
(***************************************************************************)
FiresAsAsked == NoDrift /\ CountKept

Live == {PendingTimers[i].id : i \in DOMAIN PendingTimers} \cup ({current.id} \ {0})

(* freed by the step that puts current back to None *)
Finished == IF current # None /\ Once(current.events) THEN {current.id} ELSE {}

(***************************************************************************)
(* A timer goes away only by a command between two timers, or by itself,   *)
(* after its last time: never by what another timer does, and never        *)
(* because the list was changed while ExecuteTimers() walked it.           *)
(***************************************************************************)
NoTimerLost ==
    [][{current, current'} # {None} => Live \ Finished \subseteq Live']_vars

Due(id) == \E i \in DOMAIN PendingTimers :
               PendingTimers[i].id = id /\ PendingTimers[i].time < now

(***************************************************************************)
(* A timer that is due fires, unless it is deleted or put off by -update.  *)
(***************************************************************************)
DueTimersFire == \A id \in 1..MaxId : []<>~Due(id)

(***************************************************************************)
(* A pass comes to its end, with timers that repeat or add others again    *)
(* and again: the client gets back to the keyboard and the network.        *)
(***************************************************************************)
PassEnds == []<>~parsingtimer
=============================================================================
