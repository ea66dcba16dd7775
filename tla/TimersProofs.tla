---------------------------- MODULE TimersProofs ----------------------------
(***************************************************************************)
(* Proofs about Timers for any number of timers, references, delays and    *)
(* repetitions, and however long the clock runs.                           *)
(***************************************************************************)
EXTENDS Timers, SequenceLemmas

-----------------------------------------------------------------------------
(* Whole seconds *)

(* Dividing what is made of k seconds and a fraction gives k. *)
LEMMA WholeSeconds ==
  ASSUME NEW d \in Nat \ {0}, NEW k \in Nat, NEW f \in 0..(d - 1)
  PROVE  (k * d + f) \div d = k
  OBVIOUS

(* A time is its whole seconds and less than a second. *)
LEMMA Fraction ==
  ASSUME NEW d \in Nat \ {0}, NEW n \in Nat
  PROVE  /\ n \div d \in Nat
         /\ (n \div d) * d <= n /\ n < (n \div d) * d + d
  OBVIOUS

(* A number that leaves nothing is made of whole seconds. *)
LEMMA WholeDelay ==
  ASSUME NEW d \in Nat \ {0}, NEW n \in Nat, n % d = 0
  PROVE  (n \div d) * d = n
  OBVIOUS

(* Products of numbers are numbers. *)
LEMMA Products ==
  ASSUME NEW a \in Nat, NEW b \in Nat, NEW d \in Nat
  PROVE  /\ a * b \in Nat /\ (a + b) * d = a * d + b * d
  OBVIOUS

-----------------------------------------------------------------------------
(* A timer and the times it was asked for *)

(* when t is to fire after n times: the first time as asked, to the         *)
(* microsecond; from then on at the fraction the address gives              *)
Planned(t, n) ==
    IF n = 0 THEN t.first ELSE (t.first \div Second) * Second + t.frac + n * (t.interval * Second)

(* what is left of what was asked for after n times *)
CountLeft(t, n) ==
    IF t.total = -1 THEN t.events = -1 ELSE t.events = t.total - n /\ t.events > 0

(* add_timer() keeps the whole seconds of the delay asked for *)
Truncated(t) == t.interval = t.asked \div Second

(* t, in the list, is as its history says *)
InPlan(t) == Truncated(t) /\ t.time = Planned(t, t.fired) /\ CountLeft(t, t.fired)

(* t, whose commands run, is as it was before it fired *)
Running(t) == Truncated(t) /\ t.fired > 0 /\ t.time = Planned(t, t.fired - 1) /\ CountLeft(t, t.fired - 1)

(* the events /TIMER accepts, and those -update takes over *)
Asking == (Nat \ {0}) \cup {-1}

(* The numbers of a timer are numbers. *)
LEMMA TimerFields ==
  ASSUME NEW t \in Timer
  PROVE  /\ t.id \in 1..MaxId /\ t.ref \in Nat /\ t.whom \in Nat /\ t.time \in Nat
         /\ t.interval \in Nat /\ t.events \in Int /\ t.frac \in 0..(Second - 1)
         /\ t.asked \in Nat /\ t.first \in Nat /\ t.fired \in Nat /\ t.total \in Int
  BY DEF Timer

(* A plan is a time. *)
LEMMA PlannedType ==
  ASSUME NEW t \in Timer, NEW n \in Nat
  PROVE  Planned(t, n) \in Nat
  <1>1. /\ t.first \in Nat /\ t.interval \in Nat /\ t.frac \in Nat /\ Second \in Nat \ {0}
    BY TimerFields, TimersAssumption
  <1>2. t.first \div Second \in Nat
    BY <1>1, Fraction
  <1>3. (t.first \div Second) * Second \in Nat /\ n * (t.interval * Second) \in Nat
    BY <1>1, <1>2, Products
  <1> QED BY <1>1, <1>3 DEF Planned

(***************************************************************************)
(* A repeating timer is put off by its interval from the time it was due,  *)
(* not from the time its commands have been run.                           *)
(***************************************************************************)
LEMMA Reschedules ==
  ASSUME NEW t \in Timer, Running(t), ~ Once(t.events)
  PROVE  /\ Rescheduled(t) \in Timer /\ InPlan(Rescheduled(t))
         /\ Rescheduled(t).id = t.id /\ Rescheduled(t).ref = t.ref
  <1> DEFINE r == Rescheduled(t)
             a == t.first \div Second
             s == t.interval * Second
             n == t.fired - 1
  <1>1. /\ t.id \in 1..MaxId /\ t.ref \in Nat /\ t.whom \in Nat /\ t.time \in Nat
        /\ t.interval \in Nat /\ t.events \in Int /\ t.frac \in 0..(Second - 1)
        /\ t.first \in Nat /\ t.fired \in Nat /\ t.total \in Int
        /\ Second \in Nat \ {0}
    BY TimerFields, TimersAssumption
  <1>2. /\ r.id = t.id /\ r.ref = t.ref /\ r.whom = t.whom /\ r.interval = t.interval
        /\ r.frac = t.frac /\ r.first = t.first /\ r.fired = t.fired /\ r.total = t.total
        /\ r.time = (t.time \div Second + t.interval) * Second + t.frac
        /\ r.events = IF t.events = -1 THEN -1 ELSE t.events - 1
        /\ r.time \in Nat /\ r.events \in Int => r \in Timer
    BY DEF Rescheduled, Timer
  <1>3. t.fired > 0 /\ n \in Nat /\ t.time = Planned(t, n) /\ CountLeft(t, n)
    BY <1>1 DEF Running
  <1> HIDE DEF r
  <1>4. t.time \div Second \in Nat /\ a \in Nat /\ s \in Nat /\ a * Second \in Nat
    BY <1>1, Fraction, Products
  <1>5. r.time = a * Second + t.frac + t.fired * s
    <2>1. CASE n = 0
      <3>1. t.time = t.first /\ t.fired = 1
        BY <1>1, <1>3, <2>1 DEF Planned
      <3>2. r.time = (a + t.interval) * Second + t.frac
        BY <1>2, <3>1
      <3>3. (a + t.interval) * Second = a * Second + s
        BY <1>1, <1>4, Products
      <3> HIDE DEF a, s
      <3>4. 1 * s = s
        BY <1>4
      <3> QED BY <1>1, <1>4, <3>1, <3>2, <3>3, <3>4
    <2>2. CASE n # 0
      <3> DEFINE m == n * t.interval
      <3>1. m \in Nat /\ m * Second = n * s
        BY <1>1, <1>3
      <3>2. t.time = a * Second + t.frac + n * s
        BY <1>3, <2>2 DEF Planned
      <3>3. (a + m) * Second = a * Second + n * s /\ a + m \in Nat
        BY <1>1, <1>4, <3>1, Products
      <3> HIDE DEF a, s, m
      <3>4. n * s \in Nat
        BY <1>1, <1>3, <1>4, Products
      <3>5. t.time = (a + m) * Second + t.frac
        BY <1>1, <1>4, <3>2, <3>3, <3>4
      <3>6. t.time \div Second = a + m
        BY <1>1, <3>3, <3>5, WholeSeconds
      <3>7. ((a + m) + t.interval) * Second = (a + m) * Second + s
        BY <1>1, <3>3, Products DEF s
      <3>8. r.time = (a + m) * Second + s + t.frac
        BY <1>2, <3>6, <3>7
      <3>9. t.fired * s = n * s + s
        <4>1. (n + 1) * s = n * s + 1 * s /\ 1 * s = s
          BY <1>3, <1>4, Products
        <4>2. n + 1 = t.fired
          BY <1>1
        <4> QED BY <4>1, <4>2
      <3> HIDE DEF n
      <3> QED BY <1>1, <1>4, <3>3, <3>4, <3>8, <3>9
    <2> QED BY <2>1, <2>2
  <1>6. r.time = Planned(r, r.fired)
    BY <1>1, <1>2, <1>3, <1>5 DEF Planned
  <1>7. CountLeft(r, r.fired)
    BY <1>1, <1>2, <1>3 DEF CountLeft, Once
  <1>8. r.time \in Nat /\ r.events \in Int
    <2>1. t.fired * s \in Nat
      BY <1>1, <1>4, Products
    <2> HIDE DEF a, s
    <2> QED BY <1>1, <1>2, <1>4, <1>5, <2>1
  <1>9. r \in Timer
    BY <1>2, <1>8
  <1>10. Truncated(r)
    BY DEF Running, Truncated, Rescheduled, Timer, r
  <1> QED BY <1>2, <1>6, <1>7, <1>9, <1>10 DEF InPlan, r

(* A new timer is in plan. *)
LEMMA FreshInPlan ==
  ASSUME now \in Nat, NEW id \in 1..MaxId, NEW ref \in Nat, NEW whom \in Nat, NEW when \in Nat,
         NEW events \in Asking, NEW frac \in 0..(Second - 1)
  PROVE  Fresh(id, ref, whom, when, events, frac) \in Timer
         /\ InPlan(Fresh(id, ref, whom, when, events, frac))
  <1>1. when \div Second \in Nat /\ now + when \in Nat /\ events \in Int
    BY Fraction, TimersAssumption DEF Asking
  <1>2. Fresh(id, ref, whom, when, events, frac) \in Timer
    BY <1>1 DEF Fresh, Timer
  <1>3. InPlan(Fresh(id, ref, whom, when, events, frac))
    BY <1>1 DEF Fresh, InPlan, Truncated, Planned, CountLeft, Asking
  <1> QED BY <1>2, <1>3

(* the new timer of -update without a time: that of the old one *)
TakesTime(id, ref, old, events, frac) ==
    [Fresh(id, ref, 0, 0, events, frac)
       EXCEPT !.time = old.time, !.first = old.time, !.interval = old.interval,
              !.asked = old.asked]

(* It is in plan. *)
LEMMA UpdatedInPlan ==
  ASSUME now \in Nat, NEW id \in 1..MaxId, NEW ref \in Nat, NEW old \in Timer, InPlan(old),
         NEW events \in Asking, NEW frac \in 0..(Second - 1)
  PROVE  /\ TakesTime(id, ref, old, events, frac) \in Timer
         /\ InPlan(TakesTime(id, ref, old, events, frac))
         /\ TakesTime(id, ref, old, events, frac).ref = ref
  <1> DEFINE t == TakesTime(id, ref, old, events, frac)
  <1>1. old.time \in Nat /\ old.interval \in Nat /\ old.asked \in Nat /\ events \in Int
    BY TimerFields DEF Asking
  <1>2. /\ t.id = id /\ t.ref = ref /\ t.time = old.time /\ t.first = old.time
        /\ t.fired = 0 /\ t.events = events /\ t.total = events
        /\ t.interval = old.interval /\ t.asked = old.asked
    BY DEF Fresh, TakesTime
  <1>3. t \in Timer
    <2> DEFINE f == Fresh(id, ref, 0, 0, events, frac)
    <2>1. f \in Timer
      <3>1. 0 \in Nat
        OBVIOUS
      <3> QED BY <3>1, FreshInPlan
    <2> HIDE DEF f
    <2>2. [f EXCEPT !.time = old.time, !.first = old.time, !.interval = old.interval,
                    !.asked = old.asked] \in Timer
      BY <1>1, <2>1 DEF Timer
    <2> QED BY <2>2 DEF f, TakesTime
  <1> HIDE DEF t
  <1>4. InPlan(t)
    BY <1>1, <1>2 DEF InPlan, Truncated, Planned, CountLeft, Asking
  <1> QED BY <1>2, <1>3, <1>4 DEF t

-----------------------------------------------------------------------------
(* The list *)

InOrder(q) == \A i, j \in 1..Len(q) : i < j => q[i].time <= q[j].time

(* a list in order, each timer in plan *)
GoodList(q) == q \in Seq(Timer) /\ InOrder(q) /\ \A i \in 1..Len(q) : InPlan(q[i])

(* r is q with t put in front of the first that is later *)
IsScheduled(r, q, i, t) ==
    /\ i \in 1..(Len(q) + 1) /\ IsInserted(r, q, i, t)
    /\ \A j \in 1..(i - 1) : ~ (q[j].time > t.time)
    /\ i \in 1..Len(q) => q[i].time > t.time

(* schedule_timer() finds the place. *)
LEMMA SchedulesAt ==
  ASSUME NEW q \in Seq(Timer), NEW t \in Timer
  PROVE  /\ schedule_timer(q, t) \in Seq(Timer)
         /\ \E i \in 1..(Len(q) + 1) : IsScheduled(schedule_timer(q, t), q, i, t)
  <1> DEFINE I == {k \in 1..Len(q) : q[k].time > t.time}
             i == IF I = {} THEN Len(q) + 1 ELSE Min(I)
  <1>1. Len(q) \in Nat
    OBVIOUS
  <1>2. I # {} => Min(I) \in I /\ \A k \in I : Min(I) <= k
    <2> SUFFICES ASSUME I # {} PROVE Min(I) \in I /\ \A k \in I : Min(I) <= k
      OBVIOUS
    <2>1. I \in SUBSET Nat
      OBVIOUS
    <2> HIDE DEF I
    <2>2. \E n \in I : \A m \in I : n <= m
      BY <2>1, LeastElement
    <2> QED BY <2>2 DEF Min
  <1>3. /\ i \in 1..(Len(q) + 1)
        /\ \A j \in 1..(i - 1) : ~ (q[j].time > t.time)
        /\ i \in 1..Len(q) => q[i].time > t.time
    <2>1. CASE I = {}
      <3>1. i = Len(q) + 1
        BY <2>1
      <3>2. \A j \in 1..Len(q) : ~ (q[j].time > t.time)
        BY <2>1
      <3> HIDE DEF i
      <3> QED BY <1>1, <3>1, <3>2
    <2>2. CASE I # {}
      <3>1. i \in I /\ \A k \in I : i <= k
        BY <1>2, <2>2
      <3> HIDE DEF i
      <3>2. i \in 1..Len(q) /\ q[i].time > t.time
        BY <3>1
      <3>3. ASSUME NEW j \in 1..(i - 1) PROVE ~ (q[j].time > t.time)
        <4>1. j \in 1..Len(q) /\ ~ (i <= j)
          BY <1>1, <3>2
        <4> QED BY <3>1, <4>1
      <3> QED BY <1>1, <3>2, <3>3
    <2> QED BY <2>1, <2>2
  <1>4. schedule_timer(q, t) = InsertAt(q, i, t)
    <2>1. SelectInSeq(q, LAMBDA o : o.time > t.time) = IF I # {} THEN Min(I) ELSE 0
      BY DEF SelectInSeq
    <2>2. i = IF SelectInSeq(q, LAMBDA o : o.time > t.time) = 0 THEN Len(q) + 1
              ELSE SelectInSeq(q, LAMBDA o : o.time > t.time)
      <3>1. I # {} => Min(I) # 0
        <4>1. \A k \in I : k # 0
          BY <1>1
        <4> HIDE DEF I
        <4> QED BY <1>2, <4>1
      <3> QED BY <2>1, <3>1
    <2> QED BY <2>2 DEF schedule_timer
  <1> HIDE DEF i
  <1>5. InsertAt(q, i, t) \in Seq(Timer) /\ IsInserted(InsertAt(q, i, t), q, i, t)
    BY <1>3, InsertAtInserts
  <1> QED BY <1>3, <1>4, <1>5 DEF IsScheduled

(* What is in a list after an insertion. *)
LEMMA InsertedElements ==
  ASSUME NEW q \in Seq(Timer), NEW r, NEW t, NEW i \in 1..(Len(q) + 1), IsInserted(r, q, i, t)
  PROVE  /\ \A j \in 1..Len(q) : \E k \in 1..Len(r) : r[k] = q[j]
         /\ \E k \in 1..Len(r) : r[k] = t
         /\ \A k \in 1..Len(r) : \/ k = i /\ r[k] = t
                                 \/ k < i /\ k \in 1..Len(q) /\ r[k] = q[k]
                                 \/ k > i /\ k - 1 \in 1..Len(q) /\ r[k] = q[k - 1]
  <1>1. Len(q) \in Nat /\ Len(r) = Len(q) + 1
    BY DEF IsInserted
  <1>2. ASSUME NEW j \in 1..Len(q) PROVE \E k \in 1..Len(r) : r[k] = q[j]
    <2>1. CASE j < i
      <3>1. j \in 1..(i - 1) /\ j \in 1..Len(r)
        BY <1>1, <2>1
      <3> QED BY <3>1 DEF IsInserted
    <2>2. CASE ~ (j < i)
      <3>1. j \in i..Len(q) /\ j + 1 \in 1..Len(r)
        BY <1>1, <2>2
      <3> QED BY <3>1 DEF IsInserted
    <2> QED BY <2>1, <2>2
  <1>3. i \in 1..Len(r) /\ r[i] = t
    BY <1>1 DEF IsInserted
  <1>4. ASSUME NEW k \in 1..Len(r)
        PROVE  \/ k = i /\ r[k] = t
               \/ k < i /\ k \in 1..Len(q) /\ r[k] = q[k]
               \/ k > i /\ k - 1 \in 1..Len(q) /\ r[k] = q[k - 1]
    <2>1. CASE k < i
      <3>1. k \in 1..(i - 1) /\ k \in 1..Len(q)
        BY <1>1, <2>1
      <3> QED BY <2>1, <3>1 DEF IsInserted
    <2>2. CASE k > i
      <3>1. k - 1 \in i..Len(q) /\ k - 1 \in 1..Len(q) /\ (k - 1) + 1 = k
        BY <1>1, <2>2
      <3>2. r[(k - 1) + 1] = q[k - 1]
        BY <3>1 DEF IsInserted
      <3> QED BY <2>2, <3>1, <3>2
    <2>3. k = i \/ k < i \/ k > i
      BY <1>1
    <2> QED BY <1>3, <2>1, <2>2, <2>3
  <1> QED BY <1>2, <1>3, <1>4

(* And after a removal. *)
LEMMA RemovedElements ==
  ASSUME NEW q \in Seq(Timer), NEW r, NEW i \in 1..Len(q), IsRemoved(r, q, i)
  PROVE  \A k \in 1..Len(r) : \/ k < i /\ k \in 1..Len(q) /\ r[k] = q[k]
                              \/ k >= i /\ k + 1 \in 1..Len(q) /\ r[k] = q[k + 1]
  <1>1. Len(q) \in Nat /\ Len(r) = Len(q) - 1
    BY DEF IsRemoved
  <1>2. ASSUME NEW k \in 1..Len(r)
        PROVE  \/ k < i /\ k \in 1..Len(q) /\ r[k] = q[k]
               \/ k >= i /\ k + 1 \in 1..Len(q) /\ r[k] = q[k + 1]
    <2>1. CASE k < i
      <3>1. k \in 1..(i - 1) /\ k \in 1..Len(q)
        BY <1>1, <2>1
      <3> QED BY <2>1, <3>1 DEF IsRemoved
    <2>2. CASE ~ (k < i)
      <3>1. k \in i..(Len(q) - 1) /\ k + 1 \in 1..Len(q) /\ k >= i
        BY <1>1, <2>2
      <3> QED BY <3>1 DEF IsRemoved
    <2> QED BY <2>1, <2>2
  <1> QED BY <1>2

(* schedule_timer() keeps the list in order. *)
LEMMA ScheduleKeeps ==
  ASSUME NEW q, GoodList(q), NEW t \in Timer, InPlan(t)
  PROVE  GoodList(schedule_timer(q, t))
  <1> DEFINE r == schedule_timer(q, t)
  <1>1. q \in Seq(Timer) /\ Len(q) \in Nat
    BY DEF GoodList
  <1>2. r \in Seq(Timer)
    BY <1>1, SchedulesAt
  <1>3. PICK i \in 1..(Len(q) + 1) : IsScheduled(r, q, i, t)
    BY <1>1, SchedulesAt
  <1> HIDE DEF r
  <1>4. \A k \in 1..Len(r) : \/ k = i /\ r[k] = t
                             \/ k < i /\ k \in 1..Len(q) /\ r[k] = q[k]
                             \/ k > i /\ k - 1 \in 1..Len(q) /\ r[k] = q[k - 1]
    BY <1>1, <1>3, InsertedElements DEF IsScheduled
  <1>5. \A k \in 1..Len(r) : InPlan(r[k])
    BY <1>4 DEF GoodList
  <1>6. \A k \in 1..Len(q) : q[k].time \in Nat
    BY <1>1, TimerFields
  <1>7. t.time \in Nat /\ \A k \in 1..Len(r) : k \in Int
    BY TimerFields
  <1>8. \A j \in 1..(i - 1) : q[j].time <= t.time
    <2> TAKE j \in 1..(i - 1)
    <2>1. j \in 1..Len(q) /\ ~ (q[j].time > t.time)
      BY <1>1, <1>3 DEF IsScheduled
    <2> QED BY <1>6, <1>7, <2>1
  <1>9. \A j \in i..Len(q) : t.time <= q[j].time
    <2> TAKE j \in i..Len(q)
    <2>1. j \in 1..Len(q) /\ i \in 1..Len(q) /\ (i = j \/ i < j)
      BY <1>1
    <2>2. q[i].time > t.time /\ q[i].time <= q[j].time
      <3>1. i = j => q[i].time <= q[j].time
        BY <1>6, <2>1
      <3>2. i < j => q[i].time <= q[j].time
        BY <2>1 DEF GoodList, InOrder
      <3> QED BY <1>3, <2>1, <3>1, <3>2 DEF IsScheduled
    <2> QED BY <1>6, <1>7, <2>1, <2>2
  <1>10. ASSUME NEW j \in 1..Len(r), NEW k \in 1..Len(r), j < k PROVE r[j].time <= r[k].time
    <2>1. CASE j < i /\ k < i
      <3>1. j \in 1..Len(q) /\ k \in 1..Len(q) /\ r[j] = q[j] /\ r[k] = q[k]
        BY <1>4, <1>7, <2>1
      <3> QED BY <1>10, <3>1 DEF GoodList, InOrder
    <2>2. CASE j < i /\ k = i
      <3>1. j \in 1..(i - 1) /\ r[j] = q[j] /\ r[k] = t
        BY <1>4, <1>7, <2>2
      <3> QED BY <1>8, <3>1
    <2>3. CASE j < i /\ k > i
      <3>1. j \in 1..Len(q) /\ k - 1 \in 1..Len(q) /\ r[j] = q[j] /\ r[k] = q[k - 1] /\ j < k - 1
        BY <1>4, <1>7, <2>3
      <3> QED BY <3>1 DEF GoodList, InOrder
    <2>4. CASE j = i
      <3>1. k > i /\ r[j] = t
        BY <1>4, <1>7, <1>10, <2>4
      <3>2. k - 1 \in i..Len(q) /\ r[k] = q[k - 1]
        BY <1>1, <1>4, <1>7, <3>1
      <3> QED BY <1>9, <3>1, <3>2
    <2>5. CASE j > i
      <3>1. k > i
        BY <1>7, <1>10, <2>5
      <3>2. j - 1 \in 1..Len(q) /\ k - 1 \in 1..Len(q) /\ r[j] = q[j - 1] /\ r[k] = q[k - 1]
            /\ j - 1 < k - 1
        BY <1>4, <1>7, <1>10, <2>5, <3>1
      <3> QED BY <3>2 DEF GoodList, InOrder
    <2>6. (j < i \/ j = i \/ j > i) /\ (k < i \/ k = i \/ k > i)
      BY <1>7
    <2> QED BY <2>1, <2>2, <2>3, <2>4, <2>5, <2>6
  <1> QED BY <1>2, <1>5, <1>10 DEF GoodList, InOrder, r

(* Removing a timer keeps it in order. *)
LEMMA RemovalKeeps ==
  ASSUME NEW q, GoodList(q), NEW r \in Seq(Timer), NEW i \in 1..Len(q), IsRemoved(r, q, i)
  PROVE  GoodList(r)
  <1>1. q \in Seq(Timer)
    BY DEF GoodList
  <1>2. \A k \in 1..Len(r) : \/ k < i /\ k \in 1..Len(q) /\ r[k] = q[k]
                             \/ k >= i /\ k + 1 \in 1..Len(q) /\ r[k] = q[k + 1]
    BY <1>1, RemovedElements
  <1>3. \A k \in 1..Len(r) : InPlan(r[k])
    BY <1>2 DEF GoodList
  <1>4. ASSUME NEW j \in 1..Len(r), NEW k \in 1..Len(r), j < k PROVE r[j].time <= r[k].time
    <2>1. \E a, b \in 1..Len(q) : a < b /\ r[j] = q[a] /\ r[k] = q[b]
      <3>1. CASE j < i /\ k < i
        BY <1>2, <1>4, <3>1
      <3>2. CASE j < i /\ k >= i
        <4>1. j \in 1..Len(q) /\ k + 1 \in 1..Len(q) /\ j < k + 1 /\ r[j] = q[j] /\ r[k] = q[k + 1]
          BY <1>2, <1>4, <3>2
        <4> QED BY <4>1
      <3>3. CASE j >= i
        <4>1. /\ j + 1 \in 1..Len(q) /\ k + 1 \in 1..Len(q) /\ j + 1 < k + 1
              /\ r[j] = q[j + 1] /\ r[k] = q[k + 1]
          BY <1>2, <1>4, <3>3
        <4> QED BY <4>1
      <3> QED BY <1>4, <3>1, <3>2, <3>3
    <2> QED BY <2>1 DEF GoodList, InOrder
  <1> QED BY <1>3, <1>4 DEF GoodList, InOrder

(* Taking the first timer out, as ExecuteTimers() does, is a removal. *)
LEMMA TailRemoves ==
  ASSUME NEW q \in Seq(Timer), q # <<>>
  PROVE  Tail(q) \in Seq(Timer) /\ 1 \in 1..Len(q) /\ IsRemoved(Tail(q), q, 1)
  <1> DEFINE r == Tail(q)
  <1>1. /\ Len(q) \in Nat \ {0} /\ r \in Seq(Timer) /\ Len(r) = Len(q) - 1
        /\ \A j \in 1..(Len(q) - 1) : r[j] = q[j + 1]
    BY HeadTailProperties
  <1> HIDE DEF r
  <1>2. 1 \in 1..Len(q) /\ IsRemoved(r, q, 1)
    BY <1>1 DEF IsRemoved
  <1> QED BY <1>1, <1>2 DEF r

(* delete_timer() removes the first timer with the reference. *)
LEMMA DeleteRemoves ==
  ASSUME NEW q \in Seq(Timer), NEW ref, RefTaken(q, ref)
  PROVE  /\ delete_timer(q, ref) \in Seq(Timer)
         /\ \E i \in 1..Len(q) : /\ q[i].ref = ref
                                 /\ i = SelectInSeq(q, LAMBDA t : t.ref = ref)
                                 /\ IsRemoved(delete_timer(q, ref), q, i)
  <1> DEFINE I == {k \in 1..Len(q) : q[k].ref = ref}
             i == Min(I)
  <1>1. Len(q) \in Nat /\ DOMAIN q = 1..Len(q)
    OBVIOUS
  <1>2. I # {} /\ I \in SUBSET Nat
    BY <1>1 DEF RefTaken
  <1>3. i \in I
    <2> HIDE DEF I
    <2>1. \E n \in I : \A m \in I : n <= m
      BY <1>2, LeastElement
    <2> QED BY <2>1 DEF Min
  <1>4. SelectInSeq(q, LAMBDA t : t.ref = ref) = i
    BY <1>2 DEF SelectInSeq
  <1>5. delete_timer(q, ref) = RemoveAt(q, i)
    <2>1. \E k \in 1..Len(q) : q[k].ref = ref
      BY <1>2
    <2> QED BY <1>4, <2>1 DEF delete_timer, RemoveFirstMatch
  <1>6. i \in 1..Len(q) /\ q[i].ref = ref
    BY <1>3
  <1> HIDE DEF i
  <1>7. RemoveAt(q, i) \in Seq(Timer) /\ IsRemoved(RemoveAt(q, i), q, i)
    BY <1>6, RemoveAtRemoves
  <1> QED BY <1>4, <1>5, <1>6, <1>7

(* get_timer() returns the place of a timer, or 0. *)
LEMMA GetTimerFinds ==
  ASSUME NEW q \in Seq(Timer), NEW ref, get_timer(q, ref) # 0
  PROVE  get_timer(q, ref) \in 1..Len(q)
  <1> DEFINE I == {k \in 1..Len(q) : q[k].ref = ref \/ (q[k].whom # 0 /\ q[k].whom = ref)}
  <1>1. get_timer(q, ref) = IF I # {} THEN Min(I) ELSE 0
    BY DEF get_timer, SelectInSeq
  <1>2. I # {}
    BY <1>1
  <1>3. Min(I) \in I
    <2>1. I \in SUBSET Nat
      OBVIOUS
    <2> HIDE DEF I
    <2>2. \E n \in I : \A m \in I : n <= m
      BY <1>2, <2>1, LeastElement
    <2> QED BY <2>2 DEF Min
  <1> QED BY <1>1, <1>2, <1>3

(* A reference given out is higher than the numbers in use. *)
LEMMA NewRefIsNew ==
  ASSUME NEW q \in Seq(Timer)
  PROVE  /\ NewRef(q) \in Nat \ {0}
         /\ \A i \in 1..Len(q) : Number(q[i].ref) < NewRef(q)
         /\ NewRef(q) = 1 \/ \E i \in 1..Len(q) : NewRef(q) = Number(q[i].ref) + 1
  <1> DEFINE S == {0} \cup {Number(q[i].ref) : i \in DOMAIN q}
             g == Max(S)
  <1>1. DOMAIN q = 1..Len(q) /\ \A i \in 1..Len(q) : q[i].ref \in Nat
    BY TimerFields
  <1>2. S \in SUBSET 0..Name /\ S # {} /\ Name \in Nat
    BY <1>1, TimersAssumption DEF Number
  <1>3. g \in S /\ \A m \in S : m <= g
    <2> HIDE DEF S
    <2> QED BY <1>2, GreatestElement
  <1>4. NewRef(q) = g + 1
    BY DEF NewRef
  <1>5. g \in Nat /\ \A i \in 1..Len(q) : Number(q[i].ref) \in S
    BY <1>1, <1>2, <1>3
  <1>6. g = 0 \/ \E i \in 1..Len(q) : g = Number(q[i].ref)
    BY <1>1, <1>3
  <1>7. \A i \in 1..Len(q) : Number(q[i].ref) <= g /\ Number(q[i].ref) \in Nat
    <2> TAKE i \in 1..Len(q)
    <2>1. Number(q[i].ref) \in S
      BY <1>5
    <2> HIDE DEF g, S
    <2>2. Number(q[i].ref) <= g
      BY <1>3, <2>1
    <2>3. Number(q[i].ref) \in 0..Name
      BY <1>2, <2>1
    <2> QED BY <1>2, <2>2, <2>3
  <1> HIDE DEF g, S
  <1> QED BY <1>4, <1>5, <1>6, <1>7

-----------------------------------------------------------------------------
(* What the invariants rest on: the types, the order, and the plan *)

(* the timer whose commands run *)
CurrentOK == current # None => Running(current)

TInv == TypeOK /\ GoodList(PendingTimers) /\ CurrentOK

(* What the types say. *)
LEMMA TypeFacts ==
  ASSUME TypeOK
  PROVE  /\ now \in Nat /\ now <= MaxNow /\ now1 \in Nat /\ now1 <= now
         /\ made \in Nat /\ made <= MaxId /\ MaxId \in Nat /\ MaxNow \in Nat
         /\ PendingTimers \in Seq(Timer)
         /\ current # None => current \in Timer
  BY TimersAssumption DEF TypeOK

(* An empty list is in order. *)
LEMMA EmptyGood == GoodList(<<>>)
  BY DEF GoodList, InOrder

(* At first there are no timers. *)
LEMMA InitTInv == Init => TInv
  <1> SUFFICES ASSUME Init PROVE TInv
    OBVIOUS
  <1>1. TypeOK
    <2>1. PendingTimers \in Seq(Timer)
      BY DEF Init
    <2>2. 0 \in 0..MaxNow /\ 0 \in 0..0 /\ 0 \in 0..MaxId
      BY TimersAssumption
    <2> QED BY <2>1, <2>2 DEF Init, TypeOK
  <1> QED BY <1>1, EmptyGood DEF Init, TInv, CurrentOK

(* the list, and how many timers there were, after a command *)
ListOK == GoodList(PendingTimers') /\ made' \in 0..MaxId

(* add_timer() without -update schedules a timer. *)
LEMMA AddSchedules ==
  ASSUME TInv, NEW want \in Refs \cup {0}, NEW whom \in Nat, NEW when \in Delays,
         NEW events \in Asking, AddTimer(want, whom, when, events)
  PROVE  \E t \in Timer :
            /\ InPlan(t)
            /\ t.ref = IF want = 0 THEN NewRef(PendingTimers) ELSE want
            /\ PendingTimers' = schedule_timer(PendingTimers, t)
  <1>1. made < MaxId
    BY DEF AddTimer
  <1> DEFINE ref == IF want = 0 THEN NewRef(PendingTimers) ELSE want
  <1>2. PICK frac \in Fracs(events) :
           PendingTimers' = schedule_timer(PendingTimers, Fresh(made + 1, ref, whom, when, events, frac))
    BY DEF AddTimer
  <1>3. now \in Nat /\ made \in Nat /\ MaxId \in Nat /\ PendingTimers \in Seq(Timer)
    BY TypeFacts DEF TInv
  <1>4. frac \in 0..(Second - 1)
    BY TimersAssumption DEF Fracs
  <1>5. ref \in Nat
    BY <1>3, NewRefIsNew, TimersAssumption
  <1>6. made + 1 \in 1..MaxId /\ when \in Nat
    BY <1>1, <1>3, TimersAssumption
  <1> DEFINE t == Fresh(made + 1, ref, whom, when, events, frac)
  <1>7. t.ref = ref
    BY DEF Fresh
  <1>8. t \in Timer /\ InPlan(t)
    <2> HIDE DEF ref
    <2> QED BY <1>3, <1>4, <1>5, <1>6, FreshInPlan
  <1> HIDE DEF t
  <1> QED BY <1>2, <1>7, <1>8 DEF t

(* It keeps the list in order and in plan. *)
LEMMA AddKeeps ==
  ASSUME TInv, NEW want \in Refs \cup {0}, NEW whom \in Nat, NEW when \in Delays,
         NEW events \in Asking, AddTimer(want, whom, when, events)
  PROVE  ListOK
  <1>1. made < MaxId /\ made' = made + 1
    BY DEF AddTimer
  <1>2. made \in Nat /\ MaxId \in Nat /\ GoodList(PendingTimers)
    BY TypeFacts DEF TInv
  <1>3. GoodList(PendingTimers')
    BY <1>2, AddSchedules, ScheduleKeeps
  <1> QED BY <1>1, <1>2, <1>3 DEF ListOK

(* What -update does to the list: an old timer is taken out or not, a new *)
(* one is put in or not.                                                    *)
LEMMA UpdateShape ==
  ASSUME TInv, NEW want \in Refs \ {0}, NEW when \in Delays \cup {-1},
         NEW events \in Asking, get_timer(PendingTimers, want) # 0,
         UpdateTimer(want, when, events)
  PROVE  \E rest \in Seq(Timer) :
            /\ GoodList(rest) /\ made' \in 0..MaxId
            /\ \/ rest = PendingTimers
               \/ /\ current = None
                  /\ \E i \in 1..Len(PendingTimers) :
                        PendingTimers[i].ref = want /\ IsRemoved(rest, PendingTimers, i)
            /\ \/ PendingTimers' = rest /\ made' = made
               \/ /\ ~ RefTaken(rest, want)
                  /\ made' \in {made, made + 1}
                  /\ \E t \in Timer : InPlan(t) /\ t.ref = want
                                      /\ PendingTimers' = schedule_timer(rest, t)
  <1> DEFINE q       == PendingTimers
             old     == q[get_timer(q, want)]
             deletes == MayDelete /\ RefTaken(q, want)
             rest    == IF deletes THEN delete_timer(q, want) ELSE q
             place   == SelectInSeq(q, LAMBDA t : t.ref = want)
             id      == IF deletes THEN q[place].id ELSE made + 1
             ev      == UpdatedEvents(old, events)
  <1>1. /\ now \in Nat /\ made \in Nat /\ MaxId \in Nat /\ GoodList(q)
        /\ q \in Seq(Timer) /\ made <= MaxId
    BY TypeFacts DEF TInv
  <1>2. old \in Timer /\ InPlan(old)
    <2>1. get_timer(q, want) \in 1..Len(q)
      BY <1>1, GetTimerFinds
    <2> QED BY <1>1, <2>1 DEF GoodList
  <1>3. ev \in Asking
    <2>1. old.events \in Asking
      <3>1. old.events \in Int /\ old.fired \in Nat /\ old.total \in Int
        BY <1>2, TimerFields
      <3> HIDE DEF old
      <3> QED BY <1>2, <3>1 DEF InPlan, CountLeft, Asking
    <2> HIDE DEF old
    <2> QED BY <2>1 DEF UpdatedEvents
  <1>4. deletes => /\ rest \in Seq(Timer) /\ GoodList(rest) /\ current = None
                   /\ \E i \in 1..Len(q) : q[i].ref = want /\ IsRemoved(rest, q, i)
    <2> SUFFICES ASSUME deletes
                 PROVE  /\ rest \in Seq(Timer) /\ GoodList(rest) /\ current = None
                        /\ \E i \in 1..Len(q) : q[i].ref = want /\ IsRemoved(rest, q, i)
      OBVIOUS
    <2>1. rest = delete_timer(q, want) /\ RefTaken(q, want) /\ current = None
      BY DEF MayDelete
    <2> HIDE DEF rest, q
    <2>2. rest \in Seq(Timer) /\ \E i \in 1..Len(q) : q[i].ref = want /\ IsRemoved(rest, q, i)
      BY <1>1, <2>1, DeleteRemoves
    <2>3. GoodList(rest)
      BY <1>1, <2>2, RemovalKeeps
    <2> QED BY <2>1, <2>2, <2>3
  <1>5. ~ deletes => rest = q
    OBVIOUS
  <1>6. rest \in Seq(Timer) /\ GoodList(rest)
    <2> HIDE DEF rest, deletes
    <2> QED BY <1>1, <1>4, <1>5
  <1>7. \/ RefTaken(rest, want) /\ PendingTimers' = rest /\ made' = made
        \/ /\ ~ RefTaken(rest, want) /\ id \in 1..MaxId
           /\ made' = IF deletes THEN made ELSE made + 1
           /\ \E frac \in Fracs(ev) :
                 PendingTimers' = schedule_timer(rest,
                    IF when # -1 THEN Fresh(id, want, 0, IF when = -1 THEN 0 ELSE when, ev, frac)
                    ELSE [Fresh(id, want, 0, IF when = -1 THEN 0 ELSE when, ev, frac)
                            EXCEPT !.time = old.time, !.first = old.time, !.interval = old.interval,
                                   !.asked = old.asked])
    BY DEF UpdateTimer
  <1>8. want \in Nat
    BY TimersAssumption
  <1> HIDE DEF rest, id, ev, old, q
  <1>9. CASE RefTaken(rest, want) /\ PendingTimers' = rest /\ made' = made
    <2>1. made' \in 0..MaxId
      BY <1>1, <1>9
    <2> HIDE DEF deletes
    <2> QED BY <1>4, <1>5, <1>6, <1>9, <2>1 DEF q
  <1>10. CASE /\ ~ RefTaken(rest, want) /\ id \in 1..MaxId
              /\ made' = IF deletes THEN made ELSE made + 1
              /\ \E frac \in Fracs(ev) :
                    PendingTimers' = schedule_timer(rest,
                       IF when # -1 THEN Fresh(id, want, 0, IF when = -1 THEN 0 ELSE when, ev, frac)
                       ELSE [Fresh(id, want, 0, IF when = -1 THEN 0 ELSE when, ev, frac)
                               EXCEPT !.time = old.time, !.first = old.time, !.interval = old.interval,
                                      !.asked = old.asked])
    <2>1. PICK frac \in Fracs(ev) :
             PendingTimers' = schedule_timer(rest,
                IF when # -1 THEN Fresh(id, want, 0, IF when = -1 THEN 0 ELSE when, ev, frac)
                ELSE [Fresh(id, want, 0, IF when = -1 THEN 0 ELSE when, ev, frac)
                        EXCEPT !.time = old.time, !.first = old.time, !.interval = old.interval,
                               !.asked = old.asked])
      BY <1>10
    <2>2. frac \in 0..(Second - 1)
      BY TimersAssumption DEF Fracs
    <2>3. \E t \in Timer : InPlan(t) /\ t.ref = want /\ PendingTimers' = schedule_timer(rest, t)
      <3>1. CASE when # -1
        <4> DEFINE t == Fresh(id, want, 0, when, ev, frac)
        <4>1. when \in Nat /\ 0 \in Nat
          BY <3>1, TimersAssumption
        <4>2. t \in Timer /\ InPlan(t)
          BY <1>1, <1>3, <1>8, <1>10, <2>2, <4>1, FreshInPlan
        <4>3. t.ref = want
          BY DEF Fresh
        <4>4. PendingTimers' = schedule_timer(rest, t)
          BY <2>1, <3>1
        <4> HIDE DEF t
        <4> QED BY <4>2, <4>3, <4>4
      <3>2. CASE when = -1
        <4> DEFINE t == TakesTime(id, want, old, ev, frac)
        <4>1. t \in Timer /\ InPlan(t) /\ t.ref = want
          BY <1>1, <1>2, <1>3, <1>8, <1>10, <2>2, UpdatedInPlan
        <4>2. PendingTimers' = schedule_timer(rest, t)
          BY <2>1, <3>2 DEF TakesTime
        <4> HIDE DEF t
        <4> QED BY <4>1, <4>2
      <3> QED BY <3>1, <3>2
    <2>4. made' \in 0..MaxId /\ made' \in {made, made + 1}
      <3>1. ~ deletes => made + 1 \in 1..MaxId
        BY <1>10 DEF id
      <3> HIDE DEF deletes
      <3> QED BY <1>1, <1>10, <3>1
    <2> HIDE DEF deletes
    <2> QED BY <1>4, <1>5, <1>6, <1>10, <2>3, <2>4 DEF q
  <1> HIDE DEF deletes
  <1> QED BY <1>7, <1>9, <1>10

(***************************************************************************)
(* Every step keeps the types, the order and the plan: one case per        *)
(* action.                                                                 *)
(***************************************************************************)
LEMMA NextTInv == TInv /\ [Next]_vars => TInv'
  <1> SUFFICES ASSUME TInv, [Next]_vars PROVE TInv'
    OBVIOUS
  <1>1. /\ TypeOK /\ GoodList(PendingTimers) /\ CurrentOK
        /\ now \in Nat /\ now <= MaxNow /\ now1 \in Nat /\ now1 <= now
        /\ made \in Nat /\ made <= MaxId /\ MaxId \in Nat /\ MaxNow \in Nat
        /\ PendingTimers \in Seq(Timer)
        /\ current # None => current \in Timer
    BY TypeFacts DEF TInv
  <1>2. (current \in Timer \/ current = None) /\ (current # None => parsingtimer)
        /\ parsingtimer \in BOOLEAN /\ stuck \in BOOLEAN
    BY <1>1 DEF TypeOK
  <1>3. \A t \in Timer : t # None
    <2> TAKE t \in Timer
    <2>1. t.id \in 1..MaxId
      BY TimerFields
    <2>2. None.id = 0
      BY DEF None
    <2> QED BY <2>1, <2>2
  <1>4. (\A e \in Repeats : e \in Asking) /\ 1 \in Asking /\ -1 \in Asking
    BY TimersAssumption DEF Asking
  <1>5. ASSUME ListOK, UNCHANGED <<now, parsingtimer, now1, current>>, stuck' \in BOOLEAN
        PROVE  TInv'
    <2>1. TypeOK'
      BY <1>1, <1>5 DEF TypeOK, ListOK, GoodList
    <2>2. CurrentOK'
      BY <1>1, <1>5 DEF CurrentOK
    <2> QED BY <1>5, <2>1, <2>2 DEF TInv, ListOK
  <1>6. CASE TimerCommand
    <2>1. PICK want \in Refs, when \in Delays, events \in Repeats : AddTimer(want, 0, when, events)
      BY <1>6 DEF TimerCommand
    <2>2. ListOK
      <3>1. want \in Refs \cup {0} /\ 0 \in Nat /\ events \in Asking
        BY <1>4
      <3> QED BY <2>1, <3>1, AddKeeps
    <2> QED BY <1>2, <1>5, <1>6, <2>2 DEF TimerCommand
  <1>7. CASE ClientTimer
    <2>1. PICK whom \in Whoms, when \in Delays : AddTimer(0, whom, when, 1)
      BY <1>7 DEF ClientTimer
    <2>2. ListOK
      <3>1. 0 \in Refs \cup {0} /\ whom \in Nat
        BY TimersAssumption
      <3> QED BY <1>4, <2>1, <3>1, AddKeeps
    <2> QED BY <1>2, <1>5, <1>7, <2>2 DEF ClientTimer
  <1>8. CASE UpdateCommand
    <2>1. PICK want \in Refs \ {0}, when \in Delays \cup {-1}, events \in Repeats \cup {-1} :
             get_timer(PendingTimers, want) # 0 /\ UpdateTimer(want, when, events)
      BY <1>8 DEF UpdateCommand
    <2>2. events \in Asking
      BY <1>4
    <2>3. ListOK
      <3>1. PICK rest \in Seq(Timer) :
               /\ GoodList(rest) /\ made' \in 0..MaxId
               /\ \/ PendingTimers' = rest
                  \/ \E t \in Timer : InPlan(t) /\ PendingTimers' = schedule_timer(rest, t)
        BY <2>1, <2>2, UpdateShape
      <3>2. GoodList(PendingTimers')
        BY <3>1, ScheduleKeeps
      <3> QED BY <3>1, <3>2 DEF ListOK
    <2> QED BY <1>2, <1>5, <1>8, <2>3 DEF UpdateCommand
  <1>9. CASE DeleteCommand
    <2>1. PICK i \in DOMAIN PendingTimers :
             PendingTimers' = delete_timer(PendingTimers, PendingTimers[i].ref)
      BY <1>9 DEF DeleteCommand
    <2>2. RefTaken(PendingTimers, PendingTimers[i].ref)
      BY DEF RefTaken
    <2>3. GoodList(PendingTimers')
      BY <1>1, <2>1, <2>2, DeleteRemoves, RemovalKeeps
    <2>4. ListOK
      BY <1>1, <1>9, <2>3 DEF ListOK, DeleteCommand
    <2> QED BY <1>2, <1>5, <1>9, <2>4 DEF DeleteCommand
  <1>10. CASE DeleteAll
    <2>1. GoodList(PendingTimers') /\ stuck' \in BOOLEAN
      BY <1>1, <1>2, <1>10, EmptyGood DEF DeleteAll
    <2>2. ListOK
      BY <1>1, <1>10, <2>1 DEF ListOK, DeleteAll
    <2> QED BY <1>5, <1>10, <2>1, <2>2 DEF DeleteAll
  <1>11. CASE StartPass
    <2>1. TypeOK'
      BY <1>1, <1>11 DEF TypeOK, StartPass
    <2> QED BY <1>1, <1>11, <2>1 DEF TInv, CurrentOK, StartPass
  <1>12. CASE FireTimer
    <2> DEFINE t == PendingTimers[1]
    <2>1. /\ PendingTimers # <<>> /\ parsingtimer /\ current = None
          /\ current' = [t EXCEPT !.fired = t.fired + 1]
          /\ PendingTimers' = Tail(PendingTimers)
          /\ UNCHANGED <<now, parsingtimer, now1, stuck, made>>
      BY <1>12 DEF FireTimer, DueAt
    <2>2. /\ Tail(PendingTimers) \in Seq(Timer) /\ 1 \in 1..Len(PendingTimers)
          /\ IsRemoved(Tail(PendingTimers), PendingTimers, 1)
      BY <1>1, <2>1, TailRemoves
    <2>3. GoodList(PendingTimers')
      BY <1>1, <2>1, <2>2, RemovalKeeps
    <2>4. t \in Timer /\ InPlan(t)
      BY <1>1, <2>2 DEF GoodList
    <2>5. t.fired \in Nat
      BY <2>4, TimerFields
    <2> HIDE DEF t
    <2>6. /\ current' \in Timer /\ current'.fired = t.fired + 1 /\ current'.time = t.time
          /\ current'.first = t.first /\ current'.frac = t.frac /\ current'.interval = t.interval
          /\ current'.total = t.total /\ current'.events = t.events /\ current'.asked = t.asked
      <3>1. t.fired + 1 \in Nat
        BY <2>5
      <3>2. [t EXCEPT !.fired = t.fired + 1] \in Timer
        BY <2>4, <3>1 DEF Timer
      <3>3. /\ current'.fired = t.fired + 1 /\ current'.time = t.time
            /\ current'.first = t.first /\ current'.frac = t.frac
            /\ current'.interval = t.interval
            /\ current'.total = t.total /\ current'.events = t.events
        BY <2>1, <2>4 DEF Timer
      <3>4. current'.asked = t.asked
        BY <2>1, <2>4 DEF Timer
      <3> QED BY <2>1, <3>2, <3>3, <3>4
    <2>7. Running(current')
      <3>1. (t.fired + 1) - 1 = t.fired /\ t.fired + 1 > 0
        BY <2>5
      <3> QED BY <2>4, <2>6, <3>1 DEF InPlan, Running, Truncated, Planned, CountLeft
    <2>8. TypeOK'
      BY <1>1, <2>1, <2>3, <2>6 DEF TypeOK, GoodList
    <2> QED BY <2>3, <2>7, <2>8 DEF TInv, CurrentOK
  <1>13. CASE EndTimer
    <2>1. /\ current \in Timer /\ Running(current) /\ current' = None
          /\ PendingTimers' = IF Once(current.events) THEN PendingTimers
                              ELSE schedule_timer(PendingTimers, Rescheduled(current))
          /\ UNCHANGED <<now, parsingtimer, now1, stuck, made>>
      BY <1>1, <1>13 DEF EndTimer, CurrentOK
    <2>2. GoodList(PendingTimers')
      BY <1>1, <2>1, Reschedules, ScheduleKeeps
    <2>3. TypeOK'
      BY <1>1, <2>1, <2>2 DEF TypeOK, GoodList
    <2> QED BY <2>1, <2>2, <2>3 DEF TInv, CurrentOK
  <1>14. CASE EndPass
    <2>1. current = None /\ current' = None
      BY <1>14 DEF EndPass, PassOver
    <2>2. now1' \in 0..now' /\ parsingtimer' \in BOOLEAN
      <3>1. 0 \in 0..now
        BY <1>1
      <3>2. now1' = 0 /\ now' = now /\ parsingtimer' = FALSE
        BY <1>14 DEF EndPass
      <3> QED BY <3>1, <3>2
    <2>3. TypeOK'
      BY <1>1, <1>14, <2>1, <2>2 DEF TypeOK, EndPass
    <2> QED BY <1>1, <1>14, <2>1, <2>3 DEF TInv, CurrentOK, EndPass
  <1>15. CASE TimePasses
    <2>1. TypeOK'
      BY <1>1, <1>15 DEF TypeOK, TimePasses
    <2> QED BY <1>1, <1>15, <2>1 DEF TInv, CurrentOK, TimePasses
  <1>16. CASE UNCHANGED vars
    BY <1>1, <1>16 DEF vars, TInv, TypeOK, CurrentOK
  <1> QED
    BY <1>6, <1>7, <1>8, <1>9, <1>10, <1>11, <1>12, <1>13, <1>14, <1>15, <1>16
    DEF Next, ExecuteTimers

(* TInv is an invariant of the specification. *)
LEMMA TInvHolds == Spec => []TInv
  <1> QED BY InitTInv, NextTInv, PTL DEF Spec

(***************************************************************************)
(* The variables keep their types, whatever is added, updated and deleted, *)
(* from the keyboard or by the commands of a timer.                        *)
(***************************************************************************)
THEOREM TypeCorrect == Spec => []TypeOK
  <1>1. TInv => TypeOK
    BY DEF TInv
  <1> QED BY <1>1, TInvHolds, PTL

(***************************************************************************)
(* ExecuteTimers() may look at the head of the list only: schedule_timer() *)
(* keeps it in order through every change that is made to it.              *)
(***************************************************************************)
THEOREM StaysSorted == Spec => []Sorted
  <1>1. TInv => Sorted
    BY DEF TInv, GoodList, InOrder, Sorted
  <1> QED BY <1>1, TInvHolds, PTL

(* The plan says that no timer drifts whose delay is in whole seconds. *)
LEMMA PlanIsClose ==
  ASSUME NEW t \in Timer, InPlan(t), t.asked % Second = 0
  PROVE  OnTime(t)
  <1> DEFINE a == t.first \div Second
             s == t.interval * Second
             p == t.fired * s
  <1>1. /\ t.time \in Nat /\ t.interval \in Nat /\ t.frac \in 0..(Second - 1)
        /\ t.first \in Nat /\ t.fired \in Nat /\ Second \in Nat \ {0}
    BY TimerFields, TimersAssumption
  <1>2. a * Second \in Nat /\ a * Second <= t.first /\ t.first < a * Second + Second
    BY <1>1, Fraction, Products
  <1>3. s \in Nat /\ p \in Nat
    BY <1>1, Products
  <1>4. t.time = IF t.fired = 0 THEN t.first ELSE a * Second + t.frac + p
    BY DEF InPlan, Planned
  <1>5. t.fired = 0 => p = 0
    BY <1>3
  <1> HIDE DEF a, s, p
  <1>6. t.first + p - Second < t.time /\ t.time < t.first + p + Second
    <2> DEFINE b == a * Second
    <2>1. b \in Nat /\ b <= t.first /\ t.first < b + Second
          /\ t.time = IF t.fired = 0 THEN t.first ELSE b + t.frac + p
      BY <1>2, <1>4
    <2> HIDE DEF b
    <2>2. CASE t.fired = 0
      <3>1. t.time = t.first /\ p = 0
        BY <1>5, <2>1, <2>2
      <3> QED BY <1>1, <3>1
    <2>3. CASE t.fired # 0
      <3>1. t.time = b + t.frac + p
        BY <2>1, <2>3
      <3> QED BY <1>1, <1>3, <2>1, <3>1
    <2> QED BY <2>2, <2>3
  <1>7. s = t.asked
    BY <1>1, TimerFields, WholeDelay DEF InPlan, Truncated, s
  <1>8. t.fired * t.asked = p
    BY <1>7, Zenon DEF p
  <1> QED BY <1>1, <1>3, <1>6, <1>8 DEF OnTime

(***************************************************************************)
(* However late a pass of io() is and however long the commands of timers  *)
(* take, a timer fires as often as it was asked to before it is freed, and *)
(* one that was given whole seconds is due each time within a second of    *)
(* when it was asked to.                                                   *)
(***************************************************************************)
THEOREM FiresOnTime == Spec => []FiresAsAsked
  <1>1. ASSUME TInv PROVE NoDrift
    <2>1. \A i \in DOMAIN PendingTimers : PendingTimers[i] \in Timer /\ InPlan(PendingTimers[i])
      BY <1>1 DEF TInv, GoodList
    <2> QED BY <2>1, PlanIsClose DEF NoDrift
  <1>2. ASSUME TInv PROVE CountKept
    <2>1. \A i \in DOMAIN PendingTimers : CountLeft(PendingTimers[i], PendingTimers[i].fired)
      BY <1>2 DEF TInv, GoodList, InPlan
    <2>2. current # None /\ Once(current.events) => current.fired = current.total
      <3> SUFFICES ASSUME current # None, Once(current.events) PROVE current.fired = current.total
        OBVIOUS
      <3>1. current \in Timer /\ Running(current)
        BY <1>2, TypeFacts DEF TInv, CurrentOK
      <3>2. current.fired \in Nat /\ current.total \in Int
        BY <3>1, TimerFields
      <3> QED BY <3>1, <3>2 DEF Running, CountLeft, Once
    <2> QED BY <2>1, <2>2 DEF CountKept, CountLeft
  <1>3. TInv => FiresAsAsked
    BY <1>1, <1>2 DEF FiresAsAsked
  <1> QED BY <1>3, TInvHolds, PTL

-----------------------------------------------------------------------------
(***************************************************************************)
(* References.  One that was given out is less than a name, however many   *)
(* are still to come: the numbers in use are at most those asked for and   *)
(* one more for each timer that was added since.                           *)
(***************************************************************************)

(* no two timers of the list have the same reference *)
Distinct(q) == \A i, j \in 1..Len(q) : q[i].ref = q[j].ref => i = j

(* the timers still to be added after m of them find numbers above ref *)
Room(ref, m) == ref < Name => ref + (MaxId - m) < Name

RoomAbove(q, m) == \A i \in 1..Len(q) : Room(q[i].ref, m)

(* the list q with m timers added so far *)
GoodRefs(q, m) == Distinct(q) /\ RoomAbove(q, m)

(* the timer whose commands run has a reference that is not in the list, *)
(* when it is to go back there                                           *)
CurrentApart ==
    current # None => /\ Room(current.ref, made)
                      /\ ~ Once(current.events) => ~ RefTaken(PendingTimers, current.ref)

RefInv == GoodRefs(PendingTimers, made) /\ CurrentApart

(* Adding timers leaves room for the others. *)
LEMMA RoomStays ==
  ASSUME NEW ref \in Nat, NEW m \in Nat, NEW n \in {m, m + 1}, Room(ref, m)
  PROVE  Room(ref, n)
  <1>1. MaxId \in Nat /\ Name \in Nat
    BY TimersAssumption
  <1> QED BY <1>1 DEF Room

LEMMA RoomAboveStays ==
  ASSUME NEW q \in Seq(Timer), NEW m \in Nat, NEW n \in {m, m + 1}, RoomAbove(q, m)
  PROVE  RoomAbove(q, n)
  <1>1. \A i \in 1..Len(q) : q[i].ref \in Nat
    BY TimerFields
  <1> QED BY <1>1, RoomStays DEF RoomAbove

(* There is room above the references the user asks for. *)
LEMMA RoomAboveWanted ==
  ASSUME NEW ref \in Refs, NEW m \in Nat
  PROVE  Room(ref, m)
  <1>1. MaxId \in Nat /\ Name \in Nat /\ ref \in Nat
    BY TimersAssumption
  <1>2. ref < Name => ref + MaxId < Name
    BY NamesApart
  <1> QED BY <1>1, <1>2 DEF Room

(* A reference given out is not in use, and leaves room. *)
LEMMA GivenOut ==
  ASSUME NEW q \in Seq(Timer), NEW m \in Nat, m < MaxId, RoomAbove(q, m)
  PROVE  ~ RefTaken(q, NewRef(q)) /\ Room(NewRef(q), m + 1)
  <1> DEFINE r == NewRef(q)
  <1>1. MaxId \in Nat /\ Name \in Nat \ {0} /\ 0 + MaxId < Name
    BY TimersAssumption, NamesApart
  <1>2. /\ r \in Nat \ {0}
        /\ \A i \in 1..Len(q) : Number(q[i].ref) < r
        /\ r = 1 \/ \E i \in 1..Len(q) : r = Number(q[i].ref) + 1
    BY NewRefIsNew
  <1>3. \A i \in 1..Len(q) : q[i].ref \in Nat
    BY TimerFields
  <1> HIDE DEF r
  <1>4. r < Name /\ r + (MaxId - (m + 1)) < Name
    <2>1. CASE r = 1
      BY <1>1, <2>1
    <2>2. CASE \E i \in 1..Len(q) : r = Number(q[i].ref) + 1
      <3>1. PICK i \in 1..Len(q) : r = Number(q[i].ref) + 1
        BY <2>2
      <3>2. CASE q[i].ref < Name
        <4>1. r = q[i].ref + 1
          BY <3>1, <3>2 DEF Number
        <4>2. q[i].ref + (MaxId - m) < Name
          BY <3>2 DEF RoomAbove, Room
        <4> QED BY <1>1, <1>3, <4>1, <4>2
      <3>3. CASE ~ (q[i].ref < Name)
        <4>1. r = 1
          BY <3>1, <3>3 DEF Number
        <4> QED BY <2>1, <4>1
      <3> QED BY <3>2, <3>3
    <2> QED BY <1>2, <2>1, <2>2
  <1>5. ~ RefTaken(q, r)
    <2> SUFFICES ASSUME NEW i \in 1..Len(q), q[i].ref = r PROVE FALSE
      BY DEF RefTaken
    <2>1. Number(q[i].ref) = r
      BY <1>4 DEF Number
    <2> QED BY <1>2, <2>1
  <1> QED BY <1>4, <1>5 DEF Room, r

(* A reference that is taken in r is taken in q or is t's, when t was put in. *)
LEMMA ScheduleRefs ==
  ASSUME NEW q \in Seq(Timer), NEW t \in Timer, NEW ref, ~ RefTaken(q, ref), t.ref # ref
  PROVE  ~ RefTaken(schedule_timer(q, t), ref)
  <1> DEFINE r == schedule_timer(q, t)
  <1>1. PICK i \in 1..(Len(q) + 1) : IsInserted(r, q, i, t)
    BY SchedulesAt DEF IsScheduled
  <1>2. r \in Seq(Timer)
    BY SchedulesAt
  <1> HIDE DEF r
  <1>3. \A k \in 1..Len(r) : r[k] = t \/ \E j \in 1..Len(q) : r[k] = q[j]
    BY <1>1, InsertedElements
  <1>4. ~ RefTaken(r, ref)
    BY <1>2, <1>3 DEF RefTaken
  <1> QED BY <1>4 DEF r

(* Putting a timer whose reference is not taken into the list. *)
LEMMA ScheduleKeepsRefs ==
  ASSUME NEW q \in Seq(Timer), NEW m \in Nat, GoodRefs(q, m), NEW t \in Timer,
         ~ RefTaken(q, t.ref), Room(t.ref, m)
  PROVE  GoodRefs(schedule_timer(q, t), m)
  <1> DEFINE r == schedule_timer(q, t)
  <1>1. PICK i \in 1..(Len(q) + 1) : IsInserted(r, q, i, t)
    BY SchedulesAt DEF IsScheduled
  <1>2. r \in Seq(Timer) /\ Len(r) \in Nat /\ Len(q) \in Nat
    BY SchedulesAt
  <1> HIDE DEF r
  <1>3. \A k \in 1..Len(r) : \/ k = i /\ r[k] = t
                             \/ k < i /\ k \in 1..Len(q) /\ r[k] = q[k]
                             \/ k > i /\ k - 1 \in 1..Len(q) /\ r[k] = q[k - 1]
    BY <1>1, InsertedElements
  <1>4. \A k \in 1..Len(q) : q[k].ref # t.ref
    BY DEF RefTaken
  <1>5. RoomAbove(r, m)
    BY <1>3 DEF GoodRefs, RoomAbove
  <1>6. ASSUME NEW j \in 1..Len(r), NEW k \in 1..Len(r), r[j].ref = r[k].ref PROVE j = k
    <2>1. \A x, y \in 1..Len(q) : q[x].ref = q[y].ref => x = y
      BY DEF GoodRefs, Distinct
    <2>2. \/ j = i /\ r[j] = t
          \/ j < i /\ j \in 1..Len(q) /\ r[j] = q[j]
          \/ j > i /\ j - 1 \in 1..Len(q) /\ r[j] = q[j - 1]
      BY <1>3
    <2>3. \/ k = i /\ r[k] = t
          \/ k < i /\ k \in 1..Len(q) /\ r[k] = q[k]
          \/ k > i /\ k - 1 \in 1..Len(q) /\ r[k] = q[k - 1]
      BY <1>3
    <2>4. CASE j = i
      <3>1. r[j] = t
        BY <1>2, <2>2, <2>4
      <3>2. k = i
        BY <1>4, <1>6, <2>3, <3>1
      <3> QED BY <2>4, <3>2
    <2>5. CASE k = i
      <3>1. r[k] = t
        BY <1>2, <2>3, <2>5
      <3>2. j = i
        BY <1>4, <1>6, <2>2, <3>1
      <3> QED BY <2>5, <3>2
    <2>6. CASE j # i /\ k # i
      <3>1. \/ j < i /\ j \in 1..Len(q) /\ r[j] = q[j]
            \/ j > i /\ j - 1 \in 1..Len(q) /\ r[j] = q[j - 1]
        BY <2>2, <2>6
      <3>2. \/ k < i /\ k \in 1..Len(q) /\ r[k] = q[k]
            \/ k > i /\ k - 1 \in 1..Len(q) /\ r[k] = q[k - 1]
        BY <2>3, <2>6
      <3>3. CASE j < i /\ k < i
        BY <1>6, <2>1, <3>1, <3>2, <3>3
      <3>4. CASE j > i /\ k > i
        <4>1. q[j - 1].ref = q[k - 1].ref /\ j - 1 \in 1..Len(q) /\ k - 1 \in 1..Len(q)
          BY <1>6, <3>1, <3>2, <3>4
        <4>2. j - 1 = k - 1
          BY <2>1, <4>1
        <4> QED BY <4>2
      <3>5. CASE j < i /\ k > i
        <4>1. q[j].ref = q[k - 1].ref /\ j \in 1..Len(q) /\ k - 1 \in 1..Len(q)
          BY <1>6, <3>1, <3>2, <3>5
        <4>2. j = k - 1
          BY <2>1, <4>1
        <4> QED BY <3>5, <4>2
      <3>6. CASE j > i /\ k < i
        <4>1. q[j - 1].ref = q[k].ref /\ j - 1 \in 1..Len(q) /\ k \in 1..Len(q)
          BY <1>6, <3>1, <3>2, <3>6
        <4>2. j - 1 = k
          BY <2>1, <4>1
        <4> QED BY <3>6, <4>2
      <3> QED BY <3>1, <3>2, <3>3, <3>4, <3>5, <3>6
    <2> QED BY <2>4, <2>5, <2>6
  <1>7. Distinct(r)
    BY <1>6 DEF Distinct
  <1> QED BY <1>5, <1>7 DEF GoodRefs, r

(* Taking one out, and that the reference of the one taken out is free. *)
LEMMA RemovalKeepsRefs ==
  ASSUME NEW q \in Seq(Timer), NEW m \in Nat, GoodRefs(q, m), NEW r \in Seq(Timer),
         NEW i \in 1..Len(q), IsRemoved(r, q, i)
  PROVE  GoodRefs(r, m) /\ ~ RefTaken(r, q[i].ref)
  <1>1. \A k \in 1..Len(r) : \/ k < i /\ k \in 1..Len(q) /\ r[k] = q[k]
                             \/ k >= i /\ k + 1 \in 1..Len(q) /\ r[k] = q[k + 1]
    BY RemovedElements
  <1>2. \A x, y \in 1..Len(q) : q[x].ref = q[y].ref => x = y
    BY DEF GoodRefs, Distinct
  <1>3. RoomAbove(r, m)
    BY <1>1 DEF GoodRefs, RoomAbove
  <1>4. ASSUME NEW j \in 1..Len(r), NEW k \in 1..Len(r), r[j].ref = r[k].ref PROVE j = k
    <2>1. \/ j < i /\ j \in 1..Len(q) /\ r[j] = q[j]
          \/ j >= i /\ j + 1 \in 1..Len(q) /\ r[j] = q[j + 1]
      BY <1>1
    <2>2. \/ k < i /\ k \in 1..Len(q) /\ r[k] = q[k]
          \/ k >= i /\ k + 1 \in 1..Len(q) /\ r[k] = q[k + 1]
      BY <1>1
    <2> QED BY <1>2, <1>4, <2>1, <2>2
  <1>5. ASSUME NEW k \in 1..Len(r), r[k].ref = q[i].ref PROVE FALSE
    <2>1. \/ k < i /\ k \in 1..Len(q) /\ r[k] = q[k]
          \/ k >= i /\ k + 1 \in 1..Len(q) /\ r[k] = q[k + 1]
      BY <1>1
    <2> QED BY <1>2, <1>5, <2>1
  <1> QED BY <1>3, <1>4, <1>5 DEF GoodRefs, Distinct, RefTaken

(* At first no reference is in use. *)
LEMMA InitRefInv == Init => RefInv
  <1> SUFFICES ASSUME Init PROVE RefInv
    OBVIOUS
  <1>1. GoodRefs(<<>>, made)
    BY DEF GoodRefs, Distinct, RoomAbove
  <1> QED BY <1>1 DEF Init, RefInv, CurrentApart

(* add_timer() without -update, from the keyboard or by a timer that does *)
(* not go back to the list                                                *)
LEMMA AddKeepsRefs ==
  ASSUME TInv, RefInv, NEW want \in Refs \cup {0}, NEW whom \in Nat, NEW when \in Delays,
         NEW events \in Asking, AddTimer(want, whom, when, events)
  PROVE  GoodRefs(PendingTimers', made') /\ made' \in {made, made + 1}
  <1> DEFINE ref == IF want = 0 THEN NewRef(PendingTimers) ELSE want
  <1>1. /\ made < MaxId /\ made' = made + 1
        /\ want = 0 \/ ~ RefTaken(PendingTimers, want)
    BY DEF AddTimer
  <1>2. PICK t \in Timer : t.ref = ref /\ PendingTimers' = schedule_timer(PendingTimers, t)
    BY AddSchedules
  <1>3. /\ made \in Nat /\ made + 1 \in Nat /\ MaxId \in Nat
        /\ PendingTimers \in Seq(Timer) /\ GoodRefs(PendingTimers, made)
    BY TypeFacts DEF TInv, RefInv
  <1>4. RoomAbove(PendingTimers, made)
    BY <1>3 DEF GoodRefs
  <1>5. GoodRefs(PendingTimers, made + 1)
    BY <1>3, RoomAboveStays DEF GoodRefs
  <1>6. ~ RefTaken(PendingTimers, ref) /\ Room(ref, made + 1)
    <2>1. CASE want = 0
      BY <1>1, <1>3, <1>4, <2>1, GivenOut
    <2>2. CASE want # 0
      <3>1. want \in Refs /\ Room(want, made + 1)
        BY <1>3, <2>2, RoomAboveWanted
      <3> QED BY <1>1, <2>2, <3>1
    <2> QED BY <2>1, <2>2
  <1> HIDE DEF ref
  <1>7. GoodRefs(schedule_timer(PendingTimers, t), made + 1)
    <2>1. ~ RefTaken(PendingTimers, t.ref) /\ Room(t.ref, made + 1)
      BY <1>2, <1>6
    <2> QED BY <1>3, <1>5, <2>1, ScheduleKeepsRefs
  <1> QED BY <1>1, <1>2, <1>7

(* add_timer() with -update: the reference it takes is one it freed, or one *)
(* that was not in use                                                      *)
LEMMA UpdateKeepsRefs ==
  ASSUME TInv, RefInv, NEW want \in Refs \ {0}, NEW when \in Delays \cup {-1},
         NEW events \in Asking, get_timer(PendingTimers, want) # 0,
         UpdateTimer(want, when, events)
  PROVE  GoodRefs(PendingTimers', made') /\ made' \in {made, made + 1}
  <1>1. /\ made \in Nat /\ PendingTimers \in Seq(Timer) /\ GoodRefs(PendingTimers, made)
    BY TypeFacts DEF TInv, RefInv
  <1>2. PICK rest \in Seq(Timer) :
            /\ \/ rest = PendingTimers
               \/ \E i \in 1..Len(PendingTimers) : IsRemoved(rest, PendingTimers, i)
            /\ \/ PendingTimers' = rest /\ made' = made
               \/ /\ ~ RefTaken(rest, want)
                  /\ made' \in {made, made + 1}
                  /\ \E t \in Timer : t.ref = want /\ PendingTimers' = schedule_timer(rest, t)
    BY UpdateShape
  <1>3. GoodRefs(rest, made)
    BY <1>1, <1>2, RemovalKeepsRefs
  <1>4. CASE /\ ~ RefTaken(rest, want)
             /\ made' \in {made, made + 1}
             /\ \E t \in Timer : t.ref = want /\ PendingTimers' = schedule_timer(rest, t)
    <2>1. PICK t \in Timer : t.ref = want /\ PendingTimers' = schedule_timer(rest, t)
      BY <1>4
    <2>2. made' \in Nat
      BY <1>1, <1>4
    <2>3. GoodRefs(rest, made')
      BY <1>1, <1>3, <1>4, RoomAboveStays DEF GoodRefs
    <2>4. Room(t.ref, made') /\ ~ RefTaken(rest, t.ref)
      BY <1>4, <2>1, <2>2, RoomAboveWanted
    <2> QED BY <1>4, <2>1, <2>2, <2>3, <2>4, ScheduleKeepsRefs
  <1> QED BY <1>2, <1>3, <1>4

(***************************************************************************)
(* Every step keeps the references apart, as long as a timer that repeats  *)
(* adds none while its own reference is not in the list.                   *)
(***************************************************************************)
LEMMA NextRefInv ==
  ASSUME "add_in_repeat" \notin Hazards, TInv, RefInv, [Next]_vars
  PROVE  RefInv'
  <1>1. /\ GoodRefs(PendingTimers, made) /\ CurrentApart /\ PendingTimers \in Seq(Timer)
        /\ made \in Nat /\ (current # None => current \in Timer /\ Running(current))
    BY TypeFacts DEF TInv, RefInv, CurrentOK
  <1>2. ASSUME GoodRefs(PendingTimers', made'), made' \in {made, made + 1}, UNCHANGED current,
               current = None \/ Once(current.events)
        PROVE  RefInv'
    <2>1. current # None => Room(current.ref, made')
      BY <1>1, <1>2, TimerFields, RoomStays DEF CurrentApart
    <2> QED BY <1>2, <2>1 DEF RefInv, CurrentApart
  <1>3. MayAdd => current = None \/ Once(current.events)
    BY DEF MayAdd
  <1>4. (\A e \in Repeats : e \in Asking) /\ 1 \in Asking /\ -1 \in Asking
    BY TimersAssumption DEF Asking
  <1>5. CASE TimerCommand
    <2>1. PICK want \in Refs, when \in Delays, events \in Repeats : AddTimer(want, 0, when, events)
      BY <1>5 DEF TimerCommand
    <2>2. GoodRefs(PendingTimers', made') /\ made' \in {made, made + 1}
      <3>1. want \in Refs \cup {0} /\ 0 \in Nat /\ events \in Asking
        BY <1>4
      <3> QED BY <2>1, <3>1, AddKeepsRefs
    <2> QED BY <1>2, <1>3, <1>5, <2>2 DEF TimerCommand
  <1>6. CASE ClientTimer
    <2>1. PICK whom \in Whoms, when \in Delays : AddTimer(0, whom, when, 1)
      BY <1>6 DEF ClientTimer
    <2>2. GoodRefs(PendingTimers', made') /\ made' \in {made, made + 1}
      <3>1. 0 \in Refs \cup {0} /\ whom \in Nat
        BY TimersAssumption
      <3> QED BY <1>4, <2>1, <3>1, AddKeepsRefs
    <2> QED BY <1>2, <1>3, <1>6, <2>2 DEF ClientTimer
  <1>7. CASE UpdateCommand
    <2>1. PICK want \in Refs \ {0}, when \in Delays \cup {-1}, events \in Repeats \cup {-1} :
             get_timer(PendingTimers, want) # 0 /\ UpdateTimer(want, when, events)
      BY <1>7 DEF UpdateCommand
    <2>2. GoodRefs(PendingTimers', made') /\ made' \in {made, made + 1}
      <3>1. events \in Asking
        BY <1>4
      <3> QED BY <2>1, <3>1, UpdateKeepsRefs
    <2> QED BY <1>2, <1>3, <1>7, <2>2 DEF UpdateCommand
  <1>8. CASE DeleteCommand
    <2>1. PICK i \in DOMAIN PendingTimers :
             PendingTimers' = delete_timer(PendingTimers, PendingTimers[i].ref)
      BY <1>8 DEF DeleteCommand
    <2>2. RefTaken(PendingTimers, PendingTimers[i].ref)
      BY DEF RefTaken
    <2>3. GoodRefs(PendingTimers', made)
      BY <1>1, <2>1, <2>2, DeleteRemoves, RemovalKeepsRefs
    <2> QED BY <1>2, <1>8, <2>3 DEF DeleteCommand, MayDelete
  <1>9. CASE DeleteAll
    <2>1. CASE MayDelete /\ PendingTimers' = <<>>
      <3>1. GoodRefs(<<>>, made)
        BY DEF GoodRefs, Distinct, RoomAbove
      <3> QED BY <1>2, <1>9, <2>1, <3>1 DEF DeleteAll, MayDelete
    <2>2. CASE UNCHANGED PendingTimers
      BY <1>1, <1>9, <2>2 DEF DeleteAll, RefInv, CurrentApart
    <2> QED BY <1>9, <2>1, <2>2 DEF DeleteAll
  <1>10. CASE FireTimer
    <2> DEFINE t == PendingTimers[1]
    <2>1. /\ PendingTimers # <<>>
          /\ current' = [t EXCEPT !.fired = t.fired + 1]
          /\ PendingTimers' = Tail(PendingTimers) /\ made' = made
      BY <1>10 DEF FireTimer, DueAt
    <2>2. /\ Tail(PendingTimers) \in Seq(Timer) /\ 1 \in 1..Len(PendingTimers)
          /\ IsRemoved(Tail(PendingTimers), PendingTimers, 1)
      BY <1>1, <2>1, TailRemoves
    <2>3. GoodRefs(PendingTimers', made) /\ ~ RefTaken(PendingTimers', t.ref)
      BY <1>1, <2>1, <2>2, RemovalKeepsRefs
    <2>4. t \in Timer /\ Room(t.ref, made)
      BY <1>1, <2>2 DEF GoodRefs, RoomAbove
    <2> HIDE DEF t
    <2>5. current'.ref = t.ref
      BY <2>1, <2>4 DEF Timer
    <2> QED BY <2>1, <2>3, <2>4, <2>5 DEF RefInv, CurrentApart
  <1>11. CASE EndTimer
    <2>1. /\ current \in Timer /\ Running(current) /\ current' = None /\ made' = made
          /\ PendingTimers' = IF Once(current.events) THEN PendingTimers
                              ELSE schedule_timer(PendingTimers, Rescheduled(current))
      BY <1>1, <1>11 DEF EndTimer
    <2>2. CASE ~ Once(current.events)
      <3>1. Rescheduled(current) \in Timer /\ Rescheduled(current).ref = current.ref
        BY <2>1, <2>2, Reschedules
      <3>2. ~ RefTaken(PendingTimers, current.ref) /\ Room(current.ref, made)
        BY <1>1, <1>11, <2>2 DEF CurrentApart, EndTimer
      <3>3. GoodRefs(PendingTimers', made)
        BY <1>1, <2>1, <2>2, <3>1, <3>2, ScheduleKeepsRefs
      <3> QED BY <2>1, <3>3 DEF RefInv, CurrentApart
    <2> QED BY <1>1, <2>1, <2>2 DEF RefInv, CurrentApart
  <1>12. CASE StartPass \/ EndPass \/ TimePasses \/ UNCHANGED vars
    BY <1>1, <1>12 DEF StartPass, EndPass, TimePasses, vars, RefInv, CurrentApart
  <1> QED
    BY <1>5, <1>6, <1>7, <1>8, <1>9, <1>10, <1>11, <1>12 DEF Next, ExecuteTimers

(***************************************************************************)
(* No two timers that wait have the same reference, whatever is added,     *)
(* updated and deleted, when no timer that repeats adds another.           *)
(***************************************************************************)
THEOREM ReferencesStayUnique ==
  "add_in_repeat" \notin Hazards => (Spec => []RefsUnique)
  <1> SUFFICES ASSUME "add_in_repeat" \notin Hazards PROVE Spec => []RefsUnique
    OBVIOUS
  <1>1. Init => TInv /\ RefInv
    BY InitTInv, InitRefInv
  <1>2. TInv /\ RefInv /\ [Next]_vars => (TInv /\ RefInv)'
    BY NextTInv, NextRefInv
  <1>3. TInv /\ RefInv => RefsUnique
    BY TypeFacts DEF TInv, RefInv, GoodRefs, Distinct, RefsUnique
  <1> QED BY <1>1, <1>2, <1>3, PTL DEF Spec

-----------------------------------------------------------------------------
(* No timer is lost *)

(* the timers that wait *)
Ids(q) == {q[i].id : i \in DOMAIN q}

(* Putting a timer into the list loses none. *)
LEMMA ScheduleIds ==
  ASSUME NEW q \in Seq(Timer), NEW t \in Timer
  PROVE  Ids(q) \cup {t.id} \subseteq Ids(schedule_timer(q, t))
  <1> DEFINE r == schedule_timer(q, t)
  <1>1. PICK i \in 1..(Len(q) + 1) : IsInserted(r, q, i, t)
    BY SchedulesAt DEF IsScheduled
  <1>2. r \in Seq(Timer)
    BY SchedulesAt
  <1> HIDE DEF r
  <1>3. (\A j \in 1..Len(q) : \E k \in 1..Len(r) : r[k] = q[j]) /\ \E k \in 1..Len(r) : r[k] = t
    BY <1>1, InsertedElements
  <1>4. ASSUME NEW j \in 1..Len(q) PROVE q[j].id \in Ids(r)
    <2>1. PICK k \in 1..Len(r) : r[k] = q[j]
      BY <1>3
    <2> QED BY <1>2, <2>1 DEF Ids
  <1>5. t.id \in Ids(r)
    <2>1. PICK k \in 1..Len(r) : r[k] = t
      BY <1>3
    <2> QED BY <1>2, <2>1 DEF Ids
  <1>6. \A d \in Ids(q) : d \in Ids(r)
    BY <1>4 DEF Ids
  <1>7. Ids(q) \cup {t.id} \subseteq Ids(r)
    BY <1>5, <1>6
  <1> QED BY <1>7 DEF r

(* Taking the first one out loses only that one. *)
LEMMA TailIds ==
  ASSUME NEW q \in Seq(Timer), q # <<>>
  PROVE  Ids(q) \subseteq Ids(Tail(q)) \cup {q[1].id}
  <1> DEFINE r == Tail(q)
  <1>1. r \in Seq(Timer) /\ 1 \in 1..Len(q) /\ IsRemoved(r, q, 1) /\ Len(q) \in Nat
    BY TailRemoves
  <1> HIDE DEF r
  <1>2. ASSUME NEW j \in 1..Len(q), j # 1 PROVE q[j].id \in Ids(r)
    <2>1. j - 1 \in 1..(Len(q) - 1) /\ (j - 1) + 1 = j
      BY <1>1, <1>2
    <2>2. Len(r) = Len(q) - 1 /\ r[j - 1] = q[(j - 1) + 1]
      BY <1>1, <2>1 DEF IsRemoved
    <2>3. r[j - 1] = q[j] /\ j - 1 \in DOMAIN r
      BY <1>1, <2>1, <2>2
    <2> QED BY <2>3 DEF Ids
  <1> QED BY <1>2 DEF Ids, r

(* Live in terms of the list. *)
LEMMA LiveIds ==
  /\ Live = Ids(PendingTimers) \cup ({current.id} \ {0})
  /\ Live' = Ids(PendingTimers') \cup ({current'.id} \ {0})
  BY DEF Live, Ids

(* no step between StartPass and EndPass loses a timer *)
KeepsTimers == {current, current'} # {None} => Live \ Finished \subseteq Live'

(* The same, step by step: one case per action. *)
LEMMA NextKeepsTimers == ASSUME TInv, [Next]_vars PROVE KeepsTimers
  <1>1. /\ PendingTimers \in Seq(Timer) /\ (current # None => current \in Timer /\ Running(current))
        /\ None.id = 0
    BY TypeFacts DEF TInv, CurrentOK, None
  <1>2. ASSUME Ids(PendingTimers) \subseteq Ids(PendingTimers'), UNCHANGED current
        PROVE  KeepsTimers
    <2>1. Live \subseteq Live'
      BY <1>2, LiveIds
    <2> QED BY <2>1 DEF KeepsTimers
  <1>3. ASSUME UNCHANGED current, current = None
        PROVE  KeepsTimers
    BY <1>3 DEF KeepsTimers
  <1>5. CASE TimerCommand
    <2>1. UNCHANGED current /\ \E t \in Timer : PendingTimers' = schedule_timer(PendingTimers, t)
      <3>1. PICK want \in Refs, when \in Delays, events \in Repeats : AddTimer(want, 0, when, events)
        BY <1>5 DEF TimerCommand
      <3>2. want \in Refs \cup {0} /\ 0 \in Nat /\ events \in Asking
        BY TimersAssumption DEF Asking
      <3>3. \E t \in Timer : PendingTimers' = schedule_timer(PendingTimers, t)
        BY <3>1, <3>2, AddSchedules
      <3> QED BY <1>5, <3>3 DEF TimerCommand
    <2> QED BY <1>1, <1>2, <2>1, ScheduleIds
  <1>6. CASE ClientTimer
    <2>1. UNCHANGED current /\ \E t \in Timer : PendingTimers' = schedule_timer(PendingTimers, t)
      <3>1. PICK whom \in Whoms, when \in Delays : AddTimer(0, whom, when, 1)
        BY <1>6 DEF ClientTimer
      <3>2. 0 \in Refs \cup {0} /\ whom \in Nat /\ 1 \in Asking
        BY TimersAssumption DEF Asking
      <3>3. \E t \in Timer : PendingTimers' = schedule_timer(PendingTimers, t)
        BY <3>1, <3>2, AddSchedules
      <3> QED BY <1>6, <3>3 DEF ClientTimer
    <2> QED BY <1>1, <1>2, <2>1, ScheduleIds
  <1>7. CASE UpdateCommand
    <2>1. PICK want \in Refs \ {0}, when \in Delays \cup {-1}, events \in Repeats \cup {-1} :
             get_timer(PendingTimers, want) # 0 /\ UpdateTimer(want, when, events)
      BY <1>7 DEF UpdateCommand
    <2>2. events \in Asking
      BY TimersAssumption DEF Asking
    <2>3. PICK rest \in Seq(Timer) :
             /\ rest = PendingTimers \/ current = None
             /\ \/ PendingTimers' = rest
                \/ \E t \in Timer : PendingTimers' = schedule_timer(rest, t)
      BY <2>1, <2>2, UpdateShape
    <2>4. UNCHANGED current
      BY <1>7 DEF UpdateCommand
    <2>5. CASE current = None
      BY <1>3, <2>4, <2>5
    <2>6. CASE rest = PendingTimers
      <3>1. Ids(PendingTimers) \subseteq Ids(PendingTimers')
        BY <1>1, <2>3, <2>6, ScheduleIds
      <3> QED BY <1>2, <2>4, <3>1
    <2> QED BY <2>3, <2>5, <2>6
  <1>8. CASE DeleteCommand
    BY <1>3, <1>8 DEF DeleteCommand, MayDelete
  <1>9. CASE DeleteAll
    BY <1>2, <1>3, <1>9 DEF DeleteAll, MayDelete
  <1>10. CASE FireTimer
    <2> DEFINE t == PendingTimers[1]
    <2>1. /\ PendingTimers # <<>> /\ current = None
          /\ current' = [t EXCEPT !.fired = t.fired + 1]
          /\ PendingTimers' = Tail(PendingTimers)
      BY <1>10 DEF FireTimer, DueAt
    <2>2. t \in Timer
      BY <1>1, <2>1, TailRemoves
    <2>3. Ids(PendingTimers) \subseteq Ids(PendingTimers') \cup {t.id}
      BY <1>1, <2>1, TailIds
    <2>4. t.id # 0
      BY <2>2, TimerFields
    <2> HIDE DEF t
    <2>5. current'.id = t.id
      BY <2>1, <2>2 DEF Timer
    <2>6. Live = Ids(PendingTimers) /\ Live' = Ids(PendingTimers') \cup {t.id}
      BY <1>1, <2>1, <2>4, <2>5, LiveIds
    <2> QED BY <2>3, <2>6 DEF KeepsTimers
  <1>11. CASE EndTimer
    <2>1. /\ current # None /\ current \in Timer /\ Running(current) /\ current' = None
          /\ PendingTimers' = IF Once(current.events) THEN PendingTimers
                              ELSE schedule_timer(PendingTimers, Rescheduled(current))
      BY <1>1, <1>11 DEF EndTimer
    <2>2. Live' = Ids(PendingTimers') /\ Live \subseteq Ids(PendingTimers) \cup {current.id}
      BY <1>1, <2>1, LiveIds
    <2>3. CASE Once(current.events)
      <3>1. Finished = {current.id} /\ PendingTimers' = PendingTimers
        BY <2>1, <2>3 DEF Finished
      <3> QED BY <2>2, <3>1 DEF KeepsTimers
    <2>4. CASE ~ Once(current.events)
      <3>1. Rescheduled(current) \in Timer /\ Rescheduled(current).id = current.id
        BY <2>1, <2>4, Reschedules
      <3>2. Ids(PendingTimers) \cup {current.id} \subseteq Ids(PendingTimers')
        BY <1>1, <2>1, <2>4, <3>1, ScheduleIds
      <3> QED BY <2>2, <3>2 DEF KeepsTimers
    <2> QED BY <2>3, <2>4
  <1>12. CASE StartPass \/ EndPass \/ TimePasses \/ UNCHANGED vars
    BY <1>2, <1>12 DEF StartPass, EndPass, TimePasses, vars
  <1> QED
    BY <1>5, <1>6, <1>7, <1>8, <1>9, <1>10, <1>11, <1>12 DEF Next, ExecuteTimers

(***************************************************************************)
(* A pass of ExecuteTimers() loses no timer: not by the commands that are  *)
(* run while it walks the list, not by putting the timer back.  A timer    *)
(* goes away by a command between two timers, or after its last time.      *)
(***************************************************************************)
THEOREM NoneIsLost == Spec => NoTimerLost
  <1>1. TInv /\ [Next]_vars => [{current, current'} # {None} => Live \ Finished \subseteq Live']_vars
    BY NextKeepsTimers DEF KeepsTimers
  <1> QED BY <1>1, TInvHolds, PTL DEF Spec, NoTimerLost
=============================================================================
