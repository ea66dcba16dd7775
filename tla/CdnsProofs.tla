----------------------------- MODULE CdnsProofs -----------------------------
(* Proofs about Cdns, for every number of requests and every pipe. *)
EXTENDS Cdns, TLAPS

(***************************************************************************)
(* What the mutexes and the local variables are while a thread is at one   *)
(* of its points.  The process is over when main has `exited'.             *)
(***************************************************************************)
Owners ==
    main # "exited" =>
       /\ pending_queue_mutex = "dns" <=> thread = "dequeue"
       /\ pending_queue_mutex = "main" <=> main \in {"enqueue", "signal"}
       /\ finished_queue_mutex = "dns" <=> thread = "enqueue"
       /\ finished_queue_mutex = "main" <=> main = "dequeue"

Locals ==
    /\ thread \in {"lookup", "lock finished", "enqueue"} <=> dns # 0
    /\ main \in {"add", "enqueue", "callback"} => entry # 0

IInv == TypeOK /\ Owners /\ Locals /\ NoLostWakeup /\ NoLostResult

LEMMA InitIInv == Init => IInv
  BY CdnsAssumption DEF Init, IInv, TypeOK, Owners, Locals, NoLostWakeup, NoLostResult

(* what the actions do to the queues, as facts about sequences *)
LEMMA SeqFacts ==
  ASSUME NEW q \in Seq(Id)
  PROVE  /\ q # <<>> => Head(q) \in Id /\ Tail(q) \in Seq(Id)
         /\ \A e \in Id : Append(q, e) \in Seq(Id) /\ <<e>> \o q \in Seq(Id)
  OBVIOUS

LEMMA EmptySeq == <<>> \in Seq(Id)
  OBVIOUS

(* 0 stands for no entry *)
LEMMA IdFacts ==
  /\ \A n : n \in Id <=> n \in 0..MaxId /\ n # 0
  /\ \A n \in 0..MaxId : n < MaxId => n + 1 \in Id
  BY CdnsAssumption DEF Id

LEMMA NextIInv == IInv /\ [Next]_vars => IInv'
  <1> SUFFICES ASSUME IInv, [Next]_vars PROVE IInv'
    OBVIOUS
  <1> USE CdnsAssumption DEF DnsUnchanged, MainUnchanged
  <1>1. CASE TryQuit
    BY <1>1 DEF TryQuit, IInv, TypeOK, Owners, Locals, NoLostWakeup, NoLostResult, NotChecking, queues, mutexes, history
  <1>2. CASE LockPending
    BY <1>2 DEF LockPending, IInv, TypeOK, Owners, Locals, NoLostWakeup, NoLostResult, NotChecking, queues, mutexes, history
  <1>3. CASE DequeuePending
    <2>1. TypeOK'
      BY <1>3, SeqFacts, IdFacts DEF DequeuePending, IInv, TypeOK, Locals, queues, mutexes, history
    <2>2. Owners'
      BY <1>3 DEF DequeuePending, IInv, TypeOK, Owners, queues, mutexes, history
    <2>3. Locals'
      BY <1>3, SeqFacts, IdFacts DEF DequeuePending, IInv, TypeOK, Locals, queues, mutexes, history
    <2>4. NoLostWakeup'
      BY <1>3 DEF DequeuePending, IInv, Owners, NoLostWakeup, queues, mutexes, history
    <2>5. NoLostResult'
      BY <1>3 DEF DequeuePending, IInv, TypeOK, Owners, NoLostResult, NotChecking, queues, mutexes, history
    <2> QED BY <2>1, <2>2, <2>3, <2>4, <2>5 DEF IInv
  <1>4. CASE Woken
    BY <1>4 DEF Woken, IInv, TypeOK, Owners, Locals, NoLostWakeup, NoLostResult, NotChecking, queues, mutexes, history
  <1>5. CASE do_dns_lookup
    BY <1>5 DEF do_dns_lookup, IInv, TypeOK, Owners, Locals, NoLostWakeup, NoLostResult, NotChecking, queues, mutexes, history
  <1>6. CASE LockFinished
    BY <1>6 DEF LockFinished, IInv, TypeOK, Owners, Locals, NoLostWakeup, NoLostResult, NotChecking, queues, mutexes, history
  <1>7. CASE EnqueueFinished
    BY <1>7, SeqFacts DEF EnqueueFinished, dns_enqueue, IInv, TypeOK, Owners, Locals, NoLostWakeup, NoLostResult, NotChecking, queues, mutexes, history, Id
  <1>8. CASE WritePipe
    BY <1>8 DEF WritePipe, IInv, TypeOK, Owners, Locals, NoLostWakeup, NoLostResult, NotChecking, queues, mutexes, history
  <1>9. CASE SpuriousWakeup
    BY <1>9 DEF SpuriousWakeup, IInv, TypeOK, Owners, Locals, NoLostWakeup, NoLostResult, NotChecking, queues, mutexes, history
  <1>10. CASE AddLock
    BY <1>10 DEF AddLock, IInv, TypeOK, Owners, Locals, NoLostWakeup, NoLostResult, NotChecking, queues, mutexes, history
  <1>11. ASSUME NEW is_urgent \in BOOLEAN, EnqueuePending(is_urgent) PROVE IInv'
    <2>1. TypeOK'
      <3>1. entry \in Id
        BY <1>11, IdFacts DEF EnqueuePending, IInv, TypeOK, Locals
      <3>2. pending' \in Seq(Id)
        BY <1>11, <3>1, SeqFacts DEF EnqueuePending, dns_enqueue, dns_enqueue_urgent, IInv, TypeOK
      <3>3. urgent' \in SUBSET Id
        BY <1>11, <3>1 DEF EnqueuePending, IInv, TypeOK
      <3>4. entry' \in 0..MaxId
        BY <1>11 DEF EnqueuePending
      <3> QED BY <1>11, <3>2, <3>3, <3>4 DEF EnqueuePending, Signalled, IInv, TypeOK
    <2>2. Owners'
      BY <1>11 DEF EnqueuePending, dns_enqueue, dns_enqueue_urgent, Signalled, IInv, TypeOK, Owners, queues, mutexes, history
    <2>3. Locals'
      BY <1>11, SeqFacts, IdFacts DEF EnqueuePending, dns_enqueue, dns_enqueue_urgent, Signalled, IInv, TypeOK, Locals, queues, mutexes, history
    <2>4. NoLostWakeup'
      BY <1>11 DEF EnqueuePending, dns_enqueue, dns_enqueue_urgent, Signalled, IInv, Owners, NoLostWakeup, queues, mutexes, history
    <2>5. NoLostResult'
      BY <1>11 DEF EnqueuePending, dns_enqueue, dns_enqueue_urgent, Signalled, IInv, TypeOK, Owners, NoLostResult, NotChecking, queues, mutexes, history
    <2> QED BY <2>1, <2>2, <2>3, <2>4, <2>5 DEF IInv
  <1>12. CASE ReadPipe
    <2>1. TypeOK'
      <3>1. pipe' \in 0..PipeSize
        <4>1. pipe \in 0..PipeSize /\ PipeSize \in Nat
          BY DEF IInv, TypeOK
        <4>2. pipe > 0 /\ pipe' = pipe - 1
          BY <1>12 DEF ReadPipe
        <4> QED BY <4>1, <4>2
      <3> QED BY <1>12, <3>1 DEF ReadPipe, IInv, TypeOK, mutexes, history
    <2>2. Owners'
      BY <1>12 DEF ReadPipe, IInv, TypeOK, Owners, queues, mutexes, history
    <2>3. Locals'
      BY <1>12 DEF ReadPipe, IInv, Locals, history
    <2>4. NoLostWakeup'
      BY <1>12 DEF ReadPipe, IInv, Owners, NoLostWakeup, queues, mutexes, history
    <2>5. NoLostResult'
      BY <1>12 DEF ReadPipe, IInv, TypeOK, Owners, NoLostResult, NotChecking, queues, mutexes, history
    <2> QED BY <2>1, <2>2, <2>3, <2>4, <2>5 DEF IInv
  <1>13. CASE TryFinished
    BY <1>13 DEF TryFinished, IInv, TypeOK, Owners, Locals, NoLostWakeup, NoLostResult, NotChecking, queues, mutexes, history
  <1>14. CASE DequeueFinished
    <2>1. TypeOK'
      BY <1>14, SeqFacts, IdFacts DEF DequeueFinished, IInv, TypeOK, Locals, queues, mutexes, history
    <2>2. Owners'
      BY <1>14 DEF DequeueFinished, IInv, TypeOK, Owners, queues, mutexes, history
    <2>3. Locals'
      BY <1>14, SeqFacts, IdFacts DEF DequeueFinished, IInv, TypeOK, Locals, queues, mutexes, history
    <2>4. NoLostWakeup'
      BY <1>14 DEF DequeueFinished, IInv, Owners, NoLostWakeup, queues, mutexes, history
    <2>5. NoLostResult'
      BY <1>14 DEF DequeueFinished, IInv, TypeOK, Owners, NoLostResult, NotChecking, queues, mutexes, history
    <2> QED BY <2>1, <2>2, <2>3, <2>4, <2>5 DEF IInv
  <1>15. CASE Callback
    <2>1. TypeOK'
      <3>1. entry \in Id
        BY <1>15, IdFacts DEF Callback, IInv, TypeOK, Locals
      <3>2. answers' \in Seq(Id)
        BY <1>15, <3>1, SeqFacts DEF Callback, IInv, TypeOK
      <3>3. entry' \in 0..MaxId /\ asked' \in 0..MaxId /\ back' \in {"select", "check"}
        <4>1. asked \in 0..MaxId /\ back \in {"select", "check"}
          BY DEF IInv, TypeOK
        <4>2. CASE asked < MaxId /\ entry' = asked + 1 /\ back' = "check" /\ asked' = asked + 1
          BY <4>1, <4>2
        <4>3. CASE entry' = 0 /\ UNCHANGED <<back, asked>>
          BY <4>1, <4>3
        <4> QED BY <1>15, <4>2, <4>3 DEF Callback, Ask
      <3>4. main' \in {"add", "check"}
        BY <1>15 DEF Callback, Ask
      <3> QED BY <1>15, <3>2, <3>3, <3>4 DEF Callback, IInv, TypeOK, queues, mutexes
    <2>2. Owners'
      BY <1>15 DEF Callback, Ask, IInv, TypeOK, Owners, queues, mutexes, history
    <2>3. Locals'
      BY <1>15, SeqFacts, IdFacts DEF Callback, Ask, IInv, TypeOK, Locals, queues, mutexes, history
    <2>4. NoLostWakeup'
      BY <1>15 DEF Callback, Ask, IInv, Owners, NoLostWakeup, queues, mutexes, history
    <2>5. NoLostResult'
      BY <1>15 DEF Callback, Ask, IInv, TypeOK, Owners, NoLostResult, NotChecking, queues, mutexes, history
    <2> QED BY <2>1, <2>2, <2>3, <2>4, <2>5 DEF IInv
  <1>16. CASE UnlockQuit
    BY <1>16 DEF UnlockQuit, IInv, TypeOK, Owners, Locals, NoLostWakeup, NoLostResult, NotChecking, queues, mutexes, history
  <1>17. CASE StopLock
    BY <1>17 DEF StopLock, IInv, TypeOK, Owners, Locals, NoLostWakeup, NoLostResult, NotChecking, queues, mutexes, history
  <1>18. CASE StopSignal
    BY <1>18 DEF StopSignal, Signalled, IInv, TypeOK, Owners, Locals, NoLostWakeup, NoLostResult, NotChecking, queues, mutexes, history
  <1>19. CASE Join
    BY <1>19 DEF Join, IInv, TypeOK, Owners, Locals, NoLostWakeup, NoLostResult, NotChecking, queues, mutexes, history
  <1>20. CASE kill_dns
    <2>1. TypeOK'
      <3>1. pending' \in Seq(Id) /\ finished' \in Seq(Id) /\ answers' \in Seq(Id)
        BY <1>20, EmptySeq DEF kill_dns, IInv, TypeOK, history
      <3>2. pipe' \in 0..PipeSize /\ dns' \in 0..MaxId
        BY <1>20 DEF kill_dns
      <3> QED BY <1>20, <3>1, <3>2 DEF kill_dns, IInv, TypeOK, history
    <2>2. Owners'
      BY <1>20 DEF kill_dns, IInv, TypeOK, Owners, queues, mutexes, history
    <2>3. Locals'
      BY <1>20 DEF kill_dns, IInv, Locals
    <2>4. NoLostWakeup'
      BY <1>20 DEF kill_dns, IInv, Owners, NoLostWakeup, queues, mutexes, history
    <2>5. NoLostResult'
      BY <1>20 DEF kill_dns, IInv, TypeOK, Owners, NoLostResult, NotChecking, queues, mutexes, history
    <2> QED BY <2>1, <2>2, <2>3, <2>4, <2>5 DEF IInv
  <1>21. CASE AskFromCommand
    <2>1. TypeOK'
      BY <1>21, IdFacts DEF AskFromCommand, Ask, IInv, TypeOK, Locals, queues, mutexes, history
    <2>2. Owners'
      BY <1>21 DEF AskFromCommand, Ask, IInv, TypeOK, Owners, queues, mutexes, history
    <2>3. Locals'
      BY <1>21, IdFacts DEF AskFromCommand, Ask, IInv, TypeOK, Locals, queues, mutexes, history
    <2>4. NoLostWakeup'
      BY <1>21 DEF AskFromCommand, Ask, IInv, Owners, NoLostWakeup, queues, mutexes, history
    <2>5. NoLostResult'
      BY <1>21 DEF AskFromCommand, Ask, IInv, TypeOK, Owners, NoLostResult, NotChecking, queues, mutexes, history
    <2> QED BY <2>1, <2>2, <2>3, <2>4, <2>5 DEF IInv
  <1>22. CASE UNCHANGED vars
    <2>1. /\ pending' = pending /\ finished' = finished /\ pipe' = pipe
          /\ pending_queue_mutex' = pending_queue_mutex
          /\ finished_queue_mutex' = finished_queue_mutex /\ quit_mutex' = quit_mutex
          /\ thread' = thread /\ dns' = dns /\ main' = main /\ entry' = entry
          /\ back' = back /\ asked' = asked /\ urgent' = urgent /\ answers' = answers
      BY <1>22 DEF vars, queues, mutexes, history
    <2>2. TypeOK'
      <3>1. pending' \in Seq(Id) /\ finished' \in Seq(Id) /\ answers' \in Seq(Id)
        BY <2>1, Zenon DEF IInv, TypeOK
      <3>2. /\ pipe' \in 0..PipeSize /\ dns' \in 0..MaxId /\ entry' \in 0..MaxId
            /\ asked' \in 0..MaxId /\ urgent' \in SUBSET Id
        BY <2>1, Zenon DEF IInv, TypeOK
      <3>3. /\ pending_queue_mutex' \in {"free", "main", "dns"}
            /\ finished_queue_mutex' \in {"free", "main", "dns"}
            /\ quit_mutex' \in {"free", "main", "dns"}
            /\ back' \in {"select", "check"}
        BY <2>1, Zenon DEF IInv, TypeOK
      <3>4. TypeOK => thread' \in {"top", "lock pending", "dequeue", "waiting", "woken", "lookup",
                                   "lock finished", "enqueue", "write", "dead"}
        BY <2>1, Zenon DEF TypeOK
      <3>5. TypeOK => main' \in {"select", "add", "enqueue", "check", "dequeue", "callback",
                                 "stop", "signal", "join", "stopped", "exited"}
        BY <2>1, Zenon DEF TypeOK
      <3> QED BY <3>1, <3>2, <3>3, <3>4, <3>5, Zenon DEF IInv, TypeOK
    <2>3. Owners'
      BY <2>1 DEF IInv, Owners
    <2>4. Locals'
      BY <2>1, Zenon DEF IInv, Locals
    <2>5. NoLostWakeup'
      BY <2>1 DEF IInv, NoLostWakeup
    <2>6. NoLostResult'
      BY <2>1 DEF IInv, NoLostResult, NotChecking
    <2> QED BY <2>2, <2>3, <2>4, <2>5, <2>6 DEF IInv
  <1> QED
    BY <1>1, <1>2, <1>3, <1>4, <1>5, <1>6, <1>7, <1>8, <1>9, <1>10, <1>11, <1>12,
       <1>13, <1>14, <1>15, <1>16, <1>17, <1>18, <1>19, <1>20, <1>21, <1>22
    DEF Next, Thread, Main

LEMMA IInvHolds == Spec => []IInv
  BY InitIInv, NextIInv, PTL DEF Spec

(***************************************************************************)
(* The variables of the resolver keep their types.                         *)
(***************************************************************************)
THEOREM TypeCorrect == Spec => []TypeOK
  BY IInvHolds, PTL DEF IInv

(***************************************************************************)
(* The dns thread never sleeps while a request waits.                      *)
(***************************************************************************)
THEOREM WakeupSafe == Spec => []NoLostWakeup
  BY IInvHolds, PTL DEF IInv

(***************************************************************************)
(* No result stays behind when main returns from check_dns_queue().        *)
(***************************************************************************)
THEOREM ResultSafe == Spec => []NoLostResult
  BY IInvHolds, PTL DEF IInv
-----------------------------------------------------------------------------
(* The resolver is a DnsService *)

NoRepeats(q) == \A i, j \in 1..Len(q) : q[i] = q[j] => i = j

(***************************************************************************)
(* A request is in one place at a time, and none is answered already: this *)
(* is what makes the removal of an entry from one place its removal.       *)
(***************************************************************************)
Distinct ==
    /\ NoRepeats(pending) /\ NoRepeats(finished)
    /\ Elements(pending) \cap Elements(finished) = {}
    /\ dns \notin Elements(pending) \cup Elements(finished)
    /\ main = "callback" => entry \notin Elements(pending) \cup Elements(finished) \cup {dns}
    /\ Waiting \cap Answered = {}
    /\ main \in {"add", "enqueue"} => entry \notin Waiting \cup Answered
    /\ \A r \in Waiting \cup Answered : r <= asked
    /\ main \in {"add", "enqueue"} => entry <= asked

LEMMA PopElements ==
  ASSUME NEW q \in Seq(Id), NoRepeats(q), q # <<>>
  PROVE  /\ NoRepeats(Tail(q))
         /\ Elements(q) = {Head(q)} \cup Elements(Tail(q))
         /\ Head(q) \notin Elements(Tail(q))
  <1>1. Len(q) \in Nat \ {0} /\ Head(q) = q[1] /\ Len(Tail(q)) = Len(q) - 1
    OBVIOUS
  <1>2. \A i \in 1..(Len(q) - 1) : Tail(q)[i] = q[i + 1] /\ i + 1 \in 1..Len(q)
    BY <1>1
  <1>3. NoRepeats(Tail(q))
    BY <1>1, <1>2 DEF NoRepeats
  <1>4. Head(q) \notin Elements(Tail(q))
    BY <1>1, <1>2 DEF NoRepeats, Elements
  <1>5. ASSUME NEW i \in 1..Len(q) PROVE q[i] \in {Head(q)} \cup Elements(Tail(q))
    <2>1. CASE i = 1
      BY <2>1, <1>1
    <2>2. CASE i # 1
      <3>1. i - 1 \in 1..(Len(q) - 1) /\ (i - 1) + 1 = i
        BY <2>2, <1>1
      <3>2. Tail(q)[i - 1] = q[i]
        BY <3>1, <1>2
      <3> QED BY <3>1, <3>2, <1>1 DEF Elements
    <2> QED BY <2>1, <2>2
  <1>6. Elements(q) \subseteq {Head(q)} \cup Elements(Tail(q))
    BY <1>5 DEF Elements
  <1>7. {Head(q)} \cup Elements(Tail(q)) \subseteq Elements(q)
    BY <1>1, <1>2 DEF Elements
  <1> QED BY <1>3, <1>4, <1>6, <1>7

LEMMA AppendElements ==
  ASSUME NEW q \in Seq(Id), NEW e \in Id
  PROVE  /\ Elements(Append(q, e)) = Elements(q) \cup {e}
         /\ NoRepeats(q) /\ e \notin Elements(q) => NoRepeats(Append(q, e))
  <1>1. Len(q) \in Nat /\ Len(Append(q, e)) = Len(q) + 1
    OBVIOUS
  <1>2. \A i \in 1..(Len(q) + 1) : Append(q, e)[i] = IF i = Len(q) + 1 THEN e ELSE q[i]
    OBVIOUS
  <1>3. Elements(Append(q, e)) = Elements(q) \cup {e}
    <2>1. \A i \in 1..(Len(q) + 1) : i # Len(q) + 1 => i \in 1..Len(q)
      BY <1>1
    <2>2. 1..Len(q) \subseteq 1..(Len(q) + 1) /\ Len(q) + 1 \in 1..(Len(q) + 1)
      BY <1>1
    <2> QED BY <1>1, <1>2, <2>1, <2>2 DEF Elements
  <1>4. ASSUME NoRepeats(q), e \notin Elements(q) PROVE NoRepeats(Append(q, e))
    BY <1>1, <1>2, <1>4 DEF NoRepeats, Elements
  <1> QED BY <1>3, <1>4

LEMMA PushElements ==
  ASSUME NEW q \in Seq(Id), NEW e \in Id
  PROVE  /\ Elements(<<e>> \o q) = Elements(q) \cup {e}
         /\ NoRepeats(q) /\ e \notin Elements(q) => NoRepeats(<<e>> \o q)
  <1> DEFINE p == <<e>> \o q
  <1>1. Len(q) \in Nat /\ Len(p) = Len(q) + 1 /\ p[1] = e
    OBVIOUS
  <1>2. \A i \in 1..Len(q) : p[i + 1] = q[i]
    OBVIOUS
  <1>3. \A i \in 1..(Len(q) + 1) : i = 1 \/ (i - 1 \in 1..Len(q) /\ p[i] = q[i - 1])
    BY <1>1
  <1> HIDE DEF p
  <1>4. Elements(p) = Elements(q) \cup {e}
    <2>1. \A i \in 1..Len(q) : i + 1 \in 1..(Len(q) + 1)
      BY <1>1
    <2>2. 1 \in 1..(Len(q) + 1)
      BY <1>1
    <2>3. Elements(p) \subseteq Elements(q) \cup {e}
      BY <1>1, <1>3 DEF Elements
    <2>4. Elements(q) \cup {e} \subseteq Elements(p)
      BY <1>1, <1>2, <2>1, <2>2 DEF Elements
    <2> QED BY <2>3, <2>4
  <1>5. ASSUME NoRepeats(q), e \notin Elements(q) PROVE NoRepeats(p)
    BY <1>1, <1>3, <1>5 DEF NoRepeats, Elements
  <1> QED BY <1>4, <1>5 DEF p

LEMMA EmptyElements == Elements(<<>>) = {} /\ NoRepeats(<<>>)
  BY DEF Elements, NoRepeats

LEMMA ElementsInId == ASSUME NEW q \in Seq(Id) PROVE Elements(q) \subseteq Id
  BY DEF Elements

(***************************************************************************)
(* Most actions move a thread from one point to the next and leave the     *)
(* requests where they are.                                                *)
(***************************************************************************)
Quiet ==
    /\ pending' = pending /\ finished' = finished /\ dns' = dns /\ entry' = entry
    /\ answers' = answers /\ asked' = asked
    /\ main' = "callback" <=> main = "callback"
    /\ main' \in {"add", "enqueue"} => main \in {"add", "enqueue"}

LEMMA QuietStep == Distinct /\ Quiet => Distinct' /\ Waiting' = Waiting /\ Answered' = Answered
  <1> SUFFICES ASSUME Distinct, Quiet
               PROVE  Distinct' /\ Waiting' = Waiting /\ Answered' = Answered
    OBVIOUS
  <1>1. Waiting' = Waiting /\ Answered' = Answered
    BY DEF Quiet, Waiting, Answered
  <1>2. Distinct'
    BY <1>1 DEF Quiet, Distinct
  <1> QED BY <1>1, <1>2

LEMMA NextRefines ==
  IInv /\ Distinct /\ [Next]_vars => Distinct' /\ [Service!Next]_<<Waiting, Answered>>
  <1> SUFFICES ASSUME IInv, Distinct, [Next]_vars
               PROVE  Distinct' /\ [Service!Next]_<<Waiting, Answered>>
    OBVIOUS
  <1> DEFINE Goal == Distinct' /\ [Service!Next]_<<Waiting, Answered>>
  <1> USE CdnsAssumption DEF DnsUnchanged, MainUnchanged
  <1>0. /\ pending \in Seq(Id) /\ finished \in Seq(Id) /\ answers \in Seq(Id)
        /\ Elements(pending) \subseteq Id /\ Elements(finished) \subseteq Id
        /\ Elements(answers) \subseteq Id
        /\ asked \in 0..MaxId /\ entry \in 0..MaxId /\ dns \in 0..MaxId
    BY ElementsInId DEF IInv, TypeOK
  <1>1. ASSUME Quiet PROVE Goal
    BY <1>1, QuietStep
  <1>2. CASE DequeuePending
    <2>1. CASE pending = <<>>
      BY <1>1, <1>2, <2>1 DEF DequeuePending, Quiet, history
    <2>2. CASE pending # <<>>
      <3>1. /\ dns' = Head(pending) /\ pending' = Tail(pending)
            /\ finished' = finished /\ main' = main /\ entry' = entry
            /\ asked' = asked /\ answers' = answers
        BY <1>2, <2>2 DEF DequeuePending, history
      <3>2. dns = 0
        BY <1>2 DEF DequeuePending, IInv, Locals
      <3>3. /\ NoRepeats(pending')
            /\ Elements(pending) = {dns'} \cup Elements(pending')
            /\ dns' \notin Elements(pending')
        BY <1>0, <2>2, <3>1, PopElements DEF Distinct
      <3>4. dns' # 0
        BY <1>0, <2>2, <3>1, SeqFacts, IdFacts
      <3>5. Waiting' = Waiting /\ Answered' = Answered
        BY <3>1, <3>2, <3>3, <3>4 DEF Waiting, Answered
      <3>6. Distinct'
        BY <3>1, <3>3, <3>4, <3>5 DEF Distinct
      <3> QED BY <3>5, <3>6
    <2> QED BY <2>1, <2>2
  <1>3. CASE EnqueueFinished
    <2>1. /\ pending' = pending /\ finished' = Append(finished, dns) /\ dns' = 0
          /\ main' = main /\ entry' = entry /\ asked' = asked /\ answers' = answers
      BY <1>3 DEF EnqueueFinished, dns_enqueue, history
    <2>2. dns # 0 /\ dns \in Id
      BY <1>0, <1>3, IdFacts DEF EnqueueFinished, IInv, Locals
    <2>3. Elements(finished') = Elements(finished) \cup {dns} /\ NoRepeats(finished')
      BY <1>0, <2>1, <2>2, AppendElements DEF Distinct
    <2>4. 0 \notin Elements(pending) \cup Elements(finished) \cup {dns}
      BY <1>0, <2>2, IdFacts
    <2>5. Waiting' = Waiting /\ Answered' = Answered
      BY <2>1, <2>2, <2>3 DEF Waiting, Answered
    <2>6. main = "callback" => entry # 0
      BY DEF IInv, Locals
    <2>7. Distinct'
      BY <2>1, <2>2, <2>3, <2>4, <2>5, <2>6 DEF Distinct
    <2> QED BY <2>5, <2>7
  <1>4. CASE AskFromCommand
    <2>1. /\ pending' = pending /\ finished' = finished /\ dns' = dns /\ answers' = answers
          /\ main = "select" /\ main' = "add" /\ entry' = asked + 1 /\ asked' = asked + 1
      BY <1>4 DEF AskFromCommand, Ask, queues
    <2>2. Waiting' = Waiting /\ Answered' = Answered
      BY <2>1 DEF Waiting, Answered
    <2>3. \A r \in Waiting \cup Answered : r \in Int /\ r <= asked
      BY <1>0, <2>1 DEF Distinct, Waiting, Answered, Id
    <2>4. entry' \notin Waiting \cup Answered /\ entry' <= asked'
      BY <1>0, <2>1, <2>3
    <2>5. \A r \in Waiting \cup Answered : r <= asked'
      BY <1>0, <2>1, <2>3
    <2>6. Distinct'
      BY <2>1, <2>2, <2>4, <2>5 DEF Distinct
    <2> QED BY <2>2, <2>6
  <1>5. ASSUME NEW is_urgent \in BOOLEAN, EnqueuePending(is_urgent) PROVE Goal
    <2>1. /\ finished' = finished /\ dns' = dns /\ answers' = answers /\ asked' = asked
          /\ main = "enqueue" /\ main' = back /\ back \in {"select", "check"}
      BY <1>5 DEF EnqueuePending, IInv, TypeOK
    <2>2. pending' \in {Append(pending, entry), <<entry>> \o pending}
      BY <1>5 DEF EnqueuePending, dns_enqueue, dns_enqueue_urgent
    <2>3. entry \in Id
      BY <1>0, <2>1, IdFacts DEF IInv, Locals
    <2>4. entry \notin Waiting \cup Answered /\ entry <= asked
      BY <2>1 DEF Distinct
    <2>5. entry \notin Elements(pending) \cup Elements(finished) \cup {dns}
      <3>1. entry # 0
        BY <2>3, IdFacts
      <3> QED BY <2>4, <3>1 DEF Waiting
    <2>6. Elements(pending') = Elements(pending) \cup {entry} /\ NoRepeats(pending')
      <3>1. NoRepeats(pending) /\ entry \notin Elements(pending)
        BY <2>5 DEF Distinct
      <3>2. CASE pending' = Append(pending, entry)
        BY <1>0, <2>3, <3>1, <3>2, AppendElements
      <3>3. CASE pending' = <<entry>> \o pending
        BY <1>0, <2>3, <3>1, <3>3, PushElements
      <3> QED BY <2>2, <3>2, <3>3
    <2>7. Waiting' = Waiting \cup {entry} /\ Answered' = Answered
      BY <2>1, <2>6 DEF Waiting, Answered
    <2>8. Distinct'
      BY <2>1, <2>4, <2>5, <2>6, <2>7 DEF Distinct
    <2>9. Service!Ask(entry)
      BY <2>4, <2>7 DEF Service!Ask
    <2> QED BY <2>3, <2>8, <2>9 DEF Service!Next
  <1>6. CASE DequeueFinished
    <2>1. CASE finished = <<>>
      BY <1>1, <1>6, <2>1 DEF DequeueFinished, Quiet, history
    <2>2. CASE finished # <<>>
      <3>1. /\ entry' = Head(finished) /\ finished' = Tail(finished)
            /\ pending' = pending /\ dns' = dns /\ asked' = asked /\ answers' = answers
            /\ main = "dequeue" /\ main' = "callback"
        BY <1>6, <2>2 DEF DequeueFinished, history
      <3>2. /\ NoRepeats(finished')
            /\ Elements(finished) = {entry'} \cup Elements(finished')
            /\ entry' \notin Elements(finished')
        BY <1>0, <2>2, <3>1, PopElements DEF Distinct
      <3>3. Waiting' = Waiting /\ Answered' = Answered
        BY <3>1, <3>2 DEF Waiting, Answered
      <3>4. Distinct'
        BY <3>1, <3>2, <3>3 DEF Distinct
      <3> QED BY <3>3, <3>4
    <2> QED BY <2>1, <2>2
  <1>7. CASE Callback
    <2>1. /\ pending' = pending /\ finished' = finished /\ dns' = dns
          /\ answers' = Append(answers, entry) /\ main = "callback"
      BY <1>7 DEF Callback, queues
    <2>2. entry \in Id
      BY <1>0, <2>1, IdFacts DEF IInv, Locals
    <2>3. Answered' = Answered \cup {entry}
      BY <1>0, <2>1, <2>2, AppendElements DEF Answered
    <2>4. entry \in Waiting /\ entry \notin Answered
      BY <2>1 DEF Waiting, Distinct
    <2>5. main' \in {"add", "check"}
      BY <1>7 DEF Callback, Ask
    <2>6. Waiting' = Waiting \ {entry}
      <3>1. entry \notin Elements(pending) \cup Elements(finished) \cup {dns}
        BY <2>1 DEF Distinct
      <3> QED BY <2>1, <2>5, <3>1 DEF Waiting
    <2>7. Service!Answer(entry)
      BY <2>3, <2>4, <2>6 DEF Service!Answer
    <2>8. \A r \in Waiting \cup Answered : r \in Int /\ r <= asked
      BY <1>0, <2>2, <2>1 DEF Distinct, Waiting, Answered, Id
    <2>9. /\ asked' \in {asked, asked + 1}
          /\ main' = "add" => entry' = asked + 1 /\ asked' = asked + 1
      BY <1>7 DEF Callback, Ask
    <2>10. Waiting' \cup Answered' = Waiting \cup Answered
      BY <2>3, <2>4, <2>6
    <2>11. \A r \in Waiting' \cup Answered' : r <= asked'
      BY <1>0, <2>8, <2>9, <2>10
    <2>12. main' = "add" => entry' \notin Waiting' \cup Answered' /\ entry' <= asked'
      BY <1>0, <2>8, <2>9, <2>10
    <2>13. Waiting' \cap Answered' = {}
      BY <2>3, <2>6 DEF Distinct
    <2>14. Distinct'
      BY <2>1, <2>5, <2>11, <2>12, <2>13 DEF Distinct
    <2> QED BY <2>2, <2>7, <2>14 DEF Service!Next
  <1>8. ASSUME Join \/ kill_dns PROVE Goal
    <2>1. /\ pending' = <<>> /\ finished' = <<>> /\ dns' = 0 /\ answers' = answers
          /\ asked' = asked /\ main' \in {"stopped", "exited"}
      BY <1>8 DEF Join, kill_dns, history, IInv, Locals
    <2>2. Waiting' = {} /\ Answered' = Answered
      BY <2>1, EmptyElements DEF Waiting, Answered
    <2>3. Distinct'
      <3>1. \A r \in Answered : r <= asked
        BY DEF Distinct
      <3> QED BY <2>1, <2>2, <3>1, EmptyElements DEF Distinct
    <2> QED BY <2>2, <2>3 DEF Service!Next, Service!Stop
  <1>9. ASSUME \/ TryQuit \/ LockPending \/ Woken \/ do_dns_lookup \/ LockFinished
               \/ WritePipe \/ SpuriousWakeup
        PROVE  Goal
    BY <1>1, <1>9 DEF TryQuit, LockPending, Woken, do_dns_lookup, LockFinished,
       WritePipe, SpuriousWakeup, Quiet, queues, history
  <1>10. ASSUME AddLock \/ ReadPipe \/ TryFinished \/ UnlockQuit \/ StopLock \/ StopSignal
         PROVE  Goal
    BY <1>1, <1>10 DEF AddLock, ReadPipe, TryFinished, UnlockQuit, StopLock, StopSignal,
       Quiet, queues, history
  <1>11. CASE UNCHANGED vars
    BY <1>1, <1>11 DEF vars, Quiet, queues, history
  <1> QED
    BY <1>2, <1>3, <1>4, <1>5, <1>6, <1>7, <1>8, <1>9, <1>10, <1>11 DEF Next, Thread, Main

LEMMA InitDistinct == Init => Distinct /\ Service!Init
  BY EmptyElements DEF Init, Distinct, Waiting, Answered, Service!Init

(***************************************************************************)
(* Every request is answered by one call of its callback and no other is   *)
(* made: the two threads, their queues and their pipe are a DnsService.    *)
(***************************************************************************)
THEOREM Implements == Spec => Refines
  <1>1. IInv /\ Distinct /\ [Next]_vars => Distinct' /\ [Service!Next]_<<Waiting, Answered>>
    BY NextRefines
  <1> QED BY <1>1, InitDistinct, IInvHolds, PTL DEF Spec, Refines, Service!Spec
-----------------------------------------------------------------------------
(* The requests that are not urgent are answered in order *)

(* those of q that are not in U are in the order of their numbers *)
Ascending(q, U) ==
    \A i, j \in 1..Len(q) : i < j /\ q[i] \notin U /\ q[j] \notin U => q[i] < q[j]

(* and so are those of S and T *)
Before(S, T, U) == \A x \in S \ U, y \in T \ U : x < y

(* the answer that is being given, and the one that is looked up *)
Given == IF main = "callback" THEN {entry} ELSE {}
LookedUp == {dns} \ {0}

(***************************************************************************)
(* Each of the places a request goes through is in order, and each is      *)
(* before the next.  A new request is the last that was made.              *)
(***************************************************************************)
Order ==
    /\ Ascending(answers, urgent) /\ Ascending(finished, urgent) /\ Ascending(pending, urgent)
    /\ Before(Elements(answers), Given, urgent)
    /\ Before(Elements(answers) \cup Given, Elements(finished), urgent)
    /\ Before(Elements(answers) \cup Given \cup Elements(finished), LookedUp, urgent)
    /\ Before(Elements(answers) \cup Given \cup Elements(finished) \cup LookedUp,
              Elements(pending), urgent)
    /\ main \in {"add", "enqueue"} => entry = asked

(* The entry that is taken from a queue comes before those that stay. *)
LEMMA PopAscending ==
  ASSUME NEW q \in Seq(Id), NEW U, Ascending(q, U), q # <<>>
  PROVE  /\ Ascending(Tail(q), U) /\ Before({Head(q)}, Elements(Tail(q)), U)
         /\ Elements(q) = {Head(q)} \cup Elements(Tail(q))
  <1>1. Len(q) \in Nat \ {0} /\ Head(q) = q[1] /\ Len(Tail(q)) = Len(q) - 1
    OBVIOUS
  <1>2. \A i \in 1..(Len(q) - 1) : Tail(q)[i] = q[i + 1] /\ i + 1 \in 1..Len(q) /\ 1 < i + 1
    BY <1>1
  <1>3. 1 \in 1..Len(q)
    BY <1>1
  <1>4. Ascending(Tail(q), U)
    <2>1. ASSUME NEW i \in 1..(Len(q) - 1), NEW j \in 1..(Len(q) - 1), i < j
          PROVE  i + 1 < j + 1
      BY <2>1
    <2> QED BY <1>1, <1>2, <2>1 DEF Ascending
  <1>5. Before({Head(q)}, Elements(Tail(q)), U)
    BY <1>1, <1>2, <1>3 DEF Ascending, Before, Elements
  <1>6. ASSUME NEW i \in 1..Len(q) PROVE q[i] \in {Head(q)} \cup Elements(Tail(q))
    <2>1. CASE i = 1
      BY <1>1, <2>1
    <2>2. CASE i # 1
      <3>1. i - 1 \in 1..(Len(q) - 1) /\ (i - 1) + 1 = i
        BY <1>1, <2>2
      <3>2. Tail(q)[i - 1] = q[i]
        BY <1>2, <3>1
      <3> QED BY <1>1, <3>1, <3>2 DEF Elements
    <2> QED BY <2>1, <2>2
  <1>7. Elements(q) \subseteq {Head(q)} \cup Elements(Tail(q))
    BY <1>6 DEF Elements
  <1>8. {Head(q)} \cup Elements(Tail(q)) \subseteq Elements(q)
    BY <1>1, <1>2, <1>3 DEF Elements
  <1> QED BY <1>4, <1>5, <1>7, <1>8

(* Two sequences, one before the other, make one in order. *)
LEMMA ConcatAscending ==
  ASSUME NEW p \in Seq(Id), NEW q \in Seq(Id), NEW U, Ascending(p, U), Ascending(q, U),
         Before(Elements(p), Elements(q), U)
  PROVE  /\ p \o q \in Seq(Id) /\ Ascending(p \o q, U)
         /\ Elements(p \o q) = Elements(p) \cup Elements(q)
  <1> DEFINE r == p \o q
  <1>1. Len(p) \in Nat /\ Len(q) \in Nat /\ Len(r) = Len(p) + Len(q) /\ r \in Seq(Id)
    OBVIOUS
  <1>2. \A i \in 1..Len(r) : r[i] = IF i <= Len(p) THEN p[i] ELSE q[i - Len(p)]
    OBVIOUS
  <1> HIDE DEF r
  <1>3. \A i \in 1..Len(r) : \/ i <= Len(p) /\ i \in 1..Len(p) /\ r[i] = p[i]
                             \/ i > Len(p) /\ i - Len(p) \in 1..Len(q) /\ r[i] = q[i - Len(p)]
    BY <1>1, <1>2
  <1>4. ASSUME NEW i \in 1..Len(r), NEW j \in 1..Len(r), i < j, r[i] \notin U, r[j] \notin U
        PROVE  r[i] < r[j]
    <2>1. CASE j <= Len(p)
      <3>1. i \in 1..Len(p) /\ j \in 1..Len(p) /\ r[i] = p[i] /\ r[j] = p[j]
        BY <1>1, <1>3, <1>4, <2>1
      <3> QED BY <1>4, <3>1 DEF Ascending
    <2>2. CASE i <= Len(p) /\ j > Len(p)
      <3>1. r[i] \in Elements(p) /\ r[j] \in Elements(q)
        BY <1>1, <1>3, <2>2 DEF Elements
      <3> QED BY <1>4, <3>1 DEF Before
    <2>3. CASE i > Len(p)
      <3>1. /\ i - Len(p) \in 1..Len(q) /\ j - Len(p) \in 1..Len(q) /\ i - Len(p) < j - Len(p)
            /\ r[i] = q[i - Len(p)] /\ r[j] = q[j - Len(p)]
        BY <1>1, <1>3, <1>4, <2>3
      <3> QED BY <1>4, <3>1 DEF Ascending
    <2> QED BY <1>1, <1>4, <2>1, <2>2, <2>3
  <1>5. Elements(r) \subseteq Elements(p) \cup Elements(q)
    BY <1>3 DEF Elements
  <1>6. ASSUME NEW k \in 1..Len(p) PROVE p[k] \in Elements(r)
    <2>1. k \in 1..Len(r) /\ k <= Len(p)
      BY <1>1
    <2>2. r[k] = p[k]
      BY <1>1, <1>3, <2>1
    <2> QED BY <2>1, <2>2 DEF Elements
  <1>7. ASSUME NEW k \in 1..Len(q) PROVE q[k] \in Elements(r)
    <2>1. k + Len(p) \in 1..Len(r) /\ k + Len(p) > Len(p) /\ (k + Len(p)) - Len(p) = k
      BY <1>1
    <2>2. r[k + Len(p)] = q[k]
      BY <1>1, <1>3, <2>1
    <2> QED BY <2>1, <2>2 DEF Elements
  <1>8. Elements(p) \cup Elements(q) \subseteq Elements(r)
    BY <1>6, <1>7 DEF Elements
  <1> QED BY <1>1, <1>4, <1>5, <1>8 DEF Ascending, r

(* a queue of one entry *)
LEMMA OneElement ==
  ASSUME NEW e \in Id, NEW U
  PROVE  /\ <<e>> \in Seq(Id) /\ Ascending(<<e>>, U) /\ Elements(<<e>>) = {e}
         /\ \A q \in Seq(Id) : Append(q, e) = q \o <<e>>
  <1>1. <<e>> \in Seq(Id) /\ Len(<<e>>) = 1 /\ <<e>>[1] = e /\ 1..1 = {1}
    OBVIOUS
  <1>2. \A q \in Seq(Id) : Append(q, e) = q \o <<e>>
    OBVIOUS
  <1>3. Ascending(<<e>>, U)
    BY <1>1 DEF Ascending
  <1>4. Elements(<<e>>) = {e}
    BY <1>1 DEF Elements
  <1> QED BY <1>1, <1>2, <1>3, <1>4

(* An entry that is put behind those before it, or in front of the others. *)
LEMMA AppendAscending ==
  ASSUME NEW q \in Seq(Id), NEW e \in Id, NEW U, Ascending(q, U), Before(Elements(q), {e}, U)
  PROVE  Ascending(Append(q, e), U) /\ Elements(Append(q, e)) = Elements(q) \cup {e}
  <1> DEFINE o == <<e>>
  <1>1. o \in Seq(Id) /\ Ascending(o, U) /\ Elements(o) = {e} /\ Append(q, e) = q \o o
    BY OneElement
  <1> HIDE DEF o
  <1>2. Before(Elements(q), Elements(o), U)
    BY <1>1
  <1>3. Ascending(q \o o, U) /\ Elements(q \o o) = Elements(q) \cup Elements(o)
    BY <1>1, <1>2, ConcatAscending
  <1> QED BY <1>1, <1>3

LEMMA PushAscending ==
  ASSUME NEW q \in Seq(Id), NEW e \in Id, NEW U, Ascending(q, U), Before({e}, Elements(q), U)
  PROVE  Ascending(<<e>> \o q, U) /\ Elements(<<e>> \o q) = {e} \cup Elements(q)
  <1> DEFINE o == <<e>>
  <1>1. o \in Seq(Id) /\ Ascending(o, U) /\ Elements(o) = {e}
    BY OneElement
  <1> HIDE DEF o
  <1>2. Before(Elements(o), Elements(q), U)
    BY <1>1
  <1>3. Ascending(o \o q, U) /\ Elements(o \o q) = Elements(o) \cup Elements(q)
    BY <1>1, <1>2, ConcatAscending
  <1> QED BY <1>1, <1>3 DEF o

(* nothing is in order *)
LEMMA NoElements == ASSUME NEW U PROVE <<>> \in Seq(Id) /\ Ascending(<<>>, U) /\ Elements(<<>>) = {}
  BY DEF Ascending, Elements

(* Making a request urgent takes nothing out of order. *)
LEMMA MoreUrgent ==
  ASSUME NEW q, NEW S, NEW T, NEW U, NEW V, U \subseteq V
  PROVE  /\ Ascending(q, U) => Ascending(q, V)
         /\ Before(S, T, U) => Before(S, T, V)
  BY DEF Ascending, Before

(* Together they say what PlainInOrder says. *)
LEMMA OrderSuffices == IInv /\ Order => PlainInOrder
  <1> SUFFICES ASSUME IInv, Order PROVE PlainInOrder
    OBVIOUS
  <1> DEFINE g == IF main = "callback" THEN <<entry>> ELSE <<>>
             d == IF dns = 0 THEN <<>> ELSE <<dns>>
  <1>1. /\ pending \in Seq(Id) /\ finished \in Seq(Id) /\ answers \in Seq(Id)
        /\ dns # 0 => dns \in Id
        /\ main = "callback" => entry \in Id
    BY IdFacts DEF IInv, TypeOK, Locals
  <1>o. /\ Ascending(answers, urgent) /\ Ascending(finished, urgent) /\ Ascending(pending, urgent)
        /\ Before(Elements(answers), Given, urgent)
        /\ Before(Elements(answers) \cup Given, Elements(finished), urgent)
        /\ Before(Elements(answers) \cup Given \cup Elements(finished), LookedUp, urgent)
        /\ Before(Elements(answers) \cup Given \cup Elements(finished) \cup LookedUp,
                  Elements(pending), urgent)
    BY DEF Order
  <1>2. g \in Seq(Id) /\ Ascending(g, urgent) /\ Elements(g) = Given
    BY <1>1, OneElement, NoElements DEF Given
  <1>3. d \in Seq(Id) /\ Ascending(d, urgent) /\ Elements(d) = LookedUp
    <2>1. CASE dns = 0
      BY <2>1, NoElements DEF LookedUp
    <2>2. CASE dns # 0
      BY <1>1, <2>2, OneElement DEF LookedUp
    <2> QED BY <2>1, <2>2
  <1>4. InFlight = (((answers \o g) \o finished) \o d) \o pending
    BY DEF InFlight
  <1> HIDE DEF g, d
  <1> DEFINE a == answers \o g
             b == a \o finished
             c == b \o d
  <1>5. /\ a \in Seq(Id) /\ Ascending(a, urgent)
        /\ Elements(a) = Elements(answers) \cup Given
    BY <1>o, <1>1, <1>2, ConcatAscending
  <1> HIDE DEF a
  <1>6. /\ b \in Seq(Id) /\ Ascending(b, urgent)
        /\ Elements(b) = Elements(answers) \cup Given \cup Elements(finished)
    <2>1. Before(Elements(a), Elements(finished), urgent)
      BY <1>o, <1>5
    <2>2. /\ b \in Seq(Id) /\ Ascending(b, urgent)
          /\ Elements(b) = Elements(a) \cup Elements(finished)
      BY <1>o, <1>1, <1>5, <2>1, ConcatAscending
    <2> QED BY <1>5, <2>2
  <1> HIDE DEF b
  <1>7. /\ c \in Seq(Id) /\ Ascending(c, urgent)
        /\ Elements(c) = Elements(answers) \cup Given \cup Elements(finished) \cup LookedUp
    <2>1. Before(Elements(b), Elements(d), urgent)
      BY <1>o, <1>3, <1>6
    <2>2. /\ c \in Seq(Id) /\ Ascending(c, urgent)
          /\ Elements(c) = Elements(b) \cup Elements(d)
      BY <1>3, <1>6, <2>1, ConcatAscending
    <2> QED BY <1>3, <1>6, <2>2
  <1> HIDE DEF c
  <1>8. Ascending(c \o pending, urgent)
    <2>1. Before(Elements(c), Elements(pending), urgent)
      BY <1>o, <1>7
    <2> QED BY <1>o, <1>1, <1>7, <2>1, ConcatAscending
  <1>9. InFlight = c \o pending
    BY <1>4 DEF a, b, c
  <1> QED BY <1>8, <1>9 DEF Ascending, PlainInOrder

(* An action that moves no request. *)
LEMMA QuietOrder ==
  ASSUME Order, Quiet, urgent' = urgent
  PROVE  Order'
  <1>1. Given' = Given /\ LookedUp' = LookedUp
    BY DEF Quiet, Given, LookedUp
  <1> QED BY <1>1 DEF Quiet, Order

(* Every step keeps the order: one case per action that moves a request. *)
LEMMA NextOrder == IInv /\ Distinct /\ Order /\ [Next]_vars => Order'
  <1> SUFFICES ASSUME IInv, Distinct, Order, [Next]_vars PROVE Order'
    OBVIOUS
  <1> USE CdnsAssumption DEF DnsUnchanged, MainUnchanged
  <1>0. /\ pending \in Seq(Id) /\ finished \in Seq(Id) /\ answers \in Seq(Id)
        /\ asked \in 0..MaxId /\ entry \in 0..MaxId /\ dns \in 0..MaxId
    BY DEF IInv, TypeOK
  <1> DEFINE A == Elements(answers)
             F == Elements(finished)
             P == Elements(pending)
  <1>o. /\ Ascending(answers, urgent) /\ Ascending(finished, urgent) /\ Ascending(pending, urgent)
        /\ Before(A, Given, urgent) /\ Before(A \cup Given, F, urgent)
        /\ Before(A \cup Given \cup F, LookedUp, urgent)
        /\ Before(A \cup Given \cup F \cup LookedUp, P, urgent)
        /\ main \in {"add", "enqueue"} => entry = asked
    BY DEF Order
  <1> HIDE DEF A, F, P
  <1>1. CASE DequeuePending
    <2>1. CASE pending = <<>>
      BY <1>1, <2>1, QuietOrder DEF DequeuePending, Quiet, history
    <2>2. CASE pending # <<>>
      <3>1. /\ dns' = Head(pending) /\ pending' = Tail(pending)
            /\ finished' = finished /\ main' = main /\ entry' = entry
            /\ asked' = asked /\ answers' = answers /\ urgent' = urgent
        BY <1>1, <2>2 DEF DequeuePending, history
      <3>2. LookedUp = {} /\ LookedUp' = {dns'} /\ Given' = Given
        <4>1. dns = 0 /\ dns' # 0
          BY <1>0, <1>1, <2>2, <3>1, SeqFacts, IdFacts DEF DequeuePending, IInv, Locals
        <4> QED BY <3>1, <4>1 DEF LookedUp, Given
      <3>3. /\ Ascending(pending', urgent) /\ Before({dns'}, Elements(pending'), urgent)
            /\ P = {dns'} \cup Elements(pending')
        BY <1>0, <1>o, <2>2, <3>1, PopAscending DEF P
      <3>4. /\ Before(A \cup Given \cup F, {dns'}, urgent)
            /\ Before(A \cup Given \cup F \cup {dns'}, Elements(pending'), urgent)
        BY <1>o, <3>2, <3>3 DEF Before
      <3> QED BY <1>o, <3>1, <3>2, <3>3, <3>4 DEF Order, A, F
    <2> QED BY <2>1, <2>2
  <1>2. CASE EnqueueFinished
    <2>1. /\ pending' = pending /\ finished' = Append(finished, dns) /\ dns' = 0
          /\ main' = main /\ entry' = entry /\ asked' = asked /\ answers' = answers
          /\ urgent' = urgent
      BY <1>2 DEF EnqueueFinished, dns_enqueue, history
    <2>2. dns \in Id
      BY <1>0, <1>2, IdFacts DEF EnqueueFinished, IInv, Locals
    <2>3. LookedUp = {dns} /\ LookedUp' = {} /\ Given' = Given
      BY <2>1, <2>2, IdFacts DEF LookedUp, Given
    <2>4. Ascending(finished', urgent) /\ Elements(finished') = F \cup {dns}
      <3>1. Before(F, {dns}, urgent)
        BY <1>o, <2>3 DEF Before
      <3> QED BY <1>0, <1>o, <2>1, <2>2, <3>1, AppendAscending DEF F
    <2>5. /\ Before(A \cup Given, F \cup {dns}, urgent)
          /\ Before(A \cup Given \cup (F \cup {dns}), {}, urgent)
          /\ Before(A \cup Given \cup (F \cup {dns}) \cup {}, P, urgent)
      BY <1>o, <2>3 DEF Before
    <2> QED BY <1>o, <2>1, <2>3, <2>4, <2>5 DEF Order, A, P
  <1>3. CASE AskFromCommand
    <2>1. /\ pending' = pending /\ finished' = finished /\ dns' = dns /\ answers' = answers
          /\ main = "select" /\ main' = "add" /\ entry' = asked + 1 /\ asked' = asked + 1
          /\ urgent' = urgent
      BY <1>3 DEF AskFromCommand, Ask, queues
    <2>2. Given' = Given /\ LookedUp' = LookedUp
      BY <2>1 DEF Given, LookedUp
    <2> QED BY <1>o, <2>1, <2>2 DEF Order, A, F, P
  <1>4. ASSUME NEW is_urgent \in BOOLEAN, EnqueuePending(is_urgent) PROVE Order'
    <2>1. /\ finished' = finished /\ dns' = dns /\ answers' = answers
          /\ main = "enqueue" /\ main' \in {"select", "check"}
      BY <1>4 DEF EnqueuePending, IInv, TypeOK
    <2>2. entry \in Id /\ entry = asked
      BY <1>0, <1>o, <2>1, IdFacts DEF IInv, Locals
    <2>3. Given = {} /\ Given' = {} /\ LookedUp' = LookedUp
      BY <2>1 DEF Given, LookedUp
    <2> DEFINE S == A \cup Given \cup F \cup LookedUp
    <2>4. \A r \in S \cup P : r \in Int /\ r < entry
      <3>1. S \cup P = Waiting \cup Answered
        <4>1. Waiting = P \cup F \cup LookedUp
          BY <2>1 DEF F, P, LookedUp, Waiting
        <4> QED BY <2>3, <4>1 DEF A, Answered
      <3>2. entry \notin Waiting \cup Answered /\ \A r \in Waiting \cup Answered : r <= asked
        BY <2>1 DEF Distinct
      <3>3. A \subseteq Id /\ F \subseteq Id /\ P \subseteq Id
        BY <1>0, ElementsInId DEF A, F, P
      <3>4. \A r \in S \cup P : r \in 0..MaxId
        BY <1>0, <2>3, <3>3 DEF LookedUp, Id
      <3> HIDE DEF S
      <3>5. \A r \in S \cup P : r <= entry /\ r # entry
        BY <2>2, <3>1, <3>2
      <3> QED BY <1>0, <3>4, <3>5
    <2>5. CASE is_urgent = TRUE
      <3>1. pending' = <<entry>> \o pending /\ urgent' = urgent \cup {entry}
        BY <1>4, <2>5 DEF EnqueuePending, dns_enqueue_urgent
      <3>2. /\ Ascending(answers, urgent') /\ Ascending(finished, urgent')
            /\ Ascending(pending, urgent') /\ Before(A, Given, urgent')
            /\ Before(A \cup Given, F, urgent') /\ Before(A \cup Given \cup F, LookedUp, urgent')
            /\ Before(S, P, urgent')
        BY <1>o, <3>1, MoreUrgent
      <3>3. Before({entry}, P, urgent') /\ Before(S, {entry} \cup P, urgent')
        BY <3>1, <3>2 DEF Before
      <3>4. Ascending(pending', urgent') /\ Elements(pending') = {entry} \cup P
        BY <1>0, <2>2, <3>1, <3>2, <3>3, PushAscending DEF P
      <3> QED BY <2>1, <2>3, <3>2, <3>3, <3>4 DEF Order, A, F
    <2>6. CASE is_urgent = FALSE
      <3>1. pending' = Append(pending, entry) /\ urgent' = urgent
        BY <1>4, <2>6 DEF EnqueuePending, dns_enqueue
      <3>2. Before(P, {entry}, urgent) /\ Before(S, P \cup {entry}, urgent)
        BY <1>o, <2>4 DEF Before
      <3>3. Ascending(pending', urgent) /\ Elements(pending') = P \cup {entry}
        BY <1>0, <1>o, <2>2, <3>1, <3>2, AppendAscending DEF P
      <3> QED BY <1>o, <2>1, <2>3, <3>1, <3>2, <3>3 DEF Order, A, F
    <2> QED BY <2>5, <2>6
  <1>5. CASE DequeueFinished
    <2>1. CASE finished = <<>>
      BY <1>5, <2>1, QuietOrder DEF DequeueFinished, Quiet, history
    <2>2. CASE finished # <<>>
      <3>1. /\ entry' = Head(finished) /\ finished' = Tail(finished)
            /\ pending' = pending /\ dns' = dns /\ asked' = asked /\ answers' = answers
            /\ main = "dequeue" /\ main' = "callback" /\ urgent' = urgent
        BY <1>5, <2>2 DEF DequeueFinished, history
      <3>2. Given = {} /\ Given' = {entry'} /\ LookedUp' = LookedUp
        BY <3>1 DEF Given, LookedUp
      <3>3. /\ Ascending(finished', urgent) /\ Before({entry'}, Elements(finished'), urgent)
            /\ F = {entry'} \cup Elements(finished')
        BY <1>0, <1>o, <2>2, <3>1, PopAscending DEF F
      <3>4. /\ Before(A, {entry'}, urgent)
            /\ Before(A \cup {entry'}, Elements(finished'), urgent)
        BY <1>o, <3>2, <3>3 DEF Before
      <3>5. /\ Before(A \cup {entry'} \cup Elements(finished'), LookedUp, urgent)
            /\ Before(A \cup {entry'} \cup Elements(finished') \cup LookedUp, P, urgent)
        BY <1>o, <3>2, <3>3 DEF Before
      <3> QED BY <1>o, <3>1, <3>2, <3>3, <3>4, <3>5 DEF Order, A, P
    <2> QED BY <2>1, <2>2
  <1>6. CASE Callback
    <2>1. /\ pending' = pending /\ finished' = finished /\ dns' = dns /\ urgent' = urgent
          /\ answers' = Append(answers, entry) /\ main = "callback" /\ main' \in {"add", "check"}
          /\ main' = "add" => entry' = asked + 1 /\ asked' = asked + 1
      BY <1>6 DEF Callback, Ask, queues
    <2>2. entry \in Id
      BY <1>0, <2>1, IdFacts DEF IInv, Locals
    <2>3. Given = {entry} /\ Given' = {} /\ LookedUp' = LookedUp
      BY <2>1 DEF Given, LookedUp
    <2>4. Ascending(answers', urgent) /\ Elements(answers') = A \cup {entry}
      BY <1>0, <1>o, <2>1, <2>2, <2>3, AppendAscending DEF A
    <2>5. /\ Before(A \cup {entry}, {}, urgent)
          /\ Before(A \cup {entry} \cup {}, F, urgent)
          /\ Before(A \cup {entry} \cup {} \cup F, LookedUp, urgent)
          /\ Before(A \cup {entry} \cup {} \cup F \cup LookedUp, P, urgent)
      BY <1>o, <2>3 DEF Before
    <2> QED BY <1>o, <2>1, <2>3, <2>4, <2>5 DEF Order, F, P
  <1>7. ASSUME Join \/ kill_dns PROVE Order'
    <2>1. /\ pending' = <<>> /\ finished' = <<>> /\ dns' = 0 /\ answers' = answers
          /\ urgent' = urgent /\ main' \in {"stopped", "exited"}
      BY <1>7 DEF Join, kill_dns, history, IInv, Locals
    <2>2. Given' = {} /\ LookedUp' = {}
      BY <2>1 DEF Given, LookedUp
    <2>3. Before(A, {}, urgent) /\ Before(A \cup {}, {}, urgent) /\ Before(A \cup {} \cup {}, {}, urgent)
          /\ Before(A \cup {} \cup {} \cup {}, {}, urgent)
      BY DEF Before
    <2> QED BY <1>o, <2>1, <2>2, <2>3, NoElements DEF Order, A
  <1>8. ASSUME \/ TryQuit \/ LockPending \/ Woken \/ do_dns_lookup \/ LockFinished
               \/ WritePipe \/ SpuriousWakeup
        PROVE  Order'
    BY <1>8, QuietOrder DEF TryQuit, LockPending, Woken, do_dns_lookup, LockFinished,
       WritePipe, SpuriousWakeup, Quiet, queues, history
  <1>9. ASSUME AddLock \/ ReadPipe \/ TryFinished \/ UnlockQuit \/ StopLock \/ StopSignal
        PROVE  Order'
    BY <1>9, QuietOrder DEF AddLock, ReadPipe, TryFinished, UnlockQuit, StopLock, StopSignal,
       Quiet, queues, history
  <1>10. CASE UNCHANGED vars
    BY <1>10, QuietOrder DEF vars, Quiet, queues, history
  <1> QED
    BY <1>1, <1>2, <1>3, <1>4, <1>5, <1>6, <1>7, <1>8, <1>9, <1>10 DEF Next, Thread, Main

LEMMA InitOrder == Init => Order
  <1> SUFFICES ASSUME Init PROVE Order
    OBVIOUS
  <1>1. Given = {} /\ LookedUp = {}
    BY DEF Init, Given, LookedUp
  <1> QED BY <1>1, NoElements DEF Init, Order, Before

(***************************************************************************)
(* The requests that are not urgent are answered in the order in which     *)
(* they were made, through both queues and both threads.                   *)
(***************************************************************************)
THEOREM AnsweredInOrder == Spec => []PlainInOrder
  <1>1. IInv /\ Distinct /\ Order /\ [Next]_vars => Distinct' /\ Order'
    BY NextRefines, NextOrder
  <1> QED BY <1>1, InitDistinct, InitOrder, IInvHolds, OrderSuffices, PTL DEF Spec
=============================================================================
