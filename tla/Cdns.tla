-------------------------------- MODULE Cdns --------------------------------
(***************************************************************************)
(* The threaded resolver, source/cdns.c.                                   *)
(*                                                                         *)
(* gethostbyname() blocks, so a thread of its own calls it.  The main      *)
(* thread puts requests into the pending queue; the dns thread takes them  *)
(* out, looks them up, puts the results into the finished queue and writes *)
(* a byte into a pipe that the main thread selects on.  Each queue has a   *)
(* mutex, a condition variable says that the pending queue is not empty,   *)
(* and a third mutex, which main holds, keeps the thread alive.            *)
(*                                                                         *)
(* `main' and `thread' are the points the two threads have reached.  What  *)
(* a thread does while it holds a mutex is one action, which releases it.  *)
(***************************************************************************)
EXTENDS Integers, Sequences

CONSTANTS
    MaxId,      \* bound: the requests are numbered 1 .. MaxId
    PipeSize,   \* bound: bytes the pipe holds before write() blocks
    Calls       \* which of "stop" (stop_dns) and "kill" (kill_dns) main calls

ASSUME CdnsAssumption ==
    /\ MaxId \in Nat
    /\ PipeSize \in Nat \ {0}
    /\ Calls \subseteq {"stop", "kill"}

VARIABLES
    pending,    \* PendingQueueHead ..
    finished,   \* FinishedQueueHead ..
    pipe,       \* bytes in the pipe
    pending_queue_mutex, finished_queue_mutex, quit_mutex,  \* their owners
    thread,     \* where start_dns_thread() is
    dns,        \* its local variable: the entry being looked up, or 0
    main,       \* where the main thread is
    entry,      \* the entry main is adding, or calls the callback of
    back,       \* where add_to_dns_queue() returns to
    asked,      \* history: how many requests were made so far
    urgent,     \* history: those made with DNS_URGENT
    answers     \* history: the entries whose callback was called, in order

queues  == <<pending, finished, pipe>>
mutexes == <<pending_queue_mutex, finished_queue_mutex, quit_mutex>>
history == <<asked, urgent, answers>>
vars    == <<queues, mutexes, thread, dns, main, entry, back, history>>

Id == 1..MaxId

TypeOK ==
    /\ pending \in Seq(Id) /\ finished \in Seq(Id) /\ answers \in Seq(Id)
    /\ pipe \in 0..PipeSize
    /\ pending_queue_mutex \in {"free", "main", "dns"}
    /\ finished_queue_mutex \in {"free", "main", "dns"}
    /\ quit_mutex \in {"free", "main", "dns"}
    /\ thread \in {"top", "lock pending", "dequeue", "waiting", "woken", "lookup",
                   "lock finished", "enqueue", "write", "dead"}
    /\ dns \in 0..MaxId
    /\ main \in {"select", "add", "enqueue", "check", "dequeue", "callback",
                 "stop", "signal", "join", "stopped", "exited"}
    /\ entry \in 0..MaxId
    /\ back \in {"select", "check"}
    /\ asked \in 0..MaxId
    /\ urgent \in SUBSET Id

(* start_dns() *)
Init ==
    /\ pending = <<>> /\ finished = <<>> /\ pipe = 0
    /\ pending_queue_mutex = "free" /\ finished_queue_mutex = "free"
    /\ quit_mutex = "main"
    /\ thread = "top" /\ dns = 0
    /\ main = "select" /\ entry = 0 /\ back = "select"
    /\ asked = 0 /\ urgent = {} /\ answers = <<>>

(* mutant: the entry is put where dns_dequeue() takes it from *)
dns_enqueue_at_head(q, e) == <<e>> \o q

dns_enqueue(q, e) == Append(q, e)

dns_enqueue_urgent(q, e) == <<e>> \o q

(* pthread_cond_signal(): the dns thread is the only one that waits *)
Signalled == IF thread = "waiting" THEN "woken" ELSE thread

-----------------------------------------------------------------------------
(* start_dns_thread() *)

DnsUnchanged == UNCHANGED <<main, entry, back, history>>

TryQuit ==
    /\ thread = "top"
    /\ \/ /\ quit_mutex = "free"
          /\ quit_mutex' = "dns" /\ thread' = "dead"
       \/ /\ quit_mutex # "free"
          /\ thread' = "lock pending" /\ UNCHANGED quit_mutex
    /\ UNCHANGED <<queues, pending_queue_mutex, finished_queue_mutex, dns>>
    /\ DnsUnchanged

LockPending ==
    /\ thread = "lock pending"
    /\ pending_queue_mutex = "free"
    /\ pending_queue_mutex' = "dns"
    /\ thread' = "dequeue"
    /\ UNCHANGED <<queues, finished_queue_mutex, quit_mutex, dns>>
    /\ DnsUnchanged

(* pthread_cond_wait() releases the mutex and waits in one step *)
DequeuePending ==
    /\ thread = "dequeue"
    /\ pending_queue_mutex' = "free"
    /\ IF pending = <<>>
       THEN thread' = "waiting" /\ UNCHANGED <<pending, dns>>
       ELSE /\ dns' = Head(pending) /\ pending' = Tail(pending)
            /\ thread' = "lookup"
    /\ UNCHANGED <<finished, pipe, finished_queue_mutex, quit_mutex>>
    /\ DnsUnchanged

(* pthread_cond_wait() may return without a signal *)
SpuriousWakeup ==
    /\ thread = "waiting"
    /\ thread' = "woken"
    /\ UNCHANGED <<queues, mutexes, dns>>
    /\ DnsUnchanged

(* mutant: the mutex cond_wait() returned with is not released *)
Woken_keeps_mutex ==
    /\ thread = "woken"
    /\ pending_queue_mutex = "free"
    /\ pending_queue_mutex' = "dns"
    /\ thread' = "top"
    /\ UNCHANGED <<queues, finished_queue_mutex, quit_mutex, dns>>
    /\ DnsUnchanged

(* pthread_cond_wait() returns with the mutex, which is released at once *)
Woken ==
    /\ thread = "woken"
    /\ pending_queue_mutex = "free"
    /\ thread' = "top"
    /\ UNCHANGED <<queues, mutexes, dns>>
    /\ DnsUnchanged

do_dns_lookup ==
    /\ thread = "lookup"
    /\ thread' = "lock finished"
    /\ UNCHANGED <<queues, mutexes, dns>>
    /\ DnsUnchanged

LockFinished ==
    /\ thread = "lock finished"
    /\ finished_queue_mutex = "free"
    /\ finished_queue_mutex' = "dns"
    /\ thread' = "enqueue"
    /\ UNCHANGED <<queues, pending_queue_mutex, quit_mutex, dns>>
    /\ DnsUnchanged

EnqueueFinished ==
    /\ thread = "enqueue"
    /\ finished' = dns_enqueue(finished, dns)
    /\ dns' = 0
    /\ finished_queue_mutex' = "free"
    /\ thread' = "write"
    /\ UNCHANGED <<pending, pipe, pending_queue_mutex, quit_mutex>>
    /\ DnsUnchanged

(* mutant: the pipe is taken to have room *)
WritePipe_never_blocks ==
    /\ thread = "write"
    /\ pipe' = pipe + 1
    /\ thread' = "top"
    /\ UNCHANGED <<pending, finished, mutexes, dns>>
    /\ DnsUnchanged

(* write() blocks as long as the pipe is full *)
WritePipe ==
    /\ thread = "write"
    /\ pipe < PipeSize
    /\ pipe' = pipe + 1
    /\ thread' = "top"
    /\ UNCHANGED <<pending, finished, mutexes, dns>>
    /\ DnsUnchanged

-----------------------------------------------------------------------------
(* The main thread *)

MainUnchanged == UNCHANGED dns

(***************************************************************************)
(* add_to_dns_queue() is called, by a command or by a callback, with a     *)
(* host.  Without one it only prints an error: nothing is queued, the      *)
(* callback is never called and no request is made, so such a call is no   *)
(* step of a command, and in a callback that of one that does not ask.     *)
(***************************************************************************)
Ask(from) ==
    /\ asked < MaxId
    /\ main' = "add" /\ entry' = asked + 1 /\ back' = from
    /\ asked' = asked + 1

AskFromCommand ==
    /\ main = "select"
    /\ Ask("select")
    /\ UNCHANGED <<queues, mutexes, thread, urgent, answers>>
    /\ MainUnchanged

AddLock ==
    /\ main = "add"
    /\ pending_queue_mutex = "free"
    /\ pending_queue_mutex' = "main"
    /\ main' = "enqueue"
    /\ UNCHANGED <<queues, finished_queue_mutex, quit_mutex, thread, entry, back, history>>
    /\ MainUnchanged

(* mutant: the thread is not told that there is work to do *)
EnqueuePending_without_signal(is_urgent) ==
    /\ main = "enqueue"
    /\ pending' = IF is_urgent THEN dns_enqueue_urgent(pending, entry)
                               ELSE dns_enqueue(pending, entry)
    /\ urgent' = IF is_urgent THEN urgent \cup {entry} ELSE urgent
    /\ pending_queue_mutex' = "free"
    /\ main' = back
    /\ entry' = 0
    /\ UNCHANGED <<finished, pipe, finished_queue_mutex, quit_mutex, thread, back, asked, answers>>
    /\ MainUnchanged

EnqueuePending(is_urgent) ==
    /\ main = "enqueue"
    /\ pending' = IF is_urgent THEN dns_enqueue_urgent(pending, entry)
                               ELSE dns_enqueue(pending, entry)
    /\ urgent' = IF is_urgent THEN urgent \cup {entry} ELSE urgent
    /\ thread' = Signalled
    /\ pending_queue_mutex' = "free"
    /\ main' = back
    /\ entry' = 0
    /\ UNCHANGED <<finished, pipe, finished_queue_mutex, quit_mutex, back, asked, answers>>
    /\ MainUnchanged

(* dns_check(): select() says that the pipe can be read *)
ReadPipe ==
    /\ main = "select"
    /\ pipe > 0
    /\ pipe' = pipe - 1
    /\ main' = "check"
    /\ UNCHANGED <<pending, finished, mutexes, thread, entry, back, history>>
    /\ MainUnchanged

(* check_dns_queue(): pthread_mutex_trylock() fails if the thread has the mutex *)
TryFinished ==
    /\ main = "check"
    /\ \/ /\ finished_queue_mutex = "free"
          /\ finished_queue_mutex' = "main" /\ main' = "dequeue"
       \/ /\ finished_queue_mutex # "free"
          /\ main' = "select" /\ UNCHANGED finished_queue_mutex
    /\ UNCHANGED <<queues, pending_queue_mutex, quit_mutex, thread, entry, back, history>>
    /\ MainUnchanged

(* mutant: the entry is read but stays in the queue *)
DequeueFinished_keeps ==
    /\ main = "dequeue"
    /\ finished_queue_mutex' = "free"
    /\ IF finished = <<>>
       THEN main' = "select" /\ UNCHANGED entry
       ELSE entry' = Head(finished) /\ main' = "callback"
    /\ UNCHANGED <<queues, pending_queue_mutex, quit_mutex, thread, back, history>>
    /\ MainUnchanged

DequeueFinished ==
    /\ main = "dequeue"
    /\ finished_queue_mutex' = "free"
    /\ IF finished = <<>>
       THEN main' = "select" /\ UNCHANGED <<finished, entry>>
       ELSE /\ entry' = Head(finished) /\ finished' = Tail(finished)
            /\ main' = "callback"
    /\ UNCHANGED <<pending, pipe, pending_queue_mutex, quit_mutex, thread, back, history>>
    /\ MainUnchanged

(* mutant: one entry is handled for each byte *)
Callback_one_per_byte ==
    /\ main = "callback"
    /\ answers' = Append(answers, entry)
    /\ main' = "select" /\ entry' = 0
    /\ UNCHANGED <<queues, mutexes, thread, back, asked, urgent>>
    /\ MainUnchanged

(* the callback, which may ask again, e.g. for the name's address *)
Callback ==
    /\ main = "callback"
    /\ answers' = Append(answers, entry)
    /\ \/ Ask("check")
       \/ main' = "check" /\ entry' = 0 /\ UNCHANGED <<back, asked>>
    /\ UNCHANGED <<queues, mutexes, thread, urgent>>
    /\ MainUnchanged

(* stop_dns() *)
UnlockQuit ==
    /\ "stop" \in Calls
    /\ main = "select"
    /\ quit_mutex' = "free"
    /\ main' = "stop"
    /\ UNCHANGED <<queues, pending_queue_mutex, finished_queue_mutex, thread, entry, back, history>>
    /\ MainUnchanged

StopLock ==
    /\ main = "stop"
    /\ pending_queue_mutex = "free"
    /\ pending_queue_mutex' = "main"
    /\ main' = "signal"
    /\ UNCHANGED <<queues, finished_queue_mutex, quit_mutex, thread, entry, back, history>>
    /\ MainUnchanged

StopSignal ==
    /\ main = "signal"
    /\ thread' = Signalled
    /\ pending_queue_mutex' = "free"
    /\ main' = "join"
    /\ UNCHANGED <<queues, finished_queue_mutex, quit_mutex, entry, back, history>>
    /\ MainUnchanged

(* pthread_join(), then cleanup_dns() *)
Join ==
    /\ main = "join"
    /\ thread = "dead"
    /\ pending' = <<>> /\ finished' = <<>> /\ pipe' = 0
    /\ main' = "stopped"
    /\ UNCHANGED <<mutexes, thread, entry, back, history>>
    /\ MainUnchanged

(***************************************************************************)
(* kill_dns(), called by irc_exit(): the SIGQUIT it sends ends nothing,    *)
(* since the handler of that signal, kill_dns_thread(), is empty.  The     *)
(* process ends right after it; what the thread does with the mutexes that *)
(* were destroyed in between is not modelled.                              *)
(***************************************************************************)
kill_dns ==
    /\ "kill" \in Calls
    /\ main = "select"
    /\ pending_queue_mutex = "free"
    /\ pending_queue_mutex' = "main"
    /\ pending' = <<>> /\ finished' = <<>> /\ pipe' = 0
    /\ dns' = 0 /\ thread' = "dead"
    /\ main' = "exited"
    /\ UNCHANGED <<finished_queue_mutex, quit_mutex, entry, back, history>>
-----------------------------------------------------------------------------
Thread ==
    \/ TryQuit \/ LockPending \/ DequeuePending \/ Woken \/ do_dns_lookup
    \/ LockFinished \/ EnqueueFinished \/ WritePipe

(* what the main thread does once it is in one of the functions of cdns.c *)
Main ==
    \/ AddLock \/ \E is_urgent \in BOOLEAN : EnqueuePending(is_urgent)
    \/ ReadPipe \/ TryFinished \/ DequeueFinished \/ Callback
    \/ StopLock \/ StopSignal \/ Join

Next == Thread \/ SpuriousWakeup \/ Main \/ AskFromCommand \/ UnlockQuit \/ kill_dns

Spec == Init /\ [][Next]_vars

(***************************************************************************)
(* Both threads run, gethostbyname() returns, the main thread comes back   *)
(* to select() and sees the pipe, and a thread that waits for a mutex      *)
(* which is free again and again gets it.                                  *)
(***************************************************************************)
FairSpec ==
    /\ Spec
    /\ WF_vars(Thread) /\ WF_vars(Main)
    /\ SF_vars(LockPending) /\ SF_vars(Woken) /\ SF_vars(LockFinished)
    /\ SF_vars(AddLock) /\ SF_vars(StopLock)
-----------------------------------------------------------------------------
(* Properties *)

Elements(q) == {q[i] : i \in 1..Len(q)}

(* main is not in check_dns_queue(), nor in a callback that it called *)
NotChecking ==
    \/ main \in {"select", "stop", "signal", "join"}
    \/ main \in {"add", "enqueue"} /\ back = "select"

(***************************************************************************)
(* The thread does not sleep while there is work to do: no signal that     *)
(* add_to_dns_queue() gives can come before the wait it is to end.         *)
(***************************************************************************)
NoLostWakeup == pending # <<>> => thread # "waiting"

(***************************************************************************)
(* No result is left behind in the finished queue: when main is done with  *)
(* check_dns_queue(), also because the trylock failed, the byte that will  *)
(* bring it back is in the pipe or on its way.                             *)
(***************************************************************************)
NoLostResult ==
    finished # <<>> /\ NotChecking => pipe > 0 \/ thread \in {"enqueue", "write"}

(***************************************************************************)
(* The requests that are not urgent are answered in the order in which     *)
(* they were made; an urgent one is looked up before those that wait.      *)
(***************************************************************************)
InFlight ==
    answers \o (IF main = "callback" THEN <<entry>> ELSE <<>>) \o finished
      \o (IF dns = 0 THEN <<>> ELSE <<dns>>) \o pending

PlainInOrder ==
    \A i, j \in 1..Len(InFlight) :
       /\ i < j
       /\ {InFlight[i], InFlight[j]} \cap urgent = {}
       => InFlight[i] < InFlight[j]

(* the requests that are under way, wherever they are *)
Waiting ==
    Elements(pending) \cup Elements(finished) \cup ({dns} \ {0})
      \cup (IF main = "callback" THEN {entry} ELSE {})

Answered == Elements(answers)

(***************************************************************************)
(* Each request is answered by one call of its callback, whatever the      *)
(* threads do: the resolver is a DnsService.                               *)
(***************************************************************************)
Service == INSTANCE DnsService WITH
    Request <- Id, waiting <- Waiting, answered <- Answered

Refines == Service!Spec

Stopping == main \in {"stop", "signal", "join", "stopped", "exited"}

(* Every request is answered, unless the resolver is stopped. *)
EveryRequestAnswered == \A r \in Id : asked >= r ~> r \in Answered \/ Stopping
=============================================================================
