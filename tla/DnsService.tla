----------------------------- MODULE DnsService -----------------------------
(***************************************************************************)
(* What source/cdns.c promises to the rest of the client: a request given  *)
(* to add_to_dns_queue() is answered by one call of its callback, unless   *)
(* the client stops the resolver first.  In which order, by which thread   *)
(* and when is left open.                                                  *)
(***************************************************************************)
CONSTANT Request

VARIABLES
    waiting,    \* requests that are not answered yet
    answered    \* requests whose callback has been called

TypeOK == waiting \in SUBSET Request /\ answered \in SUBSET Request

Init == waiting = {} /\ answered = {}

Ask(r) ==
    /\ r \notin waiting \cup answered
    /\ waiting' = waiting \cup {r}
    /\ UNCHANGED answered

Answer(r) ==
    /\ r \in waiting
    /\ waiting' = waiting \ {r}
    /\ answered' = answered \cup {r}

Stop == waiting' = {} /\ UNCHANGED answered

Next == Stop \/ \E r \in Request : Ask(r) \/ Answer(r)

Spec == Init /\ [][Next]_<<waiting, answered>>
=============================================================================
