---------------------------- MODULE ServerConnMC ----------------------------
(* ServerConn for TLC, and the loop of window_check_servers() as it is written. *)
EXTENDS ServerConn

(* one turn of the loop: r.c is the client, r.prime the local variable *)
CheckTurn(r, s) ==
    LET c == r.c
        mine == {w \in DOMAIN c.win : c.win[w] = s}
    IN  IF ~ c.sl[s].open
        THEN [r EXCEPT !.c.win = [w \in DOMAIN c.win |->
                                    IF w \in mine THEN c.primary ELSE c.win[w]]]
        ELSE IF mine # {}
        THEN [c |-> [c EXCEPT !.attached = TRUE], prime |-> s]
        ELSE IF c.sl[s].server_change_pending = 0
        THEN [r EXCEPT !.c = close_server(c, s)]
        ELSE IF c.sl[s].old_server >= 0 /\ \A w \in DOMAIN c.win : c.win[w] # -1
        THEN [r EXCEPT !.c = close_server(c, s)]
        ELSE r

CheckLoop(c) ==
    LET run[k \in 0..N] ==
            IF k = 0 THEN [c |-> [c EXCEPT !.attached = FALSE], prime |-> -1]
            ELSE CheckTurn(run[k - 1], k - 1)
        r == run[N]
    IN  IF Open(r.c, r.c.primary) THEN r.c
        ELSE [r.c EXCEPT !.win = [w \in DOMAIN @ |-> IF @[w] = r.c.primary THEN r.prime ELSE @[w]],
                         !.primary = r.prime]

(* window_check_servers(), defined by its result, is what its loop computes. *)
CheckIsTheLoop == window_check_servers(Client) = CheckLoop(Client)
=============================================================================
