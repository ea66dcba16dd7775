---------------------------- MODULE QueryQueueMC ----------------------------
(* Small instances of QueryQueue for TLC. *)
EXTENDS QueryQueue, TLC

CONSTANTS s1, s2, t1, t2, oper, luser

MCServer == {s1, s2}
MCTarget == {t1, t2}
MCUser == {oper, luser}
MCOpers == {oper}

NoSwitch == {MCUser}
OneSwitch == {{luser}}
OpersSwitch == {{oper}, MCUser}

Symm == Permutations(MCTarget)
=============================================================================
