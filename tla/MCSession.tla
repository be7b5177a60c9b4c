------------------------------ MODULE MCSession ------------------------------
(* The sessions of the manager, and those of the replay worker for crashes *)
(* and for timeouts, on links that deliver messages whole or do not.       *)
EXTENDS Session

CONSTANTS c1, c2

MCCookies == {c1, c2}
MCJobs ==
    [keeper : {"worker"}, artifact : {"crash", "timeout"}, slow : BOOLEAN]
    \cup [keeper : {"manager"}, artifact : {"crash"}, slow : BOOLEAN]
=============================================================================
