---------------------------- MODULE MCAvoidance ----------------------------
(* Avoidance on four programs over three syscalls, two of them             *)
(* timeout-prone.                                                          *)
EXTENDS Avoidance

CONSTANTS MaxEpoch,           \* bound on the learning epoch
          open, read, getpid, \* syscalls; getpid is not timeout-prone
          p1, p2, p3, p4      \* programs

MCPrograms == {p1, p2, p3, p4}

(* p1 and p2 differ in their arguments only, p3 has their edge in another  *)
(* shape, p4 has one prone call and no edge.                               *)
MCCalls ==
    [p \in MCPrograms |->
        CASE p = p3 -> <<open, getpid, read>>
          [] p = p4 -> <<read, getpid>>
          [] OTHER  -> <<open, read>>]

MCTimeoutProne == {open, read}

MCLegacyFailures ==
    {[kind \in Kind |-> IF kind = "edge" THEN e ELSE s] :
        e \in {<<>>} \cup [{<<open, read>>} -> 0..2],
        s \in {<<>>} \cup [{open, read} -> {1, 3}]}

MCNext ==
    \/ Start
    \/ \E p \in Programs :
          \/ epoch < MaxEpoch /\ Fails(p)
          \/ epoch < MaxEpoch /\ Succeeds(p)
    \/ InstanceFails
    \/ Stop

MCSpec == Init /\ [][MCNext]_vars
=============================================================================
