-------------------------- MODULE MCThreadRegistry --------------------------
(* Thread 2 has registered and is idle when threads 1 and 3, before and    *)
(* after it in the order of the map, start concurrently; it may leave      *)
(* while they register.                                                    *)
EXTENDS ThreadRegistry

MCThread == 1..3
MCLeaver == {2}
Nobody == {}

\* The state that thread 2 reaches when it registers alone.
MCInit ==
    /\ m_mapThread = {2}
    /\ m_lock = Free
    /\ m_map = [t \in Thread |-> IF t = 2 THEN {2} ELSE {}]
    /\ mbox = [t \in Thread |-> <<>>]
    /\ pc = [t \in Thread |-> IF t = 2 THEN "run" ELSE "new"]
    /\ it = [t \in Thread |-> End]
    /\ ub = FALSE
    /\ order = <<2>>
    /\ seen = [t \in Thread |-> {}]
    /\ told = [t \in Thread |-> {}]

MCSpec == MCInit /\ [][Next]_vars /\ Fairness
=============================================================================
