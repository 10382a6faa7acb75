--------------------------- MODULE MCRequestLocks ---------------------------
EXTENDS RequestLocks

CONSTANTS r1, r2, s1, s2, d1, d2

MCRequests == {r1, r2}
MCSessions == {s1, s2}
MCDevices == {d1, d2}
MCKeys == ({"session"} \X MCSessions) \cup ({"device", "open"} \X MCDevices)
MCCallers == MCRequests \X {"own", "retained"}

Do(op) == [op |-> op, device |-> None]
Open(x) == [op |-> "open", device |-> x]
CloseApp(x) == [op |-> "close", device |-> x]
Probe(x) == [op |-> "probe", device |-> x]
Plan(on, hint, replay, steps) ==
    [session |-> on, hint |-> hint, replay |-> replay, steps |-> steps]

MCPlans == {
    Plan(s1, None, TRUE, <<Open(d1), Do("act")>>),
    Plan(s1, d1, TRUE, <<Open(d1), Do("act")>>),
    Plan(s1, d1, FALSE, <<Do("full")>>),
    Plan(s1, d2, FALSE, <<Open(d2)>>),
    Plan(s2, None, FALSE, <<Open(d1)>>),
    Plan(s1, None, FALSE, <<Do("close")>>),
    Plan(s2, d1, FALSE, <<Probe(d1)>>),
    Plan(s2, None, FALSE, <<Probe(d1)>>),
    Plan(s2, None, FALSE, <<CloseApp(d1)>>) }

SelfWaitPlans == {
    Plan(s1, None, TRUE, <<Open(d1), Do("act"), Do("full")>>),
    Plan(s1, None, FALSE, <<Do("close")>>) }
=============================================================================
