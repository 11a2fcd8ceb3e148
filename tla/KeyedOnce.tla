------------------------------ MODULE KeyedOnce ------------------------------
(***************************************************************************)
(* What an idempotency key promises: inside one customer a key is reserved *)
(* by one request for good, and the connector is invoked at most once      *)
(* under it, however many calls carry the key and however many of them are *)
(* cut short.                                                              *)
(***************************************************************************)
EXTENDS Naturals

CONSTANTS Slots,      \* the (customer, key) pairs
          Requests,
          Free        \* the holder of a slot nobody reserved

VARIABLES holder,     \* the request that reserved each slot
          sends       \* how often the connector was invoked under each slot

vars == <<holder, sends>>

Init == /\ holder = [x \in Slots |-> Free]
        /\ sends = [x \in Slots |-> 0]

Reserve(x, r) == /\ holder[x] = Free
                 /\ holder' = [holder EXCEPT ![x] = r]
                 /\ UNCHANGED sends

Send(x) == /\ holder[x] # Free
           /\ sends[x] = 0
           /\ sends' = [sends EXCEPT ![x] = 1]
           /\ UNCHANGED holder

Next == \E x \in Slots : Send(x) \/ \E r \in Requests : Reserve(x, r)

Spec == Init /\ [][Next]_vars
=============================================================================
