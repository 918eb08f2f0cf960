---------------------------- MODULE SingleFlight ----------------------------
(***************************************************************************)
(* What a relay with room for one request promises its clients: at most    *)
(* one request is in flight; an answer goes to the one that is; admitting  *)
(* or refusing another request takes it out of flight, and a request fails *)
(* only when it is out of flight without an answer.                        *)
(***************************************************************************)
EXTENDS Naturals

CONSTANTS Requests   \* numbered from 1

VARIABLES flight,  \* the request in flight, 0 if none
          seen,    \* requests admitted or refused so far
          won,     \* answer a request has won and not been given yet, or 0
          fate,    \* of each request: "open", "done", "failed", "gone"
          got      \* the answer its client was given, or 0

vars == <<flight, seen, won, fate, got>>

Init == /\ flight = 0
        /\ seen = {}
        /\ won = [r \in Requests |-> 0]
        /\ fate = [r \in Requests |-> "open"]
        /\ got = [r \in Requests |-> 0]

\* A request takes the place of the one in flight.
Admit(r) == /\ r \notin seen
            /\ seen' = seen \cup {r}
            /\ flight' = r
            /\ UNCHANGED <<won, fate, got>>

\* A request is refused; the one in flight loses its place all the same.
Refuse(r) == /\ r \notin seen
             /\ seen' = seen \cup {r}
             /\ flight' = 0
             /\ fate' = IF fate[r] = "gone" THEN fate
                        ELSE [fate EXCEPT ![r] = "failed"]
             /\ UNCHANGED <<won, got>>

\* An answer goes to the request in flight, whichever request it is of.
Answer(n) == /\ flight # 0
             /\ won' = [won EXCEPT ![flight] = n]
             /\ flight' = 0
             /\ UNCHANGED <<seen, fate, got>>

\* The answer is handed over, or dropped when its client has gone.
Deliver(r) == /\ won[r] # 0
              /\ IF fate[r] = "gone" THEN UNCHANGED <<fate, got>>
                 ELSE /\ fate' = [fate EXCEPT ![r] = "done"]
                      /\ got' = [got EXCEPT ![r] = won[r]]
              /\ won' = [won EXCEPT ![r] = 0]
              /\ UNCHANGED <<flight, seen>>

\* A request that lost its place fails.
Fail(r) == /\ r \in seen /\ r # flight /\ won[r] = 0 /\ fate[r] = "open"
           /\ fate' = [fate EXCEPT ![r] = "failed"]
           /\ UNCHANGED <<flight, seen, won, got>>

\* The client goes away and leaves its request behind.
Leave(r) == /\ fate[r] = "open"
            /\ fate' = [fate EXCEPT ![r] = "gone"]
            /\ UNCHANGED <<flight, seen, won, got>>

Next == \E r \in Requests :
            Admit(r) \/ Answer(r) \/ Deliver(r) \/ Fail(r) \/ Refuse(r) \/ Leave(r)

Spec == Init /\ [][Next]_vars
=============================================================================
