--------------------------- MODULE MessageCache ---------------------------
(* What the cache of message bodies promises its callers, as IMessageCache *)
(* states it: a lookup answers only what was put and has not been          *)
(* invalidated since. An entry may be lost at any time (budgets), and      *)
(* entries may go out of reach, when an account's second tier is closed,   *)
(* and come back when it is opened again.                                  *)
CONSTANT Key

VARIABLES
  stored,   \* the keys a lookup may find
  beyond,   \* the keys that may come back into reach
  event     \* the last call that returned, and the keys it was about

vars == <<stored, beyond, event>>

Event(op, keys) == [op |-> op, keys |-> keys]

Init == /\ stored = {}
        /\ beyond = {}
        /\ event = Event("opened", {})

(* Storing an entry may push others out.                                   *)
Put(k) == /\ event' = Event("put", {k})
          /\ stored' \in SUBSET (stored \cup {k})
          /\ beyond' \in SUBSET beyond

Hit(k) == /\ event' = Event("hit", {k})
          /\ k \in stored
          /\ stored' \in SUBSET stored
          /\ beyond' \in SUBSET beyond

Miss(k) == /\ event' = Event("miss", {k})
           /\ stored' \in SUBSET stored
           /\ beyond' \in SUBSET beyond

(* invalidate, invalidateMailbox, invalidateAccount.                       *)
Forget(S) == /\ event' = Event("forgot", S)
             /\ stored' \in SUBSET (stored \ S)
             /\ beyond' \in SUBSET beyond

(* unloadAccount, or the end of the process: out of reach, not forgotten.  *)
Close(S) == /\ event' = Event("closed", S)
            /\ stored' \in SUBSET (stored \ S)
            /\ beyond' \in SUBSET (beyond \cup S)

Open == /\ event' = Event("opened", {})
        /\ stored' \in SUBSET (stored \cup beyond)
        /\ beyond' \in SUBSET (beyond \cup stored)

Next == \/ \E k \in Key : Put(k) \/ Hit(k) \/ Miss(k)
        \/ \E S \in SUBSET Key : Forget(S) \/ Close(S)
        \/ Open

Spec == Init /\ [][Next]_vars
=============================================================================
