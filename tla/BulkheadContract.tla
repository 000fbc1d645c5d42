-------------------------- MODULE BulkheadContract --------------------------
(***************************************************************************)
(* What a bulkhead promises, without a line order or timers: a semaphore   *)
(* of Slots with a bounded waiting room.  A slot that becomes free is      *)
(* promised to somebody who waits, and nobody is refused while there is    *)
(* room.  While no promise is open nobody enters past the waiting room or  *)
(* beyond Slots; until a promise is kept, its slot may be given away.      *)
(***************************************************************************)
EXTENDS Naturals, FiniteSets

CONSTANTS Requests, Slots, Places

VARIABLES inside, promised, waiting, refused

contractVars == <<inside, promised, waiting, refused>>

Init == inside = {} /\ promised = {} /\ waiting = {} /\ refused = {}

Outside == Requests \ (inside \cup waiting \cup refused)

Enter(r) ==
    /\ r \in Outside
    /\ Cardinality(inside \ promised) < Slots
    /\ promised = {} => waiting = {}
    /\ inside' = inside \cup {r}
    /\ UNCHANGED <<promised, waiting, refused>>

Wait(r) ==
    /\ r \in Outside
    /\ Cardinality(inside) >= Slots
    /\ Cardinality(waiting) < Places
    /\ waiting' = waiting \cup {r}
    /\ UNCHANGED <<inside, promised, refused>>

Refuse(r) ==
    /\ r \in Outside
    /\ Cardinality(inside) >= Slots
    /\ Cardinality(waiting) >= Places
    /\ refused' = refused \cup {r}
    /\ UNCHANGED <<inside, promised, waiting>>

GiveUp(r) ==
    /\ r \in waiting
    /\ waiting' = waiting \ {r}
    /\ UNCHANGED <<inside, promised, refused>>

Leave(r) ==
    /\ r \in inside \ promised
    /\ IF waiting = {}
       THEN inside' = inside \ {r} /\ UNCHANGED <<promised, waiting>>
       ELSE \E w \in waiting : /\ inside' = (inside \ {r}) \cup {w}
                               /\ promised' = promised \cup {w}
                               /\ waiting' = waiting \ {w}
    /\ UNCHANGED refused

KeepPromise(r) ==
    /\ r \in promised
    /\ promised' = promised \ {r}
    /\ UNCHANGED <<inside, waiting, refused>>

Next ==
    \E r \in Requests :
        \/ Enter(r) \/ Wait(r) \/ Refuse(r) \/ GiveUp(r) \/ Leave(r) \/ KeepPromise(r)

Spec == Init /\ [][Next]_contractVars
=============================================================================
