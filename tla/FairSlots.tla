------------------------------- MODULE FairSlots -------------------------------
(***************************************************************************)
(* What the scheduler promises: Slots slots, owned by pieces of work, given *)
(* away at once while any is free, and otherwise handed by whoever leaves   *)
(* to a piece whose run owns the fewest.                                    *)
(***************************************************************************)
EXTENDS Integers, FiniteSets

CONSTANTS Run, Piece, RunOf, Slots

VARIABLES
    owner,    \* the pieces that own a slot
    wanting   \* the pieces that are queued for one

vars == <<owner, wanting>>

Share(o, p) == Cardinality({q \in o : RunOf[q] = RunOf[p]})

Init == owner = {} /\ wanting = {}

Take(p) ==
    /\ p \notin owner /\ wanting = {}
    /\ Cardinality(owner) < Slots
    /\ owner' = owner \cup {p}
    /\ UNCHANGED wanting

Queue(p) ==
    /\ p \notin owner \cup wanting
    /\ Cardinality(owner) = Slots
    /\ wanting' = wanting \cup {p}
    /\ UNCHANGED owner

GiveUp(p) ==
    /\ p \in wanting
    /\ wanting' = wanting \ {p}
    /\ UNCHANGED owner

Leave(p) ==
    /\ p \in owner /\ wanting = {}
    /\ owner' = owner \ {p}
    /\ UNCHANGED wanting

HandOver(p, q) ==
    /\ p \in owner /\ q \in wanting
    /\ \A w \in wanting : Share(owner \ {p}, q) <= Share(owner \ {p}, w)
    /\ owner' = (owner \ {p}) \cup {q}
    /\ wanting' = wanting \ {q}

CloseAll == wanting' = {} /\ UNCHANGED owner

Next ==
    \/ \E p \in Piece : Take(p) \/ Queue(p) \/ GiveUp(p) \/ Leave(p)
    \/ \E p, q \in Piece : HandOver(p, q)
    \/ CloseAll

Spec == Init /\ [][Next]_vars
================================================================================
