------------------------------ MODULE ItemPool ------------------------------
(***************************************************************************)
(* What a supply of reusable items promises (the class comment of          *)
(* util/Supplier.h), without sequences, gates and counters.  An item is    *)
(* free, then in the hands of one producer; in a pipeline it is then       *)
(* offered and handed on in the order in which items were taken; it is     *)
(* used as long as anybody has a reference to it; when the last one is     *)
(* given back it is returned, and free again at once or later, in whatever *)
(* order items come back.                                                  *)
(***************************************************************************)
EXTENDS Integers, Sequences, FiniteSets

CONSTANTS
    Items,      \* the items
    Pipeline    \* is there a consumer?

VARIABLES
    state,      \* item -> where it is
    taken,      \* how many items were handed out so far
    line        \* items taken and not yet received, in order

States == {"free", "filling", "offered", "used", "returned"}

Init == state = [i \in Items |-> "free"] /\ taken = 0 /\ line = <<>>

\* All items of S change from one state to another.
Move(S, from, to) ==
    /\ \A i \in S : state[i] = from
    /\ state' = [i \in Items |-> IF i \in S THEN to ELSE state[i]]

\* The producer gets free items; no others, and none twice.
Take(S) ==
    /\ Move(S, "free", IF Pipeline THEN "filling" ELSE "used")
    /\ taken' = taken + Cardinality(S)
    /\ IF Pipeline
       THEN /\ Len(line) <= Len(line')
            /\ \A k \in 1 .. Len(line) : line'[k] = line[k]
            /\ S = {line'[k] : k \in Len(line) + 1 .. Len(line')}
       ELSE line' = line

Offer(S) == Move(S, "filling", "offered") /\ UNCHANGED <<taken, line>>

\* The consumer gets what was taken first, and only when it is offered.
Receive ==
    /\ line # <<>>
    /\ Move({Head(line)}, "offered", "used")
    /\ line' = Tail(line) /\ UNCHANGED taken

\* The last user gives item i back; i and others that came back may be free.
Return(i, S) ==
    /\ state[i] = "used"
    /\ \A j \in S : j = i \/ state[j] = "returned"
    /\ state' = [j \in Items |-> IF j \in S THEN "free"
                                 ELSE IF j = i THEN "returned" ELSE state[j]]
    /\ UNCHANGED <<taken, line>>

Next ==
    \/ \E S \in SUBSET Items : Take(S) \/ Offer(S)
    \/ Receive
    \/ \E i \in Items, S \in SUBSET Items : Return(i, S)

Spec == Init /\ [][Next]_<<state, taken, line>>
=============================================================================
