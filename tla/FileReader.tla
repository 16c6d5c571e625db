----------------------------- MODULE FileReader -----------------------------
(***************************************************************************)
(* What the file half of fat.c promises: an open file is a sequence of     *)
(* sectors of the card, and a position in it.  A read puts the next        *)
(* sectors of the file into memory one after the other, a skip passes over *)
(* them; a read of more than is left changes nothing.  A call that fails   *)
(* half way breaks the file: nothing is promised any more until it is      *)
(* opened again.                                                           *)
(***************************************************************************)
EXTENDS Naturals, Sequences

CONSTANTS
    MaxCount,       \* the most sectors a call asks for
    Nothing         \* the contents of memory no read has filled

VARIABLES
    file,           \* the file: its sectors in order
    at,             \* how many of them have been passed
    todo,           \* sectors the call in progress has yet to pass
    memory,         \* what the last read has put where
    active,         \* a call is in progress
    broken          \* a call has failed half way

vars == <<file, at, todo, memory, active, broken>>

Left == Len(file) - at
Empty == [d \in 0 .. MaxCount - 1 |-> Nothing]

Begin(n) ==
    /\ ~active
    /\ n <= Left
    /\ active' = TRUE
    /\ todo' = n
    /\ memory' = Empty
    /\ UNCHANGED <<file, at, broken>>

\* A call for more than is left returns at once.
Refuse ==
    /\ ~active
    /\ memory' = Empty
    /\ UNCHANGED <<file, at, todo, active, broken>>

Pass(n) ==
    /\ active
    /\ n <= todo
    /\ at' = at + n
    /\ todo' = todo - n

\* n sectors arrive behind those already there: a read that has passed k
\* sectors so far has filled memory from 0 to k - 1.
Deliver(n, filled) ==
    /\ Pass(n)
    /\ memory' = [d \in 0 .. MaxCount - 1 |->
                    IF d \in filled .. filled + n - 1
                    THEN file[at + 1 + d - filled]
                    ELSE memory[d]]
    /\ \A d \in 0 .. filled - 1 : memory[d] # Nothing
    /\ \A d \in filled .. MaxCount - 1 : memory[d] = Nothing
    /\ UNCHANGED <<file, active, broken>>

Skip(n) ==
    /\ Pass(n)
    /\ UNCHANGED <<file, memory, active, broken>>

End ==
    /\ active
    /\ todo = 0
    /\ active' = FALSE
    /\ UNCHANGED <<file, at, todo, memory, broken>>

\* An error half way, and everything after it.
Break ==
    /\ active \/ broken
    /\ broken' = TRUE

Next ==
    \/ \E n \in 0 .. MaxCount : Begin(n)
    \/ Refuse
    \/ \E n \in 0 .. MaxCount, filled \in 0 .. MaxCount : Deliver(n, filled)
    \/ \E n \in 0 .. MaxCount : Skip(n)
    \/ End
    \/ Break

Init ==
    /\ at = 0
    /\ todo = 0
    /\ memory = Empty
    /\ active = FALSE
    /\ broken = FALSE

Spec == Init /\ [][Next]_vars
=============================================================================
