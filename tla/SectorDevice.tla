---------------------------- MODULE SectorDevice ----------------------------
(***************************************************************************)
(* What disk.c promises to its callers: one call at a time moves req.len   *)
(* consecutive sectors between the card and memory, or reports an error.   *)
(* While `trusted' holds, the sectors moved are exactly the ones asked     *)
(* for.  A call that fails may cost the trust, and so may a stop command   *)
(* the card did not acknowledge while the call was switching streams; only *)
(* the device gets it back, at a later stop.  Nothing is promised about    *)
(* which sectors an untrusted call moves, except that they are consecutive.*)
(***************************************************************************)
EXTENDS Naturals, Sequences

CONSTANTS
    NumSectors,     \* the card holds sectors 0 .. NumSectors - 1
    MaxLen,         \* the longest transfer a caller asks for
    Kinds,          \* the transfers there are (read to RAM, to ROM, write)
    Errors          \* the error codes a call may return

VARIABLES
    req,            \* the call in progress, or the last one made
    moved,          \* the sectors this call has moved, in order
    active,         \* a call is in progress
    ret,            \* the last call's result
    trusted

vars == <<req, moved, active, ret, trusted>>

Sector == 0 .. NumSectors - 1

\* No transfer runs past the end of the card.
Requests ==
    {r \in [kind : Kinds, addr : Sector, len : 1 .. MaxLen] :
        r.addr + r.len <= NumSectors}

Init ==
    /\ req \in Requests
    /\ moved = <<>>
    /\ active = FALSE
    /\ ret = "ok"
    /\ trusted = TRUE

Call(r) ==
    /\ ~active
    /\ active' = TRUE
    /\ req' = r
    /\ moved' = <<>>
    /\ UNCHANGED <<ret, trusted>>

\* The sector a call moves next: the one asked for, or, untrusted, any sector
\* to begin with and the following one afterwards.
MayMove(s) ==
    IF trusted
    THEN s = req.addr + Len(moved)
    ELSE moved = <<>> \/ s = moved[Len(moved)] + 1

Move(s) ==
    /\ active
    /\ Len(moved) < req.len
    /\ MayMove(s)
    /\ moved' = Append(moved, s)
    /\ UNCHANGED <<req, active, ret, trusted>>

Succeed ==
    /\ active
    /\ Len(moved) = req.len
    /\ active' = FALSE
    /\ ret' = "ok"
    /\ UNCHANGED <<req, moved, trusted>>

\* A sector may have reached the card although its answer was lost.
Fail(e) ==
    /\ active
    /\ active' = FALSE
    /\ ret' = e
    /\ \/ UNCHANGED moved
       \/ /\ Len(moved) < req.len
          /\ \E s \in Sector : MayMove(s) /\ moved' = Append(moved, s)
    /\ trusted' \in {trusted, FALSE}
    /\ UNCHANGED req

\* Switching streams, before the first sector moves, may win or lose trust.
Resync ==
    /\ active
    /\ moved = <<>>
    /\ trusted' \in BOOLEAN
    /\ UNCHANGED <<req, moved, active, ret>>

\* A close between two calls.
Close ==
    /\ ~active
    /\ trusted' \in BOOLEAN
    /\ ret' \in Errors \cup {"ok"}
    /\ moved' = <<>>
    /\ UNCHANGED <<req, active>>

Next ==
    \/ \E r \in Requests : Call(r)
    \/ \E s \in Sector : Move(s)
    \/ Succeed
    \/ \E e \in Errors : Fail(e)
    \/ Resync
    \/ Close

Spec == Init /\ [][Next]_vars
=============================================================================
