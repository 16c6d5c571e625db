----------------------------- MODULE AudioQueue -----------------------------
(***************************************************************************)
(* What audio.c does for its client: chunks go to the audio interface in   *)
(* the order they were written, each once, and at most Capacity wait; but  *)
(* what still waits at a close may go out as noise while the client opens  *)
(* again, and may leave the whole of the new session astray.               *)
(***************************************************************************)
EXTENDS Naturals, Sequences

CONSTANTS Chunks, Noise, Capacity

VARIABLES
    phase,  \* closed, opening, or open for the client to write
    queue,  \* chunks written and not handed over
    sent,   \* what was handed over last, and which of two turns it was
    left,   \* of the chunks the last close dropped, those that may go out yet
    astray  \* the order of this session is lost

qvars == <<phase, queue, sent, left, astray>>

Init ==
    /\ phase = "closed" /\ queue = <<>> /\ left = 0 /\ astray = FALSE
    /\ sent = [chunk |-> CHOOSE c \in Chunks : TRUE, turn |-> FALSE]

Open == phase = "closed" /\ phase' = "opening" /\ UNCHANGED <<queue, sent, left, astray>>

\* One of the chunks that were dropped makes what is not a chunk go out.
Stray ==
    /\ phase = "opening" /\ left > 0
    /\ left' = left - 1
    /\ sent' = [chunk |-> Noise, turn |-> ~sent.turn]
    /\ astray' \in BOOLEAN
    /\ UNCHANGED <<phase, queue>>

Ready == phase = "opening" /\ phase' = "open" /\ left' = 0 /\ UNCHANGED <<queue, sent, astray>>

Write == \E c \in Chunks :
    /\ phase = "open" /\ ~astray /\ Len(queue) < Capacity
    /\ queue' = Append(queue, c)
    /\ UNCHANGED <<phase, sent, left, astray>>

HandOver ==
    /\ queue # <<>>
    /\ queue' = Tail(queue)
    /\ sent' = [chunk |-> Head(queue), turn |-> ~sent.turn]
    /\ UNCHANGED <<phase, left, astray>>

\* Nothing is said of what goes out in a session that is astray.
Anyhow == phase = "open" /\ astray /\ UNCHANGED <<phase, queue, left, astray>>

\* Closing drops what waits, and ends a session that was astray.
Close ==
    /\ phase = "open" /\ phase' = "closed"
    /\ queue' = <<>> /\ ~astray'
    /\ left' \in 0 .. Capacity /\ (astray \/ left' = Len(queue))
    /\ UNCHANGED sent

Next == Open \/ Stray \/ Ready \/ Write \/ HandOver \/ Anyhow \/ Close

Spec == Init /\ [][Next]_qvars
=============================================================================
