------------------------------- MODULE Render -------------------------------
(***************************************************************************)
(* display.c and rdp.c as a client uses them together: a buffer is locked, *)
(* the RDP attached to it and given commands, detached, and the buffer     *)
(* shown.  Beside the one thread run the RDP and, whenever interrupts are  *)
(* enabled, the handlers of the VI and the DP.                             *)
(***************************************************************************)
EXTENDS Display, Rdp

CONSTANTS
    ClientSyncs     \* the client calls rdp_sync(SYNC_FULL) itself

vars == <<pc, ie, displayVars, rdpVars>>

Init ==
    /\ pc = "idle" /\ ie = TRUE
    /\ DisplayInit /\ RdpInit

\* What a client calls, in the order the comments of both files ask for.
Client ==
    \/ /\ \/ \E n \in 1 .. 3 : InitDisable(n)
          \/ ~attached /\ (CloseDisable \/ Lock \/ Show)
       /\ UNCHANGED rdpVars
    \/ /\ \/ rdp_init \/ rdp_close
          \/ disp # 0 /\ Attach(disp - 1)
          \/ Draw
          \/ ClientSyncs /\ SyncFull
          \/ DetachClear
       /\ UNCHANGED displayVars

Call == (DisplayCall /\ UNCHANGED rdpVars) \/ (RdpCall /\ UNCHANGED displayVars)
Handlers == (VI_handler /\ UNCHANGED rdpVars) \/ (DP_handler /\ UNCHANGED displayVars)
Processor == RDP /\ UNCHANGED displayVars

Next == Client \/ Call \/ Handlers \/ Processor

Spec == Init /\ [][Next]_vars

\* The thread goes on with a call it has begun, the RDP with its commands, and
\* an interrupt that is raised is taken as soon as they are enabled, however
\* short the time.
FairSpec ==
    /\ Spec
    /\ WF_vars(Call)
    /\ WF_vars(Processor)
    /\ SF_vars(Handlers)

-----------------------------------------------------------------------------
(* Properties. *)

TypeOK ==
    /\ DisplayTypeOK /\ RdpTypeOK
    /\ pc \in {"idle"} \cup DisplayPcs \cup RdpPcs
    /\ ie \in BOOLEAN

\* The RDP draws only in the buffer the client has locked: never in the one on
\* the screen or the one that comes next, nor after the display is closed.  So
\* what is shown is whole, however many syncs of the pipeline (SYNC_PIPE, TILE,
\* LOAD) a client queues and however long they stall the RDP.  The comments at
\* src/src/libdragon/rdp.c:42 and :333 say that too many of them make graphics
\* come out on the next display context: with an RDP that executes in order,
\* and a detach with interrupts enabled, which waits for it (:323), they do not.
WholeFrames ==
    /\ TypeOK
    /\ Drawn \subseteq {disp - 1} \ {None, on_screen, show_next}

\* rdp_detach_display of src/src/libdragon/rdp.c:308: "This function will
\* ensure that all hardware operations have completed on an output buffer
\* before detaching the display context."
DetachCompletes == ~attached => Drawn = {}

\* Every call returns: no wait for the RDP or for its interrupt is for ever.
EveryCallReturns == pc # "idle" ~> pc = "idle"
=============================================================================
