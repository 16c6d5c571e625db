------------------------------ MODULE Display -------------------------------
(***************************************************************************)
(* display.c: two or three frame buffers handed from the client, who draws *)
(* in one, to the VI, which shows one, by a handler that swaps them in the *)
(* vertical blank.                                                         *)
(*                                                                         *)
(* The search of display_lock is stepped through access by access, so that *)
(* the handler meets it wherever interrupts are enabled.                   *)
(*                                                                         *)
(* A definition named X_... is X with a bug the code does not have; runs   *)
(* use it to see that a property notices.                                  *)
(***************************************************************************)
EXTENDS Integers, Sequences, Cpu

None == -1          \* no buffer

VARIABLES
    buffers,        \* __buffers, or 0 while none is allocated
    now_showing, show_next, now_drawing,
    on_screen,      \* the VI's origin: the buffer it shows
    vi,             \* __display_callback is registered and the VI unmasked
    i, test,        \* display_lock: the buffer tried, the comparison
    disp            \* the context the client has, a buffer + 1; 0 for none

displayVars == <<buffers, now_showing, show_next, now_drawing, on_screen, vi, i, test, disp>>
owners == <<now_showing, show_next, now_drawing>>

DisplayInit ==
    /\ buffers = 0 /\ on_screen = None
    /\ now_showing = None /\ show_next = None /\ now_drawing = None
    /\ vi = FALSE
    /\ i = 0 /\ test = 1
    /\ disp = 0

-----------------------------------------------------------------------------
(* display_init and display_close, which clients call in turns. *)

InitDisable(num_buffers) ==
    /\ buffers = 0
    /\ Goto("idle", "dinit") /\ disable_interrupts
    /\ buffers' = IF num_buffers \in {2, 3} THEN num_buffers ELSE 3
    /\ UNCHANGED <<owners, on_screen, vi, i, test, disp>>

InitBuffers ==
    /\ Goto("dinit", "dready") /\ UNCHANGED ie
    /\ on_screen' = 0 /\ now_showing' = 0
    /\ now_drawing' = None /\ show_next' = None
    /\ UNCHANGED <<buffers, vi, i, test, disp>>

InitEnable ==
    /\ Goto("dready", "dhandler") /\ enable_interrupts
    /\ UNCHANGED displayVars

InitHandler ==
    /\ Goto("dhandler", "idle") /\ UNCHANGED ie
    /\ vi' = TRUE
    /\ UNCHANGED <<buffers, owners, on_screen, i, test, disp>>

CloseDisable ==
    /\ buffers > 0 /\ disp = 0
    /\ Goto("idle", "dclose") /\ disable_interrupts
    /\ UNCHANGED displayVars

CloseBuffers ==
    /\ Goto("dclose", "denable") /\ UNCHANGED ie
    /\ vi' = FALSE
    /\ now_showing' = None /\ now_drawing' = None /\ show_next' = None
    /\ on_screen' = None
    /\ buffers' = 0
    /\ UNCHANGED <<i, test, disp>>

-----------------------------------------------------------------------------
(* display_lock.  Clients do not check out more than one context. *)

LockDisables_Not == UNCHANGED ie
LockDisables == disable_interrupts

Lock ==
    /\ buffers > 0 /\ disp = 0
    /\ Goto("idle", "scan") /\ LockDisables
    /\ UNCHANGED displayVars

\* i != now_showing && i != now_drawing && i != show_next, read in turn.
Tests_SkipNext == <<now_showing, now_drawing>>
Tests == <<now_showing, now_drawing, show_next>>

LockTest ==
    /\ pc = "scan" /\ i < buffers
    /\ \/ i = Tests[test] /\ i' = i + 1 /\ test' = 1 /\ UNCHANGED <<pc, now_drawing, disp>>
       \/ /\ i # Tests[test]
          /\ IF test < Len(Tests)
             THEN test' = test + 1 /\ UNCHANGED <<pc, now_drawing, disp>>
             ELSE /\ now_drawing' = i /\ disp' = i + 1
                  /\ pc' = "denable" /\ UNCHANGED test
          /\ UNCHANGED i
    /\ UNCHANGED <<ie, buffers, now_showing, show_next, on_screen, vi>>

LockNone_TriesAgain ==
    /\ pc = "scan" /\ i = buffers
    /\ i' = 0 /\ test' = 1
    /\ UNCHANGED <<pc, ie, buffers, owners, on_screen, vi, disp>>

\* No buffer is free: display_lock gives up.
LockNone ==
    /\ i = buffers
    /\ Goto("scan", "denable")
    /\ UNCHANGED <<ie, displayVars>>

-----------------------------------------------------------------------------
(* display_show *)

Show ==
    /\ disp # 0
    /\ Goto("idle", "show") /\ disable_interrupts
    /\ UNCHANGED displayVars

ShowGive ==
    /\ pc = "show" /\ UNCHANGED ie
    /\ IF now_drawing = disp - 1
       THEN now_drawing' = None /\ pc' = "shownext" /\ UNCHANGED disp
       ELSE pc' = "denable" /\ disp' = 0 /\ UNCHANGED now_drawing
    /\ UNCHANGED <<buffers, now_showing, show_next, on_screen, vi, i, test>>

ShowNext ==
    /\ Goto("shownext", "denable") /\ UNCHANGED ie
    /\ show_next' = disp - 1
    /\ disp' = 0
    /\ UNCHANGED <<buffers, now_showing, now_drawing, on_screen, vi, i, test>>

\* The end of display_close, display_lock and display_show; locals are gone.
EnableDone ==
    /\ Goto("denable", "idle") /\ enable_interrupts
    /\ i' = 0 /\ test' = 1
    /\ UNCHANGED <<buffers, owners, on_screen, vi, disp>>

-----------------------------------------------------------------------------
(* __display_callback, in a vertical blank with something to do. *)

NewFrame == show_next >= 0 /\ show_next # now_drawing

VI_handler ==
    /\ ie /\ vi
    /\ NewFrame
    /\ on_screen' = show_next /\ now_showing' = show_next
    /\ show_next' = None
    /\ UNCHANGED <<pc, ie, buffers, now_drawing, vi, i, test, disp>>

\* The thread inside a call.
DisplayCall ==
    InitBuffers \/ InitEnable \/ InitHandler \/ CloseBuffers \/ LockTest \/ LockNone
    \/ ShowGive \/ ShowNext \/ EnableDone

DisplayPcs == {"dinit", "dready", "dhandler", "dclose", "denable", "scan", "show", "shownext"}

-----------------------------------------------------------------------------
(* Properties. *)

Screens == 0 .. 2

DisplayTypeOK ==
    /\ buffers \in {0, 2, 3}
    /\ {now_showing, show_next, now_drawing, on_screen} \subseteq Screens \cup {None}
    /\ vi \in BOOLEAN
    /\ i \in 0 .. 3 /\ test \in 1 .. 3
    /\ disp \in 0 .. buffers

\* The buffer a client has been given is its own: the VI does not show it and
\* is not about to, whatever blanks came while it was looked for.
HeldAlone ==
    disp # 0 => disp - 1 \notin {on_screen, now_showing, show_next}

\* display_lock refuses only when it has to: of two buffers one is shown and
\* the other has not been.  With three there is always one.
RefusedOnlyWhenFull ==
    pc = "scan" /\ i = buffers => buffers = 2 /\ show_next # None
=============================================================================
