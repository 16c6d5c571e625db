-------------------------------- MODULE Cpu ---------------------------------
(***************************************************************************)
(* The program's one thread, as the libraries that share it with their     *)
(* interrupt handlers see it.  A critical section is one step in and one   *)
(* step out: that sections nest and exclude the handlers is what           *)
(* Interrupts shows of interrupt.c.                                        *)
(***************************************************************************)

VARIABLES
    pc,     \* where the thread is in a call: "idle" in none
    ie      \* interrupts are enabled

Goto(from, to) == pc = from /\ pc' = to

disable_interrupts == ie' = FALSE
enable_interrupts == ie' = TRUE
=============================================================================
