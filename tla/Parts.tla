------------------------------- MODULE Parts --------------------------------
(***************************************************************************)
(* Three parts of the repository in which the program's one thread works   *)
(* with something that does not wait for it: the audio interface, the      *)
(* count register, the USB link.  The program uses one of them.            *)
(***************************************************************************)
EXTENDS Audio, Timers, UsbLink

VARIABLE part       \* the one it uses

vars == <<part, pc, ie, audio, timersVars, usb>>

Init ==
    /\ part \in {"audio", "timers", "usb"}
    /\ pc = "idle" /\ ie = TRUE
    /\ AudioInit /\ TimersInit /\ UsbInit

Next ==
    /\ \/ part = "audio" /\ AudioNext /\ UNCHANGED <<timersVars, usb>>
       \/ part = "timers" /\ TimersNext /\ UNCHANGED <<audio, usb>>
       \/ part = "usb" /\ UsbNext /\ UNCHANGED <<audio, timersVars>>
    /\ UNCHANGED part

Spec == Init /\ [][Next]_vars /\ AudioFairness /\ TimersFairness /\ UsbFairness

\* Every call returns and every handler ends: audio_write once the AI has
\* played a buffer, the walk over the timers whatever has expired meanwhile,
\* the listener though the host says nothing more.
CallsReturn == pc # "idle" ~> pc = "idle"
=============================================================================
