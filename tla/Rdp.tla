-------------------------------- MODULE Rdp ---------------------------------
(***************************************************************************)
(* rdp.c: commands are put in a ring in memory, written back from the data *)
(* cache and submitted to the RDP, which holds one run of them that it     *)
(* executes and one that waits; rdp_detach_display waits for the interrupt *)
(* of a SYNC_FULL.                                                         *)
(*                                                                         *)
(* A definition named X_... is X with a bug the code does not have; runs   *)
(* use it to see that a property notices.                                  *)
(***************************************************************************)
EXTENDS Integers, Sequences, Cpu

CONSTANTS
    RingSize,       \* 512: RINGBUFFER_SIZE in units of two words
    Slack,          \* 128: RINGBUFFER_SLACK
    LongestCommand, \* 2: units in the longest command
    DrawSizes       \* 1, 2: in the commands that draw or set something

\* A command is a unit that says what it is, to which buffer and how long, and
\* units that belong to it.
Empty == <<"empty">>
Arg == <<"arg">>
DrawCmd(n) == <<<<"draw", n>>>> \o [m \in 1 .. n - 1 |-> Arg]
ImageCmd(b) == <<<<"image", 1, b>>>>
SyncFullCmd == <<<<"sync", 1>>>>

\* Commands are short: what is left of the ring where it wraps around takes one,
\* and what is before that two that the RDP may not have read, and a third.
ASSUME RdpAssumption ==
    /\ RingSize \in Nat /\ Slack \in Nat
    /\ LongestCommand \in 1 .. Slack
    /\ DrawSizes \subseteq 1 .. LongestCommand
    /\ 3 * LongestCommand <= RingSize - Slack + 1

Ring == 0 .. RingSize - 1
Nothing == <<>>

VARIABLES
    ring,           \* rdp_ringbuffer as the processor sees it, as far as it is
                    \* not executed: what the RDP has read is not kept
    dirty,          \* the units of it that are in the data cache only
    rdp_start, rdp_end,
    wait_intr,      \* whether it is not 0
    dp,             \* __rdp_interrupt is registered and the DP unmasked
    then,           \* where __rdp_ringbuffer_send returns to
    attached,       \* the client is between attaching and detaching
    pending,        \* the RDP's registers: a run [from, to] that waits
    active,         \* the run it executes, from the next command on
    target,         \* the buffer it draws in
    dp_line,        \* its interrupt
    due             \* history: units submitted and not yet executed

rdpVars == <<ring, dirty, rdp_start, rdp_end, wait_intr, dp, then, attached,
             pending, active, target, dp_line, due>>
program == <<ring, dirty, rdp_start, rdp_end, wait_intr, dp, then, attached>>
processor == <<pending, active, target, dp_line, due>>

RdpInit ==
    /\ ring = [w \in Ring |-> Empty] /\ dirty = {}
    /\ rdp_start = 0 /\ rdp_end = 0
    /\ wait_intr = FALSE /\ dp = FALSE /\ dp_line = FALSE
    /\ then = "idle" /\ attached = FALSE
    /\ pending = Nothing /\ active = Nothing
    /\ target = -1
    /\ due = <<>>

-----------------------------------------------------------------------------
(* The ring. *)

\* __rdp_ringbuffer_queue for cmd: what has no room is dropped.
Queue(cmd) ==
    LET size == rdp_end - rdp_start
        room == IF size < RingSize THEN RingSize - 1 - size ELSE 0
        kept == IF Len(cmd) <= room THEN Len(cmd) ELSE room
    IN  /\ ring' = [w \in Ring |-> IF w \in rdp_end .. rdp_end + kept - 1
                                   THEN cmd[w - rdp_end + 1] ELSE ring[w]]
        /\ dirty' = dirty \cup (rdp_end .. rdp_end + kept - 1)
        /\ rdp_end' = rdp_end + kept

\* __rdp_ringbuffer_send
WrittenBack_Not == {}
WrittenBack == rdp_start .. rdp_end - 1

Writeback ==
    /\ pc = "send" /\ UNCHANGED ie
    /\ IF rdp_end = rdp_start
       THEN pc' = then /\ UNCHANGED dirty
       ELSE pc' = "sendwait" /\ dirty' = dirty \ WrittenBack
    /\ UNCHANGED <<ring, rdp_start, rdp_end, wait_intr, dp, then, attached, processor>>

\* DMA_BUSY of the status register: a run is waiting.
Saturated == pending # Nothing

SendDisable ==
    /\ ~Saturated
    /\ Goto("sendwait", "submit") /\ disable_interrupts
    /\ UNCHANGED rdpVars

Submit ==
    /\ ~Saturated
    /\ Goto("submit", "submitted") /\ UNCHANGED ie
    /\ pending' = <<rdp_start, rdp_end>>
    /\ due' = due \o [n \in 1 .. rdp_end - rdp_start |-> ring[rdp_start + n - 1]]
    /\ UNCHANGED <<program, active, target, dp_line>>

WrapsAround == rdp_end > RingSize - Slack

Submitted ==
    /\ Goto("submitted", then) /\ enable_interrupts
    /\ IF WrapsAround
       THEN rdp_start' = 0 /\ rdp_end' = 0
       ELSE rdp_start' = rdp_end /\ UNCHANGED rdp_end
    /\ then' = "idle"
    /\ UNCHANGED <<ring, dirty, wait_intr, dp, attached, processor>>

-----------------------------------------------------------------------------
(* The calls. *)

\* Queue and send, then go on at where.
Command(from, cmd, where) ==
    /\ Goto(from, "send") /\ UNCHANGED ie
    /\ Queue(cmd)
    /\ then' = where
    /\ UNCHANGED <<rdp_start, dp, processor>>

rdp_init ==
    /\ pc = "idle" /\ UNCHANGED <<pc, ie>>
    /\ ~dp
    /\ rdp_start' = 0 /\ rdp_end' = 0
    /\ dp' = TRUE
    /\ UNCHANGED <<ring, dirty, wait_intr, then, attached, processor>>

rdp_close ==
    /\ pc = "idle" /\ UNCHANGED <<pc, ie>>
    /\ dp /\ ~attached
    /\ dp' = FALSE
    /\ UNCHANGED <<ring, dirty, rdp_start, rdp_end, wait_intr, then, attached,
                   processor>>

\* rdp_attach_display of the context of buffer b
Attach(b) ==
    /\ dp /\ ~attached
    /\ Command("idle", ImageCmd(b), "idle")
    /\ attached' = TRUE
    /\ UNCHANGED wait_intr

\* Each of the commands that draw or set something, and rdp_sync of the pipeline,
\* which the RDP takes as long over as it likes; one that loads a texture is
\* three.
Draw ==
    /\ attached
    /\ \E n \in DrawSizes : Command("idle", DrawCmd(n), "idle")
    /\ UNCHANGED <<wait_intr, attached>>

\* rdp_sync(SYNC_FULL)
SyncFull ==
    /\ attached
    /\ Command("idle", SyncFullCmd, "idle")
    /\ UNCHANGED <<wait_intr, attached>>

\* rdp_detach_display, with interrupts enabled as it asks
DetachClear ==
    /\ attached
    /\ Goto("idle", "detach") /\ UNCHANGED ie
    /\ wait_intr' = FALSE
    /\ UNCHANGED <<ring, dirty, rdp_start, rdp_end, dp, then, attached, processor>>

AfterSync_Done == "detached"
AfterSync == "waitintr"

DetachSync ==
    /\ Command("detach", SyncFullCmd, AfterSync)
    /\ UNCHANGED <<wait_intr, attached>>

DetachWait ==
    /\ wait_intr
    /\ Goto("waitintr", "detached")
    /\ UNCHANGED <<ie, rdpVars>>

DetachDone ==
    /\ Goto("detached", "idle") /\ UNCHANGED ie
    /\ wait_intr' = FALSE
    /\ attached' = FALSE
    /\ UNCHANGED <<ring, dirty, rdp_start, rdp_end, dp, then, processor>>

\* The thread inside a call.
RdpCall == Writeback \/ SendDisable \/ Submit \/ Submitted
           \/ DetachSync \/ DetachWait \/ DetachDone

RdpPcs == {"send", "sendwait", "submit", "submitted", "detach", "waitintr", "detached"}

-----------------------------------------------------------------------------
(* __rdp_interrupt, and the RDP. *)


DP_handler ==
    /\ ie /\ dp /\ dp_line
    /\ dp_line' = FALSE
    /\ wait_intr' = TRUE
    /\ UNCHANGED <<pc, ie, ring, dirty, rdp_start, rdp_end, dp, then, attached,
                   pending, active, target, due>>

Take ==
    /\ active = Nothing /\ pending # Nothing
    /\ active' = pending /\ pending' = Nothing
    /\ UNCHANGED <<pc, ie, program, target, dp_line, due>>

Execute ==
    /\ active # Nothing
    /\ LET from == active[1]
           cmd == ring[from]
       IN  /\ cmd[1] \in {"draw", "image", "sync"}
           /\ active' = IF from + cmd[2] = active[2] THEN Nothing ELSE <<from + cmd[2], active[2]>>
           /\ due' = SubSeq(due, cmd[2] + 1, Len(due))
           /\ target' = IF cmd[1] = "image" THEN cmd[3] ELSE target
           /\ dp_line' = (dp_line \/ cmd[1] = "sync")
           /\ ring' = [w \in Ring |-> IF w \in from .. from + cmd[2] - 1 THEN Empty ELSE ring[w]]
    /\ UNCHANGED <<pc, ie, dirty, rdp_start, rdp_end, wait_intr, dp, then,
                   attached, pending>>

RDP == Take \/ Execute

-----------------------------------------------------------------------------
(* Properties. *)

Units ==
    {Empty, Arg, <<"sync", 1>>} \cup {<<"draw", n>> : n \in DrawSizes}
    \cup {<<"image", 1, b>> : b \in 0 .. 2}
Runs == {Nothing} \cup (Ring \X (1 .. RingSize))

RdpTypeOK ==
    /\ ring \in [Ring -> Units] /\ dirty \subseteq Ring
    /\ rdp_start \in 0 .. RingSize - Slack
    /\ rdp_end \in rdp_start .. RingSize
    /\ {wait_intr, dp, attached, dp_line} \subseteq BOOLEAN
    /\ then \in {"idle", "waitintr", "detached"}
    /\ pending \in Runs /\ active \in Runs
    /\ target \in -1 .. 2

\* The places the RDP still has to read, in order.
Unread ==
    LET places(run) ==
            IF run = Nothing THEN <<>> ELSE [n \in 1 .. run[2] - run[1] |-> run[1] + n - 1]
    IN  places(active) \o places(pending)

\* What the RDP has been given and has not executed stands in the ring as it was
\* queued, and in memory as in the cache: the ring is not overtaken, cut or
\* reordered, and no command is lost.
ReadsWhatWasQueued ==
    /\ due = [n \in DOMAIN Unread |-> ring[Unread[n]]]
    /\ \A n \in DOMAIN Unread : Unread[n] \notin dirty

\* The buffers the RDP has still to draw in.
Drawn ==
    LET images(n) == {m \in 1 .. n - 1 : due[m][1] = "image"}
        targetOf(n) ==
            IF images(n) = {} THEN target
            ELSE due[CHOOSE m \in images(n) : \A l \in images(n) : l <= m][3]
    IN  {targetOf(n) : n \in {m \in DOMAIN due : due[m][1] = "draw"}}
=============================================================================
