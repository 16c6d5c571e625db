---------------------------- MODULE RenderProofs ----------------------------
(***************************************************************************)
(* Proofs about Render, for rings of any size and commands of any length   *)
(* that fit: the client's buffer is its own, the RDP reads the commands it *)
(* was given, and it draws in no buffer that is shown.                     *)
(***************************************************************************)
EXTENDS Render, TLAPS

-----------------------------------------------------------------------------
(* The inductive invariant of the display. *)

Opening == {"dinit", "dready", "dhandler"}
Exclusive == {"dinit", "dready", "dclose", "denable", "scan", "show", "shownext"}

\* Where a client has no context.
NoContext == Opening \cup {"dclose", "scan"}

Control ==
    /\ pc \in {"idle"} \cup DisplayPcs \cup RdpPcs
    /\ ie \in BOOLEAN
    /\ then \in {"idle", "waitintr"}

\* The handler shows what the thread believes to be shown, and does not run
\* while a buffer is looked for or given away.
Screen ==
    /\ now_showing = on_screen
    /\ pc \in Exclusive => ~ie
    /\ pc \in NoContext => disp = 0
    /\ pc \in Opening \cup {"scan"} => buffers # 0

\* now_drawing is the client's buffer, which nobody else has.
Owners ==
    /\ disp = 0 => now_drawing = None
    /\ disp # 0 => now_drawing = IF pc = "shownext" THEN None ELSE disp - 1
    /\ disp # 0 => disp - 1 # now_showing /\ disp - 1 # show_next
    /\ pc \in {"show", "shownext"} => disp # 0

\* The search of display_lock: the buffers it has gone past are shown or next,
\* and the one it tries is none of those it has been compared with.
Search ==
    /\ pc = "scan" => i <= buffers
    /\ pc = "scan" => \A b \in 0 .. i - 1 : b = now_showing \/ b = show_next
    /\ pc = "scan" /\ test > 1 => i # now_showing
    /\ pc \notin {"scan", "denable"} => i = 0 /\ test = 1

DisplayInv == Control /\ DisplayTypeOK /\ Screen /\ Owners /\ Search

LEMMA DisplayInitial == Init => DisplayInv
<1> SUFFICES ASSUME Init PROVE DisplayInv
    OBVIOUS
<1>1. ie \in BOOLEAN /\ vi \in BOOLEAN
    BY Zenon DEF Init, DisplayInit
<1>2. Control
    BY <1>1 DEF Init, DisplayInit, RdpInit, Control
<1>3. DisplayTypeOK
    BY <1>1 DEF Init, DisplayInit, DisplayTypeOK, None, Screens
<1>4. Screen /\ Owners /\ Search
    BY DEF Init, DisplayInit, Screen, Owners, Search, Opening, Exclusive, NoContext
<1> QED
    BY <1>2, <1>3, <1>4, Zenon DEF DisplayInv

\* What the client does with the RDP, and the RDP, leave the display alone.
LEMMA RdpSide ==
    ASSUME DisplayInv, UNCHANGED displayVars, then' \in {"idle", "waitintr"},
           \/ pc' = pc /\ ie' = ie
           \/ /\ pc \in {"idle"} \cup RdpPcs /\ pc' \in {"idle"} \cup RdpPcs
              /\ ie' \in BOOLEAN
    PROVE  DisplayInv'
BY DEF DisplayInv, Control, DisplayTypeOK, Screen, Owners, Search, displayVars, owners,
       Opening, Exclusive, NoContext, DisplayPcs, RdpPcs

LEMMA RdpSteps ==
    ASSUME DisplayInv,
           \/ RdpCall \/ DP_handler \/ RDP \/ rdp_init \/ rdp_close
           \/ Attach(disp - 1) \/ Draw \/ SyncFull \/ DetachClear
    PROVE  /\ then' \in {"idle", "waitintr"}
           /\ \/ pc' = pc /\ ie' = ie
              \/ /\ pc \in {"idle"} \cup RdpPcs /\ pc' \in {"idle"} \cup RdpPcs
                 /\ ie' \in BOOLEAN
<1>1. then \in {"idle", "waitintr"} /\ ie \in BOOLEAN
    BY DEF DisplayInv, Control
<1>2. CASE DP_handler \/ RDP \/ rdp_init \/ rdp_close
    BY <1>1, <1>2 DEF DP_handler, RDP, Take, Execute, rdp_init, rdp_close, program
<1>3. CASE Attach(disp - 1) \/ Draw \/ SyncFull \/ DetachSync
    BY <1>1, <1>3 DEF Attach, Draw, SyncFull, DetachSync, Command, Goto, AfterSync, RdpPcs
<1>4. CASE Writeback \/ SendDisable \/ Submit \/ Submitted
    BY <1>1, <1>4 DEF Writeback, SendDisable, Submit, Submitted, Goto, RdpPcs, rdpVars, program,
                      disable_interrupts, enable_interrupts
<1>5. CASE DetachClear \/ DetachWait \/ DetachDone
    BY <1>1, <1>5 DEF DetachClear, DetachWait, DetachDone, Goto, RdpPcs, rdpVars
<1> QED
    BY <1>2, <1>3, <1>4, <1>5 DEF RdpCall

LEMMA DisplayStep == DisplayInv /\ [Next]_vars => DisplayInv'
<1> SUFFICES ASSUME DisplayInv, [Next]_vars PROVE DisplayInv'
    OBVIOUS
<1> USE DEF DisplayInv, Control, DisplayTypeOK, Screen, Owners, Search, owners, displayVars,
            Opening, Exclusive, NoContext, DisplayPcs, RdpPcs, None, Screens,
            Goto, disable_interrupts, enable_interrupts
<1>t. UNCHANGED rdpVars => UNCHANGED then
    BY DEF rdpVars
<1>1. ASSUME NEW n \in 1 .. 3, InitDisable(n), UNCHANGED rdpVars PROVE DisplayInv'
    <2>1. ie' \in BOOLEAN /\ ~ie' /\ vi' = vi
        BY <1>1, Zenon DEF InitDisable
    <2>2. Control'
        BY <1>1, <1>t, <2>1 DEF InitDisable
    <2>3. DisplayTypeOK'
        BY <1>1, <2>1 DEF InitDisable
    <2>4. Screen'
        BY <1>1, <2>1 DEF InitDisable
    <2>5. Owners'
        BY <1>1, <2>1 DEF InitDisable
    <2>6. Search'
        BY <1>1, <2>1 DEF InitDisable
    <2> QED
        BY <2>2, <2>3, <2>4, <2>5, <2>6, Zenon DEF DisplayInv
<1>2. ASSUME CloseDisable \/ Lock \/ Show, UNCHANGED rdpVars PROVE DisplayInv'
    <2>1. ie' \in BOOLEAN /\ ~ie'
        BY <1>2, Zenon DEF CloseDisable, Lock, Show, LockDisables
    <2>2. then' = then
        BY <1>2, <1>t
    <2>3. UNCHANGED <<buffers, owners, on_screen, vi, i, test, disp>>
        BY <1>2 DEF CloseDisable, Lock, Show
    <2>4. Control'
        BY <1>2, <2>1, <2>2 DEF CloseDisable, Lock, Show
    <2>5. DisplayTypeOK'
        BY <2>3
    <2>6. Screen'
        BY <1>2, <2>1, <2>3 DEF CloseDisable, Lock, Show
    <2>7. Owners'
        BY <1>2, <2>3 DEF CloseDisable, Lock, Show
    <2>8. Search'
        BY <1>2, <2>3 DEF CloseDisable, Lock, Show
    <2> QED
        BY <2>4, <2>5, <2>6, <2>7, <2>8, Zenon DEF DisplayInv
<1>3. ASSUME InitBuffers \/ InitEnable \/ InitHandler \/ CloseBuffers, UNCHANGED rdpVars
      PROVE  DisplayInv'
    <2>1. (ie' = ie \/ ie' = TRUE) /\ (vi' = vi \/ vi' = TRUE \/ vi' = FALSE)
        BY <1>3, Zenon DEF InitBuffers, InitEnable, InitHandler, CloseBuffers
    <2>2. Control'
        BY <1>3, <1>t, <2>1 DEF InitBuffers, InitEnable, InitHandler, CloseBuffers
    <2>3. DisplayTypeOK'
        <3>1. vi' \in BOOLEAN
            BY <2>1, Zenon
        <3>2. /\ buffers' \in {0, buffers} /\ i' = i /\ test' = test
              /\ disp' = disp /\ (buffers' = 0 => disp' = 0)
            BY <1>3 DEF InitBuffers, InitEnable, InitHandler, CloseBuffers
        <3>3. {now_showing', show_next', now_drawing', on_screen'}
                \subseteq {0, None, now_showing, show_next, now_drawing, on_screen}
            BY <1>3 DEF InitBuffers, InitEnable, InitHandler, CloseBuffers
        <3> QED
            BY <3>1, <3>2, <3>3
    <2>4. Screen'
        BY <1>3, <2>1 DEF InitBuffers, InitEnable, InitHandler, CloseBuffers
    <2>5. Owners'
        BY <1>3, <2>1 DEF InitBuffers, InitEnable, InitHandler, CloseBuffers
    <2>6. Search'
        BY <1>3, <2>1 DEF InitBuffers, InitEnable, InitHandler, CloseBuffers
    <2> QED
        BY <2>2, <2>3, <2>4, <2>5, <2>6, Zenon DEF DisplayInv
<1>4. ASSUME LockTest, UNCHANGED rdpVars PROVE DisplayInv'
    <2>1. ie' = ie /\ vi' = vi
        BY <1>4, Zenon DEF LockTest, Tests
    <2>2. Control'
        BY <1>4, <1>t, <2>1 DEF LockTest, Tests
    <2>3. DisplayTypeOK'
        BY <1>4, <2>1 DEF LockTest, Tests
    <2>4. Screen'
        BY <1>4, <2>1 DEF LockTest, Tests
    <2>5. Owners'
        BY <1>4, <2>1 DEF LockTest, Tests
    <2>6. Search'
        BY <1>4, <2>1 DEF LockTest, Tests
    <2> QED
        BY <2>2, <2>3, <2>4, <2>5, <2>6, Zenon DEF DisplayInv
<1>5. ASSUME LockNone \/ EnableDone, UNCHANGED rdpVars PROVE DisplayInv'
    <2>1. (ie' = ie \/ ie' = TRUE) /\ vi' = vi
        BY <1>5, Zenon DEF LockNone, EnableDone
    <2>2. Control'
        BY <1>5, <1>t, <2>1 DEF LockNone, EnableDone
    <2>3. DisplayTypeOK'
        BY <1>5, <2>1 DEF LockNone, EnableDone
    <2>4. Screen'
        BY <1>5, <2>1 DEF LockNone, EnableDone
    <2>5. Owners'
        BY <1>5, <2>1 DEF LockNone, EnableDone
    <2>6. Search'
        BY <1>5, <2>1 DEF LockNone, EnableDone
    <2> QED
        BY <2>2, <2>3, <2>4, <2>5, <2>6, Zenon DEF DisplayInv
<1>6. ASSUME ShowGive \/ ShowNext, UNCHANGED rdpVars PROVE DisplayInv'
    BY <1>6, <1>t DEF ShowGive, ShowNext
<1>7. ASSUME VI_handler, UNCHANGED rdpVars PROVE DisplayInv'
    BY <1>7, <1>t DEF VI_handler, NewFrame
<1>8. ASSUME \/ RdpCall \/ DP_handler \/ RDP \/ rdp_init \/ rdp_close
             \/ Attach(disp - 1) \/ Draw \/ SyncFull \/ DetachClear,
             UNCHANGED displayVars
      PROVE  DisplayInv'
    BY <1>8, RdpSide, RdpSteps
<1>9. CASE UNCHANGED vars
    BY <1>9, <1>t DEF vars
<1> QED
    BY <1>1, <1>2, <1>3, <1>4, <1>5, <1>6, <1>7, <1>8, <1>9
       DEF Next, Client, Call, Handlers, Processor, DisplayCall

LEMMA DisplayAlways == Spec => []DisplayInv
<1> QED
    BY DisplayInitial, DisplayStep, PTL DEF Spec

\* The buffer a client has been given by display_lock is neither on the screen
\* nor about to be, whatever blanks came while it was looked for.
THEOREM BufferOwned == Spec => []HeldAlone
<1>1. DisplayInv => HeldAlone
    BY DEF DisplayInv, Screen, Owners, HeldAlone
<1> QED
    BY <1>1, DisplayAlways, PTL

\* display_lock refuses only if there are two buffers, one shown and one that
\* has not been yet.
THEOREM RefusalsJustified == Spec => []RefusedOnlyWhenFull
<1>1. DisplayInv => RefusedOnlyWhenFull
    <2> SUFFICES ASSUME DisplayInv, pc = "scan", i = buffers
                 PROVE  buffers = 2 /\ show_next # None
        BY DEF RefusedOnlyWhenFull
    <2>1. \A b \in 0 .. buffers - 1 : b = now_showing \/ b = show_next
        BY DEF DisplayInv, Search
    <2>2. buffers \in {0, 2, 3}
        BY DEF DisplayInv, DisplayTypeOK
    <2>3. buffers # 0
        BY DEF DisplayInv, Screen
    <2>4. /\ 0 = now_showing \/ 0 = show_next
          /\ 1 = now_showing \/ 1 = show_next
        BY <2>1, <2>2, <2>3
    <2>5. buffers = 3 => 2 = now_showing \/ 2 = show_next
        BY <2>1
    <2> QED
        BY <2>2, <2>3, <2>4, <2>5 DEF None
<1> QED
    BY <1>1, DisplayAlways, PTL

-----------------------------------------------------------------------------
(* The inductive invariant of the ring, for clients that leave SYNC_FULL   *)
(* to rdp_detach_display.                                                  *)

NoOtherSync == ~ClientSyncs

Sending == {"send", "sendwait", "submit", "submitted"}

\* A command is in the ring and has not been submitted.
Queued == pc \in {"send", "sendwait", "submit"}

Kind(place) == ring[place][1]

\* A whole command stands in the ring between two places.
IsCommand(r, from, to) ==
    /\ from \in 0 .. RingSize - Slack
    /\ to \in from + 1 .. from + LongestCommand
    /\ r[from][1] \in {"draw", "image", "sync"}
    /\ r[from][2] = to - from
    /\ \A w \in from + 1 .. to - 1 : r[w] = Arg

\* Each run is one command, and so is what is queued.
Commands ==
    /\ pending # Nothing => IsCommand(ring, pending[1], pending[2])
    /\ active # Nothing => IsCommand(ring, active[1], active[2])
    /\ Queued => IsCommand(ring, rdp_start, rdp_end)
    /\ pc = "submitted" => rdp_end \in rdp_start + 1 .. rdp_start + LongestCommand
    /\ pc \notin Sending => rdp_end = rdp_start

\* Where the ring goes on after a run.
After(place) == IF place > RingSize - Slack THEN 0 ELSE place

\* Each run begins where the one before has ended, or the ring has wrapped.
Layout ==
    /\ active # Nothing /\ pending # Nothing => pending[1] = After(active[2])
    /\ pending # Nothing =>
        IF pc = "submitted" THEN pending = <<rdp_start, rdp_end>>
                            ELSE rdp_start = After(pending[2])
    /\ active # Nothing /\ pending = Nothing =>
        IF pc = "submitted" THEN active = <<rdp_start, rdp_end>>
                            ELSE rdp_start = After(active[2])
    /\ pc = "submit" => pending = Nothing

Copied ==
    /\ pc # "send" => dirty = {}
    /\ dirty \subseteq rdp_start .. rdp_end - 1

Length(run) == IF run = Nothing THEN 0 ELSE run[2] - run[1]

\* What the RDP has been given stands in the ring.
Due ==
    /\ due \in Seq(Units)
    /\ Len(due) = Length(active) + Length(pending)
    /\ \A n \in 1 .. Length(active) : due[n] = ring[active[1] + n - 1]
    /\ \A n \in 1 .. Length(pending) : due[Length(active) + n] = ring[pending[1] + n - 1]

Drained == active = Nothing /\ pending = Nothing

\* The SYNC_FULL of rdp_detach_display has been submitted.
SyncGiven == (then = "waitintr" /\ pc = "submitted") \/ pc = "waitintr"

\* It is the last command, and its interrupt comes when nothing is left.
Sync ==
    /\ pc \notin Sending => then = "idle"
    /\ Queued => (Kind(rdp_start) = "sync" <=> then = "waitintr")
    /\ pending # Nothing => (Kind(pending[1]) = "sync" <=> SyncGiven)
    /\ active # Nothing => (Kind(active[1]) = "sync" <=> SyncGiven /\ pending = Nothing)
    /\ dp_line \/ wait_intr => Drained /\ (SyncGiven \/ pc = "detached")
    /\ ~(dp_line /\ wait_intr)
    /\ pc = "detached" => Drained /\ ~dp_line
    /\ ~attached => Drained

Attached ==
    /\ attached => disp # 0 /\ dp /\ pc \in {"idle"} \cup RdpPcs
    /\ pc \in RdpPcs => attached

Image(place) == Kind(place) = "image"

\* An attached RDP draws in the client's buffer, or has the command to do so
\* before it: no other names a buffer.
Aim ==
    /\ Queued /\ Image(rdp_start) => ring[rdp_start][3] = disp - 1 /\ Drained
    /\ pending # Nothing /\ Image(pending[1]) => ring[pending[1]][3] = disp - 1 /\ active = Nothing
    /\ active # Nothing /\ Image(active[1]) => ring[active[1]][3] = disp - 1
    /\ attached => \/ target = disp - 1
                   \/ Queued /\ Image(rdp_start)
                   \/ pending # Nothing /\ Image(pending[1])
                   \/ active # Nothing /\ Image(active[1])

RdpInv ==
    /\ RdpTypeOK /\ Commands /\ Layout /\ Copied /\ Due /\ Sync /\ Attached /\ Aim

-----------------------------------------------------------------------------
(* Facts about the ring. *)

LEMMA Sizes ==
    /\ RingSize \in Nat /\ Slack \in Nat /\ LongestCommand \in Nat \ {0}
    /\ LongestCommand <= Slack /\ 3 * LongestCommand <= (RingSize - Slack) + 1
    /\ RingSize - Slack \in Nat
BY RdpAssumption

\* What is stored between two places is all that differs.
SameBut(r, s, from, to) == \A w \in Ring : w \notin from .. to - 1 => s[w] = r[w]

\* A run is a pair of places.
LEMMA Pair == \A a, b : <<a, b>> # Nothing /\ <<a, b>>[1] = a /\ <<a, b>>[2] = b
BY DEF Nothing

\* What a unit that names a buffer names.
LEMMA UnitFacts == \A u \in Units : u[1] = "image" => u[3] \in 0 .. 2
BY DEF Units, Empty, Arg

\* Two runs that follow each other have no place in common, nor with the
\* longest command that may come next.
LEMMA RunsApart ==
    ASSUME NEW a \in Nat, NEW b \in Nat, NEW c \in Nat, NEW d \in Nat,
           a < b, b <= a + LongestCommand, a <= RingSize - Slack,
           c < d, d <= c + LongestCommand, c <= RingSize - Slack,
           c = After(b)
    PROVE  /\ b <= c \/ d <= a
           /\ b <= After(d) \/ After(d) + LongestCommand <= a
           /\ d <= After(d) \/ After(d) + LongestCommand <= c
BY Sizes DEF After

LEMMA RunApart ==
    ASSUME NEW a \in Nat, NEW b \in Nat,
           a < b, b <= a + LongestCommand, a <= RingSize - Slack
    PROVE  b <= After(b) \/ After(b) + LongestCommand <= a
BY Sizes DEF After

\* What is unread is no part of what is queued, or will be.
Apart(run, from, to) == run # Nothing => run[2] <= from \/ to <= run[1]

LEMMA UnreadApart ==
    ASSUME RdpTypeOK, Commands, Layout
    PROVE  /\ active # Nothing /\ pending # Nothing =>
                active[2] <= pending[1] \/ pending[2] <= active[1]
           /\ Queued => Apart(active, rdp_start, rdp_end) /\ Apart(pending, rdp_start, rdp_end)
           /\ pc \notin Sending =>
                /\ Apart(active, rdp_end, rdp_end + LongestCommand)
                /\ Apart(pending, rdp_end, rdp_end + LongestCommand)
<1> DEFINE a == active[1]  b == active[2]  c == pending[1]  d == pending[2]
<1>1. rdp_start \in Nat /\ rdp_end \in Nat /\ LongestCommand \in Nat /\ RingSize - Slack \in Nat
    BY Sizes DEF RdpTypeOK
<1>2. active # Nothing =>
        a \in Nat /\ b \in Nat /\ a < b /\ b <= a + LongestCommand /\ a <= RingSize - Slack
    BY <1>1 DEF Commands, IsCommand
<1>3. pending # Nothing =>
        c \in Nat /\ d \in Nat /\ c < d /\ d <= c + LongestCommand /\ c <= RingSize - Slack
    BY <1>1 DEF Commands, IsCommand
<1>4. Queued => rdp_end <= rdp_start + LongestCommand /\ pc # "submitted" /\ pc \in Sending
    BY <1>1 DEF Commands, IsCommand, Queued, Sending
<1>5. pc \notin Sending => rdp_end = rdp_start /\ pc # "submitted"
    BY DEF Commands, Sending
<1> HIDE DEF a, b, c, d
<1>6. CASE active # Nothing /\ pending # Nothing
    <2>1. c = After(b) /\ (pc # "submitted" => rdp_start = After(d))
        BY <1>6 DEF Layout, a, b, c, d
    <2>2. /\ b <= c \/ d <= a
          /\ b <= After(d) \/ After(d) + LongestCommand <= a
          /\ d <= After(d) \/ After(d) + LongestCommand <= c
        BY <1>2, <1>3, <1>6, <2>1, RunsApart
    <2> QED
        BY <1>1, <1>2, <1>3, <1>4, <1>5, <1>6, <2>1, <2>2 DEF Apart, a, b, c, d
<1>7. CASE active # Nothing /\ pending = Nothing
    <2>1. pc # "submitted" => rdp_start = After(b)
        BY <1>7 DEF Layout, b
    <2>2. b <= After(b) \/ After(b) + LongestCommand <= a
        BY <1>2, <1>7, RunApart
    <2> QED
        BY <1>1, <1>2, <1>4, <1>5, <1>7, <2>1, <2>2 DEF Apart, a, b
<1>8. CASE active = Nothing /\ pending # Nothing
    <2>1. pc # "submitted" => rdp_start = After(d)
        BY <1>8 DEF Layout, d
    <2>2. d <= After(d) \/ After(d) + LongestCommand <= c
        BY <1>3, <1>8, RunApart
    <2> QED
        BY <1>1, <1>3, <1>4, <1>5, <1>8, <2>1, <2>2 DEF Apart, c, d
<1>9. CASE active = Nothing /\ pending = Nothing
    BY <1>9 DEF Apart
<1> QED
    BY <1>6, <1>7, <1>8, <1>9

-----------------------------------------------------------------------------
(* Queueing a command. *)

WholeCommand(cmd) ==
    /\ cmd \in Seq(Units) /\ Len(cmd) \in 1 .. LongestCommand
    /\ cmd[1][1] \in {"draw", "image", "sync"} /\ cmd[1][2] = Len(cmd)
    /\ \A m \in 2 .. Len(cmd) : cmd[m] = Arg

LEMMA DrawIsWhole ==
    ASSUME NEW n \in DrawSizes
    PROVE  WholeCommand(DrawCmd(n)) /\ DrawCmd(n)[1][1] = "draw"
<1>1. n \in Nat /\ n >= 1 /\ n <= LongestCommand
    BY RdpAssumption
<1>2. <<"draw", n>> \in Units /\ Arg \in Units
    BY DEF Units
<1>3. /\ <<<<"draw", n>>>> \in Seq(Units) /\ Len(<<<<"draw", n>>>>) = 1
      /\ <<<<"draw", n>>>>[1] = <<"draw", n>>
    BY <1>2
<1>4. /\ [m \in 1 .. n - 1 |-> Arg] \in Seq(Units)
      /\ Len([m \in 1 .. n - 1 |-> Arg]) = n - 1
    BY <1>1, <1>2
<1>5. DrawCmd(n) \in Seq(Units) /\ Len(DrawCmd(n)) = n /\ DrawCmd(n)[1] = <<"draw", n>>
      /\ \A m \in 2 .. n : DrawCmd(n)[m] = Arg
    BY <1>1, <1>3, <1>4 DEF DrawCmd
<1> QED
    BY <1>1, <1>5 DEF WholeCommand

LEMMA ImageIsWhole ==
    ASSUME NEW b \in 0 .. 2
    PROVE  WholeCommand(ImageCmd(b)) /\ ImageCmd(b)[1][1] = "image" /\ ImageCmd(b)[1][3] = b
<1>1. <<"image", 1, b>> \in Units
    BY DEF Units
<1> QED
    BY <1>1, Sizes DEF WholeCommand, ImageCmd

LEMMA SyncIsWhole == WholeCommand(SyncFullCmd) /\ SyncFullCmd[1][1] = "sync"
<1>1. <<"sync", 1>> \in Units
    BY DEF Units
<1> QED
    BY <1>1, Sizes DEF WholeCommand, SyncFullCmd

\* A command always has room, and it goes where nothing unread is.
LEMMA QueueStep ==
    ASSUME RdpTypeOK, Commands, pc \notin Sending, dirty = {},
           NEW cmd, WholeCommand(cmd), Queue(cmd)
    PROVE  /\ rdp_end' = rdp_start + Len(cmd) /\ rdp_end' \in Nat /\ rdp_end' <= RingSize
           /\ ring' \in [Ring -> Units]
           /\ ring'[rdp_start] = cmd[1]
           /\ \A w \in rdp_start + 1 .. rdp_end' - 1 : ring'[w] = Arg
           /\ SameBut(ring, ring', rdp_start, rdp_end')
           /\ dirty' = rdp_start .. rdp_end' - 1
<1> DEFINE len == Len(cmd)
<1>1. /\ rdp_end = rdp_start /\ rdp_start \in Nat /\ rdp_start <= RingSize - Slack
      /\ len \in Nat /\ 1 <= len /\ len <= LongestCommand /\ cmd \in Seq(Units)
    BY Sizes DEF RdpTypeOK, Commands, WholeCommand
<1>2. rdp_end - rdp_start = 0 /\ 0 < RingSize /\ len <= RingSize - 1 - 0
    BY <1>1, Sizes
<1>3. /\ ring' = [w \in Ring |-> IF w \in rdp_start .. rdp_start + len - 1
                                 THEN cmd[w - rdp_start + 1] ELSE ring[w]]
      /\ dirty' = dirty \cup (rdp_start .. rdp_start + len - 1)
      /\ rdp_end' = rdp_start + len
    BY <1>1, <1>2 DEF Queue
<1> HIDE DEF len
<1>4. rdp_end' - 1 = rdp_start + len - 1 /\ rdp_end' \in Nat /\ rdp_end' <= RingSize
    <2>1. rdp_end' = rdp_start + len
        BY <1>3
    <2>2. rdp_start + len <= RingSize
        BY <1>1, Sizes
    <2> QED
        BY <1>1, <2>1, <2>2
<1>5. ring' \in [Ring -> Units]
    <2>1. ASSUME NEW w \in rdp_start .. rdp_start + len - 1
          PROVE  cmd[w - rdp_start + 1] \in Units
        <3>1. w - rdp_start + 1 \in 1 .. len
            BY <1>1
        <3> QED
            BY <1>1, <3>1 DEF len
    <2> QED
        BY <1>3, <2>1 DEF RdpTypeOK
<1>6. ring'[rdp_start] = cmd[1]
    <2>1. rdp_start \in Ring /\ rdp_start \in rdp_start .. rdp_start + len - 1
        BY <1>1, Sizes DEF Ring
    <2>2. rdp_start - rdp_start + 1 = 1
        BY <1>1
    <2> QED
        BY <1>3, <2>1, <2>2
<1>7. SameBut(ring, ring', rdp_start, rdp_end')
    BY <1>3, <1>4 DEF SameBut
<1>8. \A w \in rdp_start + 1 .. rdp_end' - 1 : ring'[w] = Arg
    <2> SUFFICES ASSUME NEW w \in rdp_start + 1 .. rdp_start + len - 1 PROVE ring'[w] = Arg
        BY <1>4
    <2>1. /\ w \in Ring /\ w \in rdp_start .. rdp_start + len - 1
          /\ w - rdp_start + 1 \in 2 .. len
        BY <1>1, Sizes DEF Ring
    <2>2. cmd[w - rdp_start + 1] = Arg
        BY <2>1 DEF WholeCommand, len
    <2> QED
        BY <1>3, <2>1, <2>2
<1> QED
    BY <1>3, <1>4, <1>5, <1>6, <1>7, <1>8 DEF len

-----------------------------------------------------------------------------
(* What a step leaves of the unread commands. *)

\* A command that lies apart from what is stored stays one.
LEMMA KeptCommand ==
    ASSUME NEW r, NEW s, NEW a \in Nat, NEW b \in Nat, b <= RingSize, IsCommand(r, a, b),
           NEW from \in Nat, NEW to \in Nat, b <= from \/ to <= a,
           SameBut(r, s, from, to)
    PROVE  IsCommand(s, a, b) /\ s[a] = r[a] /\ \A w \in a .. b - 1 : s[w] = r[w]
<1>1. a < b
    BY Sizes DEF IsCommand
<1>2. \A w \in a .. b - 1 : w \in Ring /\ w \notin from .. to - 1
    BY <1>1, Sizes DEF Ring
<1>3. \A w \in a .. b - 1 : s[w] = r[w]
    BY <1>2 DEF SameBut
<1>4. s[a] = r[a]
    BY <1>1, <1>3
<1>5. \A w \in a + 1 .. b - 1 : s[w] = Arg
    <2>1. \A w \in a + 1 .. b - 1 : w \in a .. b - 1 /\ r[w] = Arg
        BY DEF IsCommand
    <2> QED
        BY <1>3, <2>1
<1> QED
    BY <1>3, <1>4, <1>5 DEF IsCommand

\* So the registers' commands and what is due of them do, whatever is stored
\* elsewhere.
LEMMA KeptUnread ==
    ASSUME RdpTypeOK, Commands, Due, UNCHANGED <<active, pending, due>>,
           NEW from \in Nat, NEW to \in Nat, Apart(active, from, to), Apart(pending, from, to),
           SameBut(ring, ring', from, to)
    PROVE  /\ Due'
           /\ active # Nothing =>
                IsCommand(ring', active[1], active[2]) /\ ring'[active[1]] = ring[active[1]]
           /\ pending # Nothing =>
                IsCommand(ring', pending[1], pending[2]) /\ ring'[pending[1]] = ring[pending[1]]
<1>1. active # Nothing =>
        /\ active[1] \in Nat /\ active[2] \in Nat /\ active[2] <= RingSize
        /\ active[1] < active[2] /\ IsCommand(ring, active[1], active[2])
    BY Sizes DEF RdpTypeOK, Runs, Commands, IsCommand
<1>2. pending # Nothing =>
        /\ pending[1] \in Nat /\ pending[2] \in Nat /\ pending[2] <= RingSize
        /\ pending[1] < pending[2] /\ IsCommand(ring, pending[1], pending[2])
    BY Sizes DEF RdpTypeOK, Runs, Commands, IsCommand
<1>3. active # Nothing =>
        /\ IsCommand(ring', active[1], active[2]) /\ ring'[active[1]] = ring[active[1]]
        /\ \A w \in active[1] .. active[2] - 1 : ring'[w] = ring[w]
    <2> SUFFICES ASSUME active # Nothing
                 PROVE  /\ IsCommand(ring', active[1], active[2]) /\ ring'[active[1]] = ring[active[1]]
                        /\ \A w \in active[1] .. active[2] - 1 : ring'[w] = ring[w]
        OBVIOUS
    <2>1. active[2] <= from \/ to <= active[1]
        BY DEF Apart
    <2> DEFINE a == active[1]  b == active[2]
    <2>2. /\ a \in Nat /\ b \in Nat /\ b <= RingSize /\ IsCommand(ring, a, b)
          /\ b <= from \/ to <= a
        BY <1>1, <2>1
    <2> HIDE DEF a, b
    <2>3. /\ IsCommand(ring', a, b) /\ ring'[a] = ring[a]
          /\ \A w \in a .. b - 1 : ring'[w] = ring[w]
        BY <2>2, KeptCommand
    <2> QED
        BY <2>3 DEF a, b
<1>4. pending # Nothing =>
        /\ IsCommand(ring', pending[1], pending[2]) /\ ring'[pending[1]] = ring[pending[1]]
        /\ \A w \in pending[1] .. pending[2] - 1 : ring'[w] = ring[w]
    <2> SUFFICES ASSUME pending # Nothing
                 PROVE  /\ IsCommand(ring', pending[1], pending[2])
                        /\ ring'[pending[1]] = ring[pending[1]]
                        /\ \A w \in pending[1] .. pending[2] - 1 : ring'[w] = ring[w]
        OBVIOUS
    <2>1. pending[2] <= from \/ to <= pending[1]
        BY DEF Apart
    <2> DEFINE a == pending[1]  b == pending[2]
    <2>2. /\ a \in Nat /\ b \in Nat /\ b <= RingSize /\ IsCommand(ring, a, b)
          /\ b <= from \/ to <= a
        BY <1>2, <2>1
    <2> HIDE DEF a, b
    <2>3. /\ IsCommand(ring', a, b) /\ ring'[a] = ring[a]
          /\ \A w \in a .. b - 1 : ring'[w] = ring[w]
        BY <2>2, KeptCommand
    <2> QED
        BY <2>3 DEF a, b
<1>5. \A n \in 1 .. Length(active) : due[n] = ring'[active[1] + n - 1]
    <2> SUFFICES ASSUME NEW n \in 1 .. Length(active) PROVE due[n] = ring'[active[1] + n - 1]
        OBVIOUS
    <2>1. active # Nothing /\ Length(active) = active[2] - active[1]
        BY DEF Length
    <2>2. active[1] + n - 1 \in active[1] .. active[2] - 1
        BY <1>1, <2>1
    <2> QED
        BY <1>3, <2>1, <2>2 DEF Due
<1>6. \A n \in 1 .. Length(pending) : due[Length(active) + n] = ring'[pending[1] + n - 1]
    <2> SUFFICES ASSUME NEW n \in 1 .. Length(pending)
                 PROVE  due[Length(active) + n] = ring'[pending[1] + n - 1]
        OBVIOUS
    <2>1. pending # Nothing /\ Length(pending) = pending[2] - pending[1]
        BY DEF Length
    <2>2. pending[1] + n - 1 \in pending[1] .. pending[2] - 1
        BY <1>2, <2>1
    <2> QED
        BY <1>4, <2>1, <2>2 DEF Due
<1>7. Due'
    BY <1>5, <1>6 DEF Due, Length
<1> QED
    BY <1>3, <1>4, <1>7

-----------------------------------------------------------------------------
(* The steps.  First those that neither queue nor read. *)

LEMMA FlagStep ==
    ASSUME RdpInv, disp' = disp,
           \/ SendDisable \/ DetachClear \/ DetachWait \/ DetachDone
           \/ DP_handler \/ rdp_init \/ rdp_close
    PROVE  RdpInv'
<1> DEFINE Action == \/ SendDisable \/ DetachClear \/ DetachWait \/ DetachDone
                     \/ DP_handler \/ rdp_init \/ rdp_close
<1> USE DEF Queued, Sending, RdpPcs, Drained, SyncGiven, Kind, Image
<1>a. Action
    OBVIOUS
<1>1. /\ UNCHANGED <<ring, dirty, pending, active, target, due>>
      /\ then' = then /\ then \in {"idle", "waitintr", "detached"}
    BY <1>a DEF RdpInv, RdpTypeOK, SendDisable, DetachClear, DetachWait, DetachDone, DP_handler,
                rdp_init, rdp_close, rdpVars, processor
<1>2. /\ wait_intr \in BOOLEAN /\ dp \in BOOLEAN /\ attached \in BOOLEAN /\ dp_line \in BOOLEAN
    BY DEF RdpInv, RdpTypeOK
<1>3. /\ wait_intr' \in BOOLEAN /\ dp' \in BOOLEAN /\ attached' \in BOOLEAN /\ dp_line' \in BOOLEAN
    BY <1>a, <1>2, Zenon DEF SendDisable, DetachClear, DetachWait, DetachDone, DP_handler,
                rdp_init, rdp_close, rdpVars, processor
<1>4. \/ UNCHANGED <<rdp_start, rdp_end>>
      \/ rdp_start' = 0 /\ rdp_end' = 0 /\ Drained /\ UNCHANGED pc /\ pc \notin Sending /\ dirty = {}
    BY <1>a DEF RdpInv, Sync, Attached, Copied, SendDisable, DetachClear, DetachWait, DetachDone,
                DP_handler, rdp_init, rdp_close, rdpVars, processor
<1>5. \/ UNCHANGED pc
      \/ pc = "sendwait" /\ pc' = "submit" /\ pending = Nothing
      \/ pc = "idle" /\ pc' = "detach" /\ attached /\ attached' /\ wait_intr' = FALSE /\ UNCHANGED dp_line
      \/ pc = "waitintr" /\ pc' = "detached" /\ wait_intr /\ UNCHANGED <<attached, wait_intr, dp_line>>
      \/ pc = "detached" /\ pc' = "idle" /\ attached' = FALSE /\ wait_intr' = FALSE /\ UNCHANGED dp_line
    BY <1>a DEF SendDisable, DetachClear, DetachWait, DetachDone, DP_handler,
                rdp_init, rdp_close, Goto, Saturated, rdpVars, processor
<1>6. RdpTypeOK'
    <2>1. rdp_start' \in 0 .. RingSize - Slack /\ rdp_end' \in rdp_start' .. RingSize
        BY <1>4, Sizes DEF RdpInv, RdpTypeOK
    <2> QED
        BY <1>1, <1>3, <2>1 DEF RdpInv, RdpTypeOK
<1>7. Commands'
    BY <1>1, <1>4, <1>5 DEF RdpInv, Commands
<1>8. Layout'
    BY <1>1, <1>4, <1>5 DEF RdpInv, Layout
<1>9. Copied'
    BY <1>1, <1>4, <1>5 DEF RdpInv, Copied
<1>10. Due'
    BY <1>1 DEF RdpInv, Due, Length
<1>11. Sync'
    <2> USE DEF RdpInv, Sync
    <2>1. CASE SendDisable
        BY <1>1, <2>1 DEF SendDisable, Goto, rdpVars
    <2>2. CASE DetachClear
        BY <1>1, <2>2 DEF DetachClear, Goto, processor
    <2>3. CASE DetachWait
        BY <1>1, <2>3 DEF DetachWait, Goto, rdpVars
    <2>4. CASE DetachDone
        BY <1>1, <2>4 DEF DetachDone, Goto, processor
    <2>5. CASE DP_handler
        BY <1>1, <2>5 DEF DP_handler
    <2>6. CASE rdp_init \/ rdp_close
        <3>1. Drained /\ pc = "idle" /\ UNCHANGED <<pc, wait_intr, dp_line, attached>>
            BY <2>6 DEF Attached, rdp_init, rdp_close, processor
        <3> QED
            BY <1>1, <3>1
    <2> QED
        BY <1>a, <2>1, <2>2, <2>3, <2>4, <2>5, <2>6
<1>12. Attached'
    BY <1>a, <1>5 DEF RdpInv, Attached, SendDisable, DetachClear, DetachWait, DetachDone,
                DP_handler, rdp_init, rdp_close, Goto, rdpVars
<1>13. Aim'
    <2>1. attached' => attached
        BY <1>a DEF SendDisable, DetachClear, DetachWait, DetachDone,
                DP_handler, rdp_init, rdp_close, rdpVars
    <2> QED
        BY <1>1, <1>4, <1>5, <2>1 DEF RdpInv, Aim, Sync
<1> QED
    BY <1>6, <1>7, <1>8, <1>9, <1>10, <1>11, <1>12, <1>13 DEF RdpInv

\* A command is queued: an image before all others, a SYNC_FULL after them.
LEMMA QueueInv ==
    ASSUME RdpInv, disp' = disp, disp # 0, dp, NEW cmd, WholeCommand(cmd), Queue(cmd),
           pc \in {"idle", "detach"}, pc' = "send", then' \in {"idle", "waitintr"},
           UNCHANGED <<rdp_start, wait_intr, dp, processor>>, attached' = TRUE,
           cmd[1][1] = "sync" <=> then' = "waitintr",
           cmd[1][1] = "image" => cmd[1][3] = disp - 1 /\ Drained,
           ~attached => cmd[1][1] = "image"
    PROVE  RdpInv'
<1> USE DEF Queued, Sending, RdpPcs, Drained, SyncGiven, Kind, Image, processor
<1>1. RdpTypeOK /\ Commands /\ Layout /\ Copied /\ Due /\ Sync /\ Attached /\ Aim
    BY DEF RdpInv
<1>2. /\ rdp_end' = rdp_start + Len(cmd) /\ rdp_end' \in Nat /\ rdp_end' <= RingSize
      /\ ring' \in [Ring -> Units]
      /\ ring'[rdp_start] = cmd[1]
      /\ \A w \in rdp_start + 1 .. rdp_end' - 1 : ring'[w] = Arg
      /\ SameBut(ring, ring', rdp_start, rdp_end')
      /\ dirty' = rdp_start .. rdp_end' - 1
    BY <1>1, QueueStep DEF Copied
<1>3. /\ rdp_start \in Nat /\ rdp_start <= RingSize - Slack /\ rdp_end = rdp_start
      /\ Len(cmd) \in Nat /\ 1 <= Len(cmd) /\ Len(cmd) <= LongestCommand
    BY <1>1, Sizes DEF RdpTypeOK, Commands, WholeCommand
<1>4. /\ active # Nothing => active[2] <= rdp_start \/ rdp_start + LongestCommand <= active[1]
      /\ pending # Nothing => pending[2] <= rdp_start \/ rdp_start + LongestCommand <= pending[1]
    BY <1>1, <1>3, UnreadApart DEF Apart
<1>5. Apart(active, rdp_start, rdp_end') /\ Apart(pending, rdp_start, rdp_end')
    <2>1. active # Nothing => active[1] \in Nat /\ active[2] \in Nat
        BY <1>1 DEF RdpTypeOK, Runs, Ring
    <2>2. pending # Nothing => pending[1] \in Nat /\ pending[2] \in Nat
        BY <1>1 DEF RdpTypeOK, Runs, Ring
    <2>3. rdp_end' \in Nat /\ rdp_end' <= rdp_start + LongestCommand
        BY <1>2, <1>3, Sizes
    <2> QED
        BY <1>3, <1>4, <2>1, <2>2, <2>3, Sizes DEF Apart
<1>6. /\ Due'
      /\ active # Nothing =>
            IsCommand(ring', active[1], active[2]) /\ ring'[active[1]] = ring[active[1]]
      /\ pending # Nothing =>
            IsCommand(ring', pending[1], pending[2]) /\ ring'[pending[1]] = ring[pending[1]]
    BY <1>1, <1>2, <1>3, <1>5, KeptUnread
<1>7. IsCommand(ring', rdp_start, rdp_end')
    <2>1. rdp_end' - rdp_start = Len(cmd) /\ rdp_end' <= rdp_start + LongestCommand
          /\ rdp_start + 1 <= rdp_end'
        <3> DEFINE len == Len(cmd)  e == rdp_end'
        <3>1. /\ e = rdp_start + len /\ rdp_start \in Nat /\ len \in Nat
              /\ 1 <= len /\ len <= LongestCommand
            BY <1>2, <1>3
        <3> HIDE DEF len, e
        <3>2. e - rdp_start = len /\ e <= rdp_start + LongestCommand /\ rdp_start + 1 <= e
            BY <3>1, Sizes
        <3> QED
            BY <3>2 DEF len, e
    <2> QED
        BY <1>2, <1>3, <2>1, Sizes DEF IsCommand, WholeCommand
<1>8. RdpTypeOK'
    <2>1. wait_intr' \in BOOLEAN /\ dp' \in BOOLEAN /\ attached' \in BOOLEAN /\ dp_line' \in BOOLEAN
        <3>1. wait_intr \in BOOLEAN /\ dp \in BOOLEAN /\ dp_line \in BOOLEAN
            BY <1>1 DEF RdpTypeOK
        <3> QED
            BY <3>1, Zenon
    <2>2. rdp_start \in 0 .. RingSize - Slack /\ rdp_end' \in rdp_start .. RingSize
        BY <1>2, <1>3, Sizes
    <2>3. dirty' \subseteq Ring
        BY <1>2, <1>3, Sizes DEF Ring
    <2> QED
        BY <1>1, <1>2, <2>1, <2>2, <2>3 DEF RdpTypeOK
<1>9. Commands'
    BY <1>6, <1>7 DEF Commands
<1>10. Layout'
    BY <1>1 DEF Layout
<1>11. Copied'
    BY <1>2 DEF Copied
<1>12. Sync'
    BY <1>1, <1>2, <1>6, Zenon DEF Sync
<1>13. Attached'
    BY <1>1 DEF Attached
<1>14. Aim'
    <2>1. CASE ~attached
        BY <1>1, <1>2, <2>1 DEF Aim, Sync
    <2>2. CASE attached
        BY <1>1, <1>2, <1>6, <2>2 DEF Aim
    <2> QED
        BY <2>1, <2>2
<1> QED
    BY <1>6, <1>8, <1>9, <1>10, <1>11, <1>12, <1>13, <1>14 DEF RdpInv

LEMMA CommandStep ==
    ASSUME RdpInv, disp \in 0 .. 3, disp' = disp,
           (disp # 0 /\ Attach(disp - 1)) \/ Draw \/ DetachSync
    PROVE  RdpInv'
<1>1. Attached /\ Sync /\ then \in {"idle", "waitintr", "detached"}
    BY DEF RdpInv, RdpTypeOK
<1>2. CASE disp # 0 /\ Attach(disp - 1)
    <2>1. disp - 1 \in 0 .. 2
        BY <1>2
    <2>2. /\ WholeCommand(ImageCmd(disp - 1)) /\ ImageCmd(disp - 1)[1][1] = "image"
          /\ ImageCmd(disp - 1)[1][3] = disp - 1
        BY <2>1, ImageIsWhole
    <2>3. Drained
        BY <1>1, <1>2 DEF Attach, Sync
    <2>4. /\ Queue(ImageCmd(disp - 1)) /\ pc = "idle" /\ pc' = "send" /\ then' = "idle"
          /\ UNCHANGED <<rdp_start, wait_intr, dp, processor>> /\ attached' = TRUE /\ dp
        BY <1>2, Zenon DEF Attach, Command, Goto
    <2> QED
        BY <1>2, <2>2, <2>3, <2>4, QueueInv
<1>3. CASE Draw
    <2>1. PICK n \in DrawSizes : Command("idle", DrawCmd(n), "idle")
        BY <1>3 DEF Draw
    <2>2. WholeCommand(DrawCmd(n)) /\ DrawCmd(n)[1][1] = "draw"
        BY DrawIsWhole
    <2>3. attached /\ disp # 0 /\ dp
        BY <1>1, <1>3 DEF Draw, Attached
    <2>4. attached' = TRUE
        BY <1>3, <2>3 DEF Draw, RdpInv, RdpTypeOK
    <2>5. /\ Queue(DrawCmd(n)) /\ pc = "idle" /\ pc' = "send" /\ then' = "idle"
          /\ UNCHANGED <<rdp_start, wait_intr, dp, processor>>
        BY <1>3, <2>1, Zenon DEF Draw, Command, Goto
    <2> QED
        BY <2>2, <2>3, <2>4, <2>5, QueueInv
<1>4. CASE DetachSync
    <2>1. WholeCommand(SyncFullCmd) /\ SyncFullCmd[1][1] = "sync"
        BY SyncIsWhole
    <2>2. pc = "detach"
        BY <1>4 DEF DetachSync, Command, Goto
    <2>3. attached /\ disp # 0 /\ dp
        BY <1>1, <2>2 DEF Attached, RdpPcs
    <2>4. attached' = TRUE
        BY <1>4, <2>3 DEF DetachSync, RdpInv, RdpTypeOK
    <2>5. /\ Queue(SyncFullCmd) /\ pc' = "send" /\ then' = "waitintr"
          /\ UNCHANGED <<rdp_start, wait_intr, dp, processor>>
        BY <1>4, Zenon DEF DetachSync, Command, Goto, AfterSync
    <2> QED
        BY <2>1, <2>2, <2>3, <2>4, <2>5, QueueInv
<1> QED
    BY <1>2, <1>3, <1>4

LEMMA LengthFacts ==
    ASSUME Commands
    PROVE  /\ Length(active) \in Nat /\ Length(pending) \in Nat
           /\ active # Nothing => Length(active) > 0
           /\ pending # Nothing => Length(pending) > 0
BY Sizes DEF Commands, IsCommand, Length

\* A command goes from the cache to memory, and to the RDP.
LEMMA SendStep ==
    ASSUME RdpInv, disp' = disp, then \in {"idle", "waitintr"}, Writeback \/ Submit \/ Submitted
    PROVE  RdpInv'
<1> USE DEF Queued, Sending, RdpPcs, Drained, SyncGiven, Kind, Image
<1>1. RdpTypeOK /\ Commands /\ Layout /\ Copied /\ Due /\ Sync /\ Attached /\ Aim
    BY DEF RdpInv
<1>2. /\ wait_intr \in BOOLEAN /\ dp \in BOOLEAN /\ attached \in BOOLEAN /\ dp_line \in BOOLEAN
      /\ UNCHANGED <<wait_intr, dp, attached, dp_line>>
    BY <1>1, Zenon DEF RdpTypeOK, Writeback, Submit, Submitted, processor, program
<1>3. /\ rdp_start \in Nat /\ rdp_end \in Nat /\ rdp_start <= RingSize - Slack /\ rdp_end <= RingSize
      /\ rdp_start <= rdp_end
    BY <1>1, Sizes DEF RdpTypeOK
<1>4. CASE Writeback
    <2>1. rdp_start < rdp_end
        BY <1>1, <1>3, <1>4, Sizes DEF Writeback, Commands, IsCommand
    <2>2. /\ pc = "send" /\ pc' = "sendwait" /\ dirty' = dirty \ (rdp_start .. rdp_end - 1)
          /\ UNCHANGED <<ring, rdp_start, rdp_end, then, pending, active, target, due>>
        BY <1>3, <1>4, <2>1 DEF Writeback, WrittenBack, processor
    <2>3. dirty' = {}
        BY <1>1, <2>2 DEF Copied
    <2>4. RdpTypeOK'
        BY <1>1, <1>2, <2>2, <2>3 DEF RdpTypeOK
    <2>5. Commands' /\ Layout' /\ Copied' /\ Due'
        BY <1>1, <2>2, <2>3 DEF Commands, Layout, Copied, Due, Length
    <2>6. Sync' /\ Attached' /\ Aim'
        BY <1>1, <1>2, <2>2 DEF Sync, Attached, Aim
    <2> QED
        BY <2>4, <2>5, <2>6 DEF RdpInv
<1>5. CASE Submit
    <2> DEFINE s == rdp_start  e == rdp_end
               cells == [n \in 1 .. rdp_end - rdp_start |-> ring[rdp_start + n - 1]]
    <2>1. /\ pc = "submit" /\ pc' = "submitted" /\ pending = Nothing /\ pending' = <<s, e>>
          /\ due' = due \o cells
          /\ UNCHANGED <<ring, dirty, s, e, then, active, target>>
        BY <1>5 DEF Submit, Saturated, Goto, program
    <2>2. /\ IsCommand(ring, s, e) /\ s < e /\ e <= s + LongestCommand
          /\ pending'[1] = s /\ pending'[2] = e /\ pending' # Nothing
        BY <1>1, <1>3, <2>1, Pair, Sizes DEF Commands, IsCommand
    <2>3. ~wait_intr /\ ~dp_line
        BY <1>1, <2>1 DEF Sync
    <2>4. RdpTypeOK'
        <3>1. pending' \in Runs
            BY <1>3, <2>1, <2>2, Sizes DEF Runs, Ring
        <3> QED
            BY <1>1, <1>2, <2>1, <3>1 DEF RdpTypeOK
    <2>5. Commands' /\ Layout' /\ Copied'
        BY <1>1, <1>3, <2>1, <2>2 DEF Commands, Layout, Copied
    <2>6. Due'
        <3>1. cells \in Seq(Units) /\ Len(cells) = e - s
              /\ \A n \in 1 .. e - s : cells[n] = ring[s + n - 1]
            <4>1. ASSUME NEW n \in 1 .. e - s PROVE ring[s + n - 1] \in Units
                <5>1. s + n - 1 \in Ring
                    BY <1>3, Sizes DEF Ring
                <5> QED
                    BY <1>1, <5>1 DEF RdpTypeOK
            <4> QED
                BY <1>3, <2>2, <4>1
        <3>a. Length(active) \in Nat /\ Length(active)' = Length(active)
            BY <1>1, <2>1, LengthFacts DEF Length
        <3>2. /\ due \in Seq(Units) /\ Len(due) = Length(active)
              /\ Length(pending)' = e - s
              /\ \A n \in 1 .. Length(active) : due[n] = ring[active[1] + n - 1]
            <4>1. Length(pending) = 0 /\ Length(pending)' = e - s
                BY <2>1, <2>2 DEF Length
            <4> QED
                BY <1>1, <3>a, <4>1 DEF Due
        <3> HIDE DEF cells
        <3>3. /\ due' \in Seq(Units) /\ Len(due') = Length(active) + (e - s)
              /\ \A n \in 1 .. Length(active) : due'[n] = due[n]
              /\ \A n \in 1 .. e - s : due'[Length(active) + n] = cells[n]
            <4>1. e - s \in Nat /\ due' = due \o cells
                BY <1>3, <2>1
            <4>2. /\ due \o cells \in Seq(Units) /\ Len(due \o cells) = Len(due) + Len(cells)
                  /\ \A n \in 1 .. Len(due) : (due \o cells)[n] = due[n]
                  /\ \A n \in 1 .. Len(cells) : (due \o cells)[Len(due) + n] = cells[n]
                <5>1. due \in Seq(Units) /\ cells \in Seq(Units)
                    BY <3>1, <3>2
                <5> QED
                    BY <5>1
            <4> QED
                BY <3>1, <3>2, <4>1, <4>2
        <3>4. \A n \in 1 .. Length(active)' : due'[n] = ring'[active'[1] + n - 1]
            BY <2>1, <3>a, <3>2, <3>3
        <3>5. \A n \in 1 .. Length(pending)' :
                due'[Length(active)' + n] = ring'[pending'[1] + n - 1]
            BY <2>1, <2>2, <3>a, <3>1, <3>2, <3>3
        <3> QED
            <4>1. due' \in Seq(Units) /\ Len(due') = Length(active)' + Length(pending)'
                BY <3>a, <3>2, <3>3
            <4> QED
                BY <3>4, <3>5, <4>1 DEF Due
    <2>7. Sync'
        <3>1. ~wait_intr' /\ ~dp_line'
            BY <1>2, <2>3
        <3>2. attached /\ attached'
            BY <1>1, <1>2, <2>1 DEF Attached
        <3>3. Kind(rdp_start) = "sync" <=> then = "waitintr"
            BY <1>1, <2>1 DEF Sync
        <3>4. active # Nothing => Kind(active[1]) # "sync"
            BY <1>1, <2>1 DEF Sync
        <3> QED
            BY <2>1, <2>2, <3>1, <3>2, <3>3, <3>4 DEF Sync
    <2>8. Attached' /\ Aim'
        BY <1>1, <1>2, <2>1, <2>2 DEF Attached, Aim
    <2> QED
        BY <2>4, <2>5, <2>6, <2>7, <2>8 DEF RdpInv
<1>6. CASE Submitted
    <2>1. /\ pc = "submitted" /\ pc' = then /\ then' = "idle"
          /\ rdp_start' = After(rdp_end) /\ rdp_end' = After(rdp_end)
          /\ UNCHANGED <<ring, dirty, pending, active, target, due>>
        BY <1>6 DEF Submitted, WrapsAround, Goto, After, processor
    <2>2. After(rdp_end) \in 0 .. RingSize - Slack /\ RingSize - Slack <= RingSize
        BY <1>3, Sizes DEF After
    <2>3. RdpTypeOK'
        BY <1>1, <1>2, <2>1, <2>2, Sizes DEF RdpTypeOK
    <2>4. Commands' /\ Copied' /\ Due'
        BY <1>1, <2>1 DEF Commands, Copied, Due, Length
    <2>5. Layout'
        <3>1. /\ pending # Nothing => pending[2] = rdp_end
              /\ active # Nothing /\ pending = Nothing => active[2] = rdp_end
            BY <1>1, <2>1, Pair DEF Layout
        <3> QED
            BY <1>1, <2>1, <3>1 DEF Layout, After
    <2>6. Sync' /\ Attached' /\ Aim'
        BY <1>1, <1>2, <2>1 DEF Sync, Attached, Aim
    <2> QED
        BY <2>3, <2>4, <2>5, <2>6 DEF RdpInv
<1> QED
    BY <1>4, <1>5, <1>6

\* The RDP takes the run that waits, and executes it.
LEMMA TakeStep == ASSUME RdpInv, disp' = disp, Take PROVE RdpInv'
<1> USE DEF Queued, Sending, RdpPcs, Drained, SyncGiven, Kind, Image
<1>1. RdpTypeOK /\ Commands /\ Layout /\ Copied /\ Due /\ Sync /\ Attached /\ Aim
    BY DEF RdpInv
<1>2. /\ active = Nothing /\ pending # Nothing /\ active' = pending /\ pending' = Nothing
      /\ UNCHANGED <<pc, ring, dirty, rdp_start, rdp_end, wait_intr, dp, then, attached,
                     target, dp_line, due>>
    BY DEF Take, program
<1>3. RdpTypeOK'
    <2>1. active' \in Runs /\ pending' \in Runs
        BY <1>1, <1>2 DEF RdpTypeOK, Runs
    <2> QED
        BY <1>1, <1>2, <2>1 DEF RdpTypeOK
<1>4. Commands' /\ Layout' /\ Copied'
    BY <1>1, <1>2 DEF Commands, Layout, Copied
<1>5. Due'
    <2>1. /\ Length(active) = 0 /\ Length(pending)' = 0
          /\ Length(active)' = Length(pending) /\ Length(pending) \in Nat
        BY <1>1, <1>2, LengthFacts DEF Length
    <2>2. \A n \in 1 .. Length(pending) : due[n] = ring[pending[1] + n - 1]
        BY <1>1, <2>1 DEF Due
    <2>3. due \in Seq(Units) /\ Len(due) = Length(pending)
        BY <1>1, <2>1 DEF Due
    <2> QED
        BY <1>2, <2>1, <2>2, <2>3 DEF Due
<1>6. Sync' /\ Attached' /\ Aim'
    BY <1>1, <1>2 DEF Sync, Attached, Aim
<1> QED
    BY <1>3, <1>4, <1>5, <1>6 DEF RdpInv

LEMMA ExecuteStep == ASSUME RdpInv, disp' = disp, Execute PROVE RdpInv'
<1> USE DEF Queued, Sending, RdpPcs, Drained, SyncGiven, Kind, Image
<1> DEFINE a == active[1]  b == active[2]  cmd == ring[a]
<1>1. RdpTypeOK /\ Commands /\ Layout /\ Copied /\ Due /\ Sync /\ Attached /\ Aim
    BY DEF RdpInv
<1>2. /\ active # Nothing /\ a \in Nat /\ b \in Nat /\ a < b /\ b <= RingSize /\ a \in Ring
      /\ IsCommand(ring, a, b) /\ cmd[2] = b - a /\ a + cmd[2] = b /\ Length(active) = b - a
      /\ cmd \in Units
    <2>1. active # Nothing
        BY DEF Execute
    <2>2. a \in Ring /\ b <= RingSize /\ IsCommand(ring, a, b)
        BY <1>1, <2>1 DEF RdpTypeOK, Runs, Commands
    <2>3. a \in Nat /\ b \in Nat /\ a < b /\ cmd[2] = b - a
        BY <2>2, Sizes DEF IsCommand
    <2>4. cmd \in Units
        BY <1>1, <2>2 DEF RdpTypeOK
    <2> QED
        BY <2>1, <2>2, <2>3, <2>4 DEF Length
<1>3. /\ active' = Nothing /\ due' = SubSeq(due, cmd[2] + 1, Len(due))
      /\ target' = IF cmd[1] = "image" THEN cmd[3] ELSE target
      /\ dp_line' = (dp_line \/ cmd[1] = "sync")
      /\ ring' = [w \in Ring |-> IF w \in a .. a + cmd[2] - 1 THEN Empty ELSE ring[w]]
      /\ UNCHANGED <<pc, dirty, rdp_start, rdp_end, wait_intr, dp, then, attached, pending>>
    BY <1>2 DEF Execute
<1>4. SameBut(ring, ring', a, b)
    <2>1. a + cmd[2] - 1 = b - 1
        BY <1>2
    <2> QED
        BY <1>3, <2>1 DEF SameBut
<1>5. cmd[1] = "image" => cmd[3] = disp - 1 /\ cmd[3] \in 0 .. 2
    BY <1>1, <1>2, UnitFacts DEF Aim
<1> HIDE DEF cmd, a, b
<1>6. pending # Nothing =>
        /\ pending[1] \in Nat /\ pending[2] \in Nat /\ pending[1] < pending[2]
        /\ IsCommand(ring', pending[1], pending[2]) /\ ring'[pending[1]] = ring[pending[1]]
        /\ \A w \in pending[1] .. pending[2] - 1 : ring'[w] = ring[w]
    <2> SUFFICES ASSUME pending # Nothing
                 PROVE  /\ pending[1] \in Nat /\ pending[2] \in Nat /\ pending[1] < pending[2]
                        /\ IsCommand(ring', pending[1], pending[2])
                        /\ ring'[pending[1]] = ring[pending[1]]
                        /\ \A w \in pending[1] .. pending[2] - 1 : ring'[w] = ring[w]
        OBVIOUS
    <2> DEFINE c == pending[1]  d == pending[2]
    <2>1. c \in Nat /\ d \in Nat /\ d <= RingSize /\ IsCommand(ring, c, d) /\ c < d
        BY <1>1, Sizes DEF RdpTypeOK, Runs, Commands, IsCommand
    <2>2. d <= a \/ b <= c
        BY <1>1, <1>2, UnreadApart DEF a, b
    <2> HIDE DEF c, d
    <2>3. /\ IsCommand(ring', c, d) /\ ring'[c] = ring[c]
          /\ \A w \in c .. d - 1 : ring'[w] = ring[w]
        <3>1. a \in Nat /\ b \in Nat
            BY <1>2
        <3> QED
            BY <1>4, <2>1, <2>2, <3>1, KeptCommand
    <2> QED
        BY <2>1, <2>3 DEF c, d
<1>7. Queued => IsCommand(ring', rdp_start, rdp_end) /\ ring'[rdp_start] = ring[rdp_start]
    <2> SUFFICES ASSUME Queued
                 PROVE  IsCommand(ring', rdp_start, rdp_end) /\ ring'[rdp_start] = ring[rdp_start]
        OBVIOUS
    <2>1. /\ rdp_start \in Nat /\ rdp_end \in Nat /\ rdp_end <= RingSize
          /\ IsCommand(ring, rdp_start, rdp_end)
        BY <1>1, Sizes DEF RdpTypeOK, Commands
    <2>2. rdp_end <= a \/ b <= rdp_start
        BY <1>1, <1>2, UnreadApart DEF Apart, a, b
    <2> QED
        BY <1>2, <1>4, <2>1, <2>2, KeptCommand
<1>8. ~dp_line /\ ~wait_intr /\ pc # "detached" /\ attached
    BY <1>1, <1>2 DEF Sync
<1>9. RdpTypeOK'
    <2>1. wait_intr' \in BOOLEAN /\ dp' \in BOOLEAN /\ attached' \in BOOLEAN /\ dp_line' \in BOOLEAN
        BY <1>1, <1>3, Zenon DEF RdpTypeOK
    <2>2. ring' \in [Ring -> Units]
        <3>1. Empty \in Units
            BY DEF Units
        <3> QED
            BY <1>1, <1>3, <3>1 DEF RdpTypeOK
    <2>3. active' \in Runs /\ target' \in -1 .. 2
        BY <1>1, <1>3, <1>5 DEF RdpTypeOK, Runs
    <2> QED
        BY <1>1, <1>3, <2>1, <2>2, <2>3 DEF RdpTypeOK
<1>10. Commands'
    BY <1>1, <1>3, <1>6, <1>7 DEF Commands
<1>11. Layout' /\ Copied'
    BY <1>1, <1>3 DEF Layout, Copied
<1>12. Due'
    <2> DEFINE k == b - a  p == Length(pending)
    <2>1. /\ k \in Nat /\ p \in Nat /\ cmd[2] = k /\ due \in Seq(Units) /\ Len(due) = k + p
          /\ \A n \in 1 .. p : due[k + n] = ring[pending[1] + n - 1]
        BY <1>1, <1>2, LengthFacts DEF Due
    <2>2. Length(active)' = 0 /\ Length(pending)' = p
        BY <1>3 DEF Length
    <2>3. pending # Nothing => p = pending[2] - pending[1]
        BY DEF Length
    <2>4. pending = Nothing => p = 0
        BY DEF Length
    <2> HIDE DEF k, p
    <2>5. due' = SubSeq(due, k + 1, k + p)
        BY <1>3, <2>1
    <2>6. /\ due' \in Seq(Units) /\ Len(due') = p
          /\ \A n \in 1 .. p : due'[n] = due[k + n]
        BY <2>1, <2>5
    <2>7. \A n \in 1 .. p : ring'[pending[1] + n - 1] = ring[pending[1] + n - 1]
        <3> SUFFICES ASSUME NEW n \in 1 .. p
                     PROVE  ring'[pending[1] + n - 1] = ring[pending[1] + n - 1]
            OBVIOUS
        <3>1. pending # Nothing
            BY <2>1, <2>4
        <3>2. pending[1] + n - 1 \in pending[1] .. pending[2] - 1
            BY <1>6, <2>3, <3>1
        <3> QED
            BY <1>6, <3>1, <3>2
    <2>8. \A n \in 1 .. p : due'[n] = ring'[pending[1] + n - 1]
        BY <2>1, <2>6, <2>7
    <2>9. due' \in Seq(Units) /\ Len(due') = Length(active)' + Length(pending)'
        BY <2>1, <2>2, <2>6
    <2>10. \A n \in 1 .. Length(active)' : due'[n] = ring'[active'[1] + n - 1]
        BY <2>2
    <2>11. \A n \in 1 .. Length(pending)' :
             due'[Length(active)' + n] = ring'[pending'[1] + n - 1]
        <3>1. pending' = pending
            BY <1>3
        <3>2. SUFFICES ASSUME NEW n \in 1 .. p
                       PROVE  due'[0 + n] = ring'[pending[1] + n - 1]
            BY <2>2, <3>1
        <3>3. 0 + n = n
            BY <2>1
        <3> QED
            BY <2>8, <3>3
    <2> QED
        BY <2>9, <2>10, <2>11 DEF Due
<1>13. Sync'
    <2>1. cmd[1] = "sync" <=> SyncGiven /\ pending = Nothing
        BY <1>1, <1>2 DEF Sync, a, cmd
    <2>2. dp_line' <=> cmd[1] = "sync"
        BY <1>3, <1>8, Zenon
    <2>3. wait_intr' = wait_intr /\ attached' = attached
        BY <1>3
    <2> QED
        BY <1>1, <1>3, <1>6, <1>7, <1>8, <2>1, <2>2, <2>3 DEF Sync
<1>14. Attached'
    BY <1>1, <1>3 DEF Attached
<1>15. Aim'
    <2>1. target' = disp - 1
        BY <1>1, <1>2, <1>3, <1>5, <1>8 DEF Aim, a, cmd
    <2> QED
        BY <1>1, <1>2, <1>3, <1>6, <1>7, <2>1 DEF Aim
<1> QED
    BY <1>9, <1>10, <1>11, <1>12, <1>13, <1>14, <1>15 DEF RdpInv

-----------------------------------------------------------------------------
(* The invariant holds, and what follows from it. *)

LEMMA RdpInitial == Init => RdpInv
<1> SUFFICES ASSUME Init PROVE RdpInv
    OBVIOUS
<1> USE DEF Init, DisplayInit, RdpInit
<1>1. wait_intr \in BOOLEAN /\ dp \in BOOLEAN /\ attached \in BOOLEAN /\ dp_line \in BOOLEAN
      /\ ~wait_intr /\ ~dp_line /\ ~attached
    BY Zenon
<1>2. RdpTypeOK
    <2>1. ring \in [Ring -> Units]
        BY DEF Units
    <2> QED
        BY <1>1, <2>1, Sizes DEF RdpTypeOK, Runs
<1>3. Commands /\ Layout /\ Copied
    BY DEF Commands, Layout, Copied, Queued, Sending
<1>4. Due
    BY DEF Due, Length, Nothing
<1>5. Sync /\ Attached /\ Aim
    BY <1>1 DEF Sync, Attached, Aim, Queued, Sending, Drained, SyncGiven, RdpPcs
<1> QED
    BY <1>2, <1>3, <1>4, <1>5 DEF RdpInv

\* The display's own calls are made without the RDP attached.
LEMMA DisplaySide ==
    ASSUME RdpInv, UNCHANGED rdpVars,
           \/ UNCHANGED <<pc, disp>>
           \/ ~attached /\ pc \notin RdpPcs /\ pc' \notin RdpPcs
    PROVE  RdpInv'
<1>1. UNCHANGED <<ring, dirty, rdp_start, rdp_end, wait_intr, dp, then, attached,
                  pending, active, target, dp_line, due>>
    BY DEF rdpVars
<1>2. CASE UNCHANGED <<pc, disp>>
    BY <1>1, <1>2 DEF RdpInv, RdpTypeOK, Commands, Layout, Copied, Due, Length, Sync, Attached, Aim,
                      Queued, Drained, SyncGiven, Kind, Image
<1>3. CASE ~attached /\ pc \notin RdpPcs /\ pc' \notin RdpPcs
    <2>1. RdpTypeOK' /\ Commands' /\ Copied' /\ Due' /\ Layout'
        BY <1>1, <1>3 DEF RdpInv, RdpTypeOK, Commands, Layout, Copied, Due, Length,
                          Queued, Sending, RdpPcs
    <2>2. Sync' /\ Attached' /\ Aim'
        BY <1>1, <1>3 DEF RdpInv, Sync, Attached, Aim,
                          Queued, Sending, Drained, SyncGiven, Kind, Image, RdpPcs
    <2> QED
        BY <2>1, <2>2 DEF RdpInv
<1> QED
    BY <1>2, <1>3

LEMMA RdpStep == NoOtherSync /\ DisplayInv /\ RdpInv /\ [Next]_vars => RdpInv'
<1> SUFFICES ASSUME NoOtherSync, DisplayInv, RdpInv, [Next]_vars PROVE RdpInv'
    OBVIOUS
<1>1. /\ Attached /\ disp \in 0 .. 3 /\ then \in {"idle", "waitintr"}
      /\ (disp = 0 => ~attached) /\ (buffers = 0 => disp = 0)
    BY DEF DisplayInv, DisplayTypeOK, Control, RdpInv, Attached
<1>2. ASSUME NEW n \in 1 .. 3, InitDisable(n), UNCHANGED rdpVars PROVE RdpInv'
    BY <1>1, <1>2, DisplaySide DEF InitDisable, Goto, RdpPcs
<1>3. ASSUME ~attached, CloseDisable \/ Lock \/ Show, UNCHANGED rdpVars PROVE RdpInv'
    BY <1>1, <1>3, DisplaySide DEF CloseDisable, Lock, Show, Goto, RdpPcs
<1>4. ASSUME DisplayCall, UNCHANGED rdpVars PROVE RdpInv'
    <2>1. pc \in DisplayPcs /\ pc' \in {"idle"} \cup DisplayPcs
        BY <1>4 DEF DisplayCall, InitBuffers, InitEnable, InitHandler, CloseBuffers, LockTest,
                    LockNone, ShowGive, ShowNext, EnableDone, Goto, DisplayPcs
    <2>2. ~attached
        BY <1>1, <2>1 DEF Attached, DisplayPcs, RdpPcs
    <2> QED
        BY <1>4, <2>1, <2>2, DisplaySide DEF DisplayPcs, RdpPcs
<1>5. ASSUME VI_handler, UNCHANGED rdpVars PROVE RdpInv'
    BY <1>5, DisplaySide DEF VI_handler
<1>6. UNCHANGED displayVars => disp' = disp
    BY DEF displayVars
<1>7. ASSUME \/ SendDisable \/ DetachClear \/ DetachWait \/ DetachDone
             \/ DP_handler \/ rdp_init \/ rdp_close,
             UNCHANGED displayVars
      PROVE  RdpInv'
    BY <1>6, <1>7, FlagStep
<1>8. ASSUME (disp # 0 /\ Attach(disp - 1)) \/ Draw \/ DetachSync, UNCHANGED displayVars
      PROVE  RdpInv'
    BY <1>1, <1>6, <1>8, CommandStep
<1>9. ASSUME Writeback \/ Submit \/ Submitted, UNCHANGED displayVars PROVE RdpInv'
    BY <1>1, <1>6, <1>9, SendStep
<1>10. ASSUME Take \/ Execute, UNCHANGED displayVars PROVE RdpInv'
    BY <1>6, <1>10, TakeStep, ExecuteStep
<1>11. CASE UNCHANGED vars
    BY <1>11, DisplaySide DEF vars, displayVars
<1> QED
    BY <1>2, <1>3, <1>4, <1>5, <1>7, <1>8, <1>9, <1>10, <1>11
       DEF Next, Client, Call, Handlers, Processor, RdpCall, RDP, NoOtherSync

LEMMA RdpAlways == NoOtherSync => (Spec => []RdpInv)
<1> SUFFICES ASSUME NoOtherSync PROVE Spec => []RdpInv
    OBVIOUS
<1>1. Init => DisplayInv /\ RdpInv
    BY DisplayInitial, RdpInitial
<1>2. DisplayInv /\ RdpInv /\ [Next]_vars => DisplayInv' /\ RdpInv'
    BY DisplayStep, RdpStep
<1> QED
    BY <1>1, <1>2, PTL DEF Spec

\* The places of a run.
Places(run) == IF run = Nothing THEN <<>> ELSE [n \in 1 .. run[2] - run[1] |-> run[1] + n - 1]

LEMMA PlacesOfRun ==
    ASSUME NEW a \in Nat, NEW b \in Nat, a < b
    PROVE  LET p == [n \in 1 .. b - a |-> a + n - 1]
           IN  /\ p \in Seq(Nat) /\ Len(p) = b - a
               /\ \A n \in 1 .. b - a : p[n] = a + n - 1 /\ a <= p[n] /\ p[n] < b
<1> DEFINE p == [n \in 1 .. b - a |-> a + n - 1]
<1>1. b - a \in Nat
    OBVIOUS
<1>2. \A n \in 1 .. b - a : a + n - 1 \in Nat /\ a <= a + n - 1 /\ a + n - 1 < b
    OBVIOUS
<1>3. p \in Seq(Nat) /\ Len(p) = b - a
    <2>1. p \in [1 .. b - a -> Nat]
        BY <1>2
    <2> QED
        BY <1>1, <2>1
<1>4. \A n \in 1 .. b - a : p[n] = a + n - 1
    OBVIOUS
<1> HIDE DEF p
<1>5. \A n \in 1 .. b - a : p[n] = a + n - 1 /\ a <= p[n] /\ p[n] < b
    BY <1>2, <1>4
<1> QED
    BY <1>3, <1>5 DEF p

LEMMA PlacesFacts ==
    ASSUME RdpTypeOK, Commands
    PROVE  /\ Places(active) \in Seq(Nat) /\ Len(Places(active)) = Length(active)
           /\ Places(pending) \in Seq(Nat) /\ Len(Places(pending)) = Length(pending)
           /\ \A n \in 1 .. Length(active) :
                /\ active # Nothing /\ Places(active)[n] = active[1] + n - 1
                /\ active[1] <= Places(active)[n] /\ Places(active)[n] < active[2]
           /\ \A n \in 1 .. Length(pending) :
                /\ pending # Nothing /\ Places(pending)[n] = pending[1] + n - 1
                /\ pending[1] <= Places(pending)[n] /\ Places(pending)[n] < pending[2]
<1>1. active # Nothing => active[1] \in Nat /\ active[2] \in Nat /\ active[1] < active[2]
    BY Sizes DEF Commands, IsCommand
<1>2. pending # Nothing => pending[1] \in Nat /\ pending[2] \in Nat /\ pending[1] < pending[2]
    BY Sizes DEF Commands, IsCommand
<1> DEFINE Right(run, p) ==
        /\ p \in Seq(Nat) /\ Len(p) = Length(run)
        /\ \A n \in 1 .. Length(run) :
             run # Nothing /\ p[n] = run[1] + n - 1 /\ run[1] <= p[n] /\ p[n] < run[2]
<1>3. ASSUME NEW run,
             run # Nothing => run[1] \in Nat /\ run[2] \in Nat /\ run[1] < run[2]
      PROVE  Right(run, Places(run))
    <2>1. CASE run = Nothing
        <3>1. Places(run) = <<>> /\ Length(run) = 0
            BY <2>1 DEF Places, Length
        <3> QED
            BY <3>1
    <2>2. CASE run # Nothing
        <3> DEFINE a == run[1]  b == run[2]
        <3>1. a \in Nat /\ b \in Nat /\ a < b
            BY <1>3, <2>2
        <3>2. Places(run) = [n \in 1 .. b - a |-> a + n - 1] /\ Length(run) = b - a
            BY <2>2 DEF Places, Length
        <3> HIDE DEF a, b
        <3>3. /\ Places(run) \in Seq(Nat) /\ Len(Places(run)) = b - a
              /\ \A n \in 1 .. b - a :
                   Places(run)[n] = a + n - 1 /\ a <= Places(run)[n] /\ Places(run)[n] < b
            BY <3>1, <3>2, PlacesOfRun
        <3> QED
            BY <2>2, <3>2, <3>3 DEF a, b
    <2> QED
        BY <2>1, <2>2
<1>4. Right(active, Places(active)) /\ Right(pending, Places(pending))
    BY <1>1, <1>2, <1>3
<1> QED
    BY <1>4

\* The commands the RDP has been given stand in memory as they were queued,
\* until it has executed them.
LEMMA RingIntact == RdpInv => ReadsWhatWasQueued
<1> SUFFICES ASSUME RdpInv PROVE ReadsWhatWasQueued
    OBVIOUS
<1> DEFINE p == Places(active)  q == Places(pending)  k == Length(active)  l == Length(pending)
<1>1. RdpTypeOK /\ Commands /\ Layout /\ Copied /\ Due
    BY DEF RdpInv
<1>2. Unread = p \o q
    BY DEF Unread, Places
<1>3. /\ p \in Seq(Nat) /\ Len(p) = k /\ q \in Seq(Nat) /\ Len(q) = l /\ k \in Nat /\ l \in Nat
    BY <1>1, PlacesFacts, LengthFacts
<1>4. /\ \A n \in 1 .. k : due[n] = ring[p[n]] /\ p[n] \notin dirty
      /\ \A n \in 1 .. l : due[k + n] = ring[q[n]] /\ q[n] \notin dirty
    <2>1. dirty = {} \/ (pc = "send" /\ dirty \subseteq rdp_start .. rdp_end - 1)
        BY <1>1 DEF Copied
    <2>2. pc = "send" => Apart(active, rdp_start, rdp_end) /\ Apart(pending, rdp_start, rdp_end)
        BY <1>1, UnreadApart DEF Queued
    <2>3. rdp_start \in Nat /\ rdp_end \in Nat
        BY <1>1, Sizes DEF RdpTypeOK
    <2>4. /\ active # Nothing => active[1] \in Nat /\ active[2] \in Nat
          /\ pending # Nothing => pending[1] \in Nat /\ pending[2] \in Nat
        BY <1>1, Sizes DEF Commands, IsCommand
    <2>5. ASSUME NEW n \in 1 .. k PROVE due[n] = ring[p[n]] /\ p[n] \notin dirty
        <3>1. /\ active # Nothing /\ p[n] = active[1] + n - 1 /\ p[n] \in Nat
              /\ active[1] <= p[n] /\ p[n] < active[2]
            BY <1>1, <1>3, PlacesFacts
        <3>2. p[n] \notin dirty
            BY <2>1, <2>2, <2>3, <2>4, <3>1 DEF Apart
        <3> QED
            BY <1>1, <3>1, <3>2 DEF Due
    <2>6. ASSUME NEW n \in 1 .. l PROVE due[k + n] = ring[q[n]] /\ q[n] \notin dirty
        <3>1. /\ pending # Nothing /\ q[n] = pending[1] + n - 1 /\ q[n] \in Nat
              /\ pending[1] <= q[n] /\ q[n] < pending[2]
            BY <1>1, <1>3, PlacesFacts
        <3>2. q[n] \notin dirty
            BY <2>1, <2>2, <2>3, <2>4, <3>1 DEF Apart
        <3> QED
            BY <1>1, <3>1, <3>2 DEF Due
    <2> QED
        BY <2>5, <2>6
<1>5. due \in Seq(Units) /\ Len(due) = k + l
    BY <1>1 DEF Due
<1> HIDE DEF p, q, k, l
<1>6. /\ DOMAIN Unread = 1 .. k + l
      /\ \A n \in 1 .. k : Unread[n] = p[n]
      /\ \A n \in 1 .. l : Unread[k + n] = q[n]
    <2>1. p \in Seq(Nat) /\ q \in Seq(Nat)
        BY <1>3
    <2>2. /\ Len(p \o q) = Len(p) + Len(q) /\ p \o q \in Seq(Nat)
          /\ \A n \in 1 .. Len(p) : (p \o q)[n] = p[n]
          /\ \A n \in 1 .. Len(q) : (p \o q)[Len(p) + n] = q[n]
        BY <2>1
    <2>3. Len(p) = k /\ Len(q) = l
        BY <1>3
    <2> QED
        BY <1>2, <2>2, <2>3
<1>7. ASSUME NEW n \in 1 .. k + l PROVE due[n] = ring[Unread[n]] /\ Unread[n] \notin dirty
    <2>1. CASE n \in 1 .. k
        BY <1>4, <1>6, <2>1
    <2>2. CASE n \notin 1 .. k
        <3>1. PICK m \in 1 .. l : n = k + m
            <4>1. n - k \in 1 .. l /\ n = k + (n - k)
                BY <1>3, <2>2
            <4> QED
                BY <4>1
        <3> QED
            BY <1>4, <1>6, <3>1
    <2> QED
        BY <2>1, <2>2
<1>8. due = [n \in DOMAIN Unread |-> ring[Unread[n]]]
    <2>1. due = [n \in 1 .. k + l |-> due[n]]
        BY <1>3, <1>5
    <2> QED
        BY <1>6, <1>7, <2>1
<1> QED
    BY <1>6, <1>7, <1>8 DEF ReadsWhatWasQueued

\* What the RDP has been given and has not executed stands in memory as it was
\* queued, however often the ring wraps around.
THEOREM RingNotOvertaken == NoOtherSync => (Spec => []ReadsWhatWasQueued)
BY RingIntact, RdpAlways, PTL

\* At most one image command is unread, and it is the first.
LEMMA OneImage ==
    ASSUME RdpInv, NEW m \in DOMAIN due, due[m][1] \in {"image", "draw"}
    PROVE  /\ attached
           /\ due[m][1] = "image" => m = 1 /\ due[m][3] = disp - 1
           /\ due[m][1] = "draw" => target = disp - 1 \/ (m > 1 /\ due[1][1] = "image")
<1> DEFINE k == Length(active)  l == Length(pending)
<1>1. RdpTypeOK /\ Commands /\ Due /\ Sync /\ Aim
    BY DEF RdpInv
<1>2. k \in Nat /\ l \in Nat /\ Len(due) = k + l /\ DOMAIN due = 1 .. k + l
    BY <1>1, LengthFacts DEF Due
<1>3. Arg[1] = "arg"
    BY DEF Arg
<1>4. /\ active # Nothing =>
            /\ active[1] \in Nat /\ active[2] \in Nat /\ k = active[2] - active[1] /\ k > 0
            /\ \A w \in active[1] + 1 .. active[2] - 1 : ring[w] = Arg
      /\ active = Nothing => k = 0
    BY <1>1, Sizes DEF Commands, IsCommand, Length
<1>5. /\ pending # Nothing =>
            /\ pending[1] \in Nat /\ pending[2] \in Nat /\ l = pending[2] - pending[1] /\ l > 0
            /\ \A w \in pending[1] + 1 .. pending[2] - 1 : ring[w] = Arg
      /\ pending = Nothing => l = 0
    BY <1>1, Sizes DEF Commands, IsCommand, Length
<1>6. /\ \A n \in 1 .. k : due[n] = ring[active[1] + n - 1]
      /\ \A n \in 1 .. l : due[k + n] = ring[pending[1] + n - 1]
    BY <1>1 DEF Due
<1> HIDE DEF k, l
<1>7. active # Nothing => due[1] = ring[active[1]]
    <2> SUFFICES ASSUME active # Nothing PROVE due[1] = ring[active[1]]
        OBVIOUS
    <2>1. 1 \in 1 .. k /\ active[1] + 1 - 1 = active[1]
        BY <1>2, <1>4
    <2> QED
        BY <1>6, <2>1
<1>8. pending # Nothing => due[k + 1] = ring[pending[1]]
    <2> SUFFICES ASSUME pending # Nothing PROVE due[k + 1] = ring[pending[1]]
        OBVIOUS
    <2>1. 1 \in 1 .. l /\ pending[1] + 1 - 1 = pending[1]
        BY <1>2, <1>5
    <2> QED
        BY <1>6, <2>1
<1>9. \/ m = 1 /\ active # Nothing
      \/ m = k + 1 /\ pending # Nothing
    <2>1. CASE m \in 1 .. k
        <3>1. active # Nothing
            BY <1>4, <2>1
        <3>2. due[m] = ring[active[1] + m - 1]
            BY <1>6, <2>1
        <3>3. m # 1 => active[1] + m - 1 \in active[1] + 1 .. active[2] - 1
            BY <1>2, <1>4, <2>1, <3>1
        <3> QED
            BY <1>3, <1>4, <3>1, <3>2, <3>3
    <2>2. CASE m \notin 1 .. k
        <3>1. m - k \in 1 .. l /\ m = k + (m - k)
            BY <1>2, <2>2
        <3>2. pending # Nothing /\ due[m] = ring[pending[1] + (m - k) - 1]
            BY <1>5, <1>6, <3>1
        <3>3. m - k # 1 => pending[1] + (m - k) - 1 \in pending[1] + 1 .. pending[2] - 1
            <4> DEFINE c == pending[1]  d == pending[2]  j == m - k
            <4>1. c \in Nat /\ d \in Nat /\ l = d - c /\ j \in 1 .. l
                BY <1>5, <3>1, <3>2
            <4> HIDE DEF c, d, j
            <4>2. j # 1 => c + j - 1 \in c + 1 .. d - 1
                BY <4>1
            <4> QED
                BY <4>2 DEF c, d, j
        <3>4. m - k = 1
            BY <1>3, <1>5, <3>2, <3>3
        <3> QED
            BY <1>2, <3>1, <3>2, <3>4
    <2> QED
        BY <2>1, <2>2
<1>10. attached
    BY <1>1, <1>9 DEF Sync, Drained
<1>11. \/ target = disp - 1
       \/ pending # Nothing /\ Image(pending[1])
       \/ active # Nothing /\ Image(active[1])
    BY <1>1, <1>9, <1>10 DEF Aim, Drained
<1>12. pending # Nothing /\ Image(pending[1]) =>
            active = Nothing /\ due[1] = ring[pending[1]] /\ due[1][3] = disp - 1 /\ k = 0
    <2> SUFFICES ASSUME pending # Nothing, Image(pending[1])
                 PROVE  active = Nothing /\ due[1] = ring[pending[1]] /\ due[1][3] = disp - 1
                        /\ k = 0
        OBVIOUS
    <2>1. active = Nothing /\ ring[pending[1]][3] = disp - 1
        BY <1>1 DEF Aim
    <2>2. k = 0 /\ due[0 + 1] = ring[pending[1]]
        BY <1>4, <1>8, <2>1
    <2> QED
        BY <2>1, <2>2
<1>13. active # Nothing /\ Image(active[1]) => due[1][3] = disp - 1
    BY <1>1, <1>7 DEF Aim
<1>14. CASE m = 1 /\ active # Nothing
    BY <1>7, <1>10, <1>11, <1>12, <1>13, <1>14 DEF Image, Kind
<1>15. CASE m = k + 1 /\ pending # Nothing
    <2>1. due[m] = ring[pending[1]]
        BY <1>8, <1>15
    <2>2. due[m][1] = "image" => k = 0 /\ m = 1 /\ due[m][3] = disp - 1
        <3>1. due[m][1] = "image" => k = 0 /\ due[1][3] = disp - 1
            BY <1>12, <1>15, <2>1 DEF Image, Kind
        <3> QED
            BY <1>15, <3>1
    <2>3. due[m][1] = "draw" => target = disp - 1 \/ (active # Nothing /\ due[1][1] = "image")
        BY <1>7, <1>11, <2>1 DEF Image, Kind
    <2>4. active # Nothing => m > 1
        BY <1>2, <1>4, <1>15
    <2> QED
        BY <1>10, <2>2, <2>3, <2>4
<1> QED
    BY <1>9, <1>14, <1>15

LEMMA DrawnInOwn == DisplayInv /\ RdpInv => Drawn \subseteq {disp - 1} \ {None, on_screen, show_next}
<1> SUFFICES ASSUME DisplayInv, RdpInv,
                    NEW n \in DOMAIN due, due[n][1] = "draw"
             PROVE  /\ disp - 1 \notin {None, on_screen, show_next}
                    /\ LET images == {m \in 1 .. n - 1 : due[m][1] = "image"}
                       IN  (IF images = {} THEN target
                            ELSE due[CHOOSE m \in images : \A l \in images : l <= m][3])
                            = disp - 1
    BY DEF Drawn
<1>1. attached /\ (target = disp - 1 \/ (n > 1 /\ due[1][1] = "image"))
    BY OneImage
<1>2. disp - 1 \notin {None, on_screen, show_next}
    BY <1>1 DEF DisplayInv, DisplayTypeOK, Screen, Owners, RdpInv, Attached, None
<1>3. due \in Seq(Units) /\ DOMAIN due = 1 .. Len(due) /\ n \in 1 .. Len(due) /\ Len(due) \in Nat
    BY DEF RdpInv, Due
<1> DEFINE images == {m \in 1 .. n - 1 : due[m][1] = "image"}
           last == CHOOSE m \in images : \A l \in images : l <= m
<1>4. ASSUME NEW m \in images PROVE m = 1 /\ due[m][3] = disp - 1
    <2>1. m \in DOMAIN due /\ due[m][1] = "image"
        BY <1>3
    <2> QED
        BY <2>1, OneImage
<1>5. CASE images = {}
    <2>1. ~(n > 1 /\ due[1][1] = "image")
        BY <1>3, <1>5
    <2> QED
        BY <1>1, <1>2, <1>5, <2>1
<1>6. CASE images # {}
    <2>1. 1 \in images /\ \A l \in images : l <= 1
        BY <1>4, <1>6
    <2> HIDE DEF images
    <2>2. last \in images
        BY <2>1
    <2>3. due[last][3] = disp - 1
        BY <1>4, <2>2
    <2> QED
        BY <1>2, <1>6, <2>3 DEF images
<1> QED
    BY <1>5, <1>6

\* The RDP draws only in the buffer the client has locked, so that what is
\* shown is whole; and nothing ever leaves its type.
THEOREM FramesWhole == NoOtherSync => (Spec => []WholeFrames)
<1>1. DisplayInv /\ RdpInv => WholeFrames
    BY DrawnInOwn DEF WholeFrames, TypeOK, DisplayInv, Control, RdpInv
<1> SUFFICES ASSUME NoOtherSync PROVE Spec => []WholeFrames
    OBVIOUS
<1>2. Spec => []DisplayInv /\ []RdpInv
    BY DisplayAlways, RdpAlways
<1> QED
    BY <1>1, <1>2, PTL
=============================================================================
