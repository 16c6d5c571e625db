------------------------------- MODULE Timers -------------------------------
(***************************************************************************)
(* timer.c: the list of timers, walked when the count register reaches the *)
(* compare register and whenever a timer is added or the ticks are asked   *)
(* for.  Time passes in ticks: between calls as long as no interrupt is    *)
(* taken, and a few inside a call or the handler.  Left out: total_ticks,  *)
(* callbacks that change the list, timers put in the list twice.  The list *)
(* is a set here: its order is that in which callbacks of one walk run.    *)
(*                                                                         *)
(* A definition named X_... is X with a bug the code does not have.        *)
(***************************************************************************)
EXTENDS Integers, FiniteSetsExt, Cpu

CONSTANTS
    Timer,          \* the structures new_timer may allocate
    Ticks,          \* what clients set timers to
    Margin,         \* timers with less left have expired: 234
    Latency,        \* ticks a call or the handler takes at most
    Far             \* stands for 0x7FFFFFFF and 0x3FFFFFFF

\* Intervals are at least a tick, which timer.c neither asks for nor looks at: of
\* 0, the only timer's alarm would be set where the counter already stands
\* (:204-205), and a continuous one would keep __proc_timers walking for ever.
ASSUME TimersAssumption ==
    /\ Margin \in Nat \ {0} /\ Latency \in Nat /\ Far \in Nat /\ Margin + Latency < Far
    /\ Ticks \subseteq 1 .. Far

VARIABLES
    TI_timers,      \* the list
    timers,         \* left, set and continuous of those in it
    allocated,      \* the structures clients hold
    count, compare, raised,     \* the registers, and the interrupt's line
    installed,      \* timer_callback is registered
    start,          \* __proc_timers: the same
    spent,          \* ticks since the call or the handler began
    owed,           \* history, of each timer: the ticks until its time has
                    \* come, and those on the counter when it was added
    rung            \* history: the timers that fired in this walk

time == <<count, compare, raised>>
timersVars == <<TI_timers, timers, allocated, time, installed, start, spent, owed, rung>>

TimersInit ==
    /\ TI_timers = {} /\ timers = <<>> /\ allocated = {} /\ owed = <<>>
    /\ count = 0 /\ compare = Far /\ raised = FALSE
    /\ installed = FALSE /\ start = 0 /\ spent = 0
    /\ rung = {}

-----------------------------------------------------------------------------
(* Time *)

Pass ==
    /\ count' = count + 1
    /\ raised' = (raised \/ count' = compare)
    /\ owed' = [t \in TI_timers |-> [owed[t] EXCEPT !.ticks = IF @ > 0 THEN @ - 1 ELSE 0]]

\* Between calls, once the interrupts that may be taken have been, while the
\* subsystem is open.
MayInterruptTimer == ie /\ raised /\ installed

Tick ==
    /\ pc = "idle" /\ installed /\ ~MayInterruptTimer
    /\ Pass
    /\ UNCHANGED <<pc, ie, TI_timers, timers, allocated, compare, installed, start,
                   spent, rung>>

TickInside ==
    /\ pc # "idle" /\ spent < Latency
    /\ Pass
    /\ spent' = spent + 1
    /\ UNCHANGED <<pc, ie, TI_timers, timers, allocated, compare, installed, start,
                   rung>>

write_count(c) == count' = c
write_compare(c) == compare' = c /\ raised' = FALSE

-----------------------------------------------------------------------------
(* __proc_timers: the walk over the list, and what follows it. *)

Expired_Exactly(left) == left = 0
Expired(left) == left < Margin

Fired == {t \in TI_timers : Expired(timers[t].left - count)}

Again_NotReloaded(t, left) == left
Again(t, left) == t.set + left

Walked(t) ==
    LET left == timers[t].left - count IN
    [timers[t] EXCEPT !.left =
        IF t \in Fired /\ timers[t].continuous THEN Again(timers[t], left) ELSE left]

Walk ==
    /\ pc = "walk"
    /\ start' = count
    /\ TI_timers' = {t \in TI_timers : t \in Fired => timers[t].continuous}
    /\ timers' = [t \in TI_timers' |-> Walked(t)]
    /\ owed' = [t \in TI_timers' |->
                    IF t \in Fired THEN [ticks |-> timers'[t].left, before |-> 0] ELSE owed[t]]
    /\ rung' = rung \cup Fired
    /\ pc' = "arm"
    /\ UNCHANGED <<ie, allocated, time, installed, spent>>

smallest == Min({Far} \cup {timers[t].left : t \in TI_timers})

Elapsed_Total == count
Elapsed == count - start

Soon_JustPast(d) == smallest < d
Soon(d) == smallest < d + Margin

Return == pc' = "idle" /\ enable_interrupts /\ start' = 0 /\ spent' = 0 /\ rung' = {}

\* The list is processed again, or the next interrupt is set up.
Arm ==
    LET d == Elapsed IN
    /\ pc = "arm"
    /\ IF Soon(d)
       THEN write_count(d) /\ pc' = "walk" /\ UNCHANGED <<ie, compare, raised, start, spent, rung>>
       ELSE write_count(0) /\ write_compare(smallest - d) /\ Return
    /\ UNCHANGED <<TI_timers, timers, allocated, installed, owed>>

\* timer_callback without timers.
Rewind ==
    /\ pc = "rewind"
    /\ write_count(0) /\ write_compare(Far) /\ Return
    /\ UNCHANGED <<TI_timers, timers, allocated, installed, owed>>

timer_callback ==
    /\ pc' = IF TI_timers # {} THEN "walk" ELSE "rewind"
    /\ disable_interrupts
    /\ UNCHANGED <<count, compare, start, spent, rung>>

-----------------------------------------------------------------------------
(* The interrupt: the exception code clears its line by writing the compare *)
(* register.                                                               *)

TI_handler ==
    /\ pc = "idle" /\ MayInterruptTimer
    /\ pc' = IF TI_timers # {} THEN "walk" ELSE "rewind"
    /\ disable_interrupts
    /\ write_compare(0)
    /\ UNCHANGED <<TI_timers, timers, allocated, count, installed, start, spent,
                   owed, rung>>

-----------------------------------------------------------------------------
(* The calls.  A client keeps to timer.c's comments: it starts timers that *)
(* are not in the list, and forgets the continuous ones it leaves to       *)
(* timer_close.                                                            *)

Calling == pc = "idle" /\ ie /\ ~MayInterruptTimer

timer_init ==
    /\ Calling /\ ~installed
    /\ write_count(0) /\ write_compare(Far)
    /\ installed' = TRUE
    /\ UNCHANGED <<pc, ie, TI_timers, timers, allocated, start, spent, owed, rung>>

\* new_timer after malloc and start_timer: into the list, and an alarm if it
\* is the only one, a walk if it is not.
With(f, t, v) == [u \in {t} \cup DOMAIN f |-> IF u = t THEN v ELSE f[u]]

Insert(t, ticks, continuous) ==
    /\ timers' = With(timers, t, [left |-> ticks, set |-> ticks, continuous |-> continuous])
    /\ TI_timers' = {t} \cup TI_timers
    /\ IF TI_timers = {}
       THEN /\ write_count(0) /\ write_compare(ticks)
            /\ owed' = With(owed, t, [ticks |-> ticks, before |-> 0])
            /\ UNCHANGED <<pc, ie, start, spent>>
       ELSE /\ pc' = "walk" /\ disable_interrupts
            /\ owed' = With(owed, t, [ticks |-> ticks, before |-> count])
            /\ UNCHANGED <<time, start, spent>>
    /\ UNCHANGED <<installed, rung>>

new_timer == \E t \in Timer \ allocated, ticks \in Ticks, continuous \in BOOLEAN :
    /\ Calling /\ installed
    /\ allocated' = allocated \cup {t}
    /\ Insert(t, ticks, continuous)

start_timer == \E t \in allocated \ TI_timers, ticks \in Ticks, continuous \in BOOLEAN :
    /\ Calling /\ installed
    /\ Insert(t, ticks, continuous)
    /\ UNCHANGED allocated

TakeOut(t) ==
    /\ TI_timers' = TI_timers \ {t}
    /\ timers' = Restrict(timers, TI_timers') /\ owed' = Restrict(owed, TI_timers')
    /\ UNCHANGED <<pc, ie, time, installed, start, spent, rung>>

stop_timer == \E t \in allocated :
    /\ Calling
    /\ TakeOut(t)
    /\ UNCHANGED allocated

delete_timer == \E t \in allocated :
    /\ Calling
    /\ TakeOut(t)
    /\ allocated' = allocated \ {t}

timer_close ==
    /\ Calling /\ installed
    /\ installed' = FALSE
    /\ allocated' = allocated \ {t \in TI_timers : timers[t].continuous}
    /\ TI_timers' = {} /\ timers' = <<>> /\ owed' = <<>>
    /\ UNCHANGED <<pc, ie, time, start, spent, rung>>

timer_ticks ==
    /\ Calling /\ installed
    /\ timer_callback
    /\ UNCHANGED <<TI_timers, timers, allocated, raised, installed, owed>>

\* A critical section of the client's.
BeginSection == Calling /\ installed /\ pc' = "section" /\ disable_interrupts /\ UNCHANGED timersVars
EndSection ==
    pc = "section" /\ Return /\ UNCHANGED <<TI_timers, timers, allocated, time, installed, owed>>

Process == Walk \/ Arm \/ Rewind
TimersCall ==
    \/ timer_init \/ new_timer \/ start_timer \/ stop_timer \/ delete_timer \/ timer_close \/ timer_ticks
    \/ BeginSection \/ EndSection
TimersNext == Tick \/ TickInside \/ Process \/ TI_handler \/ TimersCall

\* Time passes between calls however many a client makes, and what has begun
\* goes on.
TimersFairness ==
    /\ SF_<<pc, ie, timersVars>>(Tick)
    /\ WF_<<pc, ie, timersVars>>(TI_handler)
    /\ WF_<<pc, ie, timersVars>>(Process \/ EndSection)

-----------------------------------------------------------------------------
(* Properties. *)

TimersTypeOK ==
    /\ TI_timers \subseteq allocated /\ allocated \subseteq Timer
    /\ timers \in [TI_timers -> [left : Int, set : Ticks, continuous : BOOLEAN]]
    /\ owed \in [TI_timers -> [ticks : Int, before : Nat]]
    /\ \A t \in TI_timers : timers[t].left < Far + Margin
    /\ count \in 0 .. Far + 2 * Latency /\ compare \in 0 .. Far

\* With timers in the list the next interrupt is on its way, and no later
\* than the first of them is due, be their intervals as short as a tick.
AlwaysArmed ==
    /\ TimersTypeOK
    /\ installed /\ pc = "idle" /\ TI_timers # {} =>
        \/ raised
        \/ count < compare /\ compare <= smallest

\* A timer that is not stopped fires, a continuous one again and again.
EveryTimerFires == \A t \in Timer : t \in TI_timers ~> t \notin TI_timers \/ t \in rung

\* A timer fires before its time by less than the margin and the ticks that
\* were on the counter when it was added.
Fires(t) == pc = "walk" /\ t \in Fired /\ pc' = "arm"
EarlyByTheCounter ==
    [][\A t \in Timer : Fires(t) => owed[t].ticks < Margin + owed[t].before]_<<pc, start>>
=============================================================================
