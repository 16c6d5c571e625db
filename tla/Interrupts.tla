----------------------------- MODULE Interrupts -----------------------------
(***************************************************************************)
(* libdragon's interrupt controller: nested disabling and enabling, and    *)
(* the list of callbacks of one source (the five lists share their code    *)
(* and nothing else).  The processor may leave the main thread for the     *)
(* handler between any two accesses while interrupts are enabled and the   *)
(* source is not masked; the handler runs to its end before the thread     *)
(* goes on, so it is one action.                                           *)
(*                                                                         *)
(* A definition named X_... is X with a bug the code does not have; runs   *)
(* use it to see that a property notices.                                  *)
(***************************************************************************)
EXTENDS Integers, Sequences, FiniteSets

CONSTANTS
    Callbacks,      \* functions that are registered
    Nodes,          \* cells malloc may return
    Nil, Wild,      \* the null pointer; what a new cell holds
    MaxDepth,       \* bound: how deep callers nest
    MaxLinks        \* bound: links in the list

ASSUME InterruptsAssumption ==
    /\ Nil # Wild /\ Nil \notin Nodes /\ Wild \notin Nodes /\ Wild \notin Callbacks
    /\ IsFiniteSet(Nodes)
    /\ MaxDepth \in Nat \ {0} /\ MaxLinks \in Nat

VARIABLES
    depth,          \* __interrupt_depth
    ie,             \* the enable bit of the status register
    mask,           \* the source's bit of MI_regs->mask
    pending,        \* its line is raised
    head,           \* the list, from its first link
    next, callback, \* the fields of each cell
    used,           \* the cells allocated
    pc,             \* where the thread is in a call: "idle" in none
    arg,            \* the callback registered or unregistered
    rest,           \* __register_callback: next
    last, cur,      \* __unregister_callback: the same
    nesting,        \* history: calls of disable_interrupts that have returned
                    \* and have not been paired yet
    registered      \* history: the callbacks registered, latest first

master == <<depth, ie, nesting>>
source == <<mask, pending>>
list == <<head, next, callback, used, registered>>
locals == <<arg, rest, last, cur>>
vars == <<master, source, list, locals, pc>>

Init ==
    /\ depth = -1 /\ ie = FALSE /\ nesting = 0
    /\ mask = FALSE /\ pending = FALSE
    /\ head = Nil /\ used = {} /\ registered = <<>>
    /\ next = [n \in Nodes |-> Wild] /\ callback = [n \in Nodes |-> Wild]
    /\ pc = "idle"
    /\ arg \in Callbacks
    /\ rest = Nil /\ last = Nil /\ cur = Nil

Goto(from, to) == pc = from /\ pc' = to

-----------------------------------------------------------------------------
(* init_interrupts.  Callers do not call it between a disabling and its    *)
(* enabling: one that was ignored would then be paired with one that is    *)
(* not.                                                                    *)

InitInterrupts ==
    /\ pc = "idle" /\ nesting = 0
    /\ depth < 0
    /\ mask' = FALSE
    /\ depth' = 0
    /\ pc' = "init"
    /\ UNCHANGED <<ie, nesting, pending, list, locals>>

InitEnable ==
    /\ Goto("init", "idle")
    /\ ie' = TRUE
    /\ UNCHANGED <<depth, nesting, source, list, locals>>

-----------------------------------------------------------------------------
(* disable_interrupts *)

Disable ==
    /\ pc = "idle" /\ nesting < MaxDepth
    /\ \/ depth < 0 /\ nesting' = nesting + 1 /\ UNCHANGED pc
       \/ depth = 0 /\ pc' = "clear" /\ UNCHANGED nesting
       \/ depth > 0 /\ pc' = "count" /\ UNCHANGED nesting
    /\ UNCHANGED <<depth, ie, source, list, locals>>

DisableClear ==
    /\ Goto("clear", "count")
    /\ ie' = FALSE
    /\ UNCHANGED <<depth, nesting, source, list, locals>>

Deeper_OnlyOnce(d) == 1
Deeper(d) == d + 1

DisableCount ==
    /\ Goto("count", "idle")
    /\ depth' = Deeper(depth)
    /\ nesting' = nesting + 1
    /\ UNCHANGED <<ie, source, list, locals>>

-----------------------------------------------------------------------------
(* enable_interrupts, which callers pair with disable_interrupts. *)

Uninitialized == depth < 0

AtBase_Below(d) == d < 0
AtBase(d) == d = 0

Enable ==
    /\ pc = "idle" /\ nesting > 0
    /\ nesting' = nesting - 1
    /\ \/ Uninitialized /\ UNCHANGED <<depth, pc>>
       \/ /\ ~Uninitialized
          /\ depth' = depth - 1
          /\ pc' = IF AtBase(depth') THEN "set" ELSE "idle"
    /\ UNCHANGED <<ie, source, list, locals>>

EnableSet ==
    /\ Goto("set", "idle")
    /\ ie' = TRUE
    /\ UNCHANGED <<depth, nesting, source, list, locals>>

-----------------------------------------------------------------------------
(* __register_callback, store by store.  The new cell is in the list       *)
(* before its fields are set.                                              *)

\* Callers register with the source masked or interrupts disabled, as
\* display_init, rdp_init and audio_init do.
Quiet_NotAsked == TRUE
Quiet == ~mask \/ ~ie

Link ==
    /\ pc = "idle" /\ Quiet
    /\ Len(registered) < MaxLinks
    /\ arg' \in Callbacks
    /\ rest' = head
    /\ \E n \in Nodes \ used :
        /\ head' = n
        /\ used' = used \cup {n}
        /\ next' = [next EXCEPT ![n] = Wild]
        /\ callback' = [callback EXCEPT ![n] = Wild]
    /\ pc' = "next"
    /\ UNCHANGED <<master, source, registered, last, cur>>

SetNext ==
    /\ Goto("next", "callback")
    /\ next' = [next EXCEPT ![head] = rest]
    /\ UNCHANGED <<master, source, head, callback, used, registered, locals>>

SetCallback ==
    /\ Goto("callback", "idle")
    /\ callback' = [callback EXCEPT ![head] = arg]
    /\ registered' = <<arg>> \o registered
    /\ UNCHANGED <<master, source, head, next, used, locals>>

-----------------------------------------------------------------------------
(* __unregister_callback: the list is searched, a link taken out and freed; *)
(* interrupts may come in between.                                          *)

Unregister ==
    /\ Goto("idle", "find")
    /\ arg' \in Callbacks
    /\ last' = Nil /\ cur' = head
    /\ UNCHANGED <<master, source, list, rest>>

NextLink_Same == cur
NextLink == next[cur]

Skip ==
    /\ pc = "find"
    /\ \/ cur = Nil /\ pc' = "idle" /\ UNCHANGED <<last, cur>>
       \/ cur # Nil /\ callback[cur] # arg /\ last' = cur /\ cur' = NextLink /\ UNCHANGED pc
    /\ UNCHANGED <<master, source, list, arg, rest>>

Without(s, c) ==
    LET i == CHOOSE j \in DOMAIN s : s[j] = c /\ \A k \in 1 .. j - 1 : s[k] # c
    IN  SubSeq(s, 1, i - 1) \o SubSeq(s, i + 1, Len(s))

IsFirst == last = Nil

Unlink ==
    /\ Goto("find", "free")
    /\ cur # Nil /\ callback[cur] = arg
    /\ IF IsFirst
       THEN head' = next[cur] /\ UNCHANGED next
       ELSE next' = [next EXCEPT ![last] = next[cur]] /\ UNCHANGED head
    /\ registered' = Without(registered, arg)
    /\ UNCHANGED <<master, source, callback, used, locals>>

\* free may write over the cell.
Freed == used \ {cur}

Free ==
    /\ Goto("free", "idle")
    /\ used' = Freed
    /\ next' = [next EXCEPT ![cur] = Wild]
    /\ callback' = [callback EXCEPT ![cur] = Wild]
    /\ UNCHANGED <<master, source, head, registered, locals>>

-----------------------------------------------------------------------------
(* set_AI_interrupt and its like, and the hardware. *)

SetMask ==
    /\ pc = "idle"
    /\ mask' = ~mask
    /\ UNCHANGED <<master, pending, list, locals, pc>>

Raise ==
    /\ ~pending
    /\ pending' = TRUE
    /\ UNCHANGED <<master, mask, list, locals, pc>>

\* __MI_handler: the line is cleared and the callbacks are called.  One that
\* disables and enables interrupts changes nothing in the end, since the
\* status register is restored and no interrupt is taken inside the handler.
MayInterrupt == ie /\ mask

MI_handler ==
    /\ MayInterrupt /\ pending
    /\ pending' = FALSE
    /\ UNCHANGED <<master, mask, list, locals, pc>>

Nest == InitInterrupts \/ InitEnable \/ Disable \/ DisableClear \/ DisableCount \/ Enable \/ EnableSet
Register == Link \/ SetNext \/ SetCallback \/ Unregister \/ Skip \/ Unlink \/ Free
Next == Nest \/ Register \/ SetMask \/ Raise \/ MI_handler

Spec == Init /\ [][Next]_vars

\* The thread goes on with a call it has begun.
FairSpec == Spec /\ WF_vars(pc # "idle" /\ (Nest \/ Register))

-----------------------------------------------------------------------------
(* Properties. *)

Pointers == Nodes \cup {Nil, Wild}

TypeOK ==
    /\ depth \in -1 .. MaxDepth /\ nesting \in 0 .. MaxDepth
    /\ ie \in BOOLEAN /\ mask \in BOOLEAN /\ pending \in BOOLEAN
    /\ head \in Nodes \cup {Nil} /\ used \subseteq Nodes
    /\ next \in [Nodes -> Pointers]
    /\ callback \in [Nodes -> Callbacks \cup {Wild}]
    /\ pc \in {"idle", "init", "clear", "count", "set", "next", "callback", "find", "free"}
    /\ arg \in Callbacks
    /\ rest \in Pointers /\ last \in Pointers /\ cur \in Pointers

\* Between a disable_interrupts that has returned and its enable_interrupts
\* no handler runs, however they are nested and whatever interrupts came
\* before: what the libraries' critical sections rely on.
Exclusive == nesting > 0 => ~ie

\* When every disabling has been paired interrupts are enabled again.
Reenabled == pc = "idle" /\ depth >= 0 /\ nesting = 0 => ie

\* What the handler follows: cells from head on, as many as there can be.
Chain ==
    LET from[n \in 0 .. Cardinality(Nodes)] ==
            IF n = 0 THEN head
            ELSE IF from[n - 1] \in Nodes THEN next[from[n - 1]] ELSE from[n - 1]
    IN  from
InChain == {Chain[n] : n \in DOMAIN Chain}
Length == CHOOSE n \in DOMAIN Chain : Chain[n] = Nil /\ \A m \in 0 .. n - 1 : Chain[m] # Nil

\* Whenever the handler may run, it finds the callbacks that are registered,
\* each in a cell that is allocated and set up, and the end of the list; no
\* cell is lost or freed twice.
HandlerFindsList ==
    /\ TypeOK
    /\ MayInterrupt =>
        /\ Wild \notin InChain /\ Nil \in InChain
        /\ InChain \ {Nil} \subseteq used
        /\ [n \in 1 .. Length |-> callback[Chain[n - 1]]] = registered
    /\ pc = "idle" => used = InChain \ {Nil}

\* A call returns, interrupts or not.
CallsReturn == pc # "idle" ~> pc = "idle"
=============================================================================
