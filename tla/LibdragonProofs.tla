--------------------------- MODULE LibdragonProofs --------------------------
(***************************************************************************)
(* Proofs about three parts of libdragon.  Interrupts: its critical        *)
(* sections exclude its interrupt handlers, for callers that nest them to  *)
(* any depth; and the handler finds the list of callbacks whole, for any   *)
(* number of cells and while it is changed.  Mempak: no note of a memory   *)
(* card is lost or spoilt where writing to it is cut short, and no block   *)
(* of the card while no call fails, for cards of any size and any number   *)
(* of notes and calls.  Files: a path leads where it says, and a number    *)
(* refers to its file and the place in it, for tables of any size and any  *)
(* tree of directories that the stack is deep enough for.                  *)
(***************************************************************************)
EXTENDS Interrupts, Mempak, Files, FiniteSetTheorems, SequenceTheorems, WellFoundedInduction, TLAPS

\* Ranges of what the argument is about.
MasterOK == depth \in Int /\ nesting \in Nat /\ ie \in BOOLEAN

\* Once initialised, the counter counts the callers' open sections: each of
\* the two functions changes it in the step that opens or closes one.
Counted == depth >= 0 => depth = nesting

\* What each point inside a call implies.
InCall ==
    /\ pc \in {"init", "clear", "set"} => depth = 0
    /\ pc = "count" => depth >= 0 /\ ~ie

\* The enable bit follows the counter.
BitFollows ==
    /\ depth # 0 => ~ie
    /\ depth = 0 /\ pc \notin {"init", "count", "set"} => ie
    /\ depth >= -1

Inv == MasterOK /\ Counted /\ InCall /\ BitFollows

-----------------------------------------------------------------------------

LEMMA InvInit == Init => Inv
<1> SUFFICES ASSUME Init
             PROVE  Inv
    OBVIOUS
<1>1. depth = -1 /\ nesting = 0 /\ pc = "idle"
  BY DEF Init
<1>2. ie \in BOOLEAN /\ ~ie
  BY Zenon DEF Init
<1> QED
  BY <1>1, <1>2 DEF Inv, MasterOK, Counted, InCall, BitFollows

\* Steps that leave the nesting alone, and stay outside its calls.
LEMMA InvElsewhere ==
    ASSUME Inv, UNCHANGED master,
           pc' = pc \/ (pc \notin {"init", "clear", "count", "set"}
                        /\ pc' \notin {"init", "clear", "count", "set"})
    PROVE  Inv'
  BY DEF Inv, MasterOK, Counted, InCall, BitFollows, master

\* One case per action of the nesting, and one for the rest of the module.
LEMMA InvStep == Inv /\ [Next]_vars => Inv'
<1> SUFFICES ASSUME Inv, [Next]_vars
             PROVE  Inv'
    OBVIOUS
<1> USE DEF Inv, MasterOK, Counted, InCall, BitFollows, Goto
<1>1. CASE InitInterrupts
  BY <1>1 DEF InitInterrupts
<1>2. CASE InitEnable
  BY <1>2 DEF InitEnable
<1>3. CASE Disable
  BY <1>3 DEF Disable
<1>4. CASE DisableClear
  <2>1. pc = "clear" /\ pc' = "count" /\ UNCHANGED <<depth, nesting>>
    BY <1>4 DEF DisableClear
  <2>2. ie' \in BOOLEAN /\ ~ie'
    BY <1>4, Zenon DEF DisableClear
  <2> QED
    BY <2>1, <2>2
<1>5. CASE DisableCount
  BY <1>5 DEF DisableCount, Deeper
<1>6. CASE Enable
  BY <1>6 DEF Enable, Uninitialized, AtBase
<1>7. CASE EnableSet
  BY <1>7 DEF EnableSet
<1>8. CASE Register \/ SetMask \/ Raise \/ MI_handler \/ UNCHANGED vars
  <2>1. UNCHANGED master
    BY <1>8 DEF Register, Link, SetNext, SetCallback, Unregister, Skip, Unlink, Free,
                SetMask, Raise, MI_handler, vars
  <2>2. pc' = pc \/ (pc \notin {"init", "clear", "count", "set"}
                     /\ pc' \notin {"init", "clear", "count", "set"})
    BY <1>8 DEF Register, Link, SetNext, SetCallback, Unregister, Skip, Unlink, Free,
                SetMask, Raise, MI_handler, vars
  <2> QED
    BY <2>1, <2>2, InvElsewhere
<1> QED
  BY <1>1, <1>2, <1>3, <1>4, <1>5, <1>6, <1>7, <1>8 DEF Next, Nest

LEMMA InvHolds == Spec => []Inv
  BY InvInit, InvStep, PTL DEF Spec

-----------------------------------------------------------------------------

\* No handler runs inside a critical section (disable_interrupts and
\* enable_interrupts of interrupt.c).
THEOREM CriticalSections == Spec => []Exclusive
<1>1. Inv => Exclusive
  BY DEF Inv, MasterOK, Counted, BitFollows, Exclusive
<1> QED
  BY <1>1, InvHolds, PTL

\* After the last enable_interrupts of a nest interrupts are enabled again.
THEOREM NestsUnwind == Spec => []Reenabled
<1>1. Inv => Reenabled
  BY DEF Inv, MasterOK, Counted, BitFollows, Reenabled
<1> QED
  BY <1>1, InvHolds, PTL

\* In particular every step of the handler falls outside all sections.
THEOREM HandlersOutside == Spec => [][MI_handler => nesting = 0]_vars
<1>1. Inv /\ [Next]_vars => [MI_handler => nesting = 0]_vars
  BY DEF Inv, MasterOK, Counted, BitFollows, MI_handler, MayInterrupt
<1> QED
  BY <1>1, InvHolds, PTL DEF Spec

-----------------------------------------------------------------------------
(* The list of callbacks.  It is a function from 1 .. Links to the cells,  *)
(* in which the k-th holds the k-th of the callbacks registered.           *)

Links == Len(registered)
At(s, k) == IF k \in 1 .. Links THEN s[k] ELSE Nil
Cells(s) == {s[k] : k \in 1 .. Links}

Linked(s) ==
    /\ \A j, k \in 1 .. Links : s[j] = s[k] => j = k
    /\ \A k \in 1 .. Links : next[s[k]] = At(s, k + 1) /\ callback[s[k]] = registered[k]

\* A cell that is being put in front of the list or taken out of it.
Adding == pc \in {"next", "callback"}
First == IF Adding THEN rest ELSE head
Extra == IF Adding THEN {head} ELSE IF pc = "free" THEN {cur} ELSE {}

\* __unregister_callback is at the k-th cell and has not found its callback.
Searching(s) ==
    \E k \in 1 .. Links + 1 :
        /\ cur = At(s, k) /\ last = At(s, k - 1)
        /\ \A j \in 1 .. k - 1 : registered[j] # arg

ListOf(s) ==
    /\ Linked(s) /\ First = At(s, 1)
    /\ used = Cells(s) \cup Extra /\ Extra \cap Cells(s) = {}
    /\ pc = "find" => Searching(s)

\* While a cell of the list is not set up no handler runs.
ListInv ==
    /\ registered \in Seq(Callbacks)
    /\ \E s \in [1 .. Links -> Nodes] : ListOf(s)
    /\ Extra \subseteq Nodes
    /\ Adding => ~MayInterrupt
    /\ pc = "callback" => next[head] = rest

\* A disabling that has begun does not exceed the bound.
Bounded == pc \in {"clear", "count"} => nesting < MaxDepth

FullInv == Inv /\ TypeOK /\ Bounded /\ ListInv

\* A nonempty set of natural numbers has a least element.
LEMMA LeastNumber ==
    ASSUME NEW N \in SUBSET Nat, N # {}
    PROVE  \E n \in N : \A m \in N : n <= m
<1> DEFINE R == {ss \in Nat \X Nat : ss[1] < ss[2]}
<1>1. IsWellFoundedOn(R, Nat)
    BY NatLessThanWellFounded DEF OpToRel
<1>2. \A x \in Nat, y \in Nat : <<y, x>> \in R <=> y < x
    OBVIOUS
<1> HIDE DEF R
<1>3. PICK n \in N : \A m \in N : ~(<<m, n>> \in R)
    BY <1>1, WFMin
<1>4. \A m \in N : ~(m < n)
    BY <1>2, <1>3
<1>5. \A m \in N : n <= m
    BY <1>4
<1> QED
    BY <1>5

\* There are no more links than cells.
LEMMA LinksFit ==
    ASSUME registered \in Seq(Callbacks), NEW s \in [1 .. Links -> Nodes], Linked(s)
    PROVE  Links \in Nat /\ Cardinality(Nodes) \in Nat /\ Links <= Cardinality(Nodes)
<1>1. Links \in Nat
    BY DEF Links
<1>2. Cardinality(Nodes) \in Nat
    BY InterruptsAssumption, FS_CardinalityType
<1>3. IsFiniteSet(1 .. Links) /\ Cardinality(1 .. Links) = Links
    BY <1>1, FS_Interval
<1>4. ~(Cardinality(Nodes) < Cardinality(1 .. Links))
    <2> SUFFICES ASSUME Cardinality(Nodes) < Cardinality(1 .. Links) PROVE FALSE
        OBVIOUS
    <2> DEFINE S == 1 .. Links
    <2>1. IsFiniteSet(S) /\ IsFiniteSet(Nodes) /\ Cardinality(Nodes) < Cardinality(S)
          /\ s \in [S -> Nodes]
        BY <1>3, InterruptsAssumption
    <2>2. \A j, k \in S : s[j] = s[k] => j = k
        BY DEF Linked
    <2> HIDE DEF S
    <2>3. \E j, k \in S : j # k /\ s[j] = s[k]
        BY <2>1, FS_PigeonHole, Zenon
    <2> QED
        BY <2>2, <2>3
<1> QED
    BY <1>1, <1>2, <1>3, <1>4

\* The handler goes through the cells in their order and comes to the end.
LEMMA ChainIsList ==
    ASSUME TypeOK, registered \in Seq(Callbacks),
           NEW s \in [1 .. Links -> Nodes], Linked(s), head = At(s, 1)
    PROVE  Chain = [n \in 0 .. Cardinality(Nodes) |-> At(s, n + 1)]
<1> DEFINE D == 0 .. Cardinality(Nodes)
           W == [n \in D |-> At(s, n + 1)]
           Follow(f) == [n \in D |-> IF n = 0 THEN head
                                     ELSE IF f[n - 1] \in Nodes THEN next[f[n - 1]] ELSE f[n - 1]]
<1>1. Links \in Nat /\ Cardinality(Nodes) \in Nat
    BY LinksFit
<1>2. Nil \notin Nodes
    BY InterruptsAssumption
<1>3. W = Follow(W)
    <2> SUFFICES ASSUME NEW n \in D PROVE W[n] = Follow(W)[n]
        BY Zenon
    <2>1. CASE n = 0
        BY <2>1
    <2>2. CASE n # 0
        <3>1. n \in Nat /\ n - 1 \in D /\ W[n - 1] = At(s, n) /\ W[n] = At(s, n + 1)
            BY <1>1, <2>2
        <3>2. CASE n \in 1 .. Links
            <4>1. At(s, n) = s[n] /\ s[n] \in Nodes /\ next[s[n]] = At(s, n + 1)
                BY <3>2 DEF At, Linked
            <4> HIDE DEF W
            <4> QED
                BY <2>2, <3>1, <4>1
        <3>3. CASE n \notin 1 .. Links
            <4>1. At(s, n) = Nil /\ At(s, n + 1) = Nil
                BY <1>1, <3>1, <3>3, <2>2 DEF At
            <4> HIDE DEF W
            <4> QED
                BY <1>2, <2>2, <3>1, <4>1
        <3> QED
            BY <3>2, <3>3
    <2> QED
        BY <2>1, <2>2
<1>4. Chain = Follow(Chain)
    <2>1. Chain = CHOOSE f : f = Follow(f)
        BY DEF Chain
    <2> HIDE DEF W, Follow
    <2> QED
        BY <1>3, <2>1, Zenon
<1> DEFINE N == {n \in D : Chain[n] # W[n]}
<1>5. N = {}
    <2> SUFFICES ASSUME N # {} PROVE FALSE
        OBVIOUS
    <2>1. N \in SUBSET Nat
        BY <1>1
    <2>2. PICK n \in N : \A m \in N : n <= m
        BY <2>1, LeastNumber, Zenon
    <2>3. n # 0
        <3>1. Follow(Chain)[0] = head /\ Follow(W)[0] = head
            BY <1>1
        <3> HIDE DEF W, Follow
        <3> QED
            BY <1>3, <1>4, <3>1
    <2>4. n \in D /\ n - 1 \in D /\ n - 1 \notin N
        BY <2>2, <2>3, <1>1
    <2>5. Chain[n - 1] = W[n - 1]
        BY <2>4
    <2>6. \A f : Follow(f)[n] = IF f[n - 1] \in Nodes THEN next[f[n - 1]] ELSE f[n - 1]
        BY <2>3, <2>4
    <2> HIDE DEF W, Follow
    <2>7. Chain[n] = W[n]
        <3>1. Chain[n] = Follow(Chain)[n] /\ W[n] = Follow(W)[n]
            BY <1>3, <1>4
        <3>2. Follow(Chain)[n] = Follow(W)[n]
            BY <2>5, <2>6
        <3> QED
            BY <3>1, <3>2
    <2> QED
        BY <2>2, <2>7
<1> QED
    <2>1. DOMAIN Chain = D
        <3>1. DOMAIN Follow(Chain) = D
            OBVIOUS
        <3> HIDE DEF Follow
        <3> QED
            BY <1>4, <3>1
    <2>2. Chain = [n \in D |-> Chain[n]]
        <3>1. Chain = [n \in DOMAIN Follow(Chain) |-> Follow(Chain)[n]]
            BY <1>4
        <3> HIDE DEF Follow
        <3> QED
            BY <1>4, <3>1, <2>1
    <2> QED
        BY <2>1, <2>2, <1>5

\* So where the list is complete the handler finds what is registered.
LEMMA ListFound == FullInv => HandlerFindsList
<1> SUFFICES ASSUME FullInv PROVE HandlerFindsList
    OBVIOUS
<1> DEFINE C == Cardinality(Nodes)
<1>1. TypeOK /\ registered \in Seq(Callbacks)
    BY DEF FullInv, ListInv
<1>2. PICK s \in [1 .. Links -> Nodes] : ListOf(s)
    BY DEF FullInv, ListInv
<1>3. Links \in Nat /\ C \in Nat /\ Links <= C
    BY <1>1, <1>2, LinksFit DEF ListOf
<1>4. Nil \notin Nodes /\ Wild \notin Nodes /\ Nil # Wild
    BY InterruptsAssumption
<1> HIDE DEF C
<1>5. ASSUME ~Adding
      PROVE  /\ Wild \notin InChain /\ Nil \in InChain
             /\ InChain \ {Nil} = Cells(s)
             /\ [n \in 1 .. Length |-> callback[Chain[n - 1]]] = registered
    <2>1. Chain = [n \in 0 .. C |-> At(s, n + 1)]
        BY <1>1, <1>2, <1>5, ChainIsList DEF ListOf, First, C
    <2>2. InChain = Cells(s) \cup {Nil}
        <3>1. ASSUME NEW k \in 1 .. Links PROVE s[k] \in InChain
            <4>1. k - 1 \in 0 .. C /\ Chain[k - 1] = s[k]
                BY <1>3, <2>1 DEF At
            <4> QED
                BY <2>1, <4>1 DEF InChain
        <3>2. Nil \in InChain
            <4>1. Links \in 0 .. C /\ Chain[Links] = Nil
                BY <1>3, <2>1 DEF At
            <4> QED
                BY <2>1, <4>1 DEF InChain
        <3>3. ASSUME NEW n \in 0 .. C PROVE Chain[n] \in Cells(s) \cup {Nil}
            BY <2>1 DEF At, Cells
        <3> QED
            BY <2>1, <3>1, <3>2, <3>3 DEF InChain, Cells
    <2>3. Cells(s) \subseteq Nodes
        BY <1>2 DEF Cells
    <2>4. Length = Links
        <3>1. \A n \in 0 .. C : (Chain[n] = Nil /\ \A m \in 0 .. n - 1 : Chain[m] # Nil) <=> n = Links
            <4>1. \A n \in 0 .. C : Chain[n] = Nil <=> n >= Links
                BY <1>2, <1>3, <1>4, <2>1 DEF At
            <4> QED
                BY <1>3, <4>1
        <3>2. Links \in 0 .. C /\ DOMAIN Chain = 0 .. C
            BY <1>3, <2>1
        <3> QED
            BY <3>1, <3>2 DEF Length
    <2>5. [n \in 1 .. Links |-> callback[Chain[n - 1]]] = registered
        <3>1. ASSUME NEW n \in 1 .. Links PROVE callback[Chain[n - 1]] = registered[n]
            <4>1. Chain[n - 1] = s[n]
                BY <1>3, <2>1 DEF At
            <4> QED
                BY <1>2, <4>1 DEF ListOf, Linked
        <3>2. registered = [n \in 1 .. Links |-> registered[n]]
            BY <1>1 DEF Links
        <3> QED
            BY <3>1, <3>2
    <2> QED
        BY <1>4, <2>2, <2>3, <2>4, <2>5
<1>6. MayInterrupt => ~Adding
    BY DEF FullInv, ListInv
<1>7. Cells(s) \subseteq used /\ (pc = "idle" => ~Adding /\ used = Cells(s))
    BY <1>2 DEF ListOf, Extra, Adding
<1> QED
    BY <1>1, <1>4, <1>5, <1>6, <1>7 DEF HandlerFindsList

-----------------------------------------------------------------------------
(* The steps. *)

\* At the beginning the list is empty.
LEMMA TypeInit == Init => TypeOK /\ Bounded /\ ListInv
<1> SUFFICES ASSUME Init PROVE TypeOK /\ Bounded /\ ListInv
    OBVIOUS
<1>1. ie \in BOOLEAN /\ mask \in BOOLEAN /\ pending \in BOOLEAN
    BY Zenon DEF Init
<1>2. TypeOK
    BY <1>1, InterruptsAssumption DEF Init, TypeOK, Pointers
<1>3. Bounded
    BY DEF Init, Bounded
<1>4. registered = <<>> /\ Links = 0 /\ pc = "idle" /\ head = Nil /\ used = {}
    BY DEF Init, Links
<1>5. ~Adding /\ Extra = {} /\ First = Nil
    BY <1>4 DEF Adding, Extra, First
<1>6. \E s \in [1 .. Links -> Nodes] : TRUE
    <2>1. [k \in 1 .. Links |-> Nil] \in [1 .. Links -> Nodes]
        BY <1>4
    <2> QED
        BY <2>1
<1>7. PICK s \in [1 .. Links -> Nodes] : TRUE
    BY <1>6
<1>8. ListOf(s)
    BY <1>4, <1>5 DEF ListOf, Linked, At, Cells
<1>9. ListInv
    <2>1. registered \in Seq(Callbacks) /\ Extra \subseteq Nodes /\ pc # "callback"
        BY <1>4, <1>5
    <2>2. \E t \in [1 .. Links -> Nodes] : ListOf(t)
        BY <1>8
    <2> QED
        BY <2>1, <2>2, <1>5 DEF ListInv
<1> QED
    BY <1>2, <1>3, <1>9

\* __unregister_callback looks at cells of the list.
LEMMA Cursor ==
    ASSUME ListInv, pc = "find"
    PROVE  /\ cur \in Nodes \cup {Nil} /\ last \in Nodes \cup {Nil}
           /\ cur # Nil => cur \in Nodes /\ next[cur] \in Nodes \cup {Nil}
<1>1. PICK s \in [1 .. Links -> Nodes] : ListOf(s)
    BY DEF ListInv
<1>2. PICK k \in 1 .. Links + 1 : cur = At(s, k) /\ last = At(s, k - 1)
    BY <1>1 DEF ListOf, Searching
<1>3. Links \in Nat
    BY DEF ListInv, Links
<1>4. \A m \in Int : At(s, m) \in Nodes \cup {Nil}
    BY DEF At
<1>5. ASSUME cur # Nil PROVE next[cur] = At(s, k + 1)
    BY <1>1, <1>2, <1>3, <1>5 DEF ListOf, Linked, At
<1> QED
    BY <1>2, <1>3, <1>4, <1>5

\* Types and the bound, one case per action; those of the nesting follow from
\* its invariant.
LEMMA TypeStep ==
    ASSUME Inv, TypeOK, Bounded, ListInv, [Next]_vars
    PROVE  TypeOK' /\ Bounded'
<1> USE DEF Goto
<1> DEFINE HeapOK == /\ head \in Nodes \cup {Nil} /\ used \subseteq Nodes
                     /\ next \in [Nodes -> Pointers]
                     /\ callback \in [Nodes -> Callbacks \cup {Wild}]
           LocalsOK == /\ arg \in Callbacks
                       /\ rest \in Pointers /\ last \in Pointers /\ cur \in Pointers
<1>1. HeapOK /\ LocalsOK /\ nesting \in 0 .. MaxDepth /\ MaxDepth \in Nat \ {0}
    BY InterruptsAssumption DEF TypeOK
<1>2. /\ depth' \in -1 .. MaxDepth /\ nesting' \in 0 .. MaxDepth /\ Bounded'
    <2>1. nesting' <= MaxDepth /\ Bounded'
        <3>1. CASE Nest
            BY <1>1, <3>1 DEF Nest, InitInterrupts, InitEnable, Disable, DisableClear, DisableCount,
                Enable, EnableSet, Bounded
        <3>2. CASE Register \/ SetMask \/ Raise \/ MI_handler \/ UNCHANGED vars
            BY <1>1, <3>2 DEF Register, Link, SetNext, SetCallback, Unregister, Skip, Unlink, Free,
                SetMask, Raise, MI_handler, vars, master, Bounded
        <3> QED
            BY <3>1, <3>2 DEF Next
    <2> QED
        BY <2>1, <1>1, InvStep DEF Inv, MasterOK, Counted, BitFollows
<1>3. ie' \in BOOLEAN /\ mask' \in BOOLEAN /\ pending' \in BOOLEAN
    <2>1. ie' \in BOOLEAN
        BY InvStep DEF Inv, MasterOK
    <2>2. mask \in BOOLEAN /\ pending \in BOOLEAN
        BY DEF TypeOK
    <2>3. mask' = mask \/ mask' = FALSE \/ mask' = ~mask
        BY Zenon DEF Next, Nest, InitInterrupts, InitEnable, Disable, DisableClear, DisableCount,
            Enable, EnableSet, Register, Link, SetNext, SetCallback, Unregister, Skip, Unlink, Free,
            SetMask, Raise, MI_handler, vars, source
    <2>4. pending' = pending \/ pending' = FALSE \/ pending' = TRUE
        BY Zenon DEF Next, Nest, InitInterrupts, InitEnable, Disable, DisableClear, DisableCount,
            Enable, EnableSet, Register, Link, SetNext, SetCallback, Unregister, Skip, Unlink, Free,
            SetMask, Raise, MI_handler, vars, source
    <2> QED
        BY <2>1, <2>2, <2>3, <2>4, Zenon
<1>4. HeapOK' /\ LocalsOK'
    <2> USE DEF Pointers, list, locals
    <2>1. CASE Nest \/ SetMask \/ Raise \/ MI_handler \/ UNCHANGED vars
        <3>1. UNCHANGED <<list, locals>>
            BY <2>1 DEF Nest, InitInterrupts, InitEnable, Disable, DisableClear, DisableCount,
                Enable, EnableSet, SetMask, Raise, MI_handler, vars
        <3> QED
            BY <1>1, <3>1
    <2>2. CASE Link
        <3>1. PICK n \in Nodes \ used :
                /\ head' = n /\ used' = used \cup {n}
                /\ next' = [next EXCEPT ![n] = Wild] /\ callback' = [callback EXCEPT ![n] = Wild]
            BY <2>2 DEF Link
        <3>2. arg' \in Callbacks /\ rest' = head /\ UNCHANGED <<last, cur>>
            BY <2>2 DEF Link
        <3> QED
            BY <1>1, <3>1, <3>2
    <2>3. CASE SetNext
        BY <1>1, <2>3 DEF SetNext
    <2>4. CASE SetCallback
        BY <1>1, <2>4 DEF SetCallback
    <2>5. CASE Unregister
        BY <1>1, <2>5 DEF Unregister
    <2>6. CASE Skip
        BY <1>1, <2>6, Cursor DEF Skip, NextLink
    <2>7. CASE Unlink
        BY <1>1, <2>7, Cursor DEF Unlink, IsFirst
    <2>8. CASE Free
        BY <1>1, <2>8 DEF Free, Freed
    <2> QED
        BY <2>1, <2>2, <2>3, <2>4, <2>5, <2>6, <2>7, <2>8 DEF Next, Register
<1>5. (pc \in {"idle", "init", "clear", "count", "set", "next", "callback", "find", "free"})'
    BY DEF TypeOK, Next, Nest, InitInterrupts, InitEnable, Disable, DisableClear, DisableCount,
        Enable, EnableSet, Register, Link, SetNext, SetCallback, Unregister, Skip, Unlink, Free,
        SetMask, Raise, MI_handler, vars
<1> QED
    BY <1>2, <1>3, <1>4, <1>5 DEF TypeOK

\* Steps that leave the list alone.
LEMMA ListElsewhere ==
    ASSUME TypeOK, ListInv, UNCHANGED <<list, locals>>,
           \/ pc' = pc /\ UNCHANGED <<ie, mask>>
           \/ pc \notin {"next", "callback", "find", "free"}
              /\ pc' \notin {"next", "callback", "find", "free"}
    PROVE  ListInv'
<1>1. PICK s \in [1 .. Links -> Nodes] : ListOf(s)
    BY DEF ListInv
<1>2. UNCHANGED <<head, next, callback, used, registered, arg, rest, last, cur>>
    BY DEF list, locals
<1>3. Links' = Links /\ Cells(s)' = Cells(s) /\ \A k : At(s, k)' = At(s, k)
    BY <1>2 DEF Links, Cells, At
<1>4. Linked(s)'
    BY <1>1, <1>2, <1>3 DEF ListOf, Linked
<1>5. (Adding => ~MayInterrupt)' /\ Extra' = Extra /\ First' = First
      /\ (pc' = pc \/ (pc' # "find" /\ pc' # "callback"))
    <2>1. Adding' = Adding /\ (pc' = pc \/ ~Adding)
        BY DEF Adding
    <2>2. pc' = pc /\ Adding => ~MayInterrupt'
        BY Zenon DEF ListInv, Adding, MayInterrupt
    <2>3. Adding' => pc' = pc /\ Adding
        BY DEF Adding
    <2>4. pc' = pc \/ (pc # "free" /\ pc' \notin {"free", "find", "callback"})
        OBVIOUS
    <2>5. Extra' = Extra /\ First' = First
        BY <1>2, <2>1, <2>4 DEF Extra, First
    <2>6. (Adding => ~MayInterrupt)'
        BY <2>2, <2>3
    <2>7. pc' = pc \/ (pc' # "find" /\ pc' # "callback")
        BY <2>4
    <2> QED
        BY <2>5, <2>6, <2>7, Zenon
<1>6. pc' = "find" => Searching(s)'
    BY <1>1, <1>2, <1>3, <1>5 DEF ListOf, Searching
<1>7. ListOf(s)'
    BY <1>1, <1>2, <1>3, <1>4, <1>5, <1>6 DEF ListOf
<1> QED
    BY <1>1, <1>2, <1>3, <1>5, <1>7 DEF ListInv

\* __register_callback: the new cell stays in front of the list it is given.
LEMMA AddStep ==
    ASSUME TypeOK, ListInv, Link \/ SetNext \/ SetCallback
    PROVE  ListInv'
<1> USE DEF Goto
<1>1. PICK s \in [1 .. Links -> Nodes] : ListOf(s)
    BY DEF ListInv
<1>2. Links \in Nat /\ \A k \in 1 .. Links : s[k] \in Cells(s)
    BY DEF ListInv, Links, Cells
<1>3. CASE Link
    <2>1. PICK n \in Nodes \ used :
            /\ head' = n /\ used' = used \cup {n}
            /\ next' = [next EXCEPT ![n] = Wild] /\ callback' = [callback EXCEPT ![n] = Wild]
        BY <1>3 DEF Link
    <2>2. pc = "idle" /\ pc' = "next" /\ rest' = head /\ UNCHANGED <<ie, mask, registered>>
        BY <1>3 DEF Link, master, source
    <2>3. ~Adding /\ Adding' /\ Extra = {} /\ Extra' = {n} /\ First = head /\ First' = head
        BY <2>1, <2>2 DEF Adding, Extra, First
    <2>4. Links' = Links /\ Cells(s)' = Cells(s) /\ \A k : At(s, k)' = At(s, k)
        BY <2>2 DEF Links, Cells, At
    <2>5. n \notin Cells(s) /\ used = Cells(s)
        BY <1>1, <2>1, <2>3 DEF ListOf
    <2>6. \A k \in 1 .. Links : next'[s[k]] = next[s[k]] /\ callback'[s[k]] = callback[s[k]]
        BY <1>2, <2>1, <2>5 DEF TypeOK
    <2>7. Linked(s)'
        BY <1>1, <2>2, <2>4, <2>6 DEF ListOf, Linked
    <2>8. ListOf(s)'
        BY <1>1, <2>1, <2>2, <2>3, <2>4, <2>5, <2>7 DEF ListOf
    <2>9. ~MayInterrupt'
        BY <1>3, <2>2, Zenon DEF Link, Quiet, MayInterrupt
    <2>10. registered' \in Seq(Callbacks) /\ Extra' \subseteq Nodes
        BY <2>1, <2>2, <2>3 DEF ListInv
    <2> QED
        BY <2>2, <2>4, <2>8, <2>9, <2>10 DEF ListInv
<1>4. CASE SetNext
    <2>1. /\ pc = "next" /\ pc' = "callback" /\ next' = [next EXCEPT ![head] = rest]
          /\ UNCHANGED <<ie, mask, head, callback, used, registered, rest>>
        BY <1>4 DEF SetNext, master, source, locals
    <2>2. Adding /\ Adding' /\ Extra = {head} /\ Extra' = {head} /\ First = rest /\ First' = rest
        BY <2>1 DEF Adding, Extra, First
    <2>3. Links' = Links /\ Cells(s)' = Cells(s) /\ \A k : At(s, k)' = At(s, k)
        BY <2>1 DEF Links, Cells, At
    <2>4. head \notin Cells(s) /\ head \in Nodes
        BY <1>1, <2>2 DEF ListOf, ListInv
    <2>5. next'[head] = rest /\ \A k \in 1 .. Links : next'[s[k]] = next[s[k]]
        BY <1>2, <2>1, <2>4 DEF TypeOK
    <2>6. Linked(s)'
        BY <1>1, <2>1, <2>3, <2>5 DEF ListOf, Linked
    <2>7. ListOf(s)'
        BY <1>1, <2>1, <2>2, <2>3, <2>6 DEF ListOf
    <2>8. ~MayInterrupt'
        BY <2>1, <2>2, Zenon DEF ListInv, MayInterrupt
    <2> QED
        BY <2>1, <2>2, <2>3, <2>4, <2>5, <2>7, <2>8 DEF ListInv
<1>5. CASE SetCallback
    <2>1. /\ pc = "callback" /\ pc' = "idle" /\ callback' = [callback EXCEPT ![head] = arg]
          /\ registered' = <<arg>> \o registered
          /\ UNCHANGED <<head, next, used, rest, arg>>
        BY <1>5 DEF SetCallback, locals
    <2>2. Adding /\ ~Adding' /\ Extra = {head} /\ Extra' = {} /\ First = rest /\ First' = head
        BY <2>1 DEF Adding, Extra, First
    <2>3. head \notin Cells(s) /\ head \in Nodes /\ next[head] = rest /\ rest = At(s, 1)
        BY <1>1, <2>1, <2>2 DEF ListOf, ListInv
    <2>4. /\ registered' \in Seq(Callbacks) /\ Links' = Links + 1
          /\ registered'[1] = arg /\ \A k \in 1 .. Links : registered'[k + 1] = registered[k]
        BY <2>1 DEF ListInv, TypeOK, Links
    <2>5. PICK t \in [1 .. Links + 1 -> Nodes] :
            t[1] = head /\ \A k \in 1 .. Links : t[k + 1] = s[k]
        <3> DEFINE f == [k \in 1 .. Links + 1 |-> IF k = 1 THEN head ELSE s[k - 1]]
        <3>1. f \in [1 .. Links + 1 -> Nodes] /\ f[1] = head
              /\ \A k \in 1 .. Links : f[k + 1] = s[k]
            BY <1>2, <2>3
        <3> QED
            BY <3>1
    <2>6. At(t, 1)' = head
        BY <1>2, <2>4, <2>5 DEF At
    <2>7. \A k \in 1 .. Links + 1 : At(t, k + 1)' = At(s, k)
        BY <1>2, <2>4, <2>5 DEF At
    <2>8. callback'[head] = arg /\ \A k \in 1 .. Links : callback'[s[k]] = callback[s[k]]
        BY <1>2, <2>1, <2>3 DEF TypeOK
    <2>9. \A k \in 1 .. Links + 1 : k = 1 \/ (k - 1 \in 1 .. Links /\ t[k] = s[k - 1])
        <3>1. \A k \in 1 .. Links + 1 : k = 1 \/ (k - 1 \in 1 .. Links /\ (k - 1) + 1 = k)
            BY <1>2
        <3> QED
            BY <2>5, <3>1
    <2>10. Linked(t)'
        <3>1. ASSUME NEW j \in 1 .. Links + 1, NEW k \in 1 .. Links + 1, t[j] = t[k]
              PROVE  j = k
            <4>1. \A m \in 1 .. Links : t[1] # s[m]
                BY <1>2, <2>3, <2>5
            <4>2. \A l, m \in 1 .. Links : s[l] = s[m] => l = m
                BY <1>1 DEF ListOf, Linked
            <4> QED
                BY <1>2, <2>9, <3>1, <4>1, <4>2
        <3>2. ASSUME NEW k \in 1 .. Links + 1
              PROVE  next'[t[k]] = At(t, k + 1)' /\ callback'[t[k]] = registered'[k]
            <4>1. CASE k = 1
                BY <1>2, <2>1, <2>3, <2>4, <2>5, <2>7, <2>8, <4>1
            <4>2. CASE k # 1
                <5>1. k - 1 \in 1 .. Links /\ t[k] = s[k - 1] /\ k = (k - 1) + 1
                    BY <2>9, <4>2
                <5>2. next[s[k - 1]] = At(s, k) /\ callback[s[k - 1]] = registered[k - 1]
                    BY <1>1, <5>1 DEF ListOf, Linked
                <5>3. registered'[k] = registered[k - 1]
                    BY <2>4, <5>1
                <5> QED
                    BY <2>1, <2>7, <2>8, <5>1, <5>2, <5>3
            <4> QED
                BY <4>1, <4>2
        <3> QED
            BY <2>4, <3>1, <3>2 DEF Linked
    <2>11. Cells(t)' = Cells(s) \cup {head}
        <3>1. Cells(t)' = {t[k] : k \in 1 .. Links + 1}
            BY <2>4 DEF Cells
        <3>2. \A k \in 1 .. Links : k + 1 \in 1 .. Links + 1
            BY <1>2
        <3>3. 1 \in 1 .. Links + 1
            BY <1>2
        <3>4. \A k \in 1 .. Links + 1 : t[k] \in Cells(s) \cup {head}
            BY <1>2, <2>5, <2>9
        <3>5. \A k \in 1 .. Links : s[k] \in {t[m] : m \in 1 .. Links + 1}
            BY <2>5, <3>2
        <3>6. head \in {t[m] : m \in 1 .. Links + 1}
            BY <2>5, <3>3
        <3> QED
            BY <3>1, <3>4, <3>5, <3>6 DEF Cells
    <2>12. ListOf(t)'
        BY <1>1, <1>2, <2>1, <2>2, <2>4, <2>6, <2>10, <2>11 DEF ListOf
    <2> QED
        BY <2>1, <2>2, <2>4, <2>5, <2>12 DEF ListInv
<1> QED
    BY <1>3, <1>4, <1>5

\* Without takes out the first.
LEMMA WithoutFirst ==
    ASSUME NEW r \in Seq(Callbacks), NEW c, NEW k \in 1 .. Len(r), r[k] = c,
           \A j \in 1 .. k - 1 : r[j] # c
    PROVE  /\ Without(r, c) \in Seq(Callbacks) /\ Len(Without(r, c)) = Len(r) - 1
           /\ \A m \in 1 .. Len(r) - 1 :
                Without(r, c)[m] = IF m < k THEN r[m] ELSE r[m + 1]
<1> DEFINE i == CHOOSE j \in DOMAIN r : r[j] = c /\ \A l \in 1 .. j - 1 : r[l] # c
<1>1. i = k
    <2>1. k \in DOMAIN r /\ \A j \in DOMAIN r : r[j] = c /\ (\A l \in 1 .. j - 1 : r[l] # c) => j = k
        OBVIOUS
    <2> QED
        BY <2>1
<1>2. Without(r, c) = SubSeq(r, 1, k - 1) \o SubSeq(r, k + 1, Len(r))
    BY <1>1 DEF Without
<1> DEFINE a == SubSeq(r, 1, k - 1)  b == SubSeq(r, k + 1, Len(r))
<1>3. a \in Seq(Callbacks) /\ Len(a) = k - 1 /\ \A m \in 1 .. k - 1 : a[m] = r[m]
    OBVIOUS
<1>4. b \in Seq(Callbacks) /\ Len(b) = Len(r) - k /\ \A m \in 1 .. Len(r) - k : b[m] = r[m + k]
    OBVIOUS
<1> HIDE DEF a, b
<1>5. a \o b \in Seq(Callbacks) /\ Len(a \o b) = Len(r) - 1
    BY <1>3, <1>4
<1>6. ASSUME NEW m \in 1 .. Len(r) - 1
      PROVE  (a \o b)[m] = IF m < k THEN r[m] ELSE r[m + 1]
    BY <1>3, <1>4
<1> QED
    BY <1>2, <1>5, <1>6 DEF a, b

\* __unregister_callback: the search, the unlinking and the freeing.
LEMMA RemoveStep ==
    ASSUME TypeOK, ListInv, Unregister \/ Skip \/ Unlink \/ Free
    PROVE  ListInv'
<1> USE DEF Goto
<1>1. PICK s \in [1 .. Links -> Nodes] : ListOf(s)
    BY DEF ListInv
<1>2. Links \in Nat /\ \A k \in 1 .. Links : s[k] \in Cells(s)
    BY DEF ListInv, Links, Cells
<1>3. Nil \notin Nodes
    BY InterruptsAssumption
<1>4. CASE Unregister \/ Skip
    <2>1. pc \in {"idle", "find"} /\ pc' \in {"idle", "find"} /\ UNCHANGED list
        BY <1>4 DEF Unregister, Skip
    <2>2. ~Adding /\ ~Adding' /\ Extra = {} /\ Extra' = {} /\ First = head /\ First' = head
        BY <2>1 DEF Adding, Extra, First, list
    <2>3. Links' = Links /\ Cells(s)' = Cells(s) /\ \A k : At(s, k)' = At(s, k)
        BY <2>1 DEF Links, Cells, At, list
    <2>4. Linked(s)'
        BY <1>1, <2>1, <2>3 DEF ListOf, Linked, list
    <2>5. pc' = "find" => Searching(s)'
        <3>1. CASE Unregister
            <4>1. cur' = At(s, 1) /\ last' = At(s, 0) /\ 1 \in 1 .. Links + 1
                BY <1>1, <1>2, <2>2, <3>1 DEF ListOf, Unregister, At
            <4> QED
                BY <2>3, <4>1 DEF Searching
        <3>2. CASE Skip /\ pc' = "find"
            <4>1. PICK k \in 1 .. Links + 1 :
                    /\ cur = At(s, k) /\ last = At(s, k - 1)
                    /\ \A j \in 1 .. k - 1 : registered[j] # arg
                BY <1>1, <3>2 DEF ListOf, Searching, Skip
            <4>2. cur # Nil /\ callback[cur] # arg /\ last' = cur /\ cur' = next[cur] /\ arg' = arg
                BY <3>2 DEF Skip, NextLink
            <4>3. k \in 1 .. Links /\ cur = s[k]
                BY <1>2, <4>1, <4>2 DEF At
            <4>4. cur' = At(s, k + 1) /\ registered[k] # arg
                BY <1>1, <4>2, <4>3 DEF ListOf, Linked
            <4>5. k + 1 \in 1 .. Links + 1 /\ (k + 1) - 1 = k
                  /\ \A j \in 1 .. k : j = k \/ j \in 1 .. k - 1
                BY <1>2, <4>3
            <4> QED
                BY <2>1, <2>3, <4>1, <4>2, <4>4, <4>5 DEF Searching, list
        <3> QED
            BY <1>4, <3>1, <3>2
    <2>6. ListOf(s)'
        BY <1>1, <2>1, <2>2, <2>3, <2>4, <2>5 DEF ListOf, list
    <2> QED
        BY <1>1, <2>1, <2>2, <2>3, <2>6 DEF ListInv, list
<1>5. CASE Unlink
    <2>1. /\ pc = "find" /\ pc' = "free" /\ cur # Nil /\ callback[cur] = arg
          /\ registered' = Without(registered, arg)
          /\ IF last = Nil THEN head' = next[cur] /\ next' = next
             ELSE next' = [next EXCEPT ![last] = next[cur]] /\ head' = head
          /\ UNCHANGED <<callback, used, arg, cur>>
        BY <1>5 DEF Unlink, IsFirst, locals
    <2>2. ~Adding /\ ~Adding' /\ Extra = {} /\ Extra' = {cur} /\ First = head /\ First' = head'
        BY <2>1 DEF Adding, Extra, First
    <2>3. PICK k \in 1 .. Links + 1 :
            /\ cur = At(s, k) /\ last = At(s, k - 1)
            /\ \A j \in 1 .. k - 1 : registered[j] # arg
        BY <1>1, <2>1 DEF ListOf, Searching
    <2>4. k \in 1 .. Links /\ cur = s[k]
        BY <1>2, <2>1, <2>3 DEF At
    <2>5. registered[k] = arg /\ next[cur] = At(s, k + 1)
        BY <1>1, <2>1, <2>4 DEF ListOf, Linked
    <2>6. /\ registered' \in Seq(Callbacks) /\ Links' = Links - 1
          /\ \A m \in 1 .. Links - 1 :
                registered'[m] = IF m < k THEN registered[m] ELSE registered[m + 1]
        <3>1. /\ registered \in Seq(Callbacks) /\ k \in 1 .. Len(registered) /\ registered[k] = arg
              /\ \A j \in 1 .. k - 1 : registered[j] # arg
            BY <2>3, <2>4, <2>5 DEF ListInv, Links
        <3>2. /\ Without(registered, arg) \in Seq(Callbacks)
              /\ Len(Without(registered, arg)) = Len(registered) - 1
              /\ \A m \in 1 .. Len(registered) - 1 :
                    Without(registered, arg)[m]
                        = IF m < k THEN registered[m] ELSE registered[m + 1]
            BY <3>1, WithoutFirst, Zenon
        <3> QED
            BY <2>1, <3>2 DEF Links
    <2>7. PICK t \in [1 .. Links - 1 -> Nodes] :
            \A m \in 1 .. Links - 1 : t[m] = IF m < k THEN s[m] ELSE s[m + 1]
        <3> DEFINE f == [m \in 1 .. Links - 1 |-> IF m < k THEN s[m] ELSE s[m + 1]]
        <3>1. f \in [1 .. Links - 1 -> Nodes]
            BY <1>2
        <3>2. \A m \in 1 .. Links - 1 : f[m] = IF m < k THEN s[m] ELSE s[m + 1]
            OBVIOUS
        <3> QED
            BY <3>1, <3>2
    <2>8. \A m \in 1 .. Links : At(t, m)' = IF m < k THEN At(s, m) ELSE At(s, m + 1)
        BY <1>2, <2>4, <2>6, <2>7 DEF At
    <2>9. /\ k = 1 => head' = At(s, 2) /\ next' = next
          /\ k # 1 => /\ head' = head /\ next'[s[k - 1]] = At(s, k + 1)
                      /\ \A m \in 1 .. Links : m # k - 1 => next'[s[m]] = next[s[m]]
        <3>1. CASE k = 1
            BY <1>2, <2>1, <2>3, <2>4, <2>5, <3>1 DEF At
        <3>2. CASE k # 1
            <4>1. k - 1 \in 1 .. Links /\ last = s[k - 1] /\ last \in Nodes
                BY <1>2, <2>3, <2>4, <3>2 DEF At
            <4>2. next' = [next EXCEPT ![last] = next[cur]] /\ head' = head
                BY <1>3, <2>1, <4>1
            <4>3. \A m \in 1 .. Links : m # k - 1 => s[m] # last /\ s[m] \in Nodes
                BY <1>1, <4>1 DEF ListOf, Linked
            <4> QED
                BY <2>5, <3>2, <4>1, <4>2, <4>3 DEF TypeOK
        <3> QED
            BY <3>1, <3>2
    <2>10. \A m \in 1 .. Links : next[s[m]] = At(s, m + 1) /\ callback[s[m]] = registered[m]
        BY <1>1 DEF ListOf, Linked
    <2>11. \A l, m \in 1 .. Links : s[l] = s[m] => l = m
        BY <1>1 DEF ListOf, Linked
    <2>12. Linked(t)'
        <3>1. ASSUME NEW l \in 1 .. Links - 1, NEW m \in 1 .. Links - 1, t[l] = t[m]
              PROVE  l = m
            BY <1>2, <2>4, <2>7, <2>11, <3>1
        <3>2. ASSUME NEW m \in 1 .. Links - 1
              PROVE  next'[t[m]] = At(t, m + 1)' /\ callback'[t[m]] = registered'[m]
            <4>1. m \in 1 .. Links /\ m + 1 \in 1 .. Links
                BY <1>2
            <4>2. CASE m < k
                <5>1. t[m] = s[m] /\ callback'[t[m]] = registered'[m]
                    BY <2>1, <2>6, <2>7, <2>10, <4>1, <4>2
                <5>2. CASE m = k - 1
                    BY <1>2, <2>4, <2>8, <2>9, <4>1, <5>1, <5>2
                <5>3. CASE m # k - 1
                    <6>1. m + 1 < k /\ k # 1
                        BY <2>4, <4>1, <4>2, <5>3
                    <6> QED
                        BY <2>8, <2>9, <2>10, <4>1, <5>1, <5>3, <6>1
                <5> QED
                    BY <5>1, <5>2, <5>3
            <4>3. CASE m >= k
                <5>1. t[m] = s[m + 1] /\ callback'[t[m]] = registered'[m]
                    BY <2>1, <2>4, <2>6, <2>7, <2>10, <4>1, <4>3
                <5>2. next'[s[m + 1]] = next[s[m + 1]]
                    BY <2>4, <2>9, <4>1, <4>3
                <5>3. At(t, m + 1)' = At(s, (m + 1) + 1)
                    BY <2>4, <2>8, <4>1, <4>3
                <5> QED
                    BY <2>10, <4>1, <5>1, <5>2, <5>3
            <4> QED
                BY <2>4, <4>1, <4>2, <4>3
        <3> QED
            BY <2>6, <3>1, <3>2 DEF Linked
    <2>13. used = Cells(t)' \cup {cur} /\ cur \notin Cells(t)'
        <3>1. Cells(t)' = {t[m] : m \in 1 .. Links - 1}
            BY <2>6 DEF Cells
        <3>2. \A m \in 1 .. Links - 1 : t[m] \in Cells(s) /\ t[m] # cur
            BY <1>2, <2>4, <2>7, <2>11
        <3>3. ASSUME NEW m \in 1 .. Links PROVE s[m] = cur \/ s[m] \in {t[l] : l \in 1 .. Links - 1}
            <4>1. CASE m < k
                BY <1>2, <2>4, <2>7, <4>1
            <4>2. CASE m > k
                <5>1. m - 1 \in 1 .. Links - 1 /\ ~(m - 1 < k) /\ (m - 1) + 1 = m
                    BY <1>2, <2>4, <4>2
                <5>2. t[m - 1] = s[m]
                    BY <2>7, <5>1
                <5> QED
                    BY <5>1, <5>2
            <4> QED
                BY <2>4, <4>1, <4>2
        <3>4. used = Cells(s) /\ cur \in Cells(s)
            BY <1>1, <1>2, <2>2, <2>4 DEF ListOf
        <3> QED
            BY <3>1, <3>2, <3>3, <3>4 DEF Cells
    <2>14. head' = At(t, 1)'
        <3>1. 1 \in 1 .. Links /\ head = At(s, 1)
            BY <1>1, <1>2, <2>2, <2>4 DEF ListOf
        <3> QED
            BY <2>4, <2>8, <2>9, <3>1
    <2>15. ListOf(t)'
        BY <2>1, <2>2, <2>12, <2>13, <2>14 DEF ListOf
    <2>16. cur' \in Nodes
        BY <2>1, <2>4
    <2> QED
        BY <2>1, <2>2, <2>6, <2>7, <2>15, <2>16 DEF ListInv
<1>6. CASE Free
    <2>1. /\ pc = "free" /\ pc' = "idle" /\ used' = used \ {cur}
          /\ next' = [next EXCEPT ![cur] = Wild] /\ callback' = [callback EXCEPT ![cur] = Wild]
          /\ UNCHANGED <<head, registered>>
        BY <1>6 DEF Free, Freed
    <2>2. ~Adding /\ ~Adding' /\ Extra = {cur} /\ Extra' = {} /\ First = head /\ First' = head
        BY <2>1 DEF Adding, Extra, First
    <2>3. Links' = Links /\ Cells(s)' = Cells(s) /\ \A k : At(s, k)' = At(s, k)
        BY <2>1 DEF Links, Cells, At
    <2>4. cur \notin Cells(s) /\ used = Cells(s) \cup {cur}
        BY <1>1, <2>2 DEF ListOf
    <2>5. \A k \in 1 .. Links : next'[s[k]] = next[s[k]] /\ callback'[s[k]] = callback[s[k]]
        BY <1>2, <2>1, <2>4 DEF TypeOK
    <2>6. Linked(s)'
        BY <1>1, <2>1, <2>3, <2>5 DEF ListOf, Linked
    <2>7. ListOf(s)'
        BY <1>1, <2>1, <2>2, <2>3, <2>4, <2>6 DEF ListOf
    <2> QED
        BY <2>1, <2>2, <2>3, <2>7 DEF ListInv
<1> QED
    BY <1>4, <1>5, <1>6

LEMMA FullStep == FullInv /\ [Next]_vars => FullInv'
<1> SUFFICES ASSUME FullInv, [Next]_vars PROVE FullInv'
    OBVIOUS
<1>1. Inv /\ TypeOK /\ Bounded /\ ListInv
    BY DEF FullInv
<1>2. Inv' /\ TypeOK' /\ Bounded'
    BY <1>1, InvStep, TypeStep
<1>3. CASE Nest
    <2>1. UNCHANGED <<list, locals>>
        BY <1>3 DEF Nest, InitInterrupts, InitEnable, Disable, DisableClear, DisableCount,
            Enable, EnableSet
    <2>2. pc \notin {"next", "callback", "find", "free"} /\ pc' \notin {"next", "callback", "find", "free"}
        BY <1>3 DEF Nest, InitInterrupts, InitEnable, Disable, DisableClear, DisableCount,
            Enable, EnableSet, Goto
    <2> QED
        BY <1>1, <1>2, <2>1, <2>2, ListElsewhere DEF FullInv
<1>4. CASE SetMask \/ Raise \/ MI_handler \/ UNCHANGED vars
    <2>1. UNCHANGED <<list, locals, pc>> /\ (UNCHANGED <<ie, mask>> \/ pc = "idle")
        BY <1>4 DEF SetMask, Raise, MI_handler, vars, master, source
    <2> QED
        BY <1>1, <1>2, <2>1, ListElsewhere DEF FullInv
<1>5. CASE Link \/ SetNext \/ SetCallback
    BY <1>1, <1>2, <1>5, AddStep DEF FullInv
<1>6. CASE Unregister \/ Skip \/ Unlink \/ Free
    BY <1>1, <1>2, <1>6, RemoveStep DEF FullInv
<1> QED
    BY <1>3, <1>4, <1>5, <1>6 DEF Next, Register

\* Whenever the handler may run, in the middle of __unregister_callback
\* included, following the links from the head gives the callbacks that are
\* registered, latest first, in cells that are allocated, and comes to the end;
\* between calls no cell is lost (interrupt.c, __register_callback,
\* __unregister_callback, __call_callback).
THEOREM ListWhole == Spec => []HandlerFindsList
<1>1. Init => FullInv
    BY InvInit, TypeInit DEF FullInv
<1>2. Spec => []FullInv
    BY <1>1, FullStep, PTL DEF Spec
<1> QED
    BY <1>2, ListFound, PTL

-----------------------------------------------------------------------------
(* Memory cards: the inductive invariant. *)

\* The list of a note's blocks: what follows the k-th.
Following(o, k) == IF k = Len(o) THEN BLOCK_LAST ELSE o[k + 1]

IsList(o) ==
    /\ o \in Seq(Blocks) /\ o # <<>>
    /\ \A i, j \in 1 .. Len(o) : o[i] = o[j] => i = j

\* The table links the blocks of the list in their order.
Chained(toc, o) == IsList(o) /\ \A k \in 1 .. Len(o) : toc[o[k]] = Following(o, k)

\* What the code would find on card p: a note, a table and its links.
NoteOn(p, s) ==
    LET tnote == p[<<"note", s>>]
    IN  tnote # Garbage /\ tnote.inode \in Blocks /\ ValidRegion(tnote.region)
LinksOn(p, i) ==
    [b \in Blocks |-> p[<<"toc", i, IF b \in FirstChunk THEN 1 ELSE 2>>].links[b]]
TocOn(p, i) ==
    /\ \A h \in 1 .. 2 : p[<<"toc", i, h>>] # Garbage
    /\ __get_toc_checksum(LinksOn(p, i)) = p[<<"toc", i, 1>>].sum

Card == [Chunk -> Value \cup {Garbage}]
NoteChunk == {Garbage} \cup {tnote \in Note : tnote.inode \in Blocks \cup {0}}
TocHalf(h) == {Garbage} \cup [sum : Nat, links : [Half(h) -> Nat]]

Typed(p) ==
    /\ p[<<"header">>] \in {"header", Garbage}
    /\ \A s \in Slots : p[<<"note", s>>] \in NoteChunk
    /\ \A i, h \in 1 .. 2 : p[<<"toc", i, h>>] \in TocHalf(h)

\* Whatever halves of tables are on the card link the list as it is, those of a
\* table that is not valid too.
Agree(p, o) ==
    \A i, h \in 1 .. 2 : p[<<"toc", i, h>>] # Garbage =>
        \A k \in 1 .. Len(o) : o[k] \in Half(h) => p[<<"toc", i, h>>].links[o[k]] = Following(o, k)

\* Every note on the card has its own list of blocks, own[s] that in slot s.
Listed(p, own) ==
    \A s \in Slots : NoteOn(p, s) =>
        IsList(own[s]) /\ own[s][1] = p[<<"note", s>>].inode /\ Agree(p, own[s])
Apart(p, own) ==
    \A s, t \in Slots : NoteOn(p, s) /\ NoteOn(p, t) /\ s # t =>
        \A b \in Blocks : ~(b \in ToSet(own[s]) /\ b \in ToSet(own[t]))

\* The notes that clients count on are there, and a way to read them.
Kept(p, notes, own) ==
    \A s \in Slots : notes[s] # None =>
        /\ NoteOn(p, s) /\ NoteName(p[<<"note", s>>]) = notes[s].name
        /\ Len(own[s]) = Len(notes[s].data)
        /\ \A k \in 1 .. Len(own[s]) : p[<<"data", own[s][k]>>] = notes[s].data[k]
Readable(p, notes) ==
    (\E s \in Slots : notes[s] # None) =>
        p[<<"header">>] # Garbage /\ \E i \in 1 .. 2 : TocOn(p, i)

Sound(p, notes, own) ==
    Typed(p) /\ Listed(p, own) /\ Apart(p, own) /\ Kept(p, notes, own) /\ Readable(p, notes)

\* Nothing else is on the card, and a block is free unless it is in a list.
Settled(p, notes, own) ==
    /\ p[<<"header">>] # Garbage
    /\ \A s \in Slots : NoteOn(p, s) => notes[s] # None
    /\ \A i \in 1 .. 2 : TocOn(p, i) /\ \A b \in Blocks :
            LinksOn(p, i)[b] = BLOCK_EMPTY <=> \A s \in Slots : NoteOn(p, s) => b \notin ToSet(own[s])

\* Card c is what p becomes where the writing of w stops after k chunks, and
\* may have spoilt the next.
StoppedAt(c, p, w, k) ==
    /\ c \in Card
    /\ \A i \in 1 .. Len(w) :
            \/ i <= k /\ c[w[i][1]] = w[i][2]
            \/ i > k /\ c[w[i][1]] = p[w[i][1]]
            \/ i = k + 1 /\ c[w[i][1]] = Garbage
    /\ \A d \in Chunk : (\A i \in 1 .. Len(w) : w[i][1] # d) => c[d] = p[d]

Entry == [name : Seq(Nat), data : Seq([of : Nat, part : Nat])]

\* Wherever the call that writes stops, the notes are there; when it has
\* written everything, those it leaves.
Lasting(own) ==
    /\ \A c : \A k \in 0 .. Len(todo) : StoppedAt(c, pak, todo, k) => Sound(c, live, own)
    /\ \A c : StoppedAt(c, pak, todo, Len(todo)) =>
            Sound(c, op, own) /\ (~failed => Settled(c, op, own))

MempakInv ==
    /\ pak \in Card
    /\ todo \in Seq(Chunk \X Value) /\ \A i, j \in 1 .. Len(todo) : todo[i][1] = todo[j][1] => i = j
    /\ live \in [Slots -> Entry] /\ op \in [Slots -> Entry] /\ (Idle => op = live)
    /\ \E own \in [Slots -> Seq(Blocks)] : Lasting(own)

-----------------------------------------------------------------------------
(* Names. *)

\* __ascii_to_n64, in order.
LEMMA Codes ==
    ASSUME NEW c \in Nat
    PROVE  \/ __ascii_to_n64(c) \in {0, 15} /\ (c = 0 <=> __ascii_to_n64(c) = 0)
           \/ c # 0 /\ \E i \in 1 .. 14 : Misc[i] = c /\ __ascii_to_n64(c) = 51 + i
           \/ c \in 48 .. 57 /\ __ascii_to_n64(c) = 16 + (c - 48)
           \/ c \in 65 .. 90 /\ __ascii_to_n64(c) = 26 + (c - 65)
<1> DEFINE In == \E i \in DOMAIN Misc : Misc[i] = c
           at == CHOOSE i \in DOMAIN Misc : Misc[i] = c
<1>1. DOMAIN Misc = 1 .. 14 /\ \A i \in 1 .. 14 : Misc[i] \notin {0} \cup (48 .. 57) \cup (65 .. 90)
    BY DEF Misc
<1>2. In => at \in 1 .. 14 /\ Misc[at] = c
    BY <1>1
<1>3. __ascii_to_n64(c) = IF c = 0 THEN 0 ELSE IF In THEN 51 + at
                          ELSE IF c \in 48 .. 57 THEN 16 + (c - 48)
                          ELSE IF c \in 65 .. 90 THEN 26 + (c - 65) ELSE 15
    <2> HIDE DEF In, at
    <2>1. In => c # 0 /\ c \notin 48 .. 57 /\ c \notin 65 .. 90
        BY <1>1, <1>2
    <2>2. __ascii_to_n64(c) = CASE c = 0 -> 0 [] In -> 51 + at [] c \in 48 .. 57 -> 16 + (c - 48)
                                [] c \in 65 .. 90 -> 26 + (c - 65) [] OTHER -> 15
        BY DEF __ascii_to_n64, In, at
    <2> QED
        BY <2>1, <2>2
<1> HIDE DEF In, at
<1>4. CASE In
    BY <1>1, <1>2, <1>3, <1>4
<1>5. CASE ~In
    BY <1>3, <1>5
<1> QED
    BY <1>4, <1>5

\* The codes of the card are numbers.
LEMMA CodeType == \A c \in Nat : __ascii_to_n64(c) \in Nat
BY Codes

\* A character the card knows is read back as it was written.
LEMMA CharacterKept ==
    ASSUME NEW c \in Nat, c = 32 \/ __ascii_to_n64(c) # 15
    PROVE  __n64_to_ascii(__ascii_to_n64(c)) = c
<1>1. \A x \in Nat : __n64_to_ascii(x) = IF x = 0 THEN 0 ELSE IF x \in 52 .. 65 THEN Misc[x - 51]
                          ELSE IF x \in 16 .. 25 THEN 48 + (x - 16)
                          ELSE IF x \in 26 .. 51 THEN 65 + (x - 26) ELSE 32
    BY DEF __n64_to_ascii
<1>2. \A i \in 1 .. 14 : 51 + i \in 52 .. 65 /\ (51 + i) - 51 = i /\ Misc[i] # 32
    BY DEF Misc
<1>3. CASE \E i \in 1 .. 14 : Misc[i] = c /\ __ascii_to_n64(c) = 51 + i
    BY <1>1, <1>2, <1>3
<1> QED
    BY <1>1, <1>3, Codes

\* The least number of a set is in it.
LEMMA MinFacts ==
    ASSUME NEW S \in SUBSET Nat, S # {}
    PROVE  Min(S) \in S /\ \A x \in S : Min(S) <= x
<1>1. \E n \in S : \A m \in S : n <= m
    BY LeastNumber, Zenon
<1> QED
    BY <1>1 DEF Min

\* The least number of a set, where one is known to be it.
LEMMA MinIs ==
    ASSUME NEW S \in SUBSET Nat, NEW n \in S, \A m \in S : n <= m
    PROVE  Min(S) = n
<1>1. Min(S) \in S /\ Min(S) <= n
    BY MinFacts
<1>2. Min(S) \in Nat /\ n \in Nat /\ n <= Min(S)
    BY <1>1
<1> QED
    BY <1>1, <1>2

\* A sequence that another begins with.
LEMMA PrefixIs ==
    ASSUME NEW s \in Seq(Nat), NEW t \in Seq(Nat), Len(t) <= Len(s), \A i \in 1 .. Len(t) : s[i] = t[i]
    PROVE  SubSeq(s, 1, Len(t)) = t
<1> DEFINE u == SubSeq(s, 1, Len(t))
<1>1. u \in Seq(Nat) /\ Len(u) = Len(t) /\ \A i \in 1 .. Len(t) : u[i] = s[i]
    OBVIOUS
<1> HIDE DEF u
<1>2. u = [i \in 1 .. Len(u) |-> u[i]] /\ t = [i \in 1 .. Len(t) |-> t[i]]
    BY <1>1
<1> QED
    BY <1>1, <1>2 DEF u

\* A name that can be kept is: what is written for a note is a note of the
\* card, with the name that was given.
LEMMA NameKept ==
    ASSUME NEW entry, entry.name \in Seq(Nat), entry.region \in Nat, CleanName(entry.name),
           NEW inode \in Nat
    PROVE  /\ __write_note(entry, inode) \in Note
           /\ __write_note(entry, inode).inode = inode /\ __write_note(entry, inode).region = entry.region
           /\ NoteName(__write_note(entry, inode)) = entry.name
<1> DEFINE given == entry.name
           tname == Field(given)
           dots == {i \in DOMAIN tname : tname[i] = Dot}
           out == dots \cup {i + 1 : i \in dots}
           after == IF dots = {} \/ Min(dots) + 1 \in dots THEN 0 ELSE tname[Min(dots) + 1]
           coded == [i \in 1 .. NameLength |-> __ascii_to_n64(IF i \in out THEN 0 ELSE tname[i])]
           ext == __ascii_to_n64(after)
           tnote == __write_note(entry, inode)
<1>1. NameLength \in Nat \ {0}
    BY NameAssumption
<1>2. tnote = [inode |-> inode, region |-> entry.region, name |-> coded, ext |-> ext]
    BY DEF __write_note
<1>3. PICK d \in 1 .. NameLength + 1 : {j \in DOMAIN given : given[j] = Dot} = {d} /\ Len(given) \in {d, d + 1}
    BY DEF CleanName
<1>4. \A i \in 1 .. Len(given) : given[i] \in Nat \ {0} /\ (given[i] = 32 \/ __ascii_to_n64(given[i]) # 15)
    BY DEF CleanName
<1>5. tname = [i \in 1 .. NameLength + 3 |-> IF i <= Len(given) THEN given[i] ELSE 0]
    BY DEF Field
<1> HIDE DEF tname, tnote
<1>6. dots = {d}
    BY <1>1, <1>3, <1>5 DEF Dot
<1> HIDE DEF dots
<1>7. Min(dots) = d /\ out = {d, d + 1}
    BY <1>6, MinIs
<1>8. after = IF Len(given) = d + 1 THEN given[d + 1] ELSE 0
    <2>1. ~(dots = {} \/ Min(dots) + 1 \in dots) /\ Min(dots) + 1 = d + 1
        BY <1>6, <1>7
    <2>2. tname[d + 1] = IF d + 1 <= Len(given) THEN given[d + 1] ELSE 0
        BY <1>1, <1>3, <1>5
    <2> QED
        BY <1>3, <2>1, <2>2
<1> HIDE DEF out, after
<1>9. after \in Nat /\ ext \in Nat /\ __n64_to_ascii(ext) = after
    <2>1. after \in Nat /\ (after = 0 \/ after = 32 \/ __ascii_to_n64(after) # 15)
        BY <1>3, <1>4, <1>8
    <2>2. __ascii_to_n64(0) # 15
        BY Codes
    <2> QED
        BY <2>1, <2>2, CharacterKept, CodeType
<1>10. coded \in [1 .. NameLength -> Nat]
    <2>1. ASSUME NEW i \in 1 .. NameLength PROVE (IF i \in out THEN 0 ELSE tname[i]) \in Nat
        BY <1>1, <1>4, <1>5
    <2> QED
        BY <2>1, CodeType
<1>11. \A i \in 1 .. NameLength : __n64_to_ascii(coded[i]) = IF i < d THEN given[i] ELSE 0
    <2> SUFFICES ASSUME NEW i \in 1 .. NameLength
                 PROVE  __n64_to_ascii(coded[i]) = IF i < d THEN given[i] ELSE 0
        OBVIOUS
    <2>1. CASE i < d
        <3>1. coded[i] = __ascii_to_n64(given[i]) /\ i \in 1 .. Len(given)
            BY <1>1, <1>3, <1>5, <1>7, <2>1
        <3> QED
            BY <1>4, <2>1, <3>1, CharacterKept
    <2>2. CASE ~(i < d)
        <3>1. coded[i] = __ascii_to_n64(0)
            BY <1>1, <1>3, <1>5, <1>7, <2>2
        <3> QED
            BY <2>2, <3>1, Codes, CharacterKept
    <2> QED
        BY <2>1, <2>2
<1> DEFINE ascii == Field([i \in 1 .. NameLength |-> __n64_to_ascii(tnote.name[i])])
           end == Min({i \in DOMAIN ascii : ascii[i] = 0})
           name == [ascii EXCEPT ![end] = Dot, ![end + 1] = __n64_to_ascii(tnote.ext)]
<1> HIDE DEF coded, ext
<1>12. ascii = [i \in 1 .. NameLength + 3 |-> IF i < d THEN given[i] ELSE 0]
    <2>1. Len([i \in 1 .. NameLength |-> __n64_to_ascii(tnote.name[i])]) = NameLength
        BY <1>1
    <2> QED
        BY <1>1, <1>2, <1>3, <1>11, <2>1 DEF Field
<1> HIDE DEF ascii
<1>13. end = d
    <2>1. \A i \in 1 .. NameLength + 3 : ascii[i] = 0 <=> i >= d
        BY <1>1, <1>3, <1>4, <1>12
    <2>2. d \in {i \in DOMAIN ascii : ascii[i] = 0} /\ {i \in DOMAIN ascii : ascii[i] = 0} \in SUBSET Nat
        BY <1>1, <1>3, <1>12, <2>1
    <2> QED
        BY <1>12, <2>1, <2>2, MinIs
<1> HIDE DEF end
<1>14. name = [i \in 1 .. NameLength + 3 |-> IF i <= Len(given) THEN given[i] ELSE 0]
    <2>1. given[d] = Dot
        BY <1>3
    <2>2. __n64_to_ascii(tnote.ext) = after
        BY <1>2, <1>9
    <2>3. d \in 1 .. NameLength + 3 /\ d + 1 \in 1 .. NameLength + 3 /\ d + 1 # d
        BY <1>1, <1>3
    <2>4. name = [i \in 1 .. NameLength + 3 |-> IF i = d + 1 THEN after ELSE IF i = d THEN Dot
                                                  ELSE IF i < d THEN given[i] ELSE 0]
        BY <1>12, <1>13, <2>2, <2>3
    <2> HIDE DEF name
    <2> QED
        BY <1>1, <1>3, <1>8, <2>1, <2>4
<1> HIDE DEF name
<1>15. Min({i \in DOMAIN name : name[i] = 0}) = Len(given) + 1
    <2>1. \A i \in 1 .. NameLength + 3 : name[i] = 0 <=> i > Len(given)
        BY <1>1, <1>3, <1>4, <1>14
    <2>2. DOMAIN name = 1 .. NameLength + 3
        BY <1>14
    <2>3. Len(given) \in Nat /\ Len(given) + 1 \in 1 .. NameLength + 3
        BY <1>1, <1>3
    <2> DEFINE S == {i \in DOMAIN name : name[i] = 0}
    <2>4. \A i : i \in S <=> i \in 1 .. NameLength + 3 /\ i > Len(given)
        BY <2>1, <2>2, Zenon
    <2> HIDE DEF S, given
    <2>5. Len(given) + 1 \in S /\ S \in SUBSET Nat /\ \A i \in S : Len(given) + 1 <= i
        BY <2>3, <2>4
    <2>6. Min(S) = Len(given) + 1
        BY <2>5, MinIs
    <2> QED
        BY <2>6 DEF S
<1>16. NoteName(tnote) = SubSeq(name, 1, Min({i \in DOMAIN name : name[i] = 0}) - 1)
    BY Zenon DEF NoteName, name, ascii, end
<1>17. SubSeq(name, 1, Len(given)) = given
    <2>1. Len(given) <= NameLength + 3 /\ \A i \in 1 .. Len(given) : name[i] = given[i]
        BY <1>1, <1>3, <1>14
    <2>2. name \in Seq(Nat) /\ Len(name) = NameLength + 3
        BY <1>1, <1>4, <1>14
    <2>3. given \in Seq(Nat) /\ Len(given) <= Len(name)
        BY <2>1, <2>2
    <2> HIDE DEF given
    <2> QED
        BY <2>1, <2>2, <2>3, PrefixIs, Zenon
<1>18. tnote \in Note
    BY <1>2, <1>9, <1>10 DEF Note
<1>19. NoteName(tnote) = given
    <2>1. given \in Seq(Nat) /\ (Len(given) + 1) - 1 = Len(given)
        BY <1>3
    <2> HIDE DEF given
    <2> QED
        BY <1>15, <1>16, <1>17, <2>1
<1>20. tnote.inode = inode /\ tnote.region = entry.region
    BY <1>2
<1> QED
    BY <1>18, <1>19, <1>20 DEF tnote

-----------------------------------------------------------------------------
(* The tables. *)

\* The checksum's loop comes to an end, with a number.
LEMMA ChecksumType == \A toc \in [Blocks -> Nat] : __get_toc_checksum(toc) \in Nat
<1> SUFFICES ASSUME NEW toc \in [Blocks -> Nat] PROVE __get_toc_checksum(toc) \in Nat
    OBVIOUS
<1> DEFINE F == BLOCK_VALID_FIRST
           L == BLOCK_VALID_LAST
           D == F - 1 .. L
           Step(f) == [b \in D |-> IF b < F THEN 0 ELSE f[b - 1] + toc[b]]
           Upto(n) == {f \in [F - 1 .. n -> Nat] :
                        \A b \in F - 1 .. n : f[b] = IF b < F THEN 0 ELSE f[b - 1] + toc[b]}
           Sum == CHOOSE sum : sum = Step(sum)
<1>1. F \in Nat /\ L \in Nat /\ F <= L /\ F - 1 \in Nat /\ Modulus \in Nat \ {0} /\ Blocks = F .. L
    BY MempakAssumption DEF Blocks, BLOCK_EMPTY
<1> HIDE DEF F, L
<1>2. \A n \in D : Upto(n) # {}
    <2> DEFINE N == {n \in D : Upto(n) = {}}
    <2> SUFFICES ASSUME N # {} PROVE FALSE
        OBVIOUS
    <2>1. N \in SUBSET Nat
        BY <1>1
    <2>2. PICK n \in N : \A m \in N : n <= m
        BY <2>1, LeastNumber, Zenon
    <2> HIDE DEF Upto
    <2>3. n \in D /\ Upto(n) = {} /\ n \in Nat
        BY <1>1, <2>2
    <2>4. CASE n = F - 1
        <3>1. [b \in F - 1 .. n |-> 0] \in Upto(n)
            BY <1>1, <2>4 DEF Upto
        <3> QED
            BY <2>3, <3>1
    <2>5. CASE n # F - 1
        <3>1. n - 1 \in D /\ n - 1 \in Nat /\ n - 1 \notin N /\ n \in Blocks
            <4>1. n - 1 \in D /\ n - 1 \in Nat /\ n \in Blocks /\ n - 1 < n
                BY <1>1, <2>3, <2>5
            <4>2. \A m \in N : m \in Nat /\ ~(m < n)
                BY <2>1, <2>2, <2>3
            <4> QED
                BY <4>1, <4>2
        <3>2. PICK f \in Upto(n - 1) : TRUE
            BY <3>1
        <3> DEFINE g == [b \in F - 1 .. n |-> IF b < n THEN f[b] ELSE f[n - 1] + toc[n]]
        <3>3. f \in [F - 1 .. n - 1 -> Nat] /\ toc[n] \in Nat
            BY <3>1, <3>2 DEF Upto
        <3>4. g \in [F - 1 .. n -> Nat]
            BY <1>1, <2>3, <2>5, <3>3
        <3>5. \A b \in F - 1 .. n : g[b] = IF b < F THEN 0 ELSE g[b - 1] + toc[b]
            <4> TAKE b \in F - 1 .. n
            <4>1. CASE b = n
                BY <1>1, <2>3, <2>5, <3>3, <4>1
            <4>2. CASE b # n
                <5>1. b \in F - 1 .. n - 1 /\ b < n /\ (b >= F => b - 1 \in F - 1 .. n /\ b - 1 < n)
                    BY <1>1, <2>3, <4>2
                <5> QED
                    BY <1>1, <3>2, <5>1 DEF Upto
            <4> QED
                BY <4>1, <4>2
        <3> HIDE DEF g
        <3>6. g \in Upto(n)
            BY <3>4, <3>5 DEF Upto
        <3> QED
            BY <2>3, <3>6
    <2> QED
        BY <2>4, <2>5
<1>3. PICK f \in Upto(L) : TRUE
    <2>1. L \in D
        BY <1>1
    <2> HIDE DEF Upto, D
    <2>2. Upto(L) # {}
        BY <1>2, <2>1
    <2> QED
        BY <2>2
<1>4. f = Step(f)
    BY <1>3
<1>5. Sum = Step(Sum)
    <2> HIDE DEF Step
    <2> QED
        BY <1>4, Zenon
<1>6. \A b \in D : Sum[b] = IF b < F THEN 0 ELSE Sum[b - 1] + toc[b]
    <2>1. \A g : \A b \in D : Step(g)[b] = IF b < F THEN 0 ELSE g[b - 1] + toc[b]
        OBVIOUS
    <2> HIDE DEF Sum, Step
    <2> QED
        BY <1>5, <2>1
<1> HIDE DEF Sum
<1>7. \A b \in D : Sum[b] \in Nat
    <2> DEFINE N == {b \in D : Sum[b] \notin Nat}
    <2> SUFFICES ASSUME N # {} PROVE FALSE
        OBVIOUS
    <2>1. N \in SUBSET Nat
        BY <1>1
    <2>2. PICK n \in N : \A m \in N : n <= m
        BY <2>1, LeastNumber, Zenon
    <2>3. n \in D /\ n \in Nat /\ Sum[n] \notin Nat /\ n >= F
        BY <1>1, <1>6, <2>2
    <2>4. n - 1 \in D /\ n - 1 \notin N /\ n \in Blocks
        BY <1>1, <2>1, <2>2, <2>3
    <2>5. Sum[n - 1] \in Nat /\ toc[n] \in Nat
        BY <2>4
    <2>6. Sum[n] = Sum[n - 1] + toc[n]
        BY <1>1, <1>6, <2>3
    <2> QED
        BY <2>3, <2>5, <2>6
<1>8. __get_toc_checksum(toc) = Sum[L] % Modulus
    BY DEF __get_toc_checksum, Sum, L, F
<1> QED
    BY <1>1, <1>7, <1>8

\* Blocks are numbers, finitely many; BLOCK_LAST and BLOCK_EMPTY are none.
LEMMA BlockFacts ==
    /\ Blocks \subseteq Nat /\ IsFiniteSet(Blocks) /\ Cardinality(Blocks) \in Nat \ {0}
    /\ BLOCK_LAST \notin Blocks /\ BLOCK_EMPTY \notin Blocks /\ 0 \notin Blocks /\ BLOCK_LAST # BLOCK_EMPTY
<1>1. BLOCK_VALID_FIRST \in Nat /\ BLOCK_VALID_LAST \in Nat /\ BLOCK_VALID_FIRST <= BLOCK_VALID_LAST
    BY MempakAssumption
<1>2. IsFiniteSet(Blocks) /\ Cardinality(Blocks) = BLOCK_VALID_LAST - BLOCK_VALID_FIRST + 1
    BY <1>1, FS_Interval DEF Blocks
<1> QED
    BY <1>1, <1>2, MempakAssumption DEF Blocks, BLOCK_LAST, BLOCK_EMPTY

\* A list of different blocks is no longer than all of them.
LEMMA ListFits ==
    ASSUME NEW o \in Seq(Blocks), \A i, j \in 1 .. Len(o) : o[i] = o[j] => i = j
    PROVE  Len(o) \in Nat /\ Len(o) <= Cardinality(Blocks)
<1>1. Len(o) \in Nat /\ o \in [1 .. Len(o) -> Blocks]
    OBVIOUS
<1>2. IsFiniteSet(1 .. Len(o)) /\ Cardinality(1 .. Len(o)) = Len(o)
    BY <1>1, FS_Interval
<1>3. Len(o) <= Cardinality(Blocks)
    <2> SUFFICES ASSUME Cardinality(Blocks) < Len(o) PROVE FALSE
        BY <1>1, BlockFacts
    <2> DEFINE S == 1 .. Len(o)
    <2> HIDE DEF S
    <2>1. /\ o \in [S -> Blocks] /\ IsFiniteSet(S) /\ IsFiniteSet(Blocks)
          /\ Cardinality(Blocks) < Cardinality(S)
        BY <1>1, <1>2, BlockFacts DEF S
    <2>2. \E i, j \in S : i # j /\ o[i] = o[j]
        BY <2>1, FS_PigeonHole, Zenon
    <2> QED
        BY <2>2 DEF S
<1> QED
    BY <1>1, <1>3

\* Walk goes through the list and comes to its end.
LEMMA WalkIsList ==
    ASSUME NEW toc, NEW o, Chained(toc, o)
    PROVE  Walk(toc, o[1]) = [blocks |-> o, end |-> BLOCK_LAST]
<1> DEFINE C == Cardinality(Blocks)
           D == 0 .. C
           W == [n \in D |-> IF n < Len(o) THEN o[n + 1] ELSE BLOCK_LAST]
           Step(f) == [n \in D |-> IF n = 0 THEN o[1]
                                   ELSE IF f[n - 1] \in Blocks THEN toc[f[n - 1]] ELSE f[n - 1]]
           at == CHOOSE f : f = Step(f)
           pages == Cardinality({n \in DOMAIN at : at[n] \in Blocks})
<1>1. o \in Seq(Blocks) /\ Len(o) \in 1 .. C /\ C \in Nat \ {0} /\ BLOCK_LAST \notin Blocks
    BY BlockFacts, ListFits DEF Chained, IsList
<1>2. \A k \in 1 .. Len(o) : o[k] \in Blocks /\ toc[o[k]] = IF k = Len(o) THEN BLOCK_LAST ELSE o[k + 1]
    BY <1>1 DEF Chained, IsList, Following
<1> HIDE DEF C
<1>3. W = Step(W)
    <2> SUFFICES ASSUME NEW n \in D PROVE W[n] = Step(W)[n]
        BY Zenon
    <2>1. CASE n = 0
        BY <1>1, <2>1
    <2>2. CASE n # 0
        <3>1. n \in Nat /\ n - 1 \in D /\ W[n - 1] = IF n <= Len(o) THEN o[n] ELSE BLOCK_LAST
            BY <1>1, <2>2
        <3>2. W[n] = IF n < Len(o) THEN o[n + 1] ELSE BLOCK_LAST
            OBVIOUS
        <3>3. Step(W)[n] = IF W[n - 1] \in Blocks THEN toc[W[n - 1]] ELSE W[n - 1]
            BY <2>2
        <3> HIDE DEF W, Step
        <3>4. CASE n <= Len(o)
            <4>1. n \in 1 .. Len(o) /\ W[n - 1] = o[n]
                BY <1>1, <2>2, <3>1, <3>4
            <4> QED
                BY <1>1, <1>2, <3>1, <3>2, <3>3, <4>1
        <3>5. CASE ~(n <= Len(o))
            BY <1>1, <3>1, <3>2, <3>3, <3>5
        <3> QED
            BY <3>4, <3>5
    <2> QED
        BY <2>1, <2>2
<1>4. at = Step(at)
    <2> HIDE DEF W, Step
    <2> QED
        BY <1>3, Zenon
<1> HIDE DEF at
<1> DEFINE N == {n \in D : at[n] # W[n]}
<1>5. N = {}
    <2> SUFFICES ASSUME N # {} PROVE FALSE
        OBVIOUS
    <2>1. N \in SUBSET Nat
        BY <1>1
    <2>2. PICK n \in N : \A m \in N : n <= m
        BY <2>1, LeastNumber, Zenon
    <2>3. n # 0
        <3>1. Step(at)[0] = o[1] /\ Step(W)[0] = o[1]
            BY <1>1
        <3> HIDE DEF W, Step
        <3> QED
            BY <1>3, <1>4, <2>2, <3>1
    <2>4. n \in D /\ n - 1 \in D /\ n - 1 \notin N
        BY <2>1, <2>2, <2>3, <1>1
    <2>5. at[n - 1] = W[n - 1]
        BY <2>4
    <2>6. \A f : Step(f)[n] = IF f[n - 1] \in Blocks THEN toc[f[n - 1]] ELSE f[n - 1]
        BY <2>3, <2>4
    <2> HIDE DEF W, Step
    <2>7. at[n] = W[n]
        <3>1. at[n] = Step(at)[n] /\ W[n] = Step(W)[n]
            BY <1>3, <1>4
        <3>2. Step(at)[n] = Step(W)[n]
            BY <2>5, <2>6
        <3> QED
            BY <3>1, <3>2
    <2> QED
        BY <2>2, <2>7
<1>6. at = W
    <2>1. DOMAIN at = D /\ at = [n \in D |-> at[n]]
        <3>1. \A f : DOMAIN Step(f) = D /\ Step(f) = [n \in D |-> Step(f)[n]]
            BY Zenon
        <3> HIDE DEF Step
        <3> QED
            BY <1>4, <3>1
    <2> QED
        BY <2>1, <1>5
<1>7. Walk(toc, o[1]) = [blocks |-> [n \in 1 .. pages |-> at[n - 1]], end |-> at[C]]
    BY DEF Walk, C, at
<1>8. pages = Len(o)
    <2>1. {n \in DOMAIN at : at[n] \in Blocks} = 0 .. Len(o) - 1
        BY <1>1, <1>2, <1>6
    <2>2. Cardinality(0 .. Len(o) - 1) = Len(o)
        <3>1. 0 \in Int /\ Len(o) - 1 \in Int /\ ~(0 > Len(o) - 1) /\ Len(o) - 1 - 0 + 1 = Len(o)
            BY <1>1
        <3>2. \A a, b \in Int : Cardinality(a .. b) = IF a > b THEN 0 ELSE b - a + 1
            BY FS_Interval
        <3> QED
            BY <3>1, <3>2
    <2> QED
        BY <2>1, <2>2
<1> HIDE DEF pages
<1>9. at[C] = BLOCK_LAST /\ \A n \in 1 .. Len(o) : at[n - 1] = o[n]
    BY <1>1, <1>6
<1>10. [n \in 1 .. Len(o) |-> at[n - 1]] = o
    BY <1>1, <1>9
<1> QED
    BY <1>7, <1>8, <1>9, <1>10

\* So the blocks of a note are those of its list.
LEMMA NoteIsList ==
    ASSUME NEW toc, NEW o, Chained(toc, o)
    PROVE  NoteBlocks(toc, o[1]) = o
<1> DEFINE w == Walk(toc, o[1])
<1>1. w = [blocks |-> o, end |-> BLOCK_LAST]
    BY WalkIsList
<1> HIDE DEF w
<1>2. w.end = BLOCK_LAST /\ w.blocks = o
    BY <1>1
<1>3. NoteBlocks(toc, o[1]) = IF w.end = BLOCK_LAST THEN w.blocks ELSE <<>>
    BY DEF NoteBlocks, w
<1> QED
    BY <1>2, <1>3

-----------------------------------------------------------------------------
(* Allocation. *)

\* What n things are mapped onto has no more than n elements.
LEMMA NoMore ==
    ASSUME NEW S, NEW n \in Nat, NEW f \in [1 .. n -> S], \A x \in S : \E i \in 1 .. n : f[i] = x
    PROVE  Cardinality(S) <= n
<1>1. f \in Surjection(1 .. n, S)
    BY Zenon DEF Surjection
<1>2. ExistsSurjection(1 .. n, S)
    BY <1>1, Zenon DEF ExistsSurjection
<1> QED
    BY <1>2, FS_SurjCardinalityBound, Zenon

\* Where enough blocks are free the search finds as many, in their order.
LEMMA LowestFacts ==
    ASSUME NEW toc, NEW n \in Nat \ {0}, n <= __get_free_space(toc), NEW free, free = Lowest(toc, n)
    PROVE  /\ free \in [1 .. n -> Blocks] /\ \A i \in 1 .. n : toc[free[i]] = BLOCK_EMPTY
           /\ \A i, j \in 1 .. n : i < j => free[i] < free[j]
<1> DEFINE Unlinked == {b \in Blocks : toc[b] = BLOCK_EMPTY}
           C == Cardinality(Unlinked)
           Good(m, f) == /\ f \in [1 .. m -> Unlinked]
                         /\ \A i, j \in 1 .. m : i < j => f[i] < f[j]
                         /\ \A b \in Unlinked : b < f[m] => b \in ToSet(f)
<1>1. Unlinked \subseteq Nat /\ IsFiniteSet(Unlinked) /\ C \in Nat /\ n <= C
    BY BlockFacts, FS_Subset, FS_CardinalityType DEF __get_free_space
<1>2. C = __get_free_space(toc)
    BY DEF __get_free_space
<1> HIDE DEF Unlinked, C
<1>3. \A m \in 1 .. C : \E f : Good(m, f)
    <2> DEFINE N == {m \in 1 .. C : ~\E f : Good(m, f)}
    <2> SUFFICES ASSUME N # {} PROVE FALSE
        OBVIOUS
    <2>1. N \in SUBSET Nat
        BY <1>1
    <2>2. PICK m \in N : \A k \in N : m <= k
        BY <2>1, LeastNumber, Zenon
    <2> HIDE DEF Good
    <2>3. m \in 1 .. C /\ m \in Nat /\ ~\E f : Good(m, f)
        BY <1>1, <2>2
    <2>4. \E g : g \in [1 .. m - 1 -> Unlinked] /\ (m # 1 => Good(m - 1, g))
        <3>1. CASE m = 1
            <4>1. [i \in 1 .. m - 1 |-> 0] \in [1 .. m - 1 -> Unlinked]
                BY <3>1
            <4> QED
                BY <3>1, <4>1
        <3>2. CASE m # 1
            <4>1. m - 1 \in 1 .. C /\ ~(m <= m - 1)
                BY <1>1, <2>3, <3>2
            <4>2. m - 1 \notin N
                BY <2>2, <4>1
            <4>3. PICK g : Good(m - 1, g)
                BY <4>1, <4>2
            <4> QED
                BY <4>3 DEF Good
        <3> QED
            BY <3>1, <3>2
    <2>5. PICK g : g \in [1 .. m - 1 -> Unlinked] /\ (m # 1 => Good(m - 1, g))
        BY <2>4
    <2>6. m - 1 \in Nat /\ ~(C <= m - 1)
        BY <1>1, <2>3
    <2>7. ~\A x \in Unlinked : \E i \in 1 .. m - 1 : g[i] = x
        BY <2>5, <2>6, NoMore DEF C
    <2> DEFINE Rest == {x \in Unlinked : \A i \in 1 .. m - 1 : g[i] # x}
    <2>8. Rest # {} /\ Rest \in SUBSET Nat
        BY <1>1, <2>7
    <2>9. PICK x \in Rest : \A y \in Rest : x <= y
        BY <2>8, LeastNumber, Zenon
    <2>10. x \in Unlinked /\ x \in Nat /\ \A i \in 1 .. m - 1 : g[i] # x
        BY <2>8, <2>9
    <2>11. \A i \in 1 .. m - 1 : g[i] < x
        <3> SUFFICES ASSUME NEW i \in 1 .. m - 1 PROVE g[i] < x
            OBVIOUS
        <3>1. m # 1 /\ m - 1 \in 1 .. m - 1 /\ DOMAIN g = 1 .. m - 1 /\ g[m - 1] \in Nat /\ g[i] \in Nat
            <4>1. m # 1 /\ m - 1 \in 1 .. m - 1
                BY <2>3
            <4>2. DOMAIN g = 1 .. m - 1 /\ g[i] \in Unlinked /\ g[m - 1] \in Unlinked
                BY <2>5, <4>1
            <4> QED
                BY <1>1, <4>1, <4>2
        <3>2. /\ \A k, j \in 1 .. m - 1 : k < j => g[k] < g[j]
              /\ \A b \in Unlinked : b < g[m - 1] => b \in ToSet(g)
            BY <2>5, <3>1 DEF Good
        <3>3. x \notin ToSet(g)
            BY <2>10, <3>1 DEF ToSet
        <3>4. ~(x < g[m - 1]) /\ x # g[m - 1]
            BY <2>10, <3>1, <3>2, <3>3
        <3>5. i = m - 1 \/ g[i] < g[m - 1]
            BY <2>3, <3>2
        <3> QED
            BY <2>10, <3>1, <3>4, <3>5
    <2> DEFINE h == [i \in 1 .. m |-> IF i < m THEN g[i] ELSE x]
    <2>12. h \in [1 .. m -> Unlinked] /\ h[m] = x /\ \A i \in 1 .. m - 1 : h[i] = g[i]
        BY <2>3, <2>5, <2>10
    <2>13. \A i, j \in 1 .. m : i < j => h[i] < h[j]
        <3> SUFFICES ASSUME NEW i \in 1 .. m, NEW j \in 1 .. m, i < j PROVE h[i] < h[j]
            OBVIOUS
        <3>1. i \in 1 .. m - 1 /\ h[i] = g[i]
            BY <2>3, <2>12
        <3>2. CASE j = m
            BY <2>11, <2>12, <3>1, <3>2
        <3>3. CASE j # m
            <4>1. j \in 1 .. m - 1 /\ h[j] = g[j] /\ m # 1
                BY <2>3, <2>12, <3>1, <3>3
            <4> QED
                BY <2>5, <3>1, <4>1 DEF Good
        <3> QED
            BY <3>2, <3>3
    <2>14. \A b \in Unlinked : b < h[m] => b \in ToSet(h)
        <3> SUFFICES ASSUME NEW b \in Unlinked, b < x PROVE b \in ToSet(h)
            BY <2>12
        <3>1. b \in Nat /\ b \notin Rest
            BY <1>1, <2>9, <2>10
        <3>2. PICK i \in 1 .. m - 1 : g[i] = b
            BY <3>1
        <3>3. i \in 1 .. m /\ h[i] = b /\ DOMAIN h = 1 .. m
            BY <2>3, <2>12, <3>2
        <3> HIDE DEF h
        <3> QED
            BY <3>3 DEF ToSet
    <2> HIDE DEF h
    <2>15. Good(m, h)
        BY <2>12, <2>13, <2>14 DEF Good
    <2> QED
        BY <2>3, <2>15
<1>4. Good(n, free)
    <2>1. \E f \in [1 .. n -> Unlinked] : /\ \A i, j \in 1 .. n : i < j => f[i] < f[j]
                                      /\ \A b \in Unlinked : b < f[n] => b \in ToSet(f)
        <3>1. n \in 1 .. C
            BY <1>1, <1>2
        <3> QED
            BY <1>3, <3>1
    <2>2. free = CHOOSE f \in [1 .. n -> Unlinked] : /\ \A i, j \in 1 .. n : i < j => f[i] < f[j]
                                                 /\ \A b \in Unlinked : b < f[n] => b \in ToSet(f)
        BY DEF Lowest, Unlinked
    <2> QED
        BY <2>1, <2>2, Zenon
<1> QED
    BY <1>4 DEF Unlinked

\* What the search has linked: a list from the last block to the first, of
\* blocks that were free.
NewTable(toc, n, free, all, o) ==
    /\ all \in [Blocks -> Nat]
    /\ Chained(all, o) /\ o[1] = Last(free) /\ Len(o) = n
    /\ \A b \in Blocks : b \notin ToSet(o) => all[b] = toc[b]
    /\ \A b \in ToSet(o) : b \in ToSet(free) /\ all[b] # BLOCK_EMPTY

\* The blocks that were free make such a table.
LEMMA AllocatedFacts ==
    ASSUME NEW toc \in [Blocks -> Nat], NEW n \in Nat \ {0}, NEW free \in [1 .. n -> Blocks],
           \A i, j \in 1 .. n : i < j => free[i] < free[j]
    PROVE  NewTable(toc, n, free, Allocated(toc, free), [i \in 1 .. n |-> free[n + 1 - i]])
<1> SUFFICES ASSUME NEW all, all = Allocated(toc, free), NEW o, o = [i \in 1 .. n |-> free[n + 1 - i]]
             PROVE  NewTable(toc, n, free, all, o)
    BY Zenon
<1> DEFINE place(b) == CHOOSE i \in DOMAIN free : free[i] = b
<1>1. DOMAIN free = 1 .. n /\ Len(free) = n /\ Blocks \subseteq Nat /\ BLOCK_EMPTY \notin Blocks
      /\ BLOCK_LAST # BLOCK_EMPTY /\ BLOCK_LAST \in Nat
    BY BlockFacts DEF BLOCK_LAST
<1>2. \A i, j \in 1 .. n : free[i] = free[j] => i = j
    <2> SUFFICES ASSUME NEW i \in 1 .. n, NEW j \in 1 .. n, free[i] = free[j], i # j PROVE FALSE
        OBVIOUS
    <2>1. free[i] \in Nat /\ free[j] \in Nat
        BY <1>1
    <2>2. i < j \/ j < i
        OBVIOUS
    <2> QED
        BY <2>1, <2>2
<1>3. \A i \in 1 .. n : place(free[i]) = i
    BY <1>1, <1>2
<1>4. all = [b \in Blocks |-> IF b \notin ToSet(free) THEN toc[b]
                              ELSE IF place(b) = 1 THEN BLOCK_LAST ELSE free[place(b) - 1]]
    BY DEF Allocated
<1> HIDE DEF place
<1>5. \A b : b \in ToSet(free) <=> \E i \in 1 .. n : b = free[i]
    BY <1>1 DEF ToSet
<1>6. \A i \in 1 .. n : all[free[i]] = IF i = 1 THEN BLOCK_LAST ELSE free[i - 1]
    <2> TAKE i \in 1 .. n
    <2>1. free[i] \in Blocks /\ free[i] \in ToSet(free) /\ place(free[i]) = i
        BY <1>3, <1>5
    <2> QED
        BY <1>4, <2>1
<1>7. \A b \in Blocks : b \notin ToSet(free) => all[b] = toc[b]
    BY <1>4
<1>8. \A i \in 1 .. n : i # 1 => free[i - 1] \in Blocks
    OBVIOUS
<1>9. all \in [Blocks -> Nat]
    <2>1. ASSUME NEW b \in Blocks PROVE all[b] \in Nat
        <3>1. CASE b \notin ToSet(free)
            BY <1>7, <3>1
        <3>2. CASE b \in ToSet(free)
            <4>1. PICK i \in 1 .. n : b = free[i]
                BY <1>5, <3>2
            <4>2. i # 1 => free[i - 1] \in Nat
                BY <1>1, <1>8
            <4> QED
                BY <1>1, <1>6, <4>1, <4>2
        <3> QED
            BY <3>1, <3>2
    <2> QED
        BY <1>4, <2>1
<1>10. o \in Seq(Blocks) /\ Len(o) = n /\ DOMAIN o = 1 .. n
    <2>1. \A i \in 1 .. n : n + 1 - i \in 1 .. n
        OBVIOUS
    <2>2. o \in [1 .. n -> Blocks]
        BY <2>1
    <2> QED
        BY <2>2
<1>11. \A i \in 1 .. n : o[i] = free[n + 1 - i] /\ n + 1 - i \in 1 .. n
    OBVIOUS
<1>12. ToSet(o) = ToSet(free)
    <2>1. \A i \in 1 .. n : n + 1 - i \in 1 .. n /\ o[n + 1 - i] = free[i]
        OBVIOUS
    <2>2. \A b : b \in ToSet(o) <=> \E i \in 1 .. n : b = o[i]
        BY <1>10 DEF ToSet
    <2>3. \A b : b \in ToSet(o) => b \in ToSet(free)
        BY <1>5, <1>11, <2>2
    <2>4. \A b : b \in ToSet(free) => b \in ToSet(o)
        <3> SUFFICES ASSUME NEW b, b \in ToSet(free) PROVE \E i \in 1 .. n : b = o[i]
            BY <2>2
        <3>1. PICK i \in 1 .. n : b = free[i]
            BY <1>5
        <3>2. n + 1 - i \in 1 .. n /\ o[n + 1 - i] = b
            BY <2>1, <3>1
        <3> QED
            BY <3>2
    <2> QED
        BY <2>3, <2>4
<1>13. Chained(all, o)
    <2>1. o # <<>>
        BY <1>10
    <2>2. \A i, j \in 1 .. Len(o) : o[i] = o[j] => i = j
        BY <1>2, <1>10, <1>11
    <2>3. \A k \in 1 .. Len(o) : all[o[k]] = Following(o, k)
        <3> SUFFICES ASSUME NEW k \in 1 .. n PROVE all[o[k]] = Following(o, k)
            BY <1>10
        <3>1. CASE k = n
            <4>1. n + 1 - k = 1
                BY <3>1
            <4>2. o[k] = free[1] /\ 1 \in 1 .. n
                BY <1>11, <4>1
            <4> QED
                BY <1>6, <1>10, <3>1, <4>2 DEF Following
        <3>2. CASE k # n
            <4>1. k + 1 \in 1 .. n /\ n + 1 - (k + 1) = (n + 1 - k) - 1 /\ n + 1 - k # 1
                BY <3>2
            <4>2. o[k + 1] = free[(n + 1 - k) - 1]
                BY <1>11, <4>1
            <4> QED
                BY <1>6, <1>10, <1>11, <3>2, <4>1, <4>2 DEF Following
        <3> QED
            BY <3>1, <3>2
    <2> QED
        BY <1>10, <2>1, <2>2, <2>3 DEF Chained, IsList
<1>14. o[1] = Last(free)
    <2>1. n + 1 - 1 = n /\ 1 \in 1 .. n
        OBVIOUS
    <2> QED
        BY <1>1, <1>11, <2>1 DEF Last
<1>15. \A b \in ToSet(free) : all[b] # BLOCK_EMPTY
    BY <1>1, <1>5, <1>6, <1>8
<1> QED
    BY <1>7, <1>9, <1>10, <1>12, <1>13, <1>14, <1>15 DEF NewTable

\* There is always a note unlike the others.
LEMMA FreshFacts ==
    Fresh \in DOMAIN Titles /\ \A s \in Slots : live[s] = None \/ live[s].data[1].of # Fresh
<1> DEFINE T == Len(Titles)
           f == [i \in 1 .. NoteCount |->
                    IF live[i - 1].data[1].of \in 1 .. T THEN live[i - 1].data[1].of ELSE 1]
<1>1. T \in Nat /\ NoteCount \in Nat /\ T > NoteCount /\ DOMAIN Titles = 1 .. T
    BY MempakAssumption
<1> HIDE DEF T
<1>2. Cardinality(1 .. T) = T
    <2>1. \A a, b \in Int : Cardinality(a .. b) = IF a > b THEN 0 ELSE b - a + 1
        BY FS_Interval
    <2> QED
        BY <1>1, <2>1
<1>3. f \in [1 .. NoteCount -> 1 .. T]
    BY <1>1
<1>4. ~\A d \in 1 .. T : \E i \in 1 .. NoteCount : f[i] = d
    <2> HIDE DEF f
    <2> SUFFICES ASSUME \A d \in 1 .. T : \E i \in 1 .. NoteCount : f[i] = d PROVE FALSE
        OBVIOUS
    <2>1. Cardinality(1 .. T) <= NoteCount
        BY <1>1, <1>3, NoMore
    <2> QED
        BY <1>1, <1>2, <2>1
<1>5. PICK d \in 1 .. T : \A i \in 1 .. NoteCount : f[i] # d
    BY <1>4
<1>6. \A s \in Slots : live[s].data[1].of # d
    <2> SUFFICES ASSUME NEW s \in Slots, live[s].data[1].of = d PROVE FALSE
        OBVIOUS
    <2>1. s + 1 \in 1 .. NoteCount /\ (s + 1) - 1 = s
        BY <1>1 DEF Slots
    <2>2. f[s + 1] = d
        BY <2>1
    <2> QED
        BY <1>5, <2>1, <2>2
<1> QED
    BY <1>1, <1>6, Zenon DEF Fresh

-----------------------------------------------------------------------------
(* Cards and what is written to them. *)

\* A chunk is of one kind, and where it is.
LEMMA ChunkFacts ==
    /\ <<"header">> \in Chunk
    /\ \A i, h \in 1 .. 2 : <<"toc", i, h>> \in Chunk /\ <<"toc", i, h>> # <<"header">>
    /\ \A s \in Slots : <<"note", s>> \in Chunk /\ <<"note", s>> # <<"header">>
    /\ \A b \in Blocks : <<"data", b>> \in Chunk /\ <<"data", b>> # <<"header">>
    /\ \A i, h \in 1 .. 2 : \A s \in Slots : <<"toc", i, h>> # <<"note", s>>
    /\ \A i, h \in 1 .. 2 : \A b \in Blocks : <<"toc", i, h>> # <<"data", b>>
    /\ \A s \in Slots : \A b \in Blocks : <<"note", s>> # <<"data", b>>
    /\ \A i, h, j, g \in 1 .. 2 : <<"toc", i, h>> = <<"toc", j, g>> => i = j /\ h = g
    /\ \A s, t \in Slots : <<"note", s>> = <<"note", t>> => s = t
    /\ \A b, d \in Blocks : <<"data", b>> = <<"data", d>> => b = d
BY DEF Chunk

\* What the code writes is no garbage.
LEMMA ValueFacts ==
    /\ Garbage \notin Value /\ "header" \in Value
    /\ \A tnote \in Note : tnote \in Value /\ tnote # Garbage
    /\ \A v \in [of : Nat, part : Nat] : v \in Value
    /\ \A toc \in [Blocks -> Nat] : \A h \in 1 .. 2 :
            TocChunk(h, toc) \in Value /\ TocChunk(h, toc) \in TocHalf(h) /\ TocChunk(h, toc) # Garbage
    /\ BlankNote \in Note /\ BlankNote.inode \notin Blocks /\ BlankNote.inode = 0
<1>1. Garbage \notin Value
    BY MempakAssumption
<1>2. ASSUME NEW toc \in [Blocks -> Nat], NEW h \in 1 .. 2
      PROVE  TocChunk(h, toc) \in [sum : Nat, links : [Half(h) -> Nat]]
    <2>1. (IF h = 1 THEN __get_toc_checksum(toc) ELSE 0) \in Nat
        BY ChecksumType
    <2>2. Half(h) \subseteq Blocks
        BY MempakAssumption DEF Half
    <2> QED
        BY <2>1, <2>2 DEF TocChunk
<1>3. \A h \in 1 .. 2 : \A x \in [sum : Nat, links : [Half(h) -> Nat]] : x \in Value
    BY DEF Value, Half
<1>4. BlankNote \in Note /\ BlankNote.inode = 0
    BY NameAssumption DEF BlankNote, Note
<1>5. \A tnote \in Note : tnote \in Value
    BY DEF Value
<1>6. "header" \in Value /\ \A v \in [of : Nat, part : Nat] : v \in Value
    BY DEF Value
<1> QED
    BY <1>1, <1>2, <1>3, <1>4, <1>5, <1>6, BlockFacts DEF TocHalf

\* The links of a table that was written whole, and its checksum.
LEMMA TocWritten ==
    ASSUME NEW c, NEW toc \in [Blocks -> Nat], NEW i \in 1 .. 2,
           \A h \in 1 .. 2 : c[<<"toc", i, h>>] = TocChunk(h, toc)
    PROVE  TocOn(c, i) /\ LinksOn(c, i) = toc
<1>1. LinksOn(c, i) = toc
    <2>1. ASSUME NEW b \in Blocks PROVE LinksOn(c, i)[b] = toc[b]
        <3> DEFINE h == IF b \in FirstChunk THEN 1 ELSE 2
        <3>1. h \in 1 .. 2 /\ b \in Half(h)
            BY DEF Half
        <3>2. LinksOn(c, i)[b] = c[<<"toc", i, h>>].links[b]
            BY DEF LinksOn
        <3> HIDE DEF h
        <3>3. c[<<"toc", i, h>>] = TocChunk(h, toc)
            BY <3>1
        <3>4. TocChunk(h, toc).links[b] = toc[b]
            BY <3>1 DEF TocChunk
        <3> QED
            BY <3>2, <3>3, <3>4
    <2> QED
        BY <2>1 DEF LinksOn
<1>2. c[<<"toc", i, 1>>].sum = __get_toc_checksum(toc)
    BY DEF TocChunk
<1>3. \A h \in 1 .. 2 : c[<<"toc", i, h>>] # Garbage
    BY ValueFacts
<1> QED
    BY <1>1, <1>2, <1>3 DEF TocOn

\* A table depends on its halves.
LEMMA TocSame ==
    ASSUME NEW p, NEW c, NEW i \in 1 .. 2, \A h \in 1 .. 2 : c[<<"toc", i, h>>] = p[<<"toc", i, h>>]
    PROVE  LinksOn(c, i) = LinksOn(p, i) /\ (TocOn(p, i) <=> TocOn(c, i))
<1>1. LinksOn(c, i) = LinksOn(p, i)
    <2>1. \A b \in Blocks : LinksOn(c, i)[b] = LinksOn(p, i)[b]
        BY DEF LinksOn
    <2> QED
        BY <2>1 DEF LinksOn
<1> QED
    BY <1>1 DEF TocOn

\* The links of a table of the card are numbers.
LEMMA LinksType ==
    ASSUME NEW p, Typed(p), NEW i \in 1 .. 2, TocOn(p, i)
    PROVE  LinksOn(p, i) \in [Blocks -> Nat]
<1>1. ASSUME NEW b \in Blocks PROVE LinksOn(p, i)[b] \in Nat
    <2> DEFINE h == IF b \in FirstChunk THEN 1 ELSE 2
    <2>1. h \in 1 .. 2 /\ b \in Half(h)
        BY DEF Half
    <2>2. LinksOn(p, i)[b] = p[<<"toc", i, h>>].links[b]
        BY DEF LinksOn
    <2> HIDE DEF h
    <2>3. p[<<"toc", i, h>>] \in [sum : Nat, links : [Half(h) -> Nat]]
        BY <2>1 DEF TocOn, Typed, TocHalf
    <2> QED
        BY <2>1, <2>2, <2>3
<1> QED
    BY <1>1 DEF LinksOn

\* Where all halves link a list, every table that is valid does.
LEMMA AgreeChained ==
    ASSUME NEW p, NEW o, IsList(o), Agree(p, o), NEW i \in 1 .. 2, TocOn(p, i)
    PROVE  Chained(LinksOn(p, i), o)
<1>1. ASSUME NEW k \in 1 .. Len(o) PROVE LinksOn(p, i)[o[k]] = Following(o, k)
    <2> DEFINE b == o[k]
               h == IF b \in FirstChunk THEN 1 ELSE 2
    <2>1. b \in Blocks
        BY DEF IsList
    <2>2. h \in 1 .. 2 /\ b \in Half(h)
        BY <2>1 DEF Half
    <2>3. LinksOn(p, i)[b] = p[<<"toc", i, h>>].links[b]
        BY <2>1 DEF LinksOn
    <2> HIDE DEF h
    <2>4. p[<<"toc", i, h>>].links[o[k]] = Following(o, k)
        BY <2>2 DEF TocOn, Agree
    <2> QED
        BY <2>3, <2>4
<1> QED
    BY <1>1 DEF Chained

\* Where each half of the tables is as it was, spoilt or written from a table
\* that links a list, and all halves linked it, they still do.
LEMMA AgreeKept ==
    ASSUME NEW p, NEW c, NEW o, NEW toc, Chained(toc, o), Agree(p, o),
           \A i, h \in 1 .. 2 :
                c[<<"toc", i, h>>] \in {p[<<"toc", i, h>>], Garbage, TocChunk(h, toc)}
    PROVE  Agree(c, o)
<1> SUFFICES ASSUME NEW i \in 1 .. 2, NEW h \in 1 .. 2, c[<<"toc", i, h>>] # Garbage,
                    NEW k \in 1 .. Len(o), o[k] \in Half(h)
             PROVE  c[<<"toc", i, h>>].links[o[k]] = Following(o, k)
    BY DEF Agree
<1>1. CASE c[<<"toc", i, h>>] = p[<<"toc", i, h>>]
    BY <1>1 DEF Agree
<1>2. CASE c[<<"toc", i, h>>] = TocChunk(h, toc)
    <2>1. TocChunk(h, toc).links[o[k]] = toc[o[k]]
        BY DEF TocChunk
    <2> QED
        BY <1>2, <2>1 DEF Chained
<1> QED
    BY <1>1, <1>2

\* Nor where none is written.
LEMMA AgreeSame ==
    ASSUME NEW p, NEW c, NEW o, Agree(p, o),
           \A i, h \in 1 .. 2 : c[<<"toc", i, h>>] = p[<<"toc", i, h>>]
    PROVE  Agree(c, o)
BY Zenon DEF Agree

\* And where all are written from such a table.
LEMMA AgreeWritten ==
    ASSUME NEW c, NEW o, NEW toc, Chained(toc, o),
           \A i, h \in 1 .. 2 : c[<<"toc", i, h>>] = TocChunk(h, toc)
    PROVE  Agree(c, o)
<1> SUFFICES ASSUME NEW i \in 1 .. 2, NEW h \in 1 .. 2, NEW k \in 1 .. Len(o), o[k] \in Half(h)
             PROVE  c[<<"toc", i, h>>].links[o[k]] = Following(o, k)
    BY DEF Agree
<1>1. c[<<"toc", i, h>>] = TocChunk(h, toc)
    OBVIOUS
<1>2. TocChunk(h, toc).links[o[k]] = toc[o[k]]
    BY DEF TocChunk
<1> QED
    BY <1>1, <1>2 DEF Chained

-----------------------------------------------------------------------------
(* The steps. *)

Items == Chunk \X Value

\* No chunk is written twice.
Once(w) == \A i, j \in 1 .. Len(w) : w[i][1] = w[j][1] => i = j

\* A card to which nothing is written any more is as it is.
LEMMA StoppedIdle ==
    ASSUME NEW p \in Card, NEW c, NEW k, StoppedAt(c, p, <<>>, k)
    PROVE  c = p
<1>1. c \in Card /\ \A d \in Chunk : c[d] = p[d]
    BY DEF StoppedAt
<1> QED
    BY <1>1 DEF Card

\* A card is one of those at which its writing may stop.
LEMMA StoppedBefore ==
    ASSUME NEW p \in Card, NEW w \in Seq(Items)
    PROVE  StoppedAt(p, p, w, 0)
BY DEF StoppedAt

\* A chunk is written.
LEMMA WriteStep == MempakInv /\ WriteChunk => MempakInv'
<1> SUFFICES ASSUME MempakInv, WriteChunk PROVE MempakInv'
    OBVIOUS
<1> USE DEF Items, Once
<1>1. todo \in Seq(Items) /\ todo # <<>> /\ pak \in Card /\ Once(todo)
    BY DEF MempakInv, WriteChunk, Idle
<1>2. /\ Len(todo) \in Nat \ {0} /\ todo[1] \in Items /\ todo' = Tail(todo)
      /\ todo' \in Seq(Items) /\ Len(todo') = Len(todo) - 1
      /\ \A i \in 1 .. Len(todo') : todo'[i] = todo[i + 1] /\ i + 1 \in 1 .. Len(todo)
    BY <1>1 DEF WriteChunk
<1>3. todo[1][1] \in Chunk /\ todo[1][2] \in Value
    BY <1>2
<1>4. pak' = [pak EXCEPT ![todo[1][1]] = todo[1][2]] /\ pak' \in Card
    BY <1>1, <1>3 DEF WriteChunk, Card
<1>5. Once(todo')
    BY <1>1, <1>2
<1>6. op' = op /\ failed' = failed /\ live' = IF todo' = <<>> THEN op ELSE live
    BY DEF WriteChunk
<1>7. ASSUME NEW c, NEW k \in 0 .. Len(todo'), StoppedAt(c, pak', todo', k)
      PROVE  k + 1 \in 0 .. Len(todo) /\ StoppedAt(c, pak, todo, k + 1)
    <2>1. k + 1 \in 0 .. Len(todo) /\ k \in Nat
        BY <1>2
    <2>2. c \in Card
        BY <1>7 DEF StoppedAt
    <2>3. \A d \in Chunk : d # todo[1][1] => pak'[d] = pak[d]
        BY <1>1, <1>4 DEF Card
    <2>4. pak'[todo[1][1]] = todo[1][2]
        BY <1>1, <1>3, <1>4 DEF Card
    <2>5. c[todo[1][1]] = todo[1][2]
        <3>1. \A i \in 1 .. Len(todo') : todo'[i][1] # todo[1][1]
            BY <1>1, <1>2
        <3> QED
            BY <1>3, <1>7, <2>4, <3>1 DEF StoppedAt
    <2>6. ASSUME NEW i \in 1 .. Len(todo)
          PROVE  \/ i <= k + 1 /\ c[todo[i][1]] = todo[i][2]
                 \/ i > k + 1 /\ c[todo[i][1]] = pak[todo[i][1]]
                 \/ i = (k + 1) + 1 /\ c[todo[i][1]] = Garbage
        <3>1. CASE i = 1
            BY <2>1, <2>5, <3>1
        <3>2. CASE i # 1
            <4>1. i - 1 \in 1 .. Len(todo') /\ todo'[i - 1] = todo[i]
                BY <1>2, <3>2
            <4>2. \/ i - 1 <= k /\ c[todo[i][1]] = todo[i][2]
                  \/ i - 1 > k /\ c[todo[i][1]] = pak'[todo[i][1]]
                  \/ i - 1 = k + 1 /\ c[todo[i][1]] = Garbage
                BY <1>7, <4>1 DEF StoppedAt
            <4>3. todo[i][1] # todo[1][1] /\ todo[i][1] \in Chunk
                BY <1>1, <1>2, <3>2
            <4>4. pak'[todo[i][1]] = pak[todo[i][1]]
                BY <2>3, <4>3
            <4> QED
                BY <2>1, <4>2, <4>4
        <3> QED
            BY <3>1, <3>2
    <2>7. ASSUME NEW d \in Chunk, \A i \in 1 .. Len(todo) : todo[i][1] # d
          PROVE  c[d] = pak[d]
        <3>1. \A i \in 1 .. Len(todo') : todo'[i][1] # d
            BY <1>2, <2>7
        <3>2. d # todo[1][1]
            BY <1>2, <2>7
        <3> QED
            BY <1>7, <2>3, <3>1, <3>2 DEF StoppedAt
    <2> QED
        BY <2>1, <2>2, <2>6, <2>7 DEF StoppedAt
<1>8. PICK own \in [Slots -> Seq(Blocks)] : Lasting(own)
    BY DEF MempakInv
<1>9. \A c : StoppedAt(c, pak', todo', Len(todo')) =>
            Sound(c, op, own) /\ (~failed => Settled(c, op, own))
    <2> SUFFICES ASSUME NEW c, StoppedAt(c, pak', todo', Len(todo'))
                 PROVE  Sound(c, op, own) /\ (~failed => Settled(c, op, own))
        OBVIOUS
    <2>1. Len(todo') \in 0 .. Len(todo') /\ Len(todo') + 1 = Len(todo)
        BY <1>2
    <2>2. StoppedAt(c, pak, todo, Len(todo))
        BY <1>7, <2>1
    <2> QED
        BY <1>8, <2>2 DEF Lasting
<1>10. \A c : \A k \in 0 .. Len(todo') : StoppedAt(c, pak', todo', k) => Sound(c, live', own)
    <2> SUFFICES ASSUME NEW c, NEW k \in 0 .. Len(todo'), StoppedAt(c, pak', todo', k)
                 PROVE  Sound(c, live', own)
        OBVIOUS
    <2>1. CASE todo' = <<>>
        <3>1. k = Len(todo') /\ live' = op
            BY <1>6, <2>1
        <3> QED
            BY <1>9, <3>1
    <2>2. CASE todo' # <<>>
        <3>1. StoppedAt(c, pak, todo, k + 1) /\ k + 1 \in 0 .. Len(todo) /\ live' = live
            BY <1>6, <1>7, <2>2
        <3> QED
            BY <1>8, <3>1 DEF Lasting
    <2> QED
        BY <2>1, <2>2
<1>11. Lasting(own)'
    BY <1>6, <1>9, <1>10 DEF Lasting
<1>12. live' \in [Slots -> Entry] /\ op' \in [Slots -> Entry] /\ (Idle' => op' = live')
    BY <1>6 DEF MempakInv, Idle
<1> QED
    BY <1>2, <1>4, <1>5, <1>11, <1>12 DEF MempakInv

\* The call ends with an error.
LEMMA CutStep == MempakInv /\ CutShort => MempakInv'
<1> SUFFICES ASSUME MempakInv, CutShort PROVE MempakInv'
    OBVIOUS
<1>1. todo \in Seq(Items) /\ todo # <<>> /\ pak \in Card /\ Once(todo)
    BY DEF MempakInv, CutShort, Idle, Items, Once
<1>2. Len(todo) \in Nat \ {0} /\ todo[1] \in Items /\ 0 \in 0 .. Len(todo) /\ 1 \in 0 .. Len(todo)
    BY <1>1
<1>3. todo[1][1] \in Chunk /\ todo[1][2] \in Value
    BY <1>2 DEF Items
<1>4. todo' = <<>> /\ op' = live /\ failed' = TRUE /\ live' = live
    BY DEF CutShort
<1>5. pak' \in Card /\ \E k \in 0 .. Len(todo) : StoppedAt(pak', pak, todo, k)
    <2>1. CASE pak' = pak
        BY <1>1, <1>2, <2>1, StoppedBefore
    <2>2. ASSUME NEW v \in {Garbage, todo[1][2]}, pak' = [pak EXCEPT ![todo[1][1]] = v]
          PROVE  pak' \in Card /\ \E k \in 0 .. Len(todo) : StoppedAt(pak', pak, todo, k)
        <3>1. pak' \in Card
            BY <1>1, <1>3, <2>2 DEF Card
        <3>2. pak'[todo[1][1]] = v /\ \A d \in Chunk : d # todo[1][1] => pak'[d] = pak[d]
            BY <1>1, <1>3, <2>2 DEF Card
        <3>3. \A i \in 1 .. Len(todo) : i # 1 => todo[i][1] # todo[1][1] /\ todo[i][1] \in Chunk
            BY <1>1, <1>2 DEF Items, Once
        <3>4. \A i \in 1 .. Len(todo) : i # 1 => pak'[todo[i][1]] = pak[todo[i][1]]
            BY <3>2, <3>3
        <3>5. \A d \in Chunk : (\A i \in 1 .. Len(todo) : todo[i][1] # d) => pak'[d] = pak[d]
            BY <1>2, <3>2
        <3>6. CASE v = Garbage
            <4>1. StoppedAt(pak', pak, todo, 0)
                BY <3>1, <3>2, <3>4, <3>5, <3>6 DEF StoppedAt
            <4> QED
                BY <1>2, <3>1, <4>1
        <3>7. CASE v = todo[1][2]
            <4>1. StoppedAt(pak', pak, todo, 1)
                BY <3>1, <3>2, <3>4, <3>5, <3>7 DEF StoppedAt
            <4> QED
                BY <1>2, <3>1, <4>1
        <3> QED
            BY <3>6, <3>7
    <2> QED
        BY <2>1, <2>2 DEF CutShort
<1>6. PICK own \in [Slots -> Seq(Blocks)] : Lasting(own)
    BY DEF MempakInv
<1>7. Sound(pak', live, own)
    BY <1>5, <1>6 DEF Lasting
<1>8. \A c, k : StoppedAt(c, pak', <<>>, k) => c = pak'
    BY <1>5, StoppedIdle
<1>9. Lasting(own)'
    BY <1>4, <1>7, <1>8 DEF Lasting
<1>10. todo' \in Seq(Chunk \X Value) /\ Len(todo') = 0
    BY <1>4
<1>11. live' \in [Slots -> Entry] /\ op' \in [Slots -> Entry] /\ op' = live'
    BY <1>4 DEF MempakInv
<1> QED
    BY <1>5, <1>9, <1>10, <1>11 DEF MempakInv

\* Where nothing is being written the card is sound as it is.
LEMMA IdleFacts ==
    ASSUME MempakInv, Idle
    PROVE  /\ pak \in Card /\ op = live /\ live \in [Slots -> Entry]
           /\ \E own \in [Slots -> Seq(Blocks)] :
                Sound(pak, live, own) /\ (~failed => Settled(pak, live, own))
<1>1. pak \in Card /\ op = live /\ live \in [Slots -> Entry] /\ todo = <<>> /\ Len(todo) = 0
    BY DEF MempakInv, Idle
<1>2. StoppedAt(pak, pak, todo, 0)
    <2>1. todo \in Seq(Items)
        BY DEF MempakInv, Items
    <2> QED
        BY <1>1, <2>1, StoppedBefore
<1>3. PICK own \in [Slots -> Seq(Blocks)] : Lasting(own)
    BY DEF MempakInv
<1> QED
    BY <1>1, <1>2, <1>3 DEF Lasting

\* A call begins.
LEMMA BeginStep ==
    ASSUME NEW w \in Seq(Items), Once(w), pak \in Card,
           NEW before \in [Slots -> Entry], NEW after \in [Slots -> Entry], w = <<>> => after = before,
           NEW own \in [Slots -> Seq(Blocks)],
           \A c : \A k \in 0 .. Len(w) : StoppedAt(c, pak, w, k) => Sound(c, before, own),
           \A c : StoppedAt(c, pak, w, Len(w)) => Sound(c, after, own) /\ (~failed' => Settled(c, after, own)),
           Begin(w, before, after)
    PROVE  MempakInv'
<1>1. todo' = w /\ live' = before /\ op' = after /\ pak' = pak
    BY DEF Begin
<1>2. Lasting(own)'
    BY <1>1 DEF Lasting
<1> QED
    BY <1>1, <1>2 DEF MempakInv, Idle, Items, Once

\* One sequence and then another.
Joined(r, s, t) ==
    /\ r \in Seq(Items) /\ Len(r) = Len(s) + Len(t)
    /\ \A i \in 1 .. Len(s) : r[i] = s[i]
    /\ \A i \in 1 .. Len(t) : r[Len(s) + i] = t[i]

\* That is what \o makes of them.
LEMMA Concatenated == \A s, t \in Seq(Items) : Joined(s \o t, s, t)
<1> SUFFICES ASSUME NEW s \in Seq(Items), NEW t \in Seq(Items) PROVE Joined(s \o t, s, t)
    OBVIOUS
<1> QED
    BY DEF Joined

\* Four of them, of which the lengths are known.
InTurn(w, s1, s2, s3, s4) ==
    /\ w \in Seq(Items) /\ Len(w) = Len(s1) + Len(s2) + Len(s3) + Len(s4)
    /\ \A i \in 1 .. Len(s1) : w[i] = s1[i]
    /\ \A i \in 1 .. Len(s2) : w[Len(s1) + i] = s2[i]
    /\ \A i \in 1 .. Len(s3) : w[Len(s1) + Len(s2) + i] = s3[i]
    /\ \A i \in 1 .. Len(s4) : w[Len(s1) + Len(s2) + Len(s3) + i] = s4[i]

\* Where four are put together each is found behind those before it.
LEMMA FourParts ==
    \A s1, s2, s3, s4 \in Seq(Items) : InTurn(s1 \o s2 \o s3 \o s4, s1, s2, s3, s4)
<1> SUFFICES ASSUME NEW s1 \in Seq(Items), NEW s2 \in Seq(Items), NEW s3 \in Seq(Items),
                    NEW s4 \in Seq(Items), NEW w, w = s1 \o s2 \o s3 \o s4
             PROVE  InTurn(w, s1, s2, s3, s4)
    BY Zenon
<1> DEFINE a == s1 \o s2
           b == a \o s3
<1>1. Len(s1) \in Nat /\ Len(s2) \in Nat /\ Len(s3) \in Nat /\ Len(s4) \in Nat
    OBVIOUS
<1>2. Joined(a, s1, s2)
    BY Concatenated, Zenon
<1>3. Joined(b, a, s3)
    <2>1. a \in Seq(Items)
        BY <1>2 DEF Joined
    <2> HIDE DEF a
    <2> QED
        BY <2>1, Concatenated, Zenon
<1>4. Joined(w, b, s4)
    <2>1. b \in Seq(Items) /\ w = b \o s4
        BY <1>3 DEF Joined
    <2> HIDE DEF b
    <2> QED
        BY <2>1, Concatenated, Zenon
<1> HIDE DEF a, b
<1> USE DEF Joined
<1> DEFINE n1 == Len(s1)
           n2 == Len(s2)
           n3 == Len(s3)
           n4 == Len(s4)
<1>5. Len(a) = n1 + n2 /\ Len(b) = n1 + n2 + n3 /\ Len(w) = n1 + n2 + n3 + n4
    BY <1>1, <1>2, <1>3, <1>4
<1>6. n1 \in Nat /\ n2 \in Nat /\ n3 \in Nat /\ n4 \in Nat
    BY <1>1
<1> HIDE DEF n1, n2, n3, n4
<1>7. \A i \in 1 .. n1 : i \in 1 .. n1 + n2 /\ i \in 1 .. n1 + n2 + n3
    BY <1>6
<1>8. \A i \in 1 .. n2 : n1 + i \in 1 .. n1 + n2 /\ n1 + i \in 1 .. n1 + n2 + n3
    BY <1>6
<1>9. \A i \in 1 .. n3 : n1 + n2 + i \in 1 .. n1 + n2 + n3
    BY <1>6
<1>10. \A i \in 1 .. n1 : w[i] = s1[i]
    BY <1>2, <1>3, <1>4, <1>5, <1>7 DEF n1
<1>11. \A i \in 1 .. n2 : w[n1 + i] = s2[i]
    BY <1>2, <1>3, <1>4, <1>5, <1>8 DEF n1, n2
<1>12. \A i \in 1 .. n3 : w[n1 + n2 + i] = s3[i]
    BY <1>3, <1>4, <1>5, <1>9 DEF n3
<1>13. \A i \in 1 .. n4 : w[n1 + n2 + n3 + i] = s4[i]
    BY <1>4, <1>5 DEF n4
<1> QED
    BY <1>4, <1>5, <1>10, <1>11, <1>12, <1>13 DEF n1, n2, n3, n4, InTurn

\* The two chunks of a table.
LEMMA TocItems ==
    ASSUME NEW i \in 1 .. 2, NEW toc \in [Blocks -> Nat]
    PROVE  /\ WriteToc(i, toc) \in Seq(Items) /\ Len(WriteToc(i, toc)) = 2
           /\ \A h \in 1 .. 2 : WriteToc(i, toc)[h] = <<<<"toc", i, h>>, TocChunk(h, toc)>>
<1>1. \A h \in 1 .. 2 : <<<<"toc", i, h>>, TocChunk(h, toc)>> \in Items
    BY ChunkFacts, ValueFacts DEF Items
<1> QED
    BY <1>1 DEF WriteToc

\* The slots, counted from 1.
LEMMA SlotFacts ==
    /\ NoteCount \in Nat
    /\ \A n \in 1 .. NoteCount : n - 1 \in Slots
    /\ \A s \in Slots : s \in Nat /\ s + 1 \in 1 .. NoteCount /\ (s + 1) - 1 = s /\ 1 + (s + 1) = s + 2
    /\ \A j \in 2 .. NoteCount + 1 : j - 2 \in Slots /\ (j - 2) + 2 = j
BY MempakAssumption DEF Slots

\* What is written to format a card.
FormatList(w, blank) ==
    /\ w \in Seq(Items) /\ Len(w) = NoteCount + 5
    /\ w[1] = <<<<"header">>, "header">>
    /\ \A n \in 1 .. NoteCount : w[1 + n] = <<<<"note", n - 1>>, BlankNote>>
    /\ \A h \in 1 .. 2 : /\ w[NoteCount + 1 + h] = <<<<"toc", 1, h>>, TocChunk(h, blank)>>
                         /\ w[NoteCount + 3 + h] = <<<<"toc", 2, h>>, TocChunk(h, blank)>>

\* format_mempak writes that.
LEMMA FormatItems ==
    ASSUME NEW notes, notes = [n \in 1 .. NoteCount |-> <<<<"note", n - 1>>, BlankNote>>],
           NEW blank \in [Blocks -> Nat],
           NEW w, w = << <<<<"header">>, "header">> >> \o notes \o WriteToc(1, blank) \o WriteToc(2, blank)
    PROVE  FormatList(w, blank)
<1> DEFINE front == << <<<<"header">>, "header">> >>
           t1 == WriteToc(1, blank)
           t2 == WriteToc(2, blank)
<1>1. NoteCount \in Nat
    BY MempakAssumption
<1>2. front \in Seq(Items) /\ Len(front) = 1 /\ front[1] = <<<<"header">>, "header">>
    BY ChunkFacts, ValueFacts DEF Items
<1>3. \A n \in 1 .. NoteCount : n - 1 \in Slots
    BY <1>1 DEF Slots
<1>4. notes \in Seq(Items) /\ Len(notes) = NoteCount
    <2>1. \A n \in 1 .. NoteCount : <<<<"note", n - 1>>, BlankNote>> \in Items
        BY <1>3, ChunkFacts, ValueFacts DEF Items
    <2> QED
        BY <1>1, <2>1
<1>5. \A n \in 1 .. NoteCount : notes[n] = <<<<"note", n - 1>>, BlankNote>>
    OBVIOUS
<1>6. /\ t1 \in Seq(Items) /\ Len(t1) = 2 /\ t2 \in Seq(Items) /\ Len(t2) = 2
      /\ \A h \in 1 .. 2 : /\ t1[h] = <<<<"toc", 1, h>>, TocChunk(h, blank)>>
                           /\ t2[h] = <<<<"toc", 2, h>>, TocChunk(h, blank)>>
    BY TocItems
<1> HIDE DEF front, t1, t2
<1>7. InTurn(w, front, notes, t1, t2)
    <2>1. w = front \o notes \o t1 \o t2
        BY DEF front, t1, t2
    <2> QED
        BY <1>2, <1>4, <1>6, <2>1, FourParts, Zenon
<1>8. /\ w \in Seq(Items) /\ Len(w) = 1 + NoteCount + 2 + 2
      /\ \A i \in 1 .. 1 : w[i] = front[i]
      /\ \A i \in 1 .. NoteCount : w[1 + i] = notes[i]
      /\ \A i \in 1 .. 2 : w[1 + NoteCount + i] = t1[i]
      /\ \A i \in 1 .. 2 : w[1 + NoteCount + 2 + i] = t2[i]
    BY <1>2, <1>4, <1>6, <1>7, Zenon DEF InTurn
<1>9. w[1] = <<<<"header">>, "header">>
    <2>1. 1 \in 1 .. 1
        OBVIOUS
    <2> QED
        BY <1>2, <1>8, <2>1, Zenon
<1>10. ASSUME NEW h \in 1 .. 2
       PROVE  /\ w[NoteCount + 1 + h] = <<<<"toc", 1, h>>, TocChunk(h, blank)>>
              /\ w[NoteCount + 3 + h] = <<<<"toc", 2, h>>, TocChunk(h, blank)>>
    <2>1. NoteCount + 1 + h = 1 + NoteCount + h /\ NoteCount + 3 + h = 1 + NoteCount + 2 + h
        BY <1>1
    <2> QED
        BY <1>6, <1>8, <2>1
<1>11. Len(w) = NoteCount + 5
    BY <1>1, <1>8
<1> QED
    BY <1>5, <1>8, <1>9, <1>10, <1>11 DEF FormatList

\* What formatting has done to card p where it stops: the tables are not touched
\* until every note is blank.
Formatting(c, p, blank, all) ==
    /\ c[<<"header">>] \in {p[<<"header">>], Garbage, "header"}
    /\ \A s \in Slots : c[<<"note", s>>] \in {p[<<"note", s>>], Garbage, BlankNote}
    /\ \A i, h \in 1 .. 2 : c[<<"toc", i, h>>] \in {p[<<"toc", i, h>>], Garbage, TocChunk(h, blank)}
    /\ \/ \A s \in Slots : c[<<"note", s>>] = BlankNote
       \/ \A i, h \in 1 .. 2 : c[<<"toc", i, h>>] = p[<<"toc", i, h>>]
    /\ all => /\ c[<<"header">>] = "header"
              /\ \A s \in Slots : c[<<"note", s>>] = BlankNote
              /\ \A i, h \in 1 .. 2 : c[<<"toc", i, h>>] = TocChunk(h, blank)

\* Wherever the writing stops the card is one of those.
LEMMA FormatStops ==
    ASSUME NEW blank \in [Blocks -> Nat], NEW p \in Card, NEW w, FormatList(w, blank)
    PROVE  /\ Once(w)
           /\ \A c : \A k \in 0 .. Len(w) :
                StoppedAt(c, p, w, k) => Formatting(c, p, blank, k = Len(w))
<1>1. NoteCount \in Nat /\ Len(w) = NoteCount + 5
    BY MempakAssumption DEF FormatList
<1>0. w[1][1] = <<"header">> /\ w[1][2] = "header"
    BY DEF FormatList
<1>2. \A s \in Slots : s \in Nat /\ s + 1 \in 1 .. NoteCount /\ (s + 1) - 1 = s /\ 1 + (s + 1) = s + 2
    BY SlotFacts, Zenon
<1>3. \A s \in Slots : s + 2 \in 2 .. NoteCount + 1 /\ w[s + 2][1] = <<"note", s>> /\ w[s + 2][2] = BlankNote
    <2> TAKE s \in Slots
    <2>1. s + 2 \in 2 .. NoteCount + 1
        BY <1>1, <1>2
    <2>2. w[s + 2] = <<<<"note", s>>, BlankNote>>
        BY <1>2, Zenon DEF FormatList
    <2> QED
        BY <2>1, <2>2
<1>4. \A i, h \in 1 .. 2 : /\ NoteCount + 2 * i - 1 + h \in NoteCount + 2 .. Len(w)
                           /\ w[NoteCount + 2 * i - 1 + h][1] = <<"toc", i, h>>
                           /\ w[NoteCount + 2 * i - 1 + h][2] = TocChunk(h, blank)
    <2> TAKE i, h \in 1 .. 2
    <2>1. CASE i = 1
        <3>1. NoteCount + 2 * i - 1 + h = NoteCount + 1 + h /\ NoteCount + 1 + h \in NoteCount + 2 .. Len(w)
            BY <1>1, <2>1
        <3> QED
            BY <2>1, <3>1 DEF FormatList
    <2>2. CASE i = 2
        <3>1. NoteCount + 2 * i - 1 + h = NoteCount + 3 + h /\ NoteCount + 3 + h \in NoteCount + 2 .. Len(w)
            BY <1>1, <2>2
        <3> QED
            BY <2>2, <3>1 DEF FormatList
    <2> QED
        BY <2>1, <2>2
<1>5. \A j \in 1 .. Len(w) : \/ j = 1 /\ w[j][1] = <<"header">>
                             \/ \E s \in Slots : j = s + 2 /\ w[j][1] = <<"note", s>>
                             \/ \E i, h \in 1 .. 2 : j = NoteCount + 2 * i - 1 + h /\ w[j][1] = <<"toc", i, h>>
    <2> TAKE j \in 1 .. Len(w)
    <2>1. CASE j = 1
        BY <1>0, <2>1
    <2>2. CASE j \in 2 .. NoteCount + 1
        <3>1. j - 2 \in Slots /\ j = (j - 2) + 2
            BY <2>2, SlotFacts, Zenon
        <3>2. w[j][1] = <<"note", j - 2>>
            BY <1>3, <3>1
        <3> QED
            BY <3>1, <3>2
    <2>3. CASE j \in NoteCount + 2 .. Len(w)
        <3>1. \E i, h \in 1 .. 2 : j = NoteCount + 2 * i - 1 + h
            <4>1. j = NoteCount + 2 * 1 - 1 + 1 \/ j = NoteCount + 2 * 1 - 1 + 2
                  \/ j = NoteCount + 2 * 2 - 1 + 1 \/ j = NoteCount + 2 * 2 - 1 + 2
                BY <1>1, <2>3
            <4> QED
                BY <4>1
        <3>2. PICK i \in 1 .. 2, h \in 1 .. 2 : j = NoteCount + 2 * i - 1 + h
            BY <3>1
        <3>3. w[j][1] = <<"toc", i, h>>
            BY <1>4, <3>2
        <3> QED
            BY <3>2, <3>3
    <2> QED
        BY <1>1, <2>1, <2>2, <2>3
<1>6. Once(w)
    <2> SUFFICES ASSUME NEW a \in 1 .. Len(w), NEW b \in 1 .. Len(w), w[a][1] = w[b][1] PROVE a = b
        BY DEF Once
    <2>1. CASE a = 1
        BY <1>5, <2>1, ChunkFacts
    <2>2. ASSUME NEW s \in Slots, a = s + 2, w[a][1] = <<"note", s>> PROVE a = b
        BY <1>5, <2>2, ChunkFacts
    <2>3. ASSUME NEW i \in 1 .. 2, NEW h \in 1 .. 2, a = NoteCount + 2 * i - 1 + h, w[a][1] = <<"toc", i, h>>
          PROVE  a = b
        BY <1>5, <2>3, ChunkFacts
    <2> QED
        BY <1>5, <2>1, <2>2, <2>3
<1>7. ASSUME NEW c, NEW k \in 0 .. Len(w), StoppedAt(c, p, w, k)
      PROVE  /\ c[<<"header">>] \in {p[<<"header">>], Garbage, "header"}
             /\ k = Len(w) => c[<<"header">>] = "header"
             /\ \A s \in Slots : /\ c[<<"note", s>>] \in {p[<<"note", s>>], Garbage, BlankNote}
                                 /\ k >= NoteCount + 1 => c[<<"note", s>>] = BlankNote
             /\ \A i, h \in 1 .. 2 :
                    /\ c[<<"toc", i, h>>] \in {p[<<"toc", i, h>>], Garbage, TocChunk(h, blank)}
                    /\ k <= NoteCount => c[<<"toc", i, h>>] = p[<<"toc", i, h>>]
                    /\ k = Len(w) => c[<<"toc", i, h>>] = TocChunk(h, blank)
    <2>1. 1 \in 1 .. Len(w) /\ k \in Nat /\ Len(w) \in Nat
        BY <1>1, <1>7
    <2>0. \A i \in 1 .. Len(w) : \/ i <= k /\ c[w[i][1]] = w[i][2]
                                 \/ i > k /\ c[w[i][1]] = p[w[i][1]]
                                 \/ i = k + 1 /\ c[w[i][1]] = Garbage
        BY <1>7 DEF StoppedAt
    <2>2. \/ 1 <= k /\ c[<<"header">>] = "header"
          \/ 1 > k /\ c[<<"header">>] = p[<<"header">>]
          \/ 1 = k + 1 /\ c[<<"header">>] = Garbage
        BY <1>0, <2>0, <2>1
    <2>3. /\ c[<<"header">>] \in {p[<<"header">>], Garbage, "header"}
          /\ k = Len(w) => c[<<"header">>] = "header"
        BY <2>1, <2>2
    <2>4. ASSUME NEW s \in Slots
          PROVE  /\ c[<<"note", s>>] \in {p[<<"note", s>>], Garbage, BlankNote}
                 /\ k >= NoteCount + 1 => c[<<"note", s>>] = BlankNote
        <3>1. s + 2 \in 1 .. Len(w) /\ s + 2 <= NoteCount + 1 /\ s + 2 \in Nat
            BY <1>1, <1>3
        <3>2. \/ s + 2 <= k /\ c[<<"note", s>>] = BlankNote
              \/ s + 2 > k /\ c[<<"note", s>>] = p[<<"note", s>>]
              \/ s + 2 = k + 1 /\ c[<<"note", s>>] = Garbage
            BY <1>3, <2>0, <3>1
        <3> QED
            BY <1>1, <2>1, <3>1, <3>2
    <2>5. ASSUME NEW i \in 1 .. 2, NEW h \in 1 .. 2
          PROVE  /\ c[<<"toc", i, h>>] \in {p[<<"toc", i, h>>], Garbage, TocChunk(h, blank)}
                 /\ k <= NoteCount => c[<<"toc", i, h>>] = p[<<"toc", i, h>>]
                 /\ k = Len(w) => c[<<"toc", i, h>>] = TocChunk(h, blank)
        <3> DEFINE j == NoteCount + 2 * i - 1 + h
        <3>1. j \in 1 .. Len(w) /\ j \in NoteCount + 2 .. Len(w) /\ w[j][1] = <<"toc", i, h>> /\ w[j][2] = TocChunk(h, blank)
            BY <1>1, <1>4
        <3> HIDE DEF j
        <3>2. \/ j <= k /\ c[<<"toc", i, h>>] = TocChunk(h, blank)
              \/ j > k /\ c[<<"toc", i, h>>] = p[<<"toc", i, h>>]
              \/ j = k + 1 /\ c[<<"toc", i, h>>] = Garbage
            BY <2>0, <3>1
        <3> QED
            BY <1>1, <2>1, <3>1, <3>2
    <2> QED
        BY <2>3, <2>4, <2>5
<1>8. NoteCount + 1 <= Len(w)
    BY <1>1
<1>9. \A k \in 0 .. Len(w) : k <= NoteCount \/ k >= NoteCount + 1
    BY <1>1
<1>10. Len(w) >= NoteCount + 1
    BY <1>1
<1> QED
    BY <1>6, <1>7, <1>9, <1>10 DEF Formatting

\* A card is formatted.
LEMMA FormatStep == MempakInv /\ format_mempak => MempakInv'
<1> SUFFICES ASSUME MempakInv, format_mempak PROVE MempakInv'
    OBVIOUS
<1> DEFINE blank == [b \in Blocks |-> BLOCK_EMPTY]
           none == [s \in Slots |-> None]
           notes == [n \in 1 .. NoteCount |-> <<<<"note", n - 1>>, BlankNote>>]
           w == << <<<<"header">>, "header">> >> \o notes \o WriteToc(1, blank) \o WriteToc(2, blank)
<1>1. Idle /\ Begin(w, none, none) /\ failed' = FALSE
    BY Zenon DEF format_mempak
<1>2. blank \in [Blocks -> Nat] /\ \A b \in Blocks : blank[b] = BLOCK_EMPTY
    BY DEF BLOCK_EMPTY
<1>3. none \in [Slots -> Entry] /\ \A s \in Slots : none[s] = None
    BY DEF Entry, None
<1>4. pak \in Card
    BY DEF MempakInv
<1>5. PICK own \in [Slots -> Seq(Blocks)] : Sound(pak, live, own)
    BY <1>1, IdleFacts
<1> HIDE DEF blank, none
<1>6. FormatList(w, blank)
    BY <1>2, FormatItems, Zenon
<1> HIDE DEF w
<1>7. /\ Once(w)
      /\ \A c : \A k \in 0 .. Len(w) : StoppedAt(c, pak, w, k) => Formatting(c, pak, blank, k = Len(w))
    BY <1>2, <1>4, <1>6, FormatStops, Zenon
<1>8. ASSUME NEW c, NEW k \in 0 .. Len(w), StoppedAt(c, pak, w, k) PROVE Sound(c, none, own)
    <2> DEFINE all == k = Len(w)
    <2>0. Formatting(c, pak, blank, all)
        BY <1>7, <1>8, Zenon
    <2> HIDE DEF all
    <2>1. Typed(c)
        <3>1. BlankNote \in NoteChunk /\ Garbage \in NoteChunk
            BY ValueFacts DEF NoteChunk
        <3>2. \A h \in 1 .. 2 : Garbage \in TocHalf(h) /\ TocChunk(h, blank) \in TocHalf(h)
            BY <1>2, ValueFacts DEF TocHalf
        <3>3. Typed(pak)
            BY <1>5 DEF Sound
        <3> QED
            BY <2>0, <3>1, <3>2, <3>3 DEF Typed, Formatting
    <2>2. ASSUME NEW s \in Slots, NoteOn(c, s)
          PROVE  /\ NoteOn(pak, s) /\ c[<<"note", s>>] = pak[<<"note", s>>]
                 /\ \A i, h \in 1 .. 2 : c[<<"toc", i, h>>] = pak[<<"toc", i, h>>]
        <3>1. c[<<"note", s>>] # Garbage /\ c[<<"note", s>>] # BlankNote
            BY <2>2, ValueFacts DEF NoteOn
        <3>2. c[<<"note", s>>] = pak[<<"note", s>>]
            BY <2>0, <3>1 DEF Formatting
        <3> QED
            BY <2>0, <2>2, <3>1, <3>2 DEF NoteOn, Formatting
    <2>3. Listed(c, own)
        <3> SUFFICES ASSUME NEW s \in Slots, NoteOn(c, s)
                     PROVE  IsList(own[s]) /\ own[s][1] = c[<<"note", s>>].inode /\ Agree(c, own[s])
            BY DEF Listed
        <3>1. IsList(own[s]) /\ own[s][1] = pak[<<"note", s>>].inode /\ Agree(pak, own[s])
            BY <1>5, <2>2 DEF Sound, Listed
        <3> QED
            BY <2>2, <3>1 DEF Agree
    <2>4. Apart(c, own)
        BY <1>5, <2>2 DEF Sound, Apart
    <2>5. Kept(c, none, own) /\ Readable(c, none)
        BY <1>3 DEF Kept, Readable
    <2> QED
        BY <2>1, <2>3, <2>4, <2>5 DEF Sound
<1>9. Len(w) \in 0 .. Len(w)
    <2>1. NoteCount \in Nat
        BY MempakAssumption
    <2> QED
        BY <1>6, <2>1 DEF FormatList
<1>10. ASSUME NEW c, StoppedAt(c, pak, w, Len(w)) PROVE Settled(c, none, own)
    <2>1. /\ c[<<"header">>] = "header"
          /\ \A s \in Slots : c[<<"note", s>>] = BlankNote
          /\ \A i, h \in 1 .. 2 : c[<<"toc", i, h>>] = TocChunk(h, blank)
        <3>1. Formatting(c, pak, blank, TRUE)
            BY <1>7, <1>9, <1>10
        <3> QED
            BY <3>1 DEF Formatting
    <2>2. \A s \in Slots : ~NoteOn(c, s)
        BY <2>1, ValueFacts DEF NoteOn
    <2>3. \A i \in 1 .. 2 : TocOn(c, i) /\ LinksOn(c, i) = blank
        BY <1>2, <2>1, TocWritten
    <2>4. c[<<"header">>] # Garbage
        BY <2>1, ValueFacts
    <2> QED
        BY <1>2, <2>2, <2>3, <2>4 DEF Settled
<1>11. w \in Seq(Items) /\ w # <<>>
    <2>1. Len(w) # 0 /\ w \in Seq(Items)
        BY <1>6, SlotFacts DEF FormatList
    <2> QED
        BY <2>1
<1> QED
    BY <1>1, <1>3, <1>4, <1>11, <1>7, <1>8, <1>9, <1>10, BeginStep

\* What a call finds on the card.
LEMMA ValidFacts ==
    /\ __get_valid_toc \in 0 .. 2
    /\ __get_valid_toc # 0 => pak[<<"header">>] # Garbage /\ TocOn(pak, __get_valid_toc)
    /\ pak[<<"header">>] # Garbage /\ (\E i \in 1 .. 2 : TocOn(pak, i)) => __get_valid_toc # 0
    /\ \A i \in 1 .. 2 : TocLinks(i) = LinksOn(pak, i)
    /\ \A s \in Slots : __read_note(s) <=> NoteOn(pak, s)
<1>1. \A i : TocLinks(i) = LinksOn(pak, i)
    BY Zenon DEF TocLinks, LinksOn
<1>2. \A i : __validate_toc(i) <=> TocOn(pak, i)
    BY <1>1, Zenon DEF __validate_toc, TocOn
<1>3. \A s \in Slots : __read_note(s) <=> NoteOn(pak, s)
    BY Zenon DEF __read_note, NoteOn
<1>4. __validate_header <=> pak[<<"header">>] # Garbage
    BY DEF __validate_header
<1>5. __get_valid_toc = IF ~__validate_header THEN 0
                        ELSE IF __validate_toc(1) THEN 1 ELSE IF __validate_toc(2) THEN 2 ELSE 0
    BY Zenon DEF __get_valid_toc
<1> QED
    BY <1>1, <1>2, <1>3, <1>4, <1>5

\* The blocks of a list are not free.
LEMMA NotFree ==
    ASSUME NEW toc, NEW o, Chained(toc, o), NEW b \in ToSet(o)
    PROVE  toc[b] # BLOCK_EMPTY /\ b \in Blocks
<1>1. o \in Seq(Blocks) /\ Len(o) \in Nat /\ DOMAIN o = 1 .. Len(o)
    BY DEF Chained, IsList
<1>2. PICK k \in 1 .. Len(o) : b = o[k]
    BY <1>1 DEF ToSet
<1>3. toc[b] = Following(o, k)
    BY <1>2 DEF Chained
<1>4. k # Len(o) => o[k + 1] \in Blocks
    <2>1. k \in 1 .. Len(o)
        BY <1>2
    <2>3. k # Len(o) => k + 1 \in 1 .. Len(o)
        <3>1. Len(o) \in Nat
            BY <1>1
        <3> QED
            BY <2>1, <3>1
    <2>2. \A j \in 1 .. Len(o) : o[j] \in Blocks
        BY <1>1
    <2> QED
        BY <2>2, <2>3
<1>5. o[k] \in Blocks
    BY <1>1, <1>2
<1> QED
    BY <1>2, <1>3, <1>4, <1>5, BlockFacts DEF Following

\* A table that differs from another in other blocks links the list too.
LEMMA ChainedKept ==
    ASSUME NEW toc, NEW all, NEW o, Chained(toc, o), \A b \in ToSet(o) : all[b] = toc[b]
    PROVE  Chained(all, o)
<1>1. o \in Seq(Blocks) /\ DOMAIN o = 1 .. Len(o)
    BY DEF Chained, IsList
<1>2. \A k \in 1 .. Len(o) : o[k] \in ToSet(o)
    BY <1>1 DEF ToSet
<1> QED
    BY <1>2 DEF Chained

\* Both tables.
LEMMA TocsItems ==
    ASSUME NEW v \in 1 .. 2, NEW toc \in [Blocks -> Nat]
    PROVE  /\ WriteTocs(v, toc) \in Seq(Items) /\ Len(WriteTocs(v, toc)) = 4
           /\ \A h \in 1 .. 2 : /\ WriteTocs(v, toc)[h] = <<<<"toc", 3 - v, h>>, TocChunk(h, toc)>>
                                /\ WriteTocs(v, toc)[2 + h] = <<<<"toc", v, h>>, TocChunk(h, toc)>>
<1> DEFINE t1 == WriteToc(3 - v, toc)
           t2 == WriteToc(v, toc)
           w == t1 \o t2
<1>1. 3 - v \in 1 .. 2
    OBVIOUS
<1>2. /\ t1 \in Seq(Items) /\ Len(t1) = 2
      /\ \A h \in 1 .. 2 : t1[h] = <<<<"toc", 3 - v, h>>, TocChunk(h, toc)>>
    BY <1>1, TocItems, Zenon
<1>3. /\ t2 \in Seq(Items) /\ Len(t2) = 2
      /\ \A h \in 1 .. 2 : t2[h] = <<<<"toc", v, h>>, TocChunk(h, toc)>>
    BY TocItems, Zenon
<1>4. WriteTocs(v, toc) = w
    BY Zenon DEF WriteTocs
<1> HIDE DEF t1, t2
<1>5. Joined(w, t1, t2)
    BY <1>2, <1>3, Concatenated, Zenon
<1> HIDE DEF w
<1>6. /\ w \in Seq(Items) /\ Len(w) = 2 + 2
      /\ \A h \in 1 .. 2 : w[h] = t1[h] /\ w[2 + h] = t2[h]
    BY <1>2, <1>3, <1>5, Zenon DEF Joined
<1>7. w \in Seq(Items) /\ Len(w) = 4
    BY <1>6
<1>8. \A h \in 1 .. 2 : /\ w[h] = <<<<"toc", 3 - v, h>>, TocChunk(h, toc)>>
                        /\ w[2 + h] = <<<<"toc", v, h>>, TocChunk(h, toc)>>
    BY <1>2, <1>3, <1>6, Zenon
<1> QED
    BY <1>4, <1>7, <1>8, Zenon

\* An element of a sequence.
LEMMA ElementOf == \A S : \A s \in Seq(S) : \A i \in 1 .. Len(s) : s[i] \in S
OBVIOUS

\* Three sequences.
InOrder(w, s1, s2, s3) ==
    /\ w \in Seq(Items) /\ Len(w) = Len(s1) + Len(s2) + Len(s3)
    /\ \A i \in 1 .. Len(s1) : w[i] = s1[i]
    /\ \A i \in 1 .. Len(s2) : w[Len(s1) + i] = s2[i]
    /\ \A i \in 1 .. Len(s3) : w[Len(s1) + Len(s2) + i] = s3[i]

\* Where three are put together each is found behind those before it.
LEMMA ThreeParts == \A s1, s2, s3 \in Seq(Items) : InOrder(s1 \o s2 \o s3, s1, s2, s3)
<1> SUFFICES ASSUME NEW s1 \in Seq(Items), NEW s2 \in Seq(Items), NEW s3 \in Seq(Items),
                    NEW w, w = s1 \o s2 \o s3
             PROVE  InOrder(w, s1, s2, s3)
    BY Zenon
<1> DEFINE a == s1 \o s2
           n1 == Len(s1)
           n2 == Len(s2)
           n3 == Len(s3)
<1>1. n1 \in Nat /\ n2 \in Nat /\ n3 \in Nat
    OBVIOUS
<1>2. Joined(a, s1, s2)
    BY Concatenated, Zenon
<1>3. Joined(w, a, s3)
    <2>1. a \in Seq(Items) /\ w = a \o s3
        BY <1>2 DEF Joined
    <2> HIDE DEF a
    <2> QED
        BY <2>1, Concatenated, Zenon
<1> HIDE DEF a
<1>4. Len(a) = n1 + n2 /\ (\A i \in 1 .. n1 : a[i] = s1[i]) /\ \A i \in 1 .. n2 : a[n1 + i] = s2[i]
    BY <1>2, Zenon DEF Joined
<1>5. /\ w \in Seq(Items) /\ Len(w) = (n1 + n2) + n3
      /\ (\A i \in 1 .. n1 + n2 : w[i] = a[i]) /\ \A i \in 1 .. n3 : w[n1 + n2 + i] = s3[i]
    BY <1>3, <1>4, Zenon DEF Joined
<1> HIDE DEF n1, n2, n3
<1>6. \A i \in 1 .. n1 : i \in 1 .. n1 + n2
    BY <1>1
<1>7. \A i \in 1 .. n2 : n1 + i \in 1 .. n1 + n2
    BY <1>1
<1>8. (\A i \in 1 .. n1 : w[i] = s1[i]) /\ \A i \in 1 .. n2 : w[n1 + i] = s2[i]
    BY <1>4, <1>5, <1>6, <1>7, Zenon
<1> QED
    BY <1>5, <1>8, Zenon DEF n1, n2, n3, InOrder

\* What is written for a new note: its data, the tables and the note.
WriteList(w, n, o, vals, v, toc, slot, tnote) ==
    /\ w \in Seq(Items) /\ Len(w) = n + 5
    /\ \A i \in 1 .. n : w[i] = <<<<"data", o[i]>>, vals[i]>>
    /\ \A h \in 1 .. 2 : /\ w[n + h] = <<<<"toc", 3 - v, h>>, TocChunk(h, toc)>>
                         /\ w[n + 2 + h] = <<<<"toc", v, h>>, TocChunk(h, toc)>>
    /\ w[n + 5] = <<<<"note", slot>>, tnote>>

DataList(w, n, o, vals) ==
    w \in Seq(Items) /\ Len(w) = n /\ \A i \in 1 .. n : w[i] = <<<<"data", o[i]>>, vals[i]>>

\* write_mempak_entry_data writes that, or the data alone.
LEMMA WriteItems ==
    ASSUME NEW n \in Nat, NEW o \in Seq(Blocks), Len(o) = n,
           NEW vals \in Seq([of : Nat, part : Nat]), Len(vals) = n,
           NEW v \in 1 .. 2, NEW toc \in [Blocks -> Nat], NEW slot \in Slots, NEW tnote \in Note,
           NEW data, data = [i \in 1 .. n |-> <<<<"data", o[i]>>, vals[i]>>]
    PROVE  /\ DataList(data, n, o, vals)
           /\ WriteList(data \o WriteTocs(v, toc) \o << <<<<"note", slot>>, tnote>> >>,
                        n, o, vals, v, toc, slot, tnote)
<1> DEFINE tocs == WriteTocs(v, toc)
           note == << <<<<"note", slot>>, tnote>> >>
           w == data \o tocs \o note
<1>1. \A i \in 1 .. n : <<<<"data", o[i]>>, vals[i]>> \in Items
    <2>1. \A i \in 1 .. n : o[i] \in Blocks /\ vals[i] \in [of : Nat, part : Nat]
        BY ElementOf, Zenon
    <2> QED
        BY <2>1, ChunkFacts, ValueFacts DEF Items
<1>2. data \in Seq(Items) /\ Len(data) = n /\ \A i \in 1 .. n : data[i] = <<<<"data", o[i]>>, vals[i]>>
    BY <1>1
<1>3. /\ tocs \in Seq(Items) /\ Len(tocs) = 4
      /\ \A h \in 1 .. 2 : /\ tocs[h] = <<<<"toc", 3 - v, h>>, TocChunk(h, toc)>>
                           /\ tocs[2 + h] = <<<<"toc", v, h>>, TocChunk(h, toc)>>
    BY TocsItems, Zenon
<1>4. note \in Seq(Items) /\ Len(note) = 1 /\ note[1] = <<<<"note", slot>>, tnote>>
    <2>1. <<<<"note", slot>>, tnote>> \in Items
        BY ChunkFacts, ValueFacts DEF Items
    <2> QED
        BY <2>1
<1> HIDE DEF tocs, note
<1>5. /\ w \in Seq(Items) /\ Len(w) = n + 4 + 1
      /\ \A i \in 1 .. n : w[i] = data[i]
      /\ \A i \in 1 .. 4 : w[n + i] = tocs[i]
      /\ \A i \in 1 .. 1 : w[n + 4 + i] = note[i]
    <2>1. InOrder(w, data, tocs, note)
        BY <1>2, <1>3, <1>4, ThreeParts, Zenon
    <2> HIDE DEF w
    <2> QED
        BY <1>2, <1>3, <1>4, <2>1, Zenon DEF InOrder
<1> HIDE DEF w
<1>6. Len(w) = n + 5 /\ w[n + 5] = note[1]
    <2>1. 1 \in 1 .. 1 /\ n + 4 + 1 = n + 5
        OBVIOUS
    <2> QED
        BY <1>5, <2>1, Zenon
<1>7. \A h \in 1 .. 2 : w[n + h] = tocs[h] /\ w[n + 2 + h] = tocs[2 + h]
    <2> TAKE h \in 1 .. 2
    <2>1. h \in 1 .. 4 /\ 2 + h \in 1 .. 4 /\ n + (2 + h) = n + 2 + h
        OBVIOUS
    <2> QED
        BY <1>5, <2>1, Zenon
<1>8. WriteList(w, n, o, vals, v, toc, slot, tnote)
    BY <1>2, <1>3, <1>4, <1>5, <1>6, <1>7, Zenon DEF WriteList
<1>9. DataList(data, n, o, vals)
    BY <1>2, Zenon DEF DataList
<1> QED
    BY <1>8, <1>9, Zenon DEF w, tocs, note

\* What the writing has done to card p where it stops: until the other table is
\* written the one that was read is as it was, and the note comes last.
Writing(c, p, n, o, vals, v, toc, slot, tnote, all) ==
    /\ c[<<"header">>] = p[<<"header">>]
    /\ \A s \in Slots : s # slot => c[<<"note", s>>] = p[<<"note", s>>]
    /\ \A b \in Blocks : b \notin ToSet(o) => c[<<"data", b>>] = p[<<"data", b>>]
    /\ \A i, h \in 1 .. 2 : c[<<"toc", i, h>>] \in {p[<<"toc", i, h>>], Garbage, TocChunk(h, toc)}
    /\ \/ \A h \in 1 .. 2 : c[<<"toc", v, h>>] = p[<<"toc", v, h>>]
       \/ \A h \in 1 .. 2 : c[<<"toc", 3 - v, h>>] = TocChunk(h, toc)
    /\ all \/ c[<<"note", slot>>] \in {p[<<"note", slot>>], Garbage}
    /\ all => /\ \A i \in 1 .. n : c[<<"data", o[i]>>] = vals[i]
              /\ \A i, h \in 1 .. 2 : c[<<"toc", i, h>>] = TocChunk(h, toc)
              /\ c[<<"note", slot>>] = tnote

\* Wherever the writing stops the card is one of those.
LEMMA WriteStops ==
    ASSUME NEW n \in Nat, NEW o, IsList(o), Len(o) = n, NEW vals,
           NEW v \in 1 .. 2, NEW toc, NEW slot \in Slots, NEW tnote, NEW p, NEW w,
           WriteList(w, n, o, vals, v, toc, slot, tnote)
    PROVE  /\ Once(w)
           /\ \A c : \A k \in 0 .. Len(w) :
                StoppedAt(c, p, w, k) => Writing(c, p, n, o, vals, v, toc, slot, tnote, k = Len(w))
<1>1. Len(w) = n + 5
    BY DEF WriteList
<1>2. \A i \in 1 .. n : i \in 1 .. Len(w) /\ w[i][1] = <<"data", o[i]>> /\ w[i][2] = vals[i]
    <2> TAKE i \in 1 .. n
    <2>1. w[i] = <<<<"data", o[i]>>, vals[i]>>
        BY Zenon DEF WriteList
    <2>2. i \in 1 .. Len(w)
        BY <1>1
    <2> QED
        BY <2>1, <2>2
<1>3. \A h \in 1 .. 2 : /\ n + h \in 1 .. Len(w) /\ w[n + h][1] = <<"toc", 3 - v, h>>
                        /\ w[n + h][2] = TocChunk(h, toc)
                        /\ n + 2 + h \in 1 .. Len(w) /\ w[n + 2 + h][1] = <<"toc", v, h>>
                        /\ w[n + 2 + h][2] = TocChunk(h, toc)
    <2> TAKE h \in 1 .. 2
    <2>1. w[n + h] = <<<<"toc", 3 - v, h>>, TocChunk(h, toc)>>
          /\ w[n + 2 + h] = <<<<"toc", v, h>>, TocChunk(h, toc)>>
        BY Zenon DEF WriteList
    <2>2. n + h \in 1 .. Len(w) /\ n + 2 + h \in 1 .. Len(w)
        BY <1>1
    <2> QED
        BY <2>1, <2>2
<1>4. n + 5 \in 1 .. Len(w) /\ w[n + 5][1] = <<"note", slot>> /\ w[n + 5][2] = tnote
    <2>1. w[n + 5] = <<<<"note", slot>>, tnote>>
        BY Zenon DEF WriteList
    <2>2. n + 5 \in 1 .. Len(w)
        BY <1>1
    <2> QED
        BY <2>1, <2>2
<1>5. \A j \in 1 .. Len(w) : \/ j \in 1 .. n
                             \/ \E h \in 1 .. 2 : j = n + h
                             \/ \E h \in 1 .. 2 : j = n + 2 + h
                             \/ j = n + 5
    BY <1>1
<1>6. /\ \A i \in 1 .. n : o[i] \in Blocks
      /\ \A i, j \in 1 .. n : o[i] = o[j] => i = j
    <2>1. o \in Seq(Blocks)
        BY DEF IsList
    <2>2. \A i \in 1 .. Len(o) : o[i] \in Blocks
        BY <2>1
    <2> QED
        BY <2>2 DEF IsList
<1>7. 3 - v \in 1 .. 2 /\ 3 - v # v
    OBVIOUS
<1>10. \A j \in 1 .. Len(w) : \/ j \in 1 .. n /\ o[j] \in Blocks /\ w[j][1] = <<"data", o[j]>>
                              \/ \E h \in 1 .. 2 : j = n + h /\ w[j][1] = <<"toc", 3 - v, h>>
                              \/ \E h \in 1 .. 2 : j = n + 2 + h /\ w[j][1] = <<"toc", v, h>>
                              \/ j = n + 5 /\ w[j][1] = <<"note", slot>>
    <2> TAKE j \in 1 .. Len(w)
    <2>1. CASE j \in 1 .. n
        BY <1>2, <1>6, <2>1
    <2>2. ASSUME NEW h \in 1 .. 2, j = n + h PROVE w[j][1] = <<"toc", 3 - v, h>>
        BY <1>3, <2>2
    <2>3. ASSUME NEW h \in 1 .. 2, j = n + 2 + h PROVE w[j][1] = <<"toc", v, h>>
        BY <1>3, <2>3
    <2>4. CASE j = n + 5
        BY <1>4, <2>4
    <2> QED
        BY <1>5, <2>1, <2>2, <2>3, <2>4, Zenon
<1>8. Once(w)
    <2> DEFINE u == 3 - v
    <2> SUFFICES ASSUME NEW a \in 1 .. Len(w), NEW b \in 1 .. Len(w), w[a][1] = w[b][1] PROVE a = b
        BY DEF Once
    <2>1. \A j \in 1 .. Len(w) :
            \/ j \in 1 .. n /\ w[j][1][1] = "data" /\ w[j][1][2] = o[j]
            \/ w[j][1][1] = "toc" /\ w[j][1][2] = u /\ w[j][1][3] \in 1 .. 2 /\ j = n + w[j][1][3]
            \/ w[j][1][1] = "toc" /\ w[j][1][2] = v /\ w[j][1][3] \in 1 .. 2 /\ j = n + 2 + w[j][1][3]
            \/ j = n + 5 /\ w[j][1][1] = "note"
        <3> TAKE j \in 1 .. Len(w)
        <3>1. ASSUME w[j][1] = <<"data", o[j]>> PROVE w[j][1][1] = "data" /\ w[j][1][2] = o[j]
            BY ONLY <3>1
        <3>2. ASSUME NEW h \in 1 .. 2, w[j][1] = <<"toc", u, h>>
              PROVE  w[j][1][1] = "toc" /\ w[j][1][2] = u /\ w[j][1][3] = h
            BY ONLY <3>2
        <3>3. ASSUME NEW h \in 1 .. 2, w[j][1] = <<"toc", v, h>>
              PROVE  w[j][1][1] = "toc" /\ w[j][1][2] = v /\ w[j][1][3] = h
            BY ONLY <3>3
        <3>4. ASSUME w[j][1] = <<"note", slot>> PROVE w[j][1][1] = "note"
            BY ONLY <3>4
        <3> QED
            BY <1>10, <3>1, <3>2, <3>3, <3>4
    <2>2. u # v
        BY <1>7
    <2> HIDE DEF u
    <2>3. /\ w[a][1][1] = w[b][1][1] /\ w[a][1][2] = w[b][1][2] /\ w[a][1][3] = w[b][1][3]
          /\ \A i, j \in 1 .. n : o[i] = o[j] => i = j
        BY <1>6
    <2> QED
        BY <2>1, <2>2, <2>3
<1>9. ASSUME NEW c, NEW k \in 0 .. Len(w), StoppedAt(c, p, w, k)
      PROVE  Writing(c, p, n, o, vals, v, toc, slot, tnote, k = Len(w))
    <2>1. \A i \in 1 .. Len(w) : \/ i <= k /\ c[w[i][1]] = w[i][2]
                                 \/ i > k /\ c[w[i][1]] = p[w[i][1]]
                                 \/ i = k + 1 /\ c[w[i][1]] = Garbage
        BY <1>9 DEF StoppedAt
    <2>2. \A d \in Chunk : (\A i \in 1 .. Len(w) : w[i][1] # d) => c[d] = p[d]
        BY <1>9 DEF StoppedAt
    <2>3. ASSUME NEW d \in Chunk,
                 \A i \in 1 .. n : d # <<"data", o[i]>>,
                 \A i, h \in 1 .. 2 : d # <<"toc", i, h>>, d # <<"note", slot>>
          PROVE  c[d] = p[d]
        <3>1. \A i \in 1 .. Len(w) : w[i][1] # d
            BY <1>7, <1>10, <2>3
        <3> QED
            BY <2>2, <3>1
    <2>4. c[<<"header">>] = p[<<"header">>]
        BY <1>6, <2>3, ChunkFacts
    <2>5. \A s \in Slots : s # slot => c[<<"note", s>>] = p[<<"note", s>>]
        BY <1>6, <2>3, ChunkFacts
    <2>6. ASSUME NEW b \in Blocks, b \notin ToSet(o) PROVE c[<<"data", b>>] = p[<<"data", b>>]
        <3>1. \A i \in 1 .. n : b # o[i]
            BY <2>6 DEF ToSet, IsList
        <3> QED
            BY <1>6, <2>3, <3>1, ChunkFacts
    <2>7. k \in Nat /\ k <= n + 5
        BY <1>1, <1>9
    <2>8. ASSUME NEW h \in 1 .. 2
          PROVE  /\ c[<<"toc", v, h>>] \in {p[<<"toc", v, h>>], Garbage, TocChunk(h, toc)}
                 /\ c[<<"toc", 3 - v, h>>] \in {p[<<"toc", 3 - v, h>>], Garbage, TocChunk(h, toc)}
                 /\ k < n + 2 => c[<<"toc", v, h>>] = p[<<"toc", v, h>>]
                 /\ k >= n + 2 => c[<<"toc", 3 - v, h>>] = TocChunk(h, toc)
                 /\ k = n + 5 => c[<<"toc", v, h>>] = TocChunk(h, toc)
        <3>1. \/ n + h <= k /\ c[<<"toc", 3 - v, h>>] = TocChunk(h, toc)
              \/ n + h > k /\ c[<<"toc", 3 - v, h>>] = p[<<"toc", 3 - v, h>>]
              \/ n + h = k + 1 /\ c[<<"toc", 3 - v, h>>] = Garbage
            BY <1>3, <2>1
        <3>2. \/ n + 2 + h <= k /\ c[<<"toc", v, h>>] = TocChunk(h, toc)
              \/ n + 2 + h > k /\ c[<<"toc", v, h>>] = p[<<"toc", v, h>>]
              \/ n + 2 + h = k + 1 /\ c[<<"toc", v, h>>] = Garbage
            BY <1>3, <2>1
        <3>3. k < n + 2 => n + 2 + h > k /\ n + 2 + h # k + 1
            BY <2>7
        <3>4. k >= n + 2 => n + h <= k /\ n + h # k + 1
            BY <2>7
        <3>5. k = n + 5 => n + 2 + h <= k /\ n + 2 + h # k + 1
            BY <2>7
        <3>6. \A x \in Nat : ~(x <= k /\ x > k)
            BY <2>7
        <3>7. n + h \in Nat /\ n + 2 + h \in Nat
            OBVIOUS
        <3> QED
            BY <3>1, <3>2, <3>3, <3>4, <3>5, <3>6, <3>7
    <2>9. \A i \in 1 .. 2 : i = v \/ i = 3 - v
        OBVIOUS
    <2>10. k < n + 2 \/ k >= n + 2
        BY <2>7
    <2>11. \A i, h \in 1 .. 2 : c[<<"toc", i, h>>] \in {p[<<"toc", i, h>>], Garbage, TocChunk(h, toc)}
        BY <2>8, <2>9, Zenon
    <2>12. \/ \A h \in 1 .. 2 : c[<<"toc", v, h>>] = p[<<"toc", v, h>>]
           \/ \A h \in 1 .. 2 : c[<<"toc", 3 - v, h>>] = TocChunk(h, toc)
        BY <2>8, <2>10
    <2>13. k # n + 5 => c[<<"note", slot>>] \in {p[<<"note", slot>>], Garbage}
        <3>1. \/ n + 5 <= k /\ c[<<"note", slot>>] = tnote
              \/ n + 5 > k /\ c[<<"note", slot>>] = p[<<"note", slot>>]
              \/ n + 5 = k + 1 /\ c[<<"note", slot>>] = Garbage
            BY <1>4, <2>1
        <3> QED
            BY <2>7, <3>1
    <2>14. ASSUME k = n + 5
           PROVE  /\ \A i \in 1 .. n : c[<<"data", o[i]>>] = vals[i]
                  /\ \A i, h \in 1 .. 2 : c[<<"toc", i, h>>] = TocChunk(h, toc)
                  /\ c[<<"note", slot>>] = tnote
        <3>1. \A i \in 1 .. Len(w) : c[w[i][1]] = w[i][2]
            BY <1>1, <2>1, <2>14
        <3>2. \A i \in 1 .. n : c[<<"data", o[i]>>] = vals[i]
            BY <1>2, <3>1
        <3>3. c[<<"note", slot>>] = tnote
            BY <1>4, <3>1
        <3>4. k >= n + 2
            BY <2>14
        <3>5. \A i, h \in 1 .. 2 : c[<<"toc", i, h>>] = TocChunk(h, toc)
            BY <2>8, <2>9, <2>14, <3>4, Zenon
        <3> QED
            BY <3>2, <3>3, <3>5
    <2> QED
        BY <1>1, <2>4, <2>5, <2>6, <2>11, <2>12, <2>13, <2>14 DEF Writing
<1> QED
    BY <1>8, <1>9

\* What the call has found and is about to write: table toc links list o, of
\* blocks that are free on p, for the note that slot is to have.
NewNote(p, notes, own, own2, n, o, vals, v, toc, slot, tnote, after) ==
    /\ own \in [Slots -> Seq(Blocks)] /\ Sound(p, notes, own)
    /\ p[<<"header">>] # Garbage /\ v \in 1 .. 2 /\ TocOn(p, v)
    /\ toc \in [Blocks -> Nat] /\ Chained(toc, o) /\ n \in Nat /\ Len(o) = n
    /\ \A b \in ToSet(o) : LinksOn(p, v)[b] = BLOCK_EMPTY
    /\ \A b \in Blocks : b \notin ToSet(o) => toc[b] = LinksOn(p, v)[b]
    /\ slot \in Slots /\ ~NoteOn(p, slot)
    /\ tnote \in Note /\ tnote.inode = o[1] /\ ValidRegion(tnote.region)
    /\ \A s \in Slots : s # slot => after[s] = notes[s]
    /\ after[slot].name = NoteName(tnote) /\ after[slot].data = vals /\ Len(vals) = n
    /\ after[slot] # None
    /\ own2[slot] = o /\ \A s \in Slots : s # slot => own2[s] = own[s]

\* Wherever it stops the notes are there, and with it the new one.
LEMMA WriteSound ==
    ASSUME NEW p, NEW own, NEW notes, NEW n, NEW o, NEW vals, NEW v, NEW toc, NEW slot, NEW tnote,
           NEW after,
           NEW own2, NewNote(p, notes, own, own2, n, o, vals, v, toc, slot, tnote, after),
           NEW c, NEW all \in BOOLEAN, Writing(c, p, n, o, vals, v, toc, slot, tnote, all)
    PROVE  /\ Sound(c, notes, own2)
           /\ all => Sound(c, after, own2) /\ (Settled(p, notes, own) => Settled(c, after, own2))
<1> own \in [Slots -> Seq(Blocks)] /\ slot \in Slots /\ v \in 1 .. 2 /\ toc \in [Blocks -> Nat]
    BY DEF NewNote
<1>0. /\ Sound(p, notes, own) /\ p[<<"header">>] # Garbage /\ TocOn(p, v)
      /\ Chained(toc, o) /\ n \in Nat /\ Len(o) = n
      /\ \A b \in ToSet(o) : LinksOn(p, v)[b] = BLOCK_EMPTY
      /\ \A b \in Blocks : b \notin ToSet(o) => toc[b] = LinksOn(p, v)[b]
      /\ ~NoteOn(p, slot) /\ tnote \in Note /\ tnote.inode = o[1] /\ ValidRegion(tnote.region)
      /\ \A s \in Slots : s # slot => after[s] = notes[s]
      /\ after[slot].name = NoteName(tnote) /\ after[slot].data = vals /\ Len(vals) = n
      /\ after[slot] # None
    BY DEF NewNote
<1> USE <1>0
<1>1. /\ IsList(o) /\ o \in Seq(Blocks) /\ o[1] \in Blocks /\ DOMAIN o = 1 .. n
    <2>1. IsList(o) /\ o \in Seq(Blocks) /\ o # <<>>
        BY DEF Chained, IsList
    <2>2. 1 \in 1 .. Len(o)
        BY <2>1
    <2> QED
        BY <2>1, <2>2
<1>2. own2[slot] = o /\ \A s \in Slots : s # slot => own2[s] = own[s]
    BY DEF NewNote
<1>3. /\ Typed(p) /\ Listed(p, own) /\ Apart(p, own) /\ Kept(p, notes, own)
    BY DEF Sound
<1>4. ASSUME NEW s \in Slots, NoteOn(p, s)
      PROVE  /\ s # slot /\ IsList(own[s]) /\ own[s][1] = p[<<"note", s>>].inode /\ Agree(p, own[s])
             /\ Chained(LinksOn(p, v), own[s]) /\ Chained(toc, own[s])
             /\ \A b \in ToSet(own[s]) : b \in Blocks /\ b \notin ToSet(o)
    <2>1. s # slot /\ IsList(own[s]) /\ own[s][1] = p[<<"note", s>>].inode /\ Agree(p, own[s])
        BY <1>3, <1>4 DEF Listed
    <2>2. Chained(LinksOn(p, v), own[s])
        BY <2>1, AgreeChained
    <2>3. \A b \in ToSet(own[s]) : b \in Blocks /\ b \notin ToSet(o)
        BY <2>2, NotFree
    <2>4. Chained(toc, own[s])
        BY <2>2, <2>3, ChainedKept
    <2> QED
        BY <2>1, <2>2, <2>3, <2>4
<1>5. ASSUME NEW s \in Slots, s # slot
      PROVE  c[<<"note", s>>] = p[<<"note", s>>] /\ (NoteOn(c, s) <=> NoteOn(p, s))
    BY <1>5 DEF Writing, NoteOn
<1>6. \A i, h \in 1 .. 2 : c[<<"toc", i, h>>] \in {p[<<"toc", i, h>>], Garbage, TocChunk(h, toc)}
    BY DEF Writing
<1>7. all => \A i, h \in 1 .. 2 : c[<<"toc", i, h>>] = TocChunk(h, toc)
    BY DEF Writing
<1>8. NoteOn(c, slot) => all /\ c[<<"note", slot>>] = tnote
    BY DEF Writing, NoteOn
<1>9. all => NoteOn(c, slot) /\ c[<<"note", slot>>] = tnote
    <2>1. tnote # Garbage
        BY ValueFacts
    <2> QED
        BY <1>1, <2>1 DEF Writing, NoteOn
<1>10. Typed(c)
    <2>1. tnote \in NoteChunk /\ Garbage \in NoteChunk
        BY <1>1 DEF NoteChunk
    <2>2. \A h \in 1 .. 2 : Garbage \in TocHalf(h) /\ TocChunk(h, toc) \in TocHalf(h)
        BY ValueFacts DEF TocHalf
    <2>3. \A i, h \in 1 .. 2 : c[<<"toc", i, h>>] \in TocHalf(h)
        BY <1>3, <1>6, <2>2 DEF Typed
    <2>4. \A s \in Slots : c[<<"note", s>>] \in NoteChunk
        BY <1>3, <1>5, <2>1 DEF Typed, Writing
    <2>5. c[<<"header">>] \in {"header", Garbage}
        BY <1>3 DEF Typed, Writing
    <2> QED
        BY <2>3, <2>4, <2>5 DEF Typed
<1>11. Listed(c, own2)
    <2> SUFFICES ASSUME NEW s \in Slots, NoteOn(c, s)
                 PROVE  IsList(own2[s]) /\ own2[s][1] = c[<<"note", s>>].inode /\ Agree(c, own2[s])
        BY DEF Listed
    <2>1. CASE s = slot
        <3>1. Agree(c, o)
            <4>1. \A i, h \in 1 .. 2 : c[<<"toc", i, h>>] = TocChunk(h, toc)
                BY <1>7, <1>8, <2>1
            <4> QED
                BY <4>1, AgreeWritten
        <3> QED
            BY <1>1, <1>2, <1>8, <2>1, <3>1
    <2>2. CASE s # slot
        <3>1. Agree(c, own[s])
            BY <1>4, <1>5, <1>6, <2>2, AgreeKept
        <3> QED
            BY <1>2, <1>4, <1>5, <2>2, <3>1
    <2> QED
        BY <2>1, <2>2
<1>12. Apart(c, own2)
    <2> SUFFICES ASSUME NEW s \in Slots, NEW t \in Slots, NoteOn(c, s), NoteOn(c, t), s # t,
                        NEW b \in Blocks, b \in ToSet(own2[s]), b \in ToSet(own2[t])
                 PROVE  FALSE
        BY DEF Apart
    <2>1. CASE s = slot
        BY <1>2, <1>4, <1>5, <2>1
    <2>2. CASE t = slot
        BY <1>2, <1>4, <1>5, <2>2
    <2>3. CASE s # slot /\ t # slot
        BY <1>2, <1>3, <1>5, <2>3 DEF Apart
    <2> QED
        BY <2>1, <2>2, <2>3
<1>13. ASSUME NEW s \in Slots, s # slot, notes[s] # None
       PROVE  /\ NoteOn(c, s) /\ NoteName(c[<<"note", s>>]) = notes[s].name
              /\ Len(own2[s]) = Len(notes[s].data)
              /\ \A k \in 1 .. Len(own2[s]) : c[<<"data", own2[s][k]>>] = notes[s].data[k]
    <2>1. /\ NoteOn(p, s) /\ NoteName(p[<<"note", s>>]) = notes[s].name
          /\ Len(own[s]) = Len(notes[s].data)
          /\ \A k \in 1 .. Len(own[s]) : p[<<"data", own[s][k]>>] = notes[s].data[k]
        BY <1>3, <1>13 DEF Kept
    <2>2. \A k \in 1 .. Len(own[s]) : own[s][k] \in Blocks /\ own[s][k] \notin ToSet(o)
        <3>1. own[s] \in Seq(Blocks) /\ DOMAIN own[s] = 1 .. Len(own[s])
            OBVIOUS
        <3>2. \A k \in 1 .. Len(own[s]) : own[s][k] \in ToSet(own[s])
            BY <3>1 DEF ToSet
        <3> QED
            BY <1>4, <2>1, <3>2
    <2>3. \A k \in 1 .. Len(own[s]) : c[<<"data", own[s][k]>>] = p[<<"data", own[s][k]>>]
        BY <2>2 DEF Writing
    <2> QED
        BY <1>2, <1>5, <1>13, <2>1, <2>3
<1>14. notes[slot] = None
    BY <1>3 DEF Kept
<1>15. Kept(c, notes, own2)
    BY <1>13, <1>14, Zenon DEF Kept
<1>16. c[<<"header">>] # Garbage /\ \E i \in 1 .. 2 : TocOn(c, i)
    <2>1. CASE \A h \in 1 .. 2 : c[<<"toc", v, h>>] = p[<<"toc", v, h>>]
        BY <2>1, TocSame DEF Writing
    <2>2. CASE \A h \in 1 .. 2 : c[<<"toc", 3 - v, h>>] = TocChunk(h, toc)
        <3>1. 3 - v \in 1 .. 2
            OBVIOUS
        <3>2. TocOn(c, 3 - v)
            BY <2>2, <3>1, TocWritten
        <3> QED
            BY <3>1, <3>2 DEF Writing
    <2> QED
        BY <2>1, <2>2 DEF Writing
<1>17. Sound(c, notes, own2)
    BY <1>10, <1>11, <1>12, <1>15, <1>16 DEF Sound, Readable
<1>18. ASSUME all PROVE Sound(c, after, own2)
    <2>1. \A k \in 1 .. Len(o) : c[<<"data", o[k]>>] = vals[k]
        BY <1>18 DEF Writing
    <2>2. Kept(c, after, own2)
        <3> SUFFICES ASSUME NEW s \in Slots, after[s] # None
                     PROVE  /\ NoteOn(c, s) /\ NoteName(c[<<"note", s>>]) = after[s].name
                            /\ Len(own2[s]) = Len(after[s].data)
                            /\ \A k \in 1 .. Len(own2[s]) : c[<<"data", own2[s][k]>>] = after[s].data[k]
            BY DEF Kept
        <3>1. CASE s = slot
            BY <1>2, <1>9, <1>18, <2>1, <3>1
        <3>2. CASE s # slot
            BY <1>13, <3>2
        <3> QED
            BY <3>1, <3>2
    <2> QED
        BY <1>10, <1>11, <1>12, <1>16, <2>2 DEF Sound, Readable
<1>19. ASSUME all, Settled(p, notes, own) PROVE Settled(c, after, own2)
    <2>1. ASSUME NEW s \in Slots, NoteOn(c, s) PROVE after[s] # None
        BY <1>5, <1>19, <2>1 DEF Settled
    <2>2. \A i \in 1 .. 2 : TocOn(c, i) /\ LinksOn(c, i) = toc
        BY <1>7, <1>19, TocWritten
    <2>3. ASSUME NEW b \in Blocks
          PROVE  toc[b] = BLOCK_EMPTY <=> \A s \in Slots : NoteOn(c, s) => b \notin ToSet(own2[s])
        <3>1. CASE b \in ToSet(o)
            <4>1. toc[b] # BLOCK_EMPTY
                BY <3>1, NotFree
            <4> QED
                BY <1>2, <1>9, <1>19, <3>1, <4>1
        <3>2. CASE b \notin ToSet(o)
            <4>1. toc[b] = LinksOn(p, v)[b]
                BY <3>2
            <4>2. LinksOn(p, v)[b] = BLOCK_EMPTY <=> \A s \in Slots : NoteOn(p, s) => b \notin ToSet(own[s])
                BY <1>19 DEF Settled
            <4>3. (\A s \in Slots : NoteOn(p, s) => b \notin ToSet(own[s])) <=>
                        \A s \in Slots : NoteOn(c, s) => b \notin ToSet(own2[s])
                BY <1>2, <1>5, <3>2
            <4> QED
                BY <4>1, <4>2, <4>3
        <3> QED
            BY <3>1, <3>2
    <2> QED
        BY <1>16, <2>1, <2>2, <2>3 DEF Settled
<1> QED
    BY <1>17, <1>18, <1>19

\* Only data of list o has changed.
DataOnly(c, p, o) ==
    \A d \in Chunk : (\A i \in 1 .. Len(o) : d # <<"data", o[i]>>) => c[d] = p[d]

\* With no slot left, the data has gone to blocks of no note.
LEMMA DataSound ==
    ASSUME NEW p, NEW own \in [Slots -> Seq(Blocks)], NEW notes, Sound(p, notes, own),
           NEW v \in 1 .. 2, TocOn(p, v),
           NEW o \in Seq(Blocks), \A b \in ToSet(o) : LinksOn(p, v)[b] = BLOCK_EMPTY,
           NEW c, DataOnly(c, p, o)
    PROVE  Sound(c, notes, own) /\ (Settled(p, notes, own) => Settled(c, notes, own))
<1>1. \A i \in 1 .. Len(o) : o[i] \in Blocks /\ o[i] \in ToSet(o)
    <2>1. DOMAIN o = 1 .. Len(o)
        OBVIOUS
    <2>2. \A i \in 1 .. Len(o) : o[i] \in ToSet(o)
        BY <2>1 DEF ToSet
    <2> QED
        BY <2>2, ElementOf, Zenon
<1>2. /\ c[<<"header">>] = p[<<"header">>]
      /\ \A s \in Slots : c[<<"note", s>>] = p[<<"note", s>>]
      /\ \A i, h \in 1 .. 2 : c[<<"toc", i, h>>] = p[<<"toc", i, h>>]
    BY <1>1, ChunkFacts, Zenon DEF DataOnly
<1>3. \A s \in Slots : NoteOn(c, s) <=> NoteOn(p, s)
    BY <1>2, Zenon DEF NoteOn
<1>4. \A i \in 1 .. 2 : LinksOn(c, i) = LinksOn(p, i) /\ (TocOn(c, i) <=> TocOn(p, i))
    BY <1>2, TocSame, Zenon
<1>5. Typed(c)
    BY <1>2 DEF Sound, Typed
<1>6. Listed(c, own)
    <2> SUFFICES ASSUME NEW s \in Slots, NoteOn(c, s)
                 PROVE  IsList(own[s]) /\ own[s][1] = c[<<"note", s>>].inode /\ Agree(c, own[s])
        BY DEF Listed
    <2>1. IsList(own[s]) /\ own[s][1] = p[<<"note", s>>].inode /\ Agree(p, own[s])
        BY <1>3 DEF Sound, Listed
    <2>2. Agree(c, own[s])
        BY <1>2, <2>1, AgreeSame
    <2> QED
        BY <1>2, <2>1, <2>2
<1>7. Apart(c, own)
    BY <1>3 DEF Sound, Apart
<1>8. Kept(c, notes, own)
    <2> SUFFICES ASSUME NEW s \in Slots, notes[s] # None
                 PROVE  /\ NoteOn(c, s) /\ NoteName(c[<<"note", s>>]) = notes[s].name
                        /\ Len(own[s]) = Len(notes[s].data)
                        /\ \A k \in 1 .. Len(own[s]) : c[<<"data", own[s][k]>>] = notes[s].data[k]
        BY DEF Kept
    <2>1. /\ NoteOn(p, s) /\ NoteName(p[<<"note", s>>]) = notes[s].name
          /\ Len(own[s]) = Len(notes[s].data)
          /\ \A k \in 1 .. Len(own[s]) : p[<<"data", own[s][k]>>] = notes[s].data[k]
        BY DEF Sound, Kept
    <2>2. Chained(LinksOn(p, v), own[s])
        BY <2>1, AgreeChained DEF Sound, Listed
    <2>3. \A k \in 1 .. Len(own[s]) : own[s][k] \in Blocks /\ own[s][k] \notin ToSet(o)
        <3>1. own[s] \in Seq(Blocks) /\ DOMAIN own[s] = 1 .. Len(own[s])
            OBVIOUS
        <3>2. \A k \in 1 .. Len(own[s]) : own[s][k] \in ToSet(own[s])
            BY <3>1 DEF ToSet
        <3> QED
            BY <2>2, <3>2, NotFree
    <2>4. \A k \in 1 .. Len(own[s]) : c[<<"data", own[s][k]>>] = p[<<"data", own[s][k]>>]
        BY <1>1, <2>3, ChunkFacts, Zenon DEF DataOnly
    <2> QED
        BY <1>2, <1>3, <2>1, <2>4
<1>9. Readable(c, notes)
    BY <1>2, <1>4 DEF Sound, Readable
<1>10. Settled(p, notes, own) => Settled(c, notes, own)
    BY <1>2, <1>3, <1>4 DEF Settled
<1> QED
    BY <1>5, <1>6, <1>7, <1>8, <1>9, <1>10 DEF Sound

\* A note is written.
LEMMA WriteEntryStep == MempakInv /\ write_mempak_entry_data => MempakInv'
<1> SUFFICES ASSUME MempakInv, write_mempak_entry_data PROVE MempakInv'
    OBVIOUS
<1> DEFINE valid == __get_valid_toc
           toc0 == TocLinks(valid)
           lowest(n) == Lowest(toc0, n)
           table(n) == Allocated(toc0, lowest(n))
           blocks(n) == Walk(table(n), Last(lowest(n))).blocks
           data(n) == [i \in 1 .. n |-> <<<<"data", blocks(n)[i]>>, Data(n)[i]>>]
           slot == Min(FreeSlots)
           tnote(n) == __write_note(Titles[Fresh], Last(lowest(n)))
           added(n) == [live EXCEPT ![slot] = [name |-> Titles[Fresh].name, data |-> Data(n)]]
<1>1. PICK n \in Lengths :
        /\ Idle /\ valid # 0 /\ ValidRegion(Titles[Fresh].region)
        /\ __get_free_space(toc0) >= n
        /\ IF FreeSlots = {} THEN Begin(data(n), live, live)
           ELSE Begin(data(n) \o WriteTocs(valid, table(n)) \o << <<<<"note", slot>>, tnote(n)>> >>,
                      live, added(n))
        /\ UNCHANGED failed
    BY Zenon DEF write_mempak_entry_data
<1> DEFINE free == lowest(n)
           toc == table(n)
           o == [i \in 1 .. n |-> free[n + 1 - i]]
           vals == Data(n)
<1>2. n \in Nat \ {0}
    BY <1>1, MempakAssumption
<1>3. /\ pak \in Card /\ live \in [Slots -> Entry]
      /\ \E own \in [Slots -> Seq(Blocks)] : Sound(pak, live, own) /\ (~failed => Settled(pak, live, own))
    BY <1>1, IdleFacts
<1>4. PICK own \in [Slots -> Seq(Blocks)] : Sound(pak, live, own) /\ (~failed => Settled(pak, live, own))
    BY <1>3
<1>5. valid \in 1 .. 2 /\ pak[<<"header">>] # Garbage /\ TocOn(pak, valid) /\ toc0 = LinksOn(pak, valid)
    <2>1. valid \in 1 .. 2
        BY <1>1, ValidFacts
    <2> QED
        BY <1>1, <2>1, ValidFacts
<1>6. toc0 \in [Blocks -> Nat]
    BY <1>4, <1>5, LinksType DEF Sound
<1> HIDE DEF valid, toc0
<1>7. /\ free \in [1 .. n -> Blocks] /\ \A i \in 1 .. n : toc0[free[i]] = BLOCK_EMPTY
      /\ \A i, j \in 1 .. n : i < j => free[i] < free[j]
    <2>1. n <= __get_free_space(toc0)
        <3>1. __get_free_space(toc0) \in Nat
            <4> DEFINE S == {b \in Blocks : toc0[b] = BLOCK_EMPTY}
            <4>1. S \subseteq Blocks
                OBVIOUS
            <4> HIDE DEF S
            <4>2. Cardinality(S) \in Nat
                BY <4>1, BlockFacts, FS_Subset, FS_CardinalityType
            <4> QED
                BY <4>2 DEF __get_free_space, S
        <3> QED
            BY <1>1, <1>2, <3>1
    <2> QED
        BY <1>2, <2>1, LowestFacts
<1> HIDE DEF lowest
<1>8. /\ toc \in [Blocks -> Nat]
      /\ Chained(toc, o) /\ o[1] = Last(free) /\ Len(o) = n
      /\ \A b \in Blocks : b \notin ToSet(o) => toc[b] = toc0[b]
      /\ \A b \in ToSet(o) : b \in ToSet(free) /\ toc[b] # BLOCK_EMPTY
    <2>1. NewTable(toc0, n, free, toc, o)
        BY <1>2, <1>6, <1>7, AllocatedFacts, Zenon
    <2> HIDE DEF table, o
    <2> QED
        BY <2>1, Zenon DEF NewTable
<1>9. \A b \in ToSet(o) : toc0[b] = BLOCK_EMPTY
    <2>1. DOMAIN free = 1 .. n
        BY <1>7
    <2>2. \A b \in ToSet(free) : toc0[b] = BLOCK_EMPTY
        BY <1>7, <2>1 DEF ToSet
    <2> QED
        BY <1>8, <2>2
<1> HIDE DEF table, o
<1>10. blocks(n) = o
    <2>1. Walk(toc, o[1]) = [blocks |-> o, end |-> BLOCK_LAST]
        BY <1>8, WalkIsList
    <2> QED
        BY <1>8, <2>1
<1>11. /\ IsList(o) /\ o \in Seq(Blocks) /\ o[1] \in Blocks
    <2>1. IsList(o) /\ o \in Seq(Blocks)
        BY <1>8 DEF Chained, IsList
    <2>2. 1 \in 1 .. Len(o)
        BY <1>2, <1>8
    <2> QED
        BY <2>1, <2>2
<1>12. /\ Fresh \in Nat /\ Titles[Fresh] \in [name : Seq(Nat), region : Nat] /\ CleanName(Titles[Fresh].name)
    <2>1. Titles \in Seq([name : Seq(Nat), region : Nat]) /\ DOMAIN Titles = 1 .. Len(Titles)
        BY MempakAssumption
    <2>2. Fresh \in 1 .. Len(Titles) /\ CleanName(Titles[Fresh].name)
        BY <2>1, FreshFacts, MempakAssumption, Zenon
    <2>3. Titles[Fresh] \in [name : Seq(Nat), region : Nat]
        BY <2>1, <2>2, ElementOf, Zenon
    <2>4. Fresh \in Nat
        BY <2>2
    <2> QED
        BY <2>2, <2>3, <2>4
<1>13. vals \in Seq([of : Nat, part : Nat]) /\ Len(vals) = n
    <2>1. vals = [i \in 1 .. n |-> [of |-> Fresh, part |-> i]]
        BY DEF Data
    <2> QED
        BY <1>2, <1>12, <2>1
<1> HIDE DEF vals
<1> DEFINE d == [i \in 1 .. n |-> <<<<"data", o[i]>>, vals[i]>>]
<1>14. data(n) = d
    BY <1>10 DEF vals
<1>15. CASE FreeSlots = {}
    <2>1. Begin(d, live, live)
        BY <1>1, <1>14, <1>15
    <2>2. DataList(d, n, o, vals)
        <3>1. BlankNote \in Note /\ n \in Nat
            BY <1>2, ValueFacts
        <3>2. d \in Seq(Items) /\ Len(d) = n
            <4>1. \A i \in 1 .. n : o[i] \in Blocks /\ vals[i] \in [of : Nat, part : Nat]
                BY <1>8, <1>11, <1>13, ElementOf, Zenon
            <4>2. \A i \in 1 .. n : <<<<"data", o[i]>>, vals[i]>> \in Items
                BY <4>1, ChunkFacts, ValueFacts DEF Items
            <4> QED
                BY <3>1, <4>2
        <3> QED
            BY <3>2 DEF DataList
    <2> HIDE DEF d
    <2>3. d \in Seq(Items) /\ Len(d) = n /\ \A i \in 1 .. n : d[i][1] = <<"data", o[i]>>
        BY <2>2 DEF DataList
    <2>4. Once(d)
        BY <1>8, <1>11, <2>3 DEF Once, IsList
    <2>5. ASSUME NEW c, NEW k \in 0 .. Len(d), StoppedAt(c, pak, d, k)
          PROVE  Sound(c, live, own) /\ (~failed => Settled(c, live, own))
        <3>1. DataOnly(c, pak, o)
            <4> SUFFICES ASSUME NEW e \in Chunk, \A i \in 1 .. Len(o) : e # <<"data", o[i]>>
                         PROVE  c[e] = pak[e]
                BY DEF DataOnly
            <4>1. \A i \in 1 .. Len(d) : d[i][1] # e
                BY <1>8, <2>3
            <4> QED
                BY <2>5, <4>1 DEF StoppedAt
        <3>2. \A b \in ToSet(o) : LinksOn(pak, valid)[b] = BLOCK_EMPTY
            BY <1>5, <1>9
        <3>3. Sound(c, live, own) /\ (Settled(pak, live, own) => Settled(c, live, own))
            BY <1>4, <1>5, <1>11, <3>1, <3>2, DataSound, Zenon
        <3> QED
            BY <1>4, <3>3
    <2>6. Len(d) \in 0 .. Len(d) /\ failed' = failed
        BY <1>1, <1>2, <2>3
    <2> QED
        BY <1>3, <1>4, <2>1, <2>3, <2>4, <2>5, <2>6, BeginStep
<1>16. CASE FreeSlots # {}
    <2> DEFINE t == tnote(n)
               w == d \o WriteTocs(valid, toc) \o << <<<<"note", slot>>, t>> >>
               after == added(n)
               own2 == [own EXCEPT ![slot] = o]
    <2>1. Begin(w, live, after)
        BY <1>1, <1>14, <1>16
    <2>2. slot \in Slots /\ ~NoteOn(pak, slot)
        <3>1. FreeSlots \in SUBSET Nat /\ FreeSlots \subseteq Slots
            BY SlotFacts DEF FreeSlots
        <3>2. Min(FreeSlots) \in FreeSlots
            BY <1>16, <3>1, MinFacts
        <3> QED
            BY <3>1, <3>2, ValidFacts DEF FreeSlots
    <2>3. /\ t \in Note /\ t.inode = o[1] /\ t.region = Titles[Fresh].region
          /\ NoteName(t) = Titles[Fresh].name
        <3>1. o[1] \in Nat /\ Titles[Fresh].name \in Seq(Nat) /\ Titles[Fresh].region \in Nat
            BY <1>11, <1>12, BlockFacts
        <3>2. t = __write_note(Titles[Fresh], o[1])
            BY <1>8
        <3> HIDE DEF t
        <3> QED
            BY <1>12, <3>1, <3>2, NameKept
    <2> HIDE DEF slot, t
    <2>4. /\ after \in [Slots -> Entry] /\ \A s \in Slots : s # slot => after[s] = live[s]
          /\ after[slot].name = NoteName(t) /\ after[slot].data = vals /\ after[slot] # None
        <3>1. after = [live EXCEPT ![slot] = [name |-> Titles[Fresh].name, data |-> vals]]
            BY DEF vals
        <3>2. [name |-> Titles[Fresh].name, data |-> vals] \in Entry
            BY <1>12, <1>13 DEF Entry
        <3>3. vals # <<>>
            BY <1>2, <1>13
        <3> HIDE DEF after
        <3>4. after[slot] = [name |-> Titles[Fresh].name, data |-> vals] /\ after \in [Slots -> Entry]
              /\ \A s \in Slots : s # slot => after[s] = live[s]
            BY <1>3, <2>2, <3>1, <3>2
        <3> QED
            BY <2>3, <3>3, <3>4 DEF None
    <2>5. WriteList(w, n, o, vals, valid, toc, slot, t)
        BY <1>2, <1>5, <1>8, <1>11, <1>13, <2>2, <2>3, WriteItems
    <2> HIDE DEF w, after
    <2>6. /\ Once(w)
          /\ \A c : \A k \in 0 .. Len(w) :
                StoppedAt(c, pak, w, k) => Writing(c, pak, n, o, vals, valid, toc, slot, t, k = Len(w))
        BY <1>2, <1>5, <1>8, <1>11, <2>2, <2>5, WriteStops
    <2>7. own2 \in [Slots -> Seq(Blocks)]
        BY <1>11, <2>2
    <2>8. ASSUME NEW c, NEW k \in 0 .. Len(w), StoppedAt(c, pak, w, k)
          PROVE  /\ Sound(c, live, own2)
                 /\ k = Len(w) => Sound(c, after, own2) /\ (~failed => Settled(c, after, own2))
        <3> DEFINE all == k = Len(w)
        <3>1. Writing(c, pak, n, o, vals, valid, toc, slot, t, all)
            BY <2>6, <2>8
        <3>2. all \in BOOLEAN /\ ValidRegion(t.region)
            BY <1>1, <2>3
        <3> HIDE DEF all
        <3>3. /\ Sound(c, live, own2)
              /\ all => Sound(c, after, own2) /\ (Settled(pak, live, own) => Settled(c, after, own2))
            <4>1. n \in Nat /\ \A b \in ToSet(o) : LinksOn(pak, valid)[b] = BLOCK_EMPTY
                BY <1>2, <1>5, <1>9
            <4>2. \A b \in Blocks : b \notin ToSet(o) => toc[b] = LinksOn(pak, valid)[b]
                BY <1>5, <1>8
            <4>3. own2[slot] = o /\ \A s \in Slots : s # slot => own2[s] = own[s]
                BY <2>2
            <4> HIDE DEF own2
            <4>4. NewNote(pak, live, own, own2, n, o, vals, valid, toc, slot, t, after)
                BY <1>4, <1>5, <1>8, <1>13, <2>2, <2>3, <2>4, <3>2, <4>1, <4>2, <4>3, Zenon DEF NewNote
            <4> QED
                BY <3>1, <3>2, <4>4, WriteSound, Zenon
        <3> QED
            BY <1>4, <3>3 DEF all
    <2>9. w \in Seq(Items) /\ Len(w) \in 0 .. Len(w) /\ w # <<>>
        <3>1. w \in Seq(Items) /\ Len(w) = n + 5
            BY <2>5 DEF WriteList
        <3> QED
            BY <1>2, <3>1
    <2>10. failed' = failed
        BY <1>1
    <2> QED
        BY <1>3, <2>1, <2>4, <2>6, <2>7, <2>8, <2>9, <2>10, BeginStep
<1> QED
    BY <1>15, <1>16

\* What is written to delete a note.
DeleteList(w, v, toc, s) ==
    /\ w \in Seq(Items) /\ Len(w) = 5
    /\ w[1] = <<<<"note", s>>, BlankNote>>
    /\ \A h \in 1 .. 2 : /\ w[1 + h] = <<<<"toc", 3 - v, h>>, TocChunk(h, toc)>>
                         /\ w[3 + h] = <<<<"toc", v, h>>, TocChunk(h, toc)>>

\* delete_mempak_entry writes that.
LEMMA DeleteItems ==
    ASSUME NEW v \in 1 .. 2, NEW toc \in [Blocks -> Nat], NEW s \in Slots
    PROVE  DeleteList(<< <<<<"note", s>>, BlankNote>> >> \o WriteTocs(v, toc), v, toc, s)
<1> DEFINE tocs == WriteTocs(v, toc)
           note == << <<<<"note", s>>, BlankNote>> >>
           w == note \o tocs
<1>1. /\ tocs \in Seq(Items) /\ Len(tocs) = 4
      /\ \A h \in 1 .. 2 : /\ tocs[h] = <<<<"toc", 3 - v, h>>, TocChunk(h, toc)>>
                           /\ tocs[2 + h] = <<<<"toc", v, h>>, TocChunk(h, toc)>>
    BY TocsItems, Zenon
<1>2. note \in Seq(Items) /\ Len(note) = 1 /\ note[1] = <<<<"note", s>>, BlankNote>>
    <2>1. <<<<"note", s>>, BlankNote>> \in Items
        BY ChunkFacts, ValueFacts DEF Items
    <2> QED
        BY <2>1
<1> HIDE DEF tocs, note
<1>3. Joined(w, note, tocs)
    BY <1>1, <1>2, Concatenated, Zenon
<1> HIDE DEF w
<1>4. /\ w \in Seq(Items) /\ Len(w) = 1 + 4
      /\ \A i \in 1 .. 1 : w[i] = note[i]
      /\ \A i \in 1 .. 4 : w[1 + i] = tocs[i]
    BY <1>1, <1>2, <1>3, Zenon DEF Joined
<1>5. Len(w) = 5 /\ w[1] = note[1]
    <2>1. 1 \in 1 .. 1 /\ 1 + 4 = 5
        OBVIOUS
    <2> QED
        BY <1>4, <2>1, Zenon
<1>6. \A h \in 1 .. 2 : w[1 + h] = tocs[h] /\ w[3 + h] = tocs[2 + h]
    <2> TAKE h \in 1 .. 2
    <2>1. h \in 1 .. 4 /\ 2 + h \in 1 .. 4 /\ 1 + (2 + h) = 3 + h
        OBVIOUS
    <2> QED
        BY <1>4, <2>1, Zenon
<1>7. DeleteList(w, v, toc, s)
    BY <1>1, <1>2, <1>4, <1>5, <1>6, Zenon DEF DeleteList
<1> QED
    BY <1>7, Zenon DEF w, tocs, note

\* What that has done to card p where it stops.
Deleting(c, p, v, toc, s, all) ==
    /\ \A d \in Chunk : d # <<"note", s>> /\ (\A i, h \in 1 .. 2 : d # <<"toc", i, h>>) => c[d] = p[d]
    /\ c[<<"note", s>>] \in {p[<<"note", s>>], Garbage, BlankNote}
    /\ \A i, h \in 1 .. 2 : c[<<"toc", i, h>>] \in {p[<<"toc", i, h>>], Garbage, TocChunk(h, toc)}
    /\ \/ \A i, h \in 1 .. 2 : c[<<"toc", i, h>>] = p[<<"toc", i, h>>]
       \/ c[<<"note", s>>] = BlankNote
    /\ \/ \A h \in 1 .. 2 : c[<<"toc", v, h>>] = p[<<"toc", v, h>>]
       \/ \A h \in 1 .. 2 : c[<<"toc", 3 - v, h>>] = TocChunk(h, toc)
    /\ all => /\ c[<<"note", s>>] = BlankNote
              /\ \A i, h \in 1 .. 2 : c[<<"toc", i, h>>] = TocChunk(h, toc)

\* Wherever the writing stops the card is one of those.
LEMMA DeleteStops ==
    ASSUME NEW v \in 1 .. 2, NEW toc, NEW s \in Slots, NEW p, NEW w, DeleteList(w, v, toc, s)
    PROVE  /\ Once(w)
           /\ \A c : \A k \in 0 .. Len(w) :
                StoppedAt(c, p, w, k) => Deleting(c, p, v, toc, s, k = Len(w))
<1> DEFINE u == 3 - v
<1>1. Len(w) = 5 /\ u \in 1 .. 2 /\ u # v /\ \A i \in 1 .. 2 : i = v \/ i = u
    BY DEF DeleteList
<1>2. w[1][1] = <<"note", s>> /\ w[1][2] = BlankNote
    <2>1. w[1] = <<<<"note", s>>, BlankNote>>
        BY DEF DeleteList
    <2> QED
        BY <2>1
<1>3. \A h \in 1 .. 2 : /\ w[1 + h][1] = <<"toc", u, h>> /\ w[1 + h][2] = TocChunk(h, toc)
                        /\ w[3 + h][1] = <<"toc", v, h>> /\ w[3 + h][2] = TocChunk(h, toc)
    <2> TAKE h \in 1 .. 2
    <2>1. w[1 + h] = <<<<"toc", u, h>>, TocChunk(h, toc)>> /\ w[3 + h] = <<<<"toc", v, h>>, TocChunk(h, toc)>>
        BY Zenon DEF DeleteList
    <2> HIDE DEF u
    <2> QED
        BY <2>1
<1> HIDE DEF u
<1>4. \A j \in 1 .. Len(w) : \/ j = 1 /\ w[j][1] = <<"note", s>>
                             \/ \E h \in 1 .. 2 : j = 1 + h /\ w[j][1] = <<"toc", u, h>>
                             \/ \E h \in 1 .. 2 : j = 3 + h /\ w[j][1] = <<"toc", v, h>>
    <2> TAKE j \in 1 .. Len(w)
    <2>1. j = 1 \/ (\E h \in 1 .. 2 : j = 1 + h) \/ \E h \in 1 .. 2 : j = 3 + h
        BY <1>1
    <2> QED
        BY <1>2, <1>3, <2>1, Zenon
<1>5. Once(w)
    <2> SUFFICES ASSUME NEW a \in 1 .. Len(w), NEW b \in 1 .. Len(w), w[a][1] = w[b][1] PROVE a = b
        BY DEF Once
    <2>1. \A j \in 1 .. Len(w) :
            \/ j = 1 /\ w[j][1][1] = "note"
            \/ w[j][1][1] = "toc" /\ w[j][1][2] = u /\ w[j][1][3] \in 1 .. 2 /\ j = 1 + w[j][1][3]
            \/ w[j][1][1] = "toc" /\ w[j][1][2] = v /\ w[j][1][3] \in 1 .. 2 /\ j = 3 + w[j][1][3]
        <3> TAKE j \in 1 .. Len(w)
        <3> QED
            BY <1>4
    <2>2. w[a][1][1] = w[b][1][1] /\ w[a][1][2] = w[b][1][2] /\ w[a][1][3] = w[b][1][3]
        OBVIOUS
    <2> QED
        BY <1>1, <2>1, <2>2
<1>6. ASSUME NEW c, NEW k \in 0 .. Len(w), StoppedAt(c, p, w, k)
      PROVE  Deleting(c, p, v, toc, s, k = Len(w))
    <2>1. \A i \in 1 .. Len(w) : \/ i <= k /\ c[w[i][1]] = w[i][2]
                                 \/ i > k /\ c[w[i][1]] = p[w[i][1]]
                                 \/ i = k + 1 /\ c[w[i][1]] = Garbage
        BY <1>6 DEF StoppedAt
    <2>2. ASSUME NEW d \in Chunk, d # <<"note", s>>, \A i, h \in 1 .. 2 : d # <<"toc", i, h>>
          PROVE  c[d] = p[d]
        <3>1. \A i \in 1 .. Len(w) : w[i][1] # d
            BY <1>1, <1>4, <2>2
        <3> QED
            BY <1>6, <3>1 DEF StoppedAt
    <2>3. k \in 0 .. 5
        BY <1>1, <1>6
    <2>4. /\ c[<<"note", s>>] \in {p[<<"note", s>>], Garbage, BlankNote}
          /\ k > 0 => c[<<"note", s>>] = BlankNote
        <3>1. 1 \in 1 .. Len(w)
            BY <1>1
        <3>2. \/ 1 <= k /\ c[<<"note", s>>] = BlankNote
              \/ 1 > k /\ c[<<"note", s>>] = p[<<"note", s>>]
              \/ 1 = k + 1 /\ c[<<"note", s>>] = Garbage
            BY <1>2, <2>1, <3>1
        <3> QED
            BY <2>3, <3>2
    <2>5. ASSUME NEW h \in 1 .. 2
          PROVE  /\ c[<<"toc", v, h>>] \in {p[<<"toc", v, h>>], Garbage, TocChunk(h, toc)}
                 /\ c[<<"toc", u, h>>] \in {p[<<"toc", u, h>>], Garbage, TocChunk(h, toc)}
                 /\ k = 0 => c[<<"toc", u, h>>] = p[<<"toc", u, h>>]
                 /\ k < 3 => c[<<"toc", v, h>>] = p[<<"toc", v, h>>]
                 /\ k >= 3 => c[<<"toc", u, h>>] = TocChunk(h, toc)
                 /\ k = 5 => c[<<"toc", v, h>>] = TocChunk(h, toc)
        <3>0. 1 + h \in 1 .. Len(w) /\ 3 + h \in 1 .. Len(w)
            BY <1>1
        <3>1. \/ 1 + h <= k /\ c[<<"toc", u, h>>] = TocChunk(h, toc)
              \/ 1 + h > k /\ c[<<"toc", u, h>>] = p[<<"toc", u, h>>]
              \/ 1 + h = k + 1 /\ c[<<"toc", u, h>>] = Garbage
            BY <1>3, <2>1, <3>0
        <3>2. \/ 3 + h <= k /\ c[<<"toc", v, h>>] = TocChunk(h, toc)
              \/ 3 + h > k /\ c[<<"toc", v, h>>] = p[<<"toc", v, h>>]
              \/ 3 + h = k + 1 /\ c[<<"toc", v, h>>] = Garbage
            BY <1>3, <2>1, <3>0
        <3>3. /\ k = 0 => ~(1 + h <= k) /\ 1 + h # k + 1
              /\ k < 3 => ~(3 + h <= k) /\ 3 + h # k + 1
              /\ k >= 3 => ~(1 + h > k) /\ 1 + h # k + 1
              /\ k = 5 => ~(3 + h > k) /\ 3 + h # k + 1
            BY <2>3
        <3> QED
            BY <3>1, <3>2, <3>3
    <2>6. k = 0 \/ k > 0
        BY <2>3
    <2>7. k < 3 \/ k >= 3
        BY <2>3
    <2>8. \A i, h \in 1 .. 2 : c[<<"toc", i, h>>] \in {p[<<"toc", i, h>>], Garbage, TocChunk(h, toc)}
        BY <1>1, <2>5, Zenon
    <2>9. k = 0 => \A i, h \in 1 .. 2 : c[<<"toc", i, h>>] = p[<<"toc", i, h>>]
        <3>1. k = 0 => k < 3
            OBVIOUS
        <3> QED
            BY <1>1, <2>5, <3>1, Zenon
    <2>10. k = 5 => /\ c[<<"note", s>>] = BlankNote
                    /\ \A i, h \in 1 .. 2 : c[<<"toc", i, h>>] = TocChunk(h, toc)
        <3>1. k = 5 => k > 0 /\ k >= 3
            OBVIOUS
        <3> QED
            BY <1>1, <2>4, <2>5, <3>1, Zenon
    <2>11. \/ \A h \in 1 .. 2 : c[<<"toc", v, h>>] = p[<<"toc", v, h>>]
           \/ \A h \in 1 .. 2 : c[<<"toc", 3 - v, h>>] = TocChunk(h, toc)
        BY <2>5, <2>7 DEF u
    <2> QED
        BY <1>1, <2>2, <2>4, <2>6, <2>8, <2>9, <2>10, <2>11, Zenon DEF Deleting
<1> QED
    BY <1>5, <1>6, Zenon

\* A note that is being deleted: its list is o, which the tables free.
GoneNote(p, notes, own, o, v, toc, s, after) ==
    /\ own \in [Slots -> Seq(Blocks)] /\ Sound(p, notes, own)
    /\ p[<<"header">>] # Garbage /\ v \in 1 .. 2 /\ TocOn(p, v)
    /\ s \in Slots /\ NoteOn(p, s) /\ o = own[s]
    /\ toc \in [Blocks -> Nat]
    /\ \A b \in Blocks : toc[b] = IF b \in ToSet(o) THEN BLOCK_EMPTY ELSE LinksOn(p, v)[b]
    /\ after[s] = None /\ \A t \in Slots : t # s => after[t] = notes[t]

\* Wherever it stops the other notes are there.
LEMMA DeleteSound ==
    ASSUME NEW p, NEW own, NEW notes, NEW o, NEW v, NEW toc, NEW s, NEW after,
           GoneNote(p, notes, own, o, v, toc, s, after),
           NEW c, NEW all \in BOOLEAN, Deleting(c, p, v, toc, s, all)
    PROVE  Sound(c, after, own) /\ (all /\ Settled(p, notes, own) => Settled(c, after, own))
<1> own \in [Slots -> Seq(Blocks)] /\ s \in Slots /\ v \in 1 .. 2 /\ toc \in [Blocks -> Nat]
    BY DEF GoneNote
<1>1. /\ Typed(p) /\ Listed(p, own) /\ Apart(p, own) /\ Kept(p, notes, own)
      /\ p[<<"header">>] # Garbage /\ TocOn(p, v) /\ NoteOn(p, s)
      /\ after[s] = None /\ \A t \in Slots : t # s => after[t] = notes[t]
    BY DEF GoneNote, Sound
<1>2. /\ c[<<"header">>] = p[<<"header">>]
      /\ \A t \in Slots : t # s => c[<<"note", t>>] = p[<<"note", t>>]
      /\ \A b \in Blocks : c[<<"data", b>>] = p[<<"data", b>>]
    BY ChunkFacts DEF Deleting
<1>3. /\ c[<<"note", s>>] \in {p[<<"note", s>>], Garbage, BlankNote}
      /\ \A i, h \in 1 .. 2 : c[<<"toc", i, h>>] \in {p[<<"toc", i, h>>], Garbage, TocChunk(h, toc)}
    BY DEF Deleting
<1>4. \A t \in Slots : t # s => (NoteOn(c, t) <=> NoteOn(p, t))
    BY <1>2 DEF NoteOn
<1>5. NoteOn(c, s) => /\ c[<<"note", s>>] = p[<<"note", s>>] /\ NoteOn(p, s)
                      /\ \A i, h \in 1 .. 2 : c[<<"toc", i, h>>] = p[<<"toc", i, h>>]
    BY <1>1, ValueFacts DEF NoteOn, Deleting
<1>6. ASSUME NEW t \in Slots, NoteOn(p, t)
      PROVE  /\ IsList(own[t]) /\ own[t][1] = p[<<"note", t>>].inode /\ Agree(p, own[t])
             /\ Chained(LinksOn(p, v), own[t])
             /\ \A b \in ToSet(own[t]) : b \in Blocks /\ (t # s => b \notin ToSet(own[s]))
    <2>1. IsList(own[t]) /\ own[t][1] = p[<<"note", t>>].inode /\ Agree(p, own[t])
        BY <1>1, <1>6 DEF Listed
    <2>2. Chained(LinksOn(p, v), own[t])
        BY <1>1, <2>1, AgreeChained
    <2>3. \A b \in ToSet(own[t]) : b \in Blocks
        BY <2>2, NotFree
    <2>4. \A b \in ToSet(own[t]) : t # s => b \notin ToSet(own[s])
        BY <1>1, <1>6, <2>3 DEF Apart
    <2> QED
        BY <2>1, <2>2, <2>3, <2>4
<1>7. \A b \in Blocks : toc[b] = IF b \in ToSet(own[s]) THEN BLOCK_EMPTY ELSE LinksOn(p, v)[b]
    BY DEF GoneNote
<1>8. Typed(c)
    <2>1. BlankNote \in NoteChunk /\ Garbage \in NoteChunk
        BY ValueFacts DEF NoteChunk
    <2>2. \A h \in 1 .. 2 : Garbage \in TocHalf(h) /\ TocChunk(h, toc) \in TocHalf(h)
        BY ValueFacts DEF TocHalf
    <2>3. \A i, h \in 1 .. 2 : c[<<"toc", i, h>>] \in TocHalf(h)
        BY <1>1, <1>3, <2>2 DEF Typed
    <2>4. \A t \in Slots : c[<<"note", t>>] \in NoteChunk
        BY <1>1, <1>2, <1>3, <2>1 DEF Typed
    <2>5. c[<<"header">>] \in {"header", Garbage}
        BY <1>1, <1>2 DEF Typed
    <2> QED
        BY <2>3, <2>4, <2>5 DEF Typed
<1>9. Listed(c, own)
    <2> SUFFICES ASSUME NEW t \in Slots, NoteOn(c, t)
                 PROVE  IsList(own[t]) /\ own[t][1] = c[<<"note", t>>].inode /\ Agree(c, own[t])
        BY DEF Listed
    <2>1. CASE t = s
        <3>1. Agree(c, own[s])
            BY <1>1, <1>5, <1>6, <2>1, AgreeSame
        <3> QED
            BY <1>1, <1>5, <1>6, <2>1, <3>1
    <2>2. CASE t # s
        <3>1. NoteOn(p, t)
            BY <1>4, <2>2
        <3>2. Chained(toc, own[t])
            <4>1. \A b \in ToSet(own[t]) : toc[b] = LinksOn(p, v)[b]
                BY <1>6, <1>7, <2>2, <3>1
            <4>2. Chained(LinksOn(p, v), own[t])
                BY <1>6, <3>1
            <4> QED
                BY <4>1, <4>2, ChainedKept, Zenon
        <3>3. Agree(c, own[t])
            BY <1>3, <1>6, <3>1, <3>2, AgreeKept
        <3> QED
            BY <1>2, <1>6, <2>2, <3>1, <3>3
    <2> QED
        BY <2>1, <2>2
<1>10. Apart(c, own)
    BY <1>1, <1>4, <1>5 DEF Apart
<1>11. Kept(c, after, own)
    <2> SUFFICES ASSUME NEW t \in Slots, after[t] # None
                 PROVE  /\ NoteOn(c, t) /\ NoteName(c[<<"note", t>>]) = after[t].name
                        /\ Len(own[t]) = Len(after[t].data)
                        /\ \A k \in 1 .. Len(own[t]) : c[<<"data", own[t][k]>>] = after[t].data[k]
        BY DEF Kept
    <2>1. t # s /\ after[t] = notes[t]
        BY <1>1
    <2>2. /\ NoteOn(p, t) /\ NoteName(p[<<"note", t>>]) = notes[t].name
          /\ Len(own[t]) = Len(notes[t].data)
          /\ \A k \in 1 .. Len(own[t]) : p[<<"data", own[t][k]>>] = notes[t].data[k]
        BY <1>1, <2>1 DEF Kept
    <2>3. \A k \in 1 .. Len(own[t]) : own[t][k] \in Blocks
        BY ElementOf, Zenon
    <2>4. \A k \in 1 .. Len(own[t]) : c[<<"data", own[t][k]>>] = p[<<"data", own[t][k]>>]
        BY <1>2, <2>3, Zenon
    <2> QED
        BY <1>2, <1>4, <2>1, <2>2, <2>4
<1>12. c[<<"header">>] # Garbage /\ \E i \in 1 .. 2 : TocOn(c, i)
    <2>1. CASE \A h \in 1 .. 2 : c[<<"toc", v, h>>] = p[<<"toc", v, h>>]
        BY <1>1, <1>2, <2>1, TocSame
    <2>2. CASE \A h \in 1 .. 2 : c[<<"toc", 3 - v, h>>] = TocChunk(h, toc)
        <3>1. 3 - v \in 1 .. 2
            OBVIOUS
        <3>2. TocOn(c, 3 - v)
            BY <2>2, <3>1, TocWritten
        <3> QED
            BY <1>1, <1>2, <3>1, <3>2
    <2> QED
        BY <2>1, <2>2 DEF Deleting
<1>13. Sound(c, after, own)
    BY <1>8, <1>9, <1>10, <1>11, <1>12 DEF Sound, Readable
<1>14. ASSUME all, Settled(p, notes, own) PROVE Settled(c, after, own)
    <2>1. ~NoteOn(c, s)
        BY <1>14, ValueFacts DEF Deleting, NoteOn
    <2>2. ASSUME NEW t \in Slots, NoteOn(c, t) PROVE after[t] # None
        BY <1>1, <1>4, <1>14, <2>1, <2>2 DEF Settled
    <2>3. \A i \in 1 .. 2 : TocOn(c, i) /\ LinksOn(c, i) = toc
        BY <1>14, TocWritten DEF Deleting
    <2>4. ASSUME NEW b \in Blocks
          PROVE  toc[b] = BLOCK_EMPTY <=> \A t \in Slots : NoteOn(c, t) => b \notin ToSet(own[t])
        <3>1. CASE b \in ToSet(own[s])
            BY <1>4, <1>6, <1>7, <2>1, <3>1
        <3>2. CASE b \notin ToSet(own[s])
            <4>1. toc[b] = LinksOn(p, v)[b]
                BY <1>7, <3>2
            <4>2. LinksOn(p, v)[b] = BLOCK_EMPTY <=> \A t \in Slots : NoteOn(p, t) => b \notin ToSet(own[t])
                BY <1>14 DEF Settled
            <4> QED
                BY <1>4, <2>1, <3>2, <4>1, <4>2
        <3> QED
            BY <3>1, <3>2
    <2> QED
        BY <1>12, <2>2, <2>3, <2>4 DEF Settled
<1> QED
    BY <1>13, <1>14

\* Only the note in slot s may have changed: it is spoilt or blank.
NoteOnly(c, p, s) ==
    /\ \A d \in Chunk : d # <<"note", s>> => c[d] = p[d]
    /\ c[<<"note", s>>] \in {p[<<"note", s>>], Garbage, BlankNote}

\* So are they where there is no table to write.
LEMMA BlankSound ==
    ASSUME NEW p, NEW own \in [Slots -> Seq(Blocks)], NEW notes, Sound(p, notes, own),
           NEW s \in Slots, NEW after, after[s] = None, \A t \in Slots : t # s => after[t] = notes[t],
           NEW c, NoteOnly(c, p, s)
    PROVE  Sound(c, after, own)
<1>1. /\ Typed(p) /\ Listed(p, own) /\ Apart(p, own) /\ Kept(p, notes, own) /\ Readable(p, notes)
    BY DEF Sound
<1>2. /\ c[<<"header">>] = p[<<"header">>]
      /\ \A t \in Slots : t # s => c[<<"note", t>>] = p[<<"note", t>>]
      /\ \A b \in Blocks : c[<<"data", b>>] = p[<<"data", b>>]
      /\ \A i, h \in 1 .. 2 : c[<<"toc", i, h>>] = p[<<"toc", i, h>>]
    BY ChunkFacts DEF NoteOnly
<1>3. \A i \in 1 .. 2 : TocOn(c, i) <=> TocOn(p, i)
    BY <1>2, TocSame
<1>4. ASSUME NEW t \in Slots
      PROVE  /\ NoteOn(c, t) => NoteOn(p, t) /\ c[<<"note", t>>] = p[<<"note", t>>]
             /\ t # s /\ NoteOn(p, t) => NoteOn(c, t)
    <2>1. CASE t = s
        BY <2>1, ValueFacts DEF NoteOn, NoteOnly
    <2>2. CASE t # s
        BY <1>2, <2>2 DEF NoteOn
    <2> QED
        BY <2>1, <2>2
<1>5. Typed(c)
    <2>1. BlankNote \in NoteChunk /\ Garbage \in NoteChunk
        BY ValueFacts DEF NoteChunk
    <2>2. \A t \in Slots : c[<<"note", t>>] \in NoteChunk
        BY <1>1, <1>2, <2>1 DEF Typed, NoteOnly
    <2> QED
        BY <1>1, <1>2, <2>2 DEF Typed
<1>6. Listed(c, own)
    <2> SUFFICES ASSUME NEW t \in Slots, NoteOn(c, t)
                 PROVE  IsList(own[t]) /\ own[t][1] = c[<<"note", t>>].inode /\ Agree(c, own[t])
        BY DEF Listed
    <2>1. IsList(own[t]) /\ own[t][1] = p[<<"note", t>>].inode /\ Agree(p, own[t])
        BY <1>1, <1>4 DEF Listed
    <2>2. Agree(c, own[t])
        BY <1>2, <2>1, AgreeSame
    <2> QED
        BY <1>4, <2>1, <2>2
<1>7. Apart(c, own)
    BY <1>1, <1>4 DEF Apart
<1>8. Kept(c, after, own)
    <2> SUFFICES ASSUME NEW t \in Slots, after[t] # None
                 PROVE  /\ NoteOn(c, t) /\ NoteName(c[<<"note", t>>]) = after[t].name
                        /\ Len(own[t]) = Len(after[t].data)
                        /\ \A k \in 1 .. Len(own[t]) : c[<<"data", own[t][k]>>] = after[t].data[k]
        BY DEF Kept
    <2>1. t # s /\ after[t] = notes[t]
        OBVIOUS
    <2>2. /\ NoteOn(p, t) /\ NoteName(p[<<"note", t>>]) = notes[t].name
          /\ Len(own[t]) = Len(notes[t].data)
          /\ \A k \in 1 .. Len(own[t]) : p[<<"data", own[t][k]>>] = notes[t].data[k]
        BY <1>1, <2>1 DEF Kept
    <2>3. \A k \in 1 .. Len(own[t]) : own[t][k] \in Blocks
        BY ElementOf, Zenon
    <2>4. \A k \in 1 .. Len(own[t]) : c[<<"data", own[t][k]>>] = p[<<"data", own[t][k]>>]
        BY <1>2, <2>3, Zenon
    <2> QED
        BY <1>2, <1>4, <2>1, <2>2, <2>4
<1>9. Readable(c, after)
    <2>1. (\E t \in Slots : after[t] # None) => \E t \in Slots : notes[t] # None
        OBVIOUS
    <2> QED
        BY <1>1, <1>2, <1>3, <2>1 DEF Readable
<1> QED
    BY <1>5, <1>6, <1>7, <1>8, <1>9 DEF Sound

\* What emptying does to a table.
LEMMA EmptiedFacts ==
    ASSUME NEW toc \in [Blocks -> Nat], NEW o, NEW free, free = Emptied(toc, o)
    PROVE  /\ free \in [Blocks -> Nat]
           /\ \A b \in Blocks : free[b] = IF b \in ToSet(o) THEN BLOCK_EMPTY ELSE toc[b]
<1>1. BLOCK_EMPTY \in Nat
    BY DEF BLOCK_EMPTY
<1>2. free = [b \in Blocks |-> IF b \in ToSet(o) THEN BLOCK_EMPTY ELSE toc[b]]
    BY DEF Emptied
<1> QED
    BY <1>1, <1>2

\* A sequence that is not empty.
LEMMA SomeLeft == \A w : Len(w) \in Nat \ {0} => Len(w) \in 0 .. Len(w) /\ w # <<>>
OBVIOUS

\* A note is deleted.
LEMMA DeleteStep == MempakInv /\ delete_mempak_entry => MempakInv'
<1> SUFFICES ASSUME MempakInv, delete_mempak_entry PROVE MempakInv'
    OBVIOUS
<1> DEFINE valid == __get_valid_toc
           toc0 == TocLinks(valid)
           note(s) == << <<<<"note", s>>, BlankNote>> >>
           blocks(s) == NoteBlocks(toc0, pak[<<"note", s>>].inode)
           gone(s) == [live EXCEPT ![s] = None]
           tables(s) == IF valid = 0 \/ blocks(s) = <<>> THEN <<>> ELSE WriteTocs(valid, Emptied(toc0, blocks(s)))
<1>1. PICK s \in Slots :
        /\ Idle /\ __read_note(s)
        /\ Begin(note(s) \o tables(s), gone(s), gone(s))
        /\ UNCHANGED failed
    BY Zenon DEF delete_mempak_entry
<1> DEFINE o == blocks(s)
           after == gone(s)
           w == note(s) \o tables(s)
           toc == Emptied(toc0, o)
<1>2. /\ pak \in Card /\ live \in [Slots -> Entry]
      /\ \E own \in [Slots -> Seq(Blocks)] : Sound(pak, live, own) /\ (~failed => Settled(pak, live, own))
    BY <1>1, IdleFacts
<1>3. PICK own \in [Slots -> Seq(Blocks)] : Sound(pak, live, own) /\ (~failed => Settled(pak, live, own))
    BY <1>2
<1>4. NoteOn(pak, s)
    BY <1>1, ValidFacts
<1>5. IsList(own[s]) /\ own[s][1] = pak[<<"note", s>>].inode /\ Agree(pak, own[s])
    BY <1>3, <1>4 DEF Sound, Listed
<1>6. after \in [Slots -> Entry] /\ after[s] = None /\ \A t \in Slots : t # s => after[t] = live[t]
    <2>1. None \in Entry
        BY DEF None, Entry
    <2> QED
        BY <1>2, <2>1
<1>7. Begin(w, after, after) /\ failed' = failed
    BY <1>1
<1> HIDE DEF gone
<1>8. CASE valid = 0
    <2>1. w = note(s) \o <<>>
        BY <1>8
    <2> HIDE DEF w, valid
    <2>2. note(s) \in Seq(Items) /\ Len(note(s)) = 1 /\ note(s)[1] = <<<<"note", s>>, BlankNote>>
        <3>1. <<<<"note", s>>, BlankNote>> \in Items
            BY ChunkFacts, ValueFacts DEF Items
        <3> QED
            BY <3>1
    <2> HIDE DEF note
    <2>3. w \in Seq(Items) /\ Len(w) = 1 /\ w[1] = <<<<"note", s>>, BlankNote>>
        <3>1. <<>> \in Seq(Items) /\ Len(<<>>) = 0
            OBVIOUS
        <3>2. Joined(w, note(s), <<>>)
            BY <2>1, <2>2, <3>1, Concatenated, Zenon
        <3>3. w \in Seq(Items) /\ Len(w) = 1 + 0 /\ \A i \in 1 .. 1 : w[i] = note(s)[i]
            BY <2>2, <3>1, <3>2, Zenon DEF Joined
        <3>4. 1 \in 1 .. 1 /\ 1 + 0 = 1
            OBVIOUS
        <3> QED
            BY <2>2, <3>3, <3>4, Zenon
    <2>4. Once(w) /\ w[1][1] = <<"note", s>> /\ w[1][2] = BlankNote
        BY <2>3 DEF Once
    <2>5. ASSUME NEW c, NEW k \in 0 .. Len(w), StoppedAt(c, pak, w, k) PROVE Sound(c, after, own)
        <3>1. 1 \in 1 .. Len(w)
            BY <2>3
        <3>2. c[<<"note", s>>] \in {pak[<<"note", s>>], Garbage, BlankNote}
            BY <2>4, <2>5, <3>1 DEF StoppedAt
        <3>3. \A d \in Chunk : d # <<"note", s>> => c[d] = pak[d]
            <4> SUFFICES ASSUME NEW d \in Chunk, d # <<"note", s>> PROVE c[d] = pak[d]
                OBVIOUS
            <4>1. \A i \in 1 .. Len(w) : w[i][1] # d
                <5>1. \A i \in 1 .. Len(w) : i = 1
                    BY <2>3
                <5> QED
                    BY <2>4, <5>1
            <4> QED
                BY <2>5, <4>1 DEF StoppedAt
        <3>4. NoteOnly(c, pak, s)
            BY <3>2, <3>3, Zenon DEF NoteOnly
        <3> QED
            BY <1>3, <1>6, <3>4, BlankSound, Zenon
    <2>6. failed
        <3> SUFFICES ASSUME ~failed PROVE FALSE
            OBVIOUS
        <3>1. Settled(pak, live, own)
            BY <1>3
        <3>2. pak[<<"header">>] # Garbage /\ \E i \in 1 .. 2 : TocOn(pak, i)
            BY <3>1 DEF Settled
        <3> QED
            BY <1>8, <3>2, ValidFacts DEF valid
    <2>7. Len(w) \in 0 .. Len(w) /\ w # <<>>
        <3>1. Len(w) \in Nat \ {0}
            BY <2>3
        <3> QED
            BY <3>1, SomeLeft, Zenon
    <2> QED
        BY <1>2, <1>3, <1>6, <1>7, <2>3, <2>4, <2>5, <2>6, <2>7, BeginStep
<1>9. CASE valid # 0
    <2>1. valid \in 1 .. 2 /\ pak[<<"header">>] # Garbage /\ TocOn(pak, valid) /\ toc0 = LinksOn(pak, valid)
        <3>1. valid \in 1 .. 2
            BY <1>9, ValidFacts
        <3> QED
            BY <1>9, <3>1, ValidFacts
    <2>2. toc0 \in [Blocks -> Nat]
        BY <1>3, <2>1, LinksType DEF Sound
    <2>3. o = own[s]
        <3>1. Chained(toc0, own[s])
            BY <1>5, <2>1, AgreeChained
        <3>2. NoteBlocks(toc0, own[s][1]) = own[s]
            BY <3>1, NoteIsList
        <3> QED
            BY <1>5, <3>2
    <2>4. o # <<>>
        BY <1>5, <2>3 DEF IsList
    <2>5. w = note(s) \o WriteTocs(valid, toc)
        <3> HIDE DEF valid, toc0, blocks, note
        <3> QED
            BY <1>9, <2>4
    <2> HIDE DEF w, valid, toc0, blocks
    <2>6. /\ toc \in [Blocks -> Nat]
          /\ \A b \in Blocks : toc[b] = IF b \in ToSet(o) THEN BLOCK_EMPTY ELSE toc0[b]
        BY <2>2, EmptiedFacts
    <2> HIDE DEF toc
    <2>7. DeleteList(w, valid, toc, s)
        BY <2>1, <2>5, <2>6, DeleteItems, Zenon
    <2>8. /\ Once(w)
          /\ \A c : \A k \in 0 .. Len(w) : StoppedAt(c, pak, w, k) => Deleting(c, pak, valid, toc, s, k = Len(w))
        BY <2>1, <2>7, DeleteStops, Zenon
    <2>9. GoneNote(pak, live, own, o, valid, toc, s, after)
        <3>1. \A b \in Blocks : toc[b] = IF b \in ToSet(o) THEN BLOCK_EMPTY ELSE LinksOn(pak, valid)[b]
            BY <2>1, <2>6
        <3> QED
            BY <1>3, <1>4, <1>6, <2>1, <2>3, <2>6, <3>1, Zenon DEF GoneNote
    <2>10. ASSUME NEW c, NEW k \in 0 .. Len(w), StoppedAt(c, pak, w, k)
           PROVE  Sound(c, after, own) /\ (k = Len(w) /\ ~failed => Settled(c, after, own))
        <3> DEFINE all == k = Len(w)
        <3>1. Deleting(c, pak, valid, toc, s, all) /\ all \in BOOLEAN
            BY <2>8, <2>10
        <3> HIDE DEF all
        <3>2. Sound(c, after, own) /\ (all /\ Settled(pak, live, own) => Settled(c, after, own))
            BY <2>9, <3>1, DeleteSound, Zenon
        <3> QED
            BY <1>3, <3>2 DEF all
    <2>11. w \in Seq(Items) /\ Len(w) = 5
        BY <2>7 DEF DeleteList
    <2>12. Len(w) \in 0 .. Len(w) /\ w # <<>>
        <3>1. Len(w) \in Nat \ {0}
            BY <2>11
        <3> QED
            BY <3>1, SomeLeft, Zenon
    <2> QED
        BY <1>2, <1>3, <1>6, <1>7, <2>8, <2>10, <2>11, <2>12, BeginStep
<1> QED
    BY <1>8, <1>9

\* The invariant holds at the start.
LEMMA MempakStarts == MempakInit => MempakInv
<1> SUFFICES ASSUME MempakInit PROVE MempakInv
    OBVIOUS
<1>1. /\ pak = [c \in Chunk |-> Garbage] /\ todo = <<>> /\ failed = TRUE
      /\ live = [s \in Slots |-> None] /\ op = live
    BY DEF MempakInit
<1>2. pak \in Card
    BY <1>1 DEF Card
<1>3. live \in [Slots -> Entry]
    <2>1. None \in Entry
        BY DEF None, Entry
    <2> QED
        BY <1>1, <2>1
<1> DEFINE own == [s \in Slots |-> <<>>]
<1>4. own \in [Slots -> Seq(Blocks)]
    OBVIOUS
<1> HIDE DEF own
<1>5. Sound(pak, live, own)
    <2>1. \A d \in Chunk : pak[d] = Garbage
        BY <1>1
    <2>2. Typed(pak)
        BY <2>1, ChunkFacts DEF Typed, NoteChunk, TocHalf
    <2>3. \A s \in Slots : ~NoteOn(pak, s)
        BY <2>1, ChunkFacts DEF NoteOn
    <2>4. \A s \in Slots : live[s] = None
        BY <1>1
    <2> QED
        BY <2>2, <2>3, <2>4 DEF Sound, Listed, Apart, Kept, Readable
<1>6. \A c, k : StoppedAt(c, pak, <<>>, k) => c = pak
    BY <1>2, StoppedIdle
<1>7. Lasting(own)
    BY <1>1, <1>5, <1>6 DEF Lasting
<1>8. todo \in Seq(Chunk \X Value) /\ Len(todo) = 0
    BY <1>1
<1> QED
    BY <1>1, <1>2, <1>3, <1>4, <1>7, <1>8 DEF MempakInv

\* Every step keeps it.
LEMMA MempakSteps == MempakInv /\ [MempakNext]_mempakVars => MempakInv'
<1>1. ASSUME MempakInv, UNCHANGED mempakVars PROVE MempakInv'
    <2>1. UNCHANGED <<pak, todo, op, live, failed>>
        BY <1>1 DEF mempakVars
    <2>2. PICK own \in [Slots -> Seq(Blocks)] : Lasting(own)
        BY <1>1 DEF MempakInv
    <2>3. Lasting(own)' /\ Idle' = Idle
        BY <2>1, <2>2 DEF Lasting, Idle
    <2>4. \E o \in [Slots -> Seq(Blocks)] : Lasting(o)'
        BY <2>2, <2>3
    <2> QED
        BY <1>1, <2>1, <2>3, <2>4 DEF MempakInv
<1> QED
    BY <1>1, FormatStep, WriteEntryStep, DeleteStep, WriteStep, CutStep DEF MempakNext

\* The card as it is now.
LEMMA SoundNow ==
    ASSUME MempakInv
    PROVE  \E own \in [Slots -> Seq(Blocks)] : Sound(pak, live, own)
<1>1. todo \in Seq(Items) /\ pak \in Card
    BY DEF MempakInv, Items
<1>2. StoppedAt(pak, pak, todo, 0) /\ 0 \in 0 .. Len(todo)
    BY <1>1, StoppedBefore
<1> QED
    BY <1>2 DEF MempakInv, Lasting

\* The blocks that are read for a note that clients count on.
LEMMA BlocksOf ==
    ASSUME NEW own, Sound(pak, live, own), NEW s \in Slots, live[s] # None
    PROVE  /\ __get_valid_toc # 0 /\ get_mempak_entry(s) = own[s] /\ IsList(own[s])
<1>1. NoteOn(pak, s)
    BY DEF Sound, Kept
<1>2. IsList(own[s]) /\ own[s][1] = pak[<<"note", s>>].inode /\ Agree(pak, own[s])
    BY <1>1 DEF Sound, Listed
<1>3. pak[<<"header">>] # Garbage /\ \E i \in 1 .. 2 : TocOn(pak, i)
    BY DEF Sound, Readable
<1> DEFINE valid == __get_valid_toc
<1>4. valid \in 1 .. 2 /\ TocOn(pak, valid) /\ __read_note(s)
    <2>1. valid # 0
        BY <1>3, ValidFacts, Zenon
    <2>2. valid \in 0 .. 2
        BY ValidFacts
    <2>3. valid \in 1 .. 2
        BY <2>1, <2>2
    <2> QED
        BY <1>1, <2>1, <2>3, ValidFacts, Zenon
<1>5. TocLinks(valid) = LinksOn(pak, valid)
    BY <1>4, ValidFacts
<1> HIDE DEF valid
<1>6. NoteBlocks(TocLinks(valid), pak[<<"note", s>>].inode) = own[s]
    BY <1>2, <1>4, <1>5, AgreeChained, NoteIsList
<1>7. valid # 0
    BY <1>4
<1>8. get_mempak_entry(s) = NoteBlocks(TocLinks(valid), pak[<<"note", s>>].inode)
    BY <1>4, <1>7, Zenon DEF get_mempak_entry, validate_mempak, valid
<1> QED
    BY <1>2, <1>6, <1>7, <1>8 DEF valid

\* So every note that clients count on is read as it was written.
LEMMA NotesRead == MempakInv => NotesIntact
<1> SUFFICES ASSUME MempakInv PROVE NotesIntact
    OBVIOUS
<1>1. PICK own \in [Slots -> Seq(Blocks)] : Sound(pak, live, own)
    BY SoundNow
<1>2. MempakTypeOK
    <2>1. pak[<<"header">>] \in {Garbage, "header"}
        BY <1>1 DEF Sound, Typed
    <2>2. \A s \in Slots : pak[<<"note", s>>] = Garbage \/ pak[<<"note", s>>].inode \in Blocks \cup {0}
        BY <1>1 DEF Sound, Typed, NoteChunk
    <2>3. \A i \in DOMAIN todo : todo[i][1] \in Chunk
        <3>1. todo \in Seq(Chunk \X Value)
            BY DEF MempakInv
        <3> QED
            BY <3>1
    <2> QED
        BY <2>1, <2>2, <2>3 DEF MempakTypeOK
<1>3. ASSUME NEW s \in Slots, live[s] # None PROVE ReadEntry(s) = live[s]
    <2> DEFINE e == live[s]
               blocks == get_mempak_entry(s)
    <2>1. blocks = own[s] /\ IsList(own[s])
        BY <1>1, <1>3, BlocksOf
    <2>2. /\ NoteName(pak[<<"note", s>>]) = e.name
          /\ Len(own[s]) = Len(e.data)
          /\ \A k \in 1 .. Len(own[s]) : pak[<<"data", own[s][k]>>] = e.data[k]
        BY <1>1, <1>3 DEF Sound, Kept
    <2>3. e \in Entry
        BY DEF MempakInv
    <2> HIDE DEF blocks, e
    <2>4. own[s] # <<>> /\ own[s] \in Seq(Blocks)
        BY <2>1 DEF IsList
    <2>5. [i \in DOMAIN own[s] |-> pak[<<"data", own[s][i]>>]] = e.data
        <3>1. e.data \in Seq([of : Nat, part : Nat]) /\ DOMAIN own[s] = 1 .. Len(own[s])
            BY <2>3, <2>4 DEF Entry
        <3>2. e.data = [i \in 1 .. Len(e.data) |-> e.data[i]]
            BY <3>1
        <3> QED
            BY <2>2, <3>1, <3>2
    <2>6. ReadEntry(s) = [name |-> NoteName(pak[<<"note", s>>]), data |-> read_mempak_entry_data(blocks)]
        BY <2>1, <2>4 DEF ReadEntry, blocks
    <2>7. read_mempak_entry_data(blocks) = e.data
        BY <2>1, <2>5 DEF read_mempak_entry_data
    <2>8. e = [name |-> e.name, data |-> e.data]
        BY <2>3 DEF Entry
    <2> QED
        BY <2>2, <2>6, <2>7, <2>8 DEF e
<1> QED
    BY <1>2, <1>3 DEF NotesIntact

\* And the free blocks are those of no note.
LEMMA NothingIsLost == MempakInv => NothingLost
<1> SUFFICES ASSUME MempakInv, ~failed, Idle
             PROVE  /\ validate_mempak
                    /\ get_mempak_free_space =
                        Cardinality(Blocks \ UNION {ToSet(get_mempak_entry(s)) : s \in {s \in Slots : live[s] # None}})
    BY DEF NothingLost
<1>1. PICK own \in [Slots -> Seq(Blocks)] : Sound(pak, live, own) /\ Settled(pak, live, own)
    BY IdleFacts
<1> DEFINE valid == __get_valid_toc
           toc == TocLinks(valid)
           Unlinked == {b \in Blocks : toc[b] = BLOCK_EMPTY}
           Used == UNION {ToSet(get_mempak_entry(s)) : s \in {s \in Slots : live[s] # None}}
<1>2. pak[<<"header">>] # Garbage /\ \A i \in 1 .. 2 : TocOn(pak, i)
    BY <1>1 DEF Settled
<1>3. valid \in 1 .. 2 /\ toc = LinksOn(pak, valid)
    <2>1. 1 \in 1 .. 2
        OBVIOUS
    <2>2. valid # 0
        BY <1>2, <2>1, ValidFacts, Zenon
    <2>3. valid \in 0 .. 2
        BY ValidFacts
    <2>4. valid \in 1 .. 2
        BY <2>2, <2>3
    <2> QED
        BY <2>4, ValidFacts
<1>4. \A s \in Slots : live[s] # None <=> NoteOn(pak, s)
    BY <1>1 DEF Sound, Kept, Settled
<1>5. \A s \in Slots : live[s] # None => get_mempak_entry(s) = own[s]
    BY <1>1, BlocksOf
<1>6. validate_mempak /\ get_mempak_free_space = Cardinality(Unlinked)
    <2>1. valid # 0
        BY <1>3
    <2> QED
        BY <2>1, Zenon DEF validate_mempak, get_mempak_free_space, __get_free_space
<1>7. Unlinked = Blocks \ Used
    <2> HIDE DEF valid, toc
    <2>1. ASSUME NEW b \in Blocks PROVE b \in Unlinked <=> b \notin Used
        <3>1. b \in Unlinked <=> \A s \in Slots : NoteOn(pak, s) => b \notin ToSet(own[s])
            BY <1>1, <1>3 DEF Settled
        <3>2. b \in Used <=> \E s \in Slots : live[s] # None /\ b \in ToSet(get_mempak_entry(s))
            BY Zenon
        <3> QED
            BY <1>4, <1>5, <3>1, <3>2
    <2> QED
        BY <2>1
<1> QED
    BY <1>6, <1>7, Zenon

\* Wherever mempak.c is cut short while it writes to a card, chunk by chunk, a
\* note whose writing it reported as done, and that nobody has begun to delete,
\* is read as it was written: for cards of any size, tables split anywhere in
\* two, notes of any length and number, and any number of calls and errors.
THEOREM MempakNotesIntact == MempakSpec => []NotesIntact
<1>1. MempakSpec => []MempakInv
    BY MempakStarts, MempakSteps, PTL DEF MempakSpec
<1> QED
    BY <1>1, NotesRead, PTL

\* As long as no call was cut short, every block of the card is free or one of
\* a note that clients know: what allocation links and deletion empties, in
\* both tables, are exactly the blocks of the note they are for.
THEOREM MempakNothingLost == MempakSpec => []NothingLost
<1>1. MempakSpec => []MempakInv
    BY MempakStarts, MempakSteps, PTL DEF MempakSpec
<1> QED
    BY <1>1, NothingIsLost, PTL

-----------------------------------------------------------------------------
(* Recursive functions. *)

\* What holds of 0 and goes on from each number to the next holds up to the end.
LEMMA Upward ==
    ASSUME NEW n \in Nat, NEW G, 0 \in G, \A k \in 1 .. n : k - 1 \in G => k \in G
    PROVE  \A k \in 0 .. n : k \in G
<1> DEFINE N == {k \in 0 .. n : k \notin G}
<1> SUFFICES ASSUME N # {} PROVE FALSE
    OBVIOUS
<1>1. N \in SUBSET Nat
    OBVIOUS
<1>2. PICK m \in N : \A k \in N : m <= k
    BY <1>1, LeastNumber, Zenon
<1>3. m \in 1 .. n /\ m \notin G
    BY <1>2
<1>4. m - 1 \in 0 .. n /\ ~(m <= m - 1)
    BY <1>3
<1>5. m - 1 \in G
    BY <1>2, <1>4
<1> QED
    BY <1>3, <1>5

\* What holds of the start and is kept by every step holds up to the end.
LEMMA EachStep ==
    ASSUME NEW n \in Nat, NEW X, NEW f, f[0] \in X,
           \A k \in 1 .. n : f[k - 1] \in X => f[k] \in X
    PROVE  \A k \in 0 .. n : f[k] \in X
<1> DEFINE G == {k \in 0 .. n : f[k] \in X}
<1>1. 0 \in G /\ \A k \in 1 .. n : k - 1 \in G => k \in G
    OBVIOUS
<1> HIDE DEF G
<1>2. \A k \in 0 .. n : k \in G
    BY <1>1, Upward
<1> QED
    BY <1>2 DEF G

\* f starts with x and goes on by steps.
StepByStep(f, n, x, step) == \A k \in 0 .. n : f[k] = IF k = 0 THEN x ELSE step[<<k, f[k - 1]>>]

\* There is a function that starts somewhere and goes on by steps.
LEMMA Recursion ==
    ASSUME NEW n \in Nat, NEW X, NEW x \in X, NEW step \in [(1 .. n) \X X -> X]
    PROVE  \E f \in [0 .. n -> X] : StepByStep(f, n, x, step)
<1> DEFINE Upto(m) == {f \in [0 .. m -> X] : f[0] = x /\ \A k \in 1 .. m : f[k] = step[<<k, f[k - 1]>>]}
           G == {m \in 0 .. n : Upto(m) # {}}
<1>1. 0 \in G
    <2>1. [k \in 0 .. 0 |-> x] \in Upto(0)
        OBVIOUS
    <2> QED
        BY <2>1
<1>2. ASSUME NEW m \in 1 .. n, m - 1 \in G PROVE m \in G
    <2>1. PICK f \in Upto(m - 1) : TRUE
        BY <1>2
    <2>2. /\ f \in [0 .. m - 1 -> X] /\ f[0] = x
          /\ \A k \in 1 .. m - 1 : f[k] = step[<<k, f[k - 1]>>]
        BY <2>1
    <2> DEFINE g == [k \in 0 .. m |-> IF k < m THEN f[k] ELSE step[<<m, f[m - 1]>>]]
    <2>3. m \in Nat /\ m >= 1 /\ f[m - 1] \in X
        BY <2>2
    <2>4. step[<<m, f[m - 1]>>] \in X
        BY <2>3
    <2>5. g \in [0 .. m -> X] /\ g[0] = x
        BY <2>2, <2>3, <2>4
    <2>6. \A k \in 1 .. m : g[k] = step[<<k, g[k - 1]>>]
        <3> TAKE k \in 1 .. m
        <3>1. k - 1 \in 0 .. m /\ k - 1 < m /\ g[k - 1] = f[k - 1]
            BY <2>3
        <3>2. CASE k = m
            BY <2>3, <3>1, <3>2
        <3>3. CASE k < m
            <4>1. k \in 1 .. m - 1
                BY <2>3, <3>3
            <4> QED
                BY <2>2, <3>1, <3>3, <4>1
        <3> QED
            BY <2>3, <3>2, <3>3
    <2> HIDE DEF g
    <2>7. g \in Upto(m)
        BY <2>5, <2>6
    <2> QED
        BY <2>7
<1> HIDE DEF G
<1>3. n \in G
    BY <1>1, <1>2, Upward
<1>4. PICK f \in Upto(n) : TRUE
    BY <1>3 DEF G
<1>5. \A k \in 0 .. n : k = 0 \/ k \in 1 .. n
    OBVIOUS
<1> QED
    BY <1>4, <1>5 DEF StepByStep

-----------------------------------------------------------------------------
(* Files: directories. *)

EntryOrNone == Entries \cup {0}

\* The entries of a directory, one after the other.
LEMMA SiblingsFacts ==
    ASSUME NEW first \in EntryOrNone
    PROVE  /\ Siblings(first)[0] = first
           /\ \A n \in 0 .. Cardinality(Entries) : Siblings(first)[n] \in EntryOrNone
           /\ \A n \in 1 .. Cardinality(Entries) :
                Siblings(first)[n] = IF Siblings(first)[n - 1] = 0 THEN 0 ELSE image[Siblings(first)[n - 1]].next
<1> DEFINE C == Cardinality(Entries)
           after == [s \in (1 .. C) \X EntryOrNone |-> IF s[2] = 0 THEN 0 ELSE image[s[2]].next]
           Step(f) == [n \in 0 .. C |->
                        IF n = 0 THEN first ELSE IF f[n - 1] = 0 THEN 0 ELSE image[f[n - 1]].next]
           at == CHOOSE f : f = Step(f)
<1>1. C \in Nat
    BY DragonFsAssumption, FS_CardinalityType
<1>2. after \in [(1 .. C) \X EntryOrNone -> EntryOrNone]
    BY DragonFsAssumption DEF EntryOrNone
<1>3. PICK f \in [0 .. C -> EntryOrNone] : StepByStep(f, C, first, after)
    <2> HIDE DEF C, after
    <2> QED
        BY <1>1, <1>2, Recursion
<1>4. f = Step(f)
    <2>1. \A n \in 0 .. C : n = 0 \/ (n \in 1 .. C /\ n - 1 \in 0 .. C /\ f[n - 1] \in EntryOrNone)
        BY <1>1, <1>3
    <2>2. \A n \in 0 .. C : f[n] = IF n = 0 THEN first ELSE after[<<n, f[n - 1]>>]
        <3> HIDE DEF C, after
        <3> QED
            BY <1>3 DEF StepByStep
    <2>3. \A n \in 0 .. C : f[n] = Step(f)[n]
        <3> HIDE DEF C
        <3> QED
            BY <2>1, <2>2
    <2>4. f = [n \in 0 .. C |-> f[n]]
        BY <1>3
    <2> HIDE DEF C
    <2> QED
        BY <2>3, <2>4
<1>5. at = Step(at)
    <2> HIDE DEF Step
    <2> QED
        BY <1>4, Zenon
<1>6. \A n \in 0 .. C : at[n] = IF n = 0 THEN first ELSE IF at[n - 1] = 0 THEN 0 ELSE image[at[n - 1]].next
    <2>1. \A g : \A n \in 0 .. C : Step(g)[n] = IF n = 0 THEN first ELSE IF g[n - 1] = 0 THEN 0 ELSE image[g[n - 1]].next
        OBVIOUS
    <2> HIDE DEF Step, at
    <2> QED
        BY <1>5, <2>1
<1>7. at = Siblings(first)
    BY DEF Siblings
<1> HIDE DEF at, C, Step
<1>8. at[0] = first
    BY <1>1, <1>6
<1>9. \A n \in 1 .. C : at[n] = IF at[n - 1] = 0 THEN 0 ELSE image[at[n - 1]].next
    BY <1>1, <1>6
<1>10. \A n \in 1 .. C : at[n - 1] \in EntryOrNone => at[n] \in EntryOrNone
    BY <1>9, DragonFsAssumption DEF EntryOrNone
<1>11. \A n \in 0 .. C : at[n] \in EntryOrNone
    BY <1>1, <1>8, <1>10, EachStep
<1> QED
    BY <1>7, <1>8, <1>9, <1>11 DEF C

\* What is found in a directory is an entry.
LEMMA FoundType ==
    ASSUME NEW name, NEW first \in EntryOrNone
    PROVE  find_dirent(name, first) \in EntryOrNone
<1> DEFINE named == {n \in 0 .. Cardinality(Entries) :
                        Siblings(first)[n] # 0 /\ image[Siblings(first)[n]].name = name}
<1>1. CASE named = {}
    BY <1>1 DEF find_dirent, EntryOrNone
<1>2. CASE named # {}
    <2>1. named \in SUBSET Nat
        OBVIOUS
    <2>2. Min(named) \in named
        <3> HIDE DEF named
        <3> QED
            BY <1>2, <2>1, MinFacts
    <2>3. Min(named) \in 0 .. Cardinality(Entries)
        BY <2>2
    <2>4. find_dirent(name, first) = Siblings(first)[Min(named)]
        BY <1>2 DEF find_dirent
    <2> HIDE DEF named
    <2> QED
        BY <2>3, <2>4, SiblingsFacts
<1> QED
    BY <1>1, <1>2

\* The stack of directories, and a walk through them.
Stack == {s \in Seq(Entries) : Len(s) <= MAX_DIRECTORY_DEPTH}
Walked == [stack : Stack, path : Seq(STRING), type : {"ANY", "DIR", "FILE"}, found : BOOLEAN]

\* The stack keeps directories, and no more than fit.
LEMMA StackFacts ==
    /\ <<>> \in Stack
    /\ \A s \in Stack : Peek(s) \in Entries /\ Pop(s) \in Stack
    /\ \A s \in Stack, e \in Entries : Push(s, e) \in Stack
<1>1. <<>> \in Stack
    BY DragonFsAssumption DEF Stack
<1>2. ASSUME NEW s \in Stack PROVE Peek(s) \in Entries /\ Pop(s) \in Stack
    <2>1. CASE s = <<>>
        BY <1>1, <2>1, DragonFsAssumption DEF Peek, Pop
    <2>2. CASE s # <<>>
        <3>1. s \in Seq(Entries) /\ Len(s) \in Nat \ {0} /\ Len(s) <= MAX_DIRECTORY_DEPTH
            BY <2>2 DEF Stack
        <3>2. Last(s) \in Entries
            BY <3>1 DEF Last
        <3>3. Front(s) \in Seq(Entries) /\ Len(Front(s)) = Len(s) - 1
            <4> DEFINE k == Len(s) - 1
            <4>1. k \in 0 .. Len(s) /\ k \in Nat /\ k = Len(s) - 1
                BY <3>1
            <4> HIDE DEF k
            <4>2. \A i \in 1 .. k : i \in 1 .. Len(s) /\ s[i] \in Entries
                BY <3>1, <4>1
            <4>3. [i \in 1 .. k |-> s[i]] \in Seq(Entries) /\ Len([i \in 1 .. k |-> s[i]]) = k
                BY <4>1, <4>2
            <4>4. SubSeq(s, 1, k) = [i \in 1 .. k |-> s[i]]
                BY <3>1, <4>1, <4>2
            <4> QED
                BY <4>1, <4>3, <4>4 DEF Front
        <3> QED
            BY <2>2, <3>1, <3>2, <3>3, DragonFsAssumption DEF Peek, Pop, Stack
    <2> QED
        BY <2>1, <2>2
<1>3. ASSUME NEW s \in Stack, NEW e \in Entries PROVE Push(s, e) \in Stack
    BY DragonFsAssumption DEF Push, Stack
<1> QED
    BY <1>1, <1>2, <1>3

\* What is left of a path is a path.
LEMMA RestType ==
    ASSUME NEW path \in Seq(STRING), path # <<>>
    PROVE  get_next_token(path).rest \in Seq(STRING)
<1>1. Tail(path) \in Seq(STRING)
    OBVIOUS
<1>2. SubSeq(path, 3, Len(path)) \in Seq(STRING)
    OBVIOUS
<1> QED
    BY <1>1, <1>2 DEF get_next_token

\* A step of the walk keeps the type of the walk.
LEMMA TokenType ==
    ASSUME NEW w \in Walked, w.path # <<>>, NEW mode
    PROVE  Token(w, mode) \in Walked
<1> DEFINE token == get_next_token(w.path).token
           on == [w EXCEPT !.path = get_next_token(w.path).rest]
           e == find_dirent(token, Peek(w.stack))
<1>1. w.stack \in Stack /\ w.path \in Seq(STRING) /\ w.type \in {"ANY", "DIR", "FILE"} /\ w.found \in BOOLEAN
    BY DEF Walked
<1>2. on \in Walked /\ on.stack = w.stack
    <2>1. get_next_token(w.path).rest \in Seq(STRING)
        BY <1>1, RestType
    <2> QED
        BY <2>1 DEF Walked
<1>3. Peek(w.stack) \in Entries /\ Pop(w.stack) \in Stack
    BY <1>1, StackFacts
<1>4. e \in EntryOrNone
    BY <1>3, FoundType DEF EntryOrNone
<1> HIDE DEF on, e, token
<1>5. [on EXCEPT !.type = "DIR"] \in Walked
    BY <1>2 DEF Walked
<1>6. [on EXCEPT !.type = "DIR", !.stack = Pop(@)] \in Walked
    BY <1>2, <1>3 DEF Walked
<1>7. ASSUME NEW a \in Entries, NEW t \in {"ANY", "DIR", "FILE"} PROVE [on EXCEPT !.type = t, !.stack = Push(@, a)] \in Walked
    <2>1. Push(on.stack, a) \in Stack
        BY <1>1, <1>2, StackFacts
    <2> QED
        BY <1>2, <2>1 DEF Walked
<1>8. [on EXCEPT !.found = FALSE] \in Walked
    BY <1>2 DEF Walked
<1>9. e # 0 => e \in Entries /\ (image[e].dir => image[e].first \in Entries)
    BY <1>4, DragonFsAssumption DEF EntryOrNone
<1>10. Token(w, mode) =
        CASE token \in {"/", "."} -> [on EXCEPT !.type = "DIR"]
          [] token = ".." -> [on EXCEPT !.type = "DIR", !.stack = Pop(@)]
          [] OTHER ->
                IF e # 0 /\ image[e].dir
                THEN [on EXCEPT !.type = "DIR", !.stack = Push(@, image[e].first)]
                ELSE IF e # 0 /\ mode = "OPEN" /\ on.path = <<>>
                     THEN [on EXCEPT !.type = "FILE", !.stack = Push(@, e)]
                     ELSE [on EXCEPT !.found = FALSE]
    BY DEF Token, on, e, token
<1> QED
    BY <1>5, <1>6, <1>7, <1>8, <1>9, <1>10

\* The walk, token by token.
Walks(w, stack, path, mode) ==
    /\ \A n \in 0 .. Len(path) : w[n] \in Walked
    /\ w[0] = [stack |-> IF path # <<>> /\ path[1] = "/" THEN <<>> ELSE stack,
               path |-> path, type |-> "ANY", found |-> path # <<>>]
    /\ \A n \in 1 .. Len(path) :
        w[n] = IF ~w[n - 1].found \/ w[n - 1].path = <<>> THEN w[n - 1] ELSE Token(w[n - 1], mode)

\* There are such walks, and recurse_path is where one ends.
LEMMA WalkFacts ==
    ASSUME NEW stack \in Stack, NEW path \in Seq(STRING), NEW mode
    PROVE  \E w : Walks(w, stack, path, mode) /\ recurse_path(stack, path, mode) = w[Len(path)]
<1> DEFINE L == Len(path)
           start == [stack |-> IF path # <<>> /\ path[1] = "/" THEN <<>> ELSE stack,
                     path |-> path, type |-> "ANY", found |-> path # <<>>]
           on == [s \in (1 .. L) \X Walked |->
                    IF ~s[2].found \/ s[2].path = <<>> THEN s[2] ELSE Token(s[2], mode)]
           Step(f) == [n \in 0 .. L |-> IF n = 0 THEN start
                        ELSE IF ~f[n - 1].found \/ f[n - 1].path = <<>> THEN f[n - 1]
                        ELSE Token(f[n - 1], mode)]
           w == CHOOSE f : f = Step(f)
<1>1. L \in Nat
    OBVIOUS
<1>2. start \in Walked
    BY StackFacts DEF Walked
<1>3. on \in [(1 .. L) \X Walked -> Walked]
    BY TokenType
<1> HIDE DEF start
<1>4. PICK f \in [0 .. L -> Walked] : StepByStep(f, L, start, on)
    <2> HIDE DEF L, on
    <2> QED
        BY <1>1, <1>2, <1>3, Recursion
<1>5. f = Step(f)
    <2>1. \A n \in 0 .. L : n = 0 \/ (n \in 1 .. L /\ n - 1 \in 0 .. L /\ f[n - 1] \in Walked)
        BY <1>1, <1>4
    <2>2. \A n \in 0 .. L : f[n] = IF n = 0 THEN start ELSE on[<<n, f[n - 1]>>]
        <3> HIDE DEF L, on
        <3> QED
            BY <1>4 DEF StepByStep
    <2>3. \A n \in 0 .. L : f[n] = Step(f)[n]
        <3> HIDE DEF L
        <3> QED
            BY <2>1, <2>2
    <2>4. f = [n \in 0 .. L |-> f[n]]
        BY <1>4
    <2> HIDE DEF L
    <2> QED
        BY <2>3, <2>4
<1>6. w = Step(w)
    <2> HIDE DEF Step
    <2> QED
        BY <1>5, Zenon
<1>7. \A n \in 0 .. L : w[n] = IF n = 0 THEN start
                        ELSE IF ~w[n - 1].found \/ w[n - 1].path = <<>> THEN w[n - 1]
                        ELSE Token(w[n - 1], mode)
    <2>1. \A g : \A n \in 0 .. L : Step(g)[n] = IF n = 0 THEN start
                        ELSE IF ~g[n - 1].found \/ g[n - 1].path = <<>> THEN g[n - 1]
                        ELSE Token(g[n - 1], mode)
        OBVIOUS
    <2> HIDE DEF Step, w
    <2> QED
        BY <1>6, <2>1
<1>8. recurse_path(stack, path, mode) = w[L]
    BY DEF recurse_path, start
<1> HIDE DEF w, L, Step, on
<1>9. w[0] = start
    BY <1>1, <1>7
<1>10. \A n \in 1 .. L :
        w[n] = IF ~w[n - 1].found \/ w[n - 1].path = <<>> THEN w[n - 1] ELSE Token(w[n - 1], mode)
    <2> TAKE n \in 1 .. L
    <2>1. n \in 0 .. L /\ n # 0
        BY <1>1
    <2> QED
        BY <1>7, <2>1
<1>11. \A n \in 1 .. L : w[n - 1] \in Walked => w[n] \in Walked
    BY <1>10, TokenType
<1>12. \A n \in 0 .. L : w[n] \in Walked
    BY <1>1, <1>2, <1>9, <1>11, EachStep
<1> QED
    BY <1>8, <1>9, <1>10, <1>12 DEF Walks, L, start

\* It ends with a stack of directories, whatever the path.
LEMMA WalkType ==
    ASSUME NEW stack \in Stack, NEW path \in Seq(STRING), NEW mode
    PROVE  recurse_path(stack, path, mode) \in Walked
<1>1. Len(path) \in 0 .. Len(path)
    OBVIOUS
<1>2. PICK w : Walks(w, stack, path, mode) /\ recurse_path(stack, path, mode) = w[Len(path)]
    BY WalkFacts
<1> QED
    BY <1>1, <1>2 DEF Walks

\* A directory that is found has a first entry, a file that is found an entry.
LEMMA FoundFacts ==
    ASSUME NEW path \in Seq(STRING)
    PROVE  /\ directories \in Stack => FirstOf(path) \in EntryOrNone
           /\ \A stack \in Stack : FileAt(stack, path) \in EntryOrNone
<1>1. ASSUME NEW s \in Stack PROVE Peek(recurse_path(s, path, "OPEN").stack) \in Entries
    <2>1. recurse_path(s, path, "OPEN") \in Walked
        BY <1>1, WalkType
    <2>2. recurse_path(s, path, "OPEN").stack \in Stack
        BY <2>1 DEF Walked
    <2> QED
        BY <2>2, StackFacts
<1> QED
    BY <1>1 DEF FileAt, FirstOf, EntryOrNone

-----------------------------------------------------------------------------
(* Files: what is open. *)

\* A file that is open.
OpenFileType == [handle : Nat \ {0}, start : Entries, size : Nat, loc : Nat, sector_number : Nat, cur : Nat]

\* The place is in the file, and the sector that is copied is the one that is named.
FileOK(f) == f.loc <= f.size /\ f.cur = f.sector_number /\ f.size = image[f.start].size

\* Handles are told apart, and are none that are still to come.
OpenFilesOK ==
    /\ next_handle \in Nat \ {0}
    /\ open_files \in [1 .. MAX_OPEN_FILES -> {NoFile} \cup OpenFileType]
    /\ \A k \in 1 .. MAX_OPEN_FILES :
        open_files[k] # NoFile => FileOK(open_files[k]) /\ open_files[k].handle < next_handle
    /\ \A k, l \in 1 .. MAX_OPEN_FILES :
        open_files[k] # NoFile /\ open_files[l] # NoFile /\ k # l =>
            open_files[k].handle # open_files[l].handle

\* Quotient and remainder.
LEMMA DivMod ==
    ASSUME NEW a \in Nat, NEW c \in Nat \ {0}
    PROVE  a \div c \in Nat /\ (a \div c) * c + (a % c) = a
<1>1. a \div c \in Nat /\ a = c * (a \div c) + (a % c)
    OBVIOUS
<1>2. c * (a \div c) = (a \div c) * c
    BY <1>1
<1> QED
    BY <1>1, <1>2

\* dfs_read goes on from the place, by as much as is left.
LEMMA ReadFacts ==
    ASSUME NEW f \in OpenFileType, FileOK(f), NEW n \in Nat
    PROVE  /\ ToRead(f, n) = IF f.loc + n > f.size THEN f.size - f.loc ELSE n
           /\ ToRead(f, n) \in 0 .. f.size - f.loc
           /\ AfterRead(f, n) \in OpenFileType /\ FileOK(AfterRead(f, n))
           /\ AfterRead(f, n).handle = f.handle /\ AfterRead(f, n).start = f.start
           /\ AfterRead(f, n).size = f.size /\ AfterRead(f, n).loc = f.loc + ToRead(f, n)
           /\ Bytes(f, n) = [i \in 1 .. ToRead(f, n) |-> Byte(f.start, f.loc + i - 1)]
<1> DEFINE m == ToRead(f, n)
<1>1. /\ f.loc \in Nat /\ f.size \in Nat /\ f.loc <= f.size
      /\ f.sector_number \in Nat /\ f.cur = f.sector_number
    BY DEF OpenFileType, FileOK
<1>2. m = (IF f.loc + n > f.size THEN f.size - f.loc ELSE n) /\ m \in 0 .. f.size - f.loc
    BY <1>1 DEF ToRead
<1>3. \A at \in Nat : sector_from_loc(at) \in Nat
    BY DragonFsAssumption, DivMod DEF sector_from_loc
<1>4. \A at \in Nat : SectorRead(f, at) = sector_from_loc(at)
    BY <1>1, <1>3 DEF SectorRead, Reached
<1>5. \A at \in Nat : SectorRead(f, at) * SECTOR_PAYLOAD + (at % SECTOR_PAYLOAD) = at
    BY <1>4, DragonFsAssumption, DivMod DEF sector_from_loc
<1> HIDE DEF m
<1>6. Bytes(f, n) = [i \in 1 .. m |-> Byte(f.start, f.loc + i - 1)]
    <2>1. Bytes(f, n) = [i \in 1 .. m |-> Byte(f.start,
            SectorRead(f, f.loc + i - 1) * SECTOR_PAYLOAD + ((f.loc + i - 1) % SECTOR_PAYLOAD))]
        BY DEF Bytes, m
    <2>2. \A i \in 1 .. m : f.loc + i - 1 \in Nat
        BY <1>1, <1>2
    <2>3. ASSUME NEW i \in 1 .. m
          PROVE  SectorRead(f, f.loc + i - 1) * SECTOR_PAYLOAD
                    + ((f.loc + i - 1) % SECTOR_PAYLOAD) = f.loc + i - 1
        BY <1>5, <2>2, Zenon
    <2>4. \A i \in 1 .. m :
            Byte(f.start, SectorRead(f, f.loc + i - 1) * SECTOR_PAYLOAD
                            + ((f.loc + i - 1) % SECTOR_PAYLOAD)) = Byte(f.start, f.loc + i - 1)
        BY <2>3, Zenon
    <2> QED
        BY <2>1, <2>4, Zenon
<1>7. CASE m = 0
    <2>1. AfterRead(f, n) = f
        BY <1>7 DEF AfterRead, m
    <2> QED
        BY <1>1, <1>2, <1>6, <1>7, <2>1 DEF m
<1>8. CASE m # 0
    <2> DEFINE end == f.loc + m - 1
    <2>1. end \in Nat /\ end + 1 = f.loc + m /\ end + 1 <= f.size
        BY <1>1, <1>2, <1>8
    <2>2. AfterRead(f, n) = [f EXCEPT !.loc = end + 1, !.cur = SectorRead(f, end),
                                      !.sector_number = sector_from_loc(end)]
        BY <1>8 DEF AfterRead, m
    <2> HIDE DEF end
    <2>3. sector_from_loc(end) \in Nat /\ SectorRead(f, end) = sector_from_loc(end)
        BY <1>3, <1>4, <2>1
    <2>4. AfterRead(f, n) = [f EXCEPT !.loc = end + 1, !.cur = sector_from_loc(end),
                                      !.sector_number = sector_from_loc(end)]
        BY <2>2, <2>3
    <2>5. f = [handle |-> f.handle, start |-> f.start, size |-> f.size, loc |-> f.loc,
                sector_number |-> f.sector_number, cur |-> f.cur]
        BY DEF OpenFileType
    <2>6. AfterRead(f, n) = [handle |-> f.handle, start |-> f.start, size |-> f.size, loc |-> end + 1,
                             sector_number |-> sector_from_loc(end), cur |-> sector_from_loc(end)]
        BY <2>4, <2>5
    <2>7. /\ AfterRead(f, n) \in OpenFileType
          /\ AfterRead(f, n).handle = f.handle /\ AfterRead(f, n).start = f.start
          /\ AfterRead(f, n).size = f.size /\ AfterRead(f, n).loc = end + 1
          /\ AfterRead(f, n).cur = AfterRead(f, n).sector_number
        BY <2>1, <2>3, <2>6 DEF OpenFileType
    <2>8. FileOK(AfterRead(f, n))
        BY <2>1, <2>7 DEF FileOK
    <2> QED
        BY <1>2, <1>6, <2>1, <2>7, <2>8 DEF m
<1> QED
    BY <1>7, <1>8

\* dfs_seek stays in the file.
LEMMA SeekFacts ==
    ASSUME NEW f \in OpenFileType, FileOK(f), NEW offset \in Int, NEW origin \in {"SET", "CUR", "END"}
    PROVE  /\ SeekTo(f, offset, origin) \in 0 .. f.size
           /\ [f EXCEPT !.loc = SeekTo(f, offset, origin)] \in OpenFileType
           /\ FileOK([f EXCEPT !.loc = SeekTo(f, offset, origin)])
<1>1. SeekTo(f, offset, origin) \in 0 .. f.size
    BY DEF SeekTo, Clamp, OpenFileType
<1> DEFINE to == SeekTo(f, offset, origin)
<1> HIDE DEF to
<1>2. to \in 0 .. f.size
    BY <1>1 DEF to
<1>3. [f EXCEPT !.loc = to] \in OpenFileType /\ FileOK([f EXCEPT !.loc = to])
    BY <1>2 DEF OpenFileType, FileOK
<1> QED
    BY <1>1, <1>3 DEF to

\* One of the files changes, and keeps its handle.
LEMMA FileChanged ==
    ASSUME OpenFilesOK, NEW k \in 1 .. MAX_OPEN_FILES, open_files[k] # NoFile,
           NEW f \in OpenFileType, FileOK(f), f.handle = open_files[k].handle,
           open_files' = [open_files EXCEPT ![k] = f], next_handle' = next_handle
    PROVE  OpenFilesOK'
<1>1. f # NoFile
    BY DEF OpenFileType, NoFile
<1> QED
    BY <1>1 DEF OpenFilesOK, FileOK

\* What an open handle refers to.
LEMMA OpenSlotFacts ==
    ASSUME OpenFilesOK, NEW h, OpenHandle(h)
    PROVE  /\ SlotOf(h) \in 1 .. MAX_OPEN_FILES /\ open_files[SlotOf(h)] # NoFile
           /\ FileOf(h) = open_files[SlotOf(h)] /\ FileOf(h).handle = h
           /\ FileOf(h) \in OpenFileType /\ FileOK(FileOf(h))
<1>1. DOMAIN open_files = 1 .. MAX_OPEN_FILES
    BY DEF OpenFilesOK
<1>2. SlotOf(h) \in 1 .. MAX_OPEN_FILES /\ open_files[SlotOf(h)].handle = h /\ h # 0
    BY <1>1 DEF OpenHandle, SlotOf
<1>3. open_files[SlotOf(h)] # NoFile
    BY <1>2 DEF NoFile
<1> QED
    BY <1>2, <1>3 DEF OpenFilesOK, FileOf

\* dfs_seek keeps the open files in order.
LEMMA SeekKeeps ==
    ASSUME OpenFilesOK, NEW h, NEW offset \in Int, NEW origin \in {"SET", "CUR", "END"},
           Seek(h, offset, origin), next_handle' = next_handle
    PROVE  OpenFilesOK'
<1>1. CASE ~OpenHandle(h)
    BY <1>1 DEF Seek, OpenFilesOK, FileOK
<1>2. CASE OpenHandle(h)
    <2> DEFINE k == SlotOf(h)
               f == [open_files[k] EXCEPT !.loc = SeekTo(open_files[k], offset, origin)]
    <2>1. k \in 1 .. MAX_OPEN_FILES /\ open_files[k] # NoFile
          /\ FileOf(h) = open_files[k] /\ open_files[k] \in OpenFileType /\ FileOK(open_files[k])
        BY <1>2, OpenSlotFacts
    <2>2. open_files' = [open_files EXCEPT ![k].loc = SeekTo(open_files[k], offset, origin)]
        BY <1>2, <2>1 DEF Seek
    <2>3. open_files' = [open_files EXCEPT ![k] = f]
        BY <2>2
    <2>4. f \in OpenFileType /\ FileOK(f)
        BY <2>1, SeekFacts
    <2>5. f.handle = open_files[k].handle
        BY <2>1 DEF OpenFileType
    <2> HIDE DEF f, k
    <2> QED
        BY <2>1, <2>3, <2>4, <2>5, FileChanged
<1> QED
    BY <1>1, <1>2

\* dfs_read keeps the open files in order.
LEMMA ReadKeeps ==
    ASSUME OpenFilesOK, NEW h, NEW n \in Nat, Read(h, n), next_handle' = next_handle
    PROVE  OpenFilesOK'
<1>1. CASE ~OpenHandle(h)
    BY <1>1 DEF Read, OpenFilesOK, FileOK
<1>2. CASE OpenHandle(h)
    <2> DEFINE k == SlotOf(h)
               f == AfterRead(open_files[k], n)
    <2>1. k \in 1 .. MAX_OPEN_FILES /\ open_files[k] # NoFile
          /\ FileOf(h) = open_files[k] /\ open_files[k] \in OpenFileType /\ FileOK(open_files[k])
        BY <1>2, OpenSlotFacts
    <2>2. open_files' = [open_files EXCEPT ![k] = f]
        BY <1>2, <2>1 DEF Read
    <2>3. f \in OpenFileType /\ FileOK(f) /\ f.handle = open_files[k].handle
        BY <2>1, ReadFacts
    <2> HIDE DEF f, k
    <2> QED
        BY <2>1, <2>2, <2>3, FileChanged
<1> QED
    BY <1>1, <1>2

\* Some of the files are closed.
LEMMA FilesClosed ==
    ASSUME OpenFilesOK, next_handle' = next_handle, DOMAIN open_files' = DOMAIN open_files,
           open_files' = [k \in DOMAIN open_files |-> open_files'[k]],
           \A k \in DOMAIN open_files : open_files'[k] \in {NoFile, open_files[k]}
    PROVE  OpenFilesOK'
BY DEF OpenFilesOK, FileOK

\* dfs_open keeps the open files in order.
LEMMA OpenKeeps ==
    ASSUME OpenFilesOK, NEW stack \in Stack, NEW path \in Seq(STRING), OpenFile(stack, path)
    PROVE  OpenFilesOK'
<1>1. CASE ~CanOpen(stack, path)
    BY <1>1 DEF OpenFile, OpenFilesOK, FileOK
<1>2. CASE CanOpen(stack, path)
    <2> DEFINE i == Min(FreeFiles)
               e == FileAt(stack, path)
               f == [handle |-> next_handle, start |-> e, size |-> image[e].size,
                     loc |-> 0, sector_number |-> 0, cur |-> 0]
    <2>1. FreeFiles \in SUBSET (1 .. MAX_OPEN_FILES) /\ FreeFiles # {}
        BY <1>2 DEF OpenFilesOK, FreeFiles, CanOpen
    <2>2. i \in FreeFiles
        BY <2>1, MinFacts
    <2>3. i \in 1 .. MAX_OPEN_FILES /\ open_files[i] = NoFile
        BY <2>1, <2>2 DEF FreeFiles
    <2>4. e \in Entries
        BY <1>2, FoundFacts DEF CanOpen, EntryOrNone
    <2>5. f \in OpenFileType /\ FileOK(f) /\ f # NoFile /\ f.handle = next_handle
        <3>1. image[e].size \in Nat /\ next_handle \in Nat \ {0}
            BY <2>4, DragonFsAssumption DEF OpenFilesOK
        <3> QED
            BY <2>4, <3>1 DEF OpenFileType, FileOK, NoFile
    <2>6. open_files' = [open_files EXCEPT ![i] = f] /\ next_handle' = next_handle + 1
        BY <1>2 DEF OpenFile
    <2> HIDE DEF i, e, f
    <2>7. OpenFilesOK' =
            /\ next_handle' \in Nat \ {0}
            /\ open_files' \in [1 .. MAX_OPEN_FILES -> {NoFile} \cup OpenFileType]
            /\ \A k \in 1 .. MAX_OPEN_FILES :
                open_files'[k] # NoFile => FileOK(open_files'[k]) /\ open_files'[k].handle < next_handle'
            /\ \A k, l \in 1 .. MAX_OPEN_FILES :
                open_files'[k] # NoFile /\ open_files'[l] # NoFile /\ k # l =>
                    open_files'[k].handle # open_files'[l].handle
        BY DEF OpenFilesOK, FileOK
    <2>8. /\ next_handle \in Nat \ {0}
          /\ open_files \in [1 .. MAX_OPEN_FILES -> {NoFile} \cup OpenFileType]
          /\ \A k \in 1 .. MAX_OPEN_FILES :
                open_files[k] # NoFile => FileOK(open_files[k]) /\ open_files[k].handle < next_handle
          /\ \A k, l \in 1 .. MAX_OPEN_FILES :
                open_files[k] # NoFile /\ open_files[l] # NoFile /\ k # l =>
                    open_files[k].handle # open_files[l].handle
        BY DEF OpenFilesOK
    <2>9. /\ open_files' \in [1 .. MAX_OPEN_FILES -> {NoFile} \cup OpenFileType]
          /\ open_files'[i] = f /\ \A k \in 1 .. MAX_OPEN_FILES : k # i => open_files'[k] = open_files[k]
        BY <2>3, <2>5, <2>6, <2>8
    <2>10. \A k \in 1 .. MAX_OPEN_FILES : open_files[k] # NoFile => open_files[k].handle \in Nat
        BY <2>8 DEF OpenFileType
    <2>11. ASSUME NEW k \in 1 .. MAX_OPEN_FILES, open_files'[k] # NoFile
           PROVE  FileOK(open_files'[k]) /\ open_files'[k].handle < next_handle'
        BY <2>5, <2>6, <2>8, <2>9, <2>10, <2>11
    <2>12. ASSUME NEW k \in 1 .. MAX_OPEN_FILES, NEW l \in 1 .. MAX_OPEN_FILES,
                  open_files'[k] # NoFile, open_files'[l] # NoFile, k # l
           PROVE  open_files'[k].handle # open_files'[l].handle
        <3>1. CASE k = i
            <4>1. open_files[l].handle < next_handle /\ open_files[l].handle \in Nat
                BY <2>8, <2>9, <2>10, <2>12, <3>1
            <4> QED
                BY <2>5, <2>8, <2>9, <2>12, <3>1, <4>1
        <3>2. CASE l = i
            <4>1. open_files[k].handle < next_handle /\ open_files[k].handle \in Nat
                BY <2>8, <2>9, <2>10, <2>12, <3>2
            <4> QED
                BY <2>5, <2>8, <2>9, <2>12, <3>2, <4>1
        <3>3. CASE k # i /\ l # i
            BY <2>8, <2>9, <2>12, <3>3
        <3> QED
            BY <3>1, <3>2, <3>3
    <2>13. next_handle' \in Nat \ {0}
        BY <2>6, <2>8
    <2> QED
        BY <2>7, <2>9, <2>11, <2>12, <2>13, Zenon
<1> QED
    BY <1>1, <1>2

-----------------------------------------------------------------------------
(* Files: handles and filesystems. *)

\* What is kept for a number.
HandleType == [fileno : Nat, handle : Nat \cup {Missing}, fs_mapping : 1 .. MAX_FILESYSTEMS]

\* Numbers and handles are told apart, and are none that are still to come.
HandlesOK ==
    /\ fileno \in Nat /\ fileno >= 3
    /\ handles \in [1 .. MAX_OPEN_HANDLES -> {Unused} \cup HandleType]
    /\ \A i \in 1 .. MAX_OPEN_HANDLES : handles[i] # Unused =>
        /\ handles[i].fileno \in 3 .. fileno - 1
        /\ handles[i].handle = Missing \/ handles[i].handle \in 1 .. next_handle - 1
    /\ \A i, j \in 1 .. MAX_OPEN_HANDLES :
        handles[i] # Unused /\ handles[j] # Unused /\ i # j =>
            /\ handles[i].fileno # handles[j].fileno
            /\ handles[i].handle = handles[j].handle => handles[i].handle = Missing

\* A prefix is attached once.
MountsOK ==
    /\ filesystems \in [1 .. MAX_FILESYSTEMS -> Mounts \cup {"rom", NoPrefix}]
    /\ \A i, j \in 1 .. MAX_FILESYSTEMS :
        filesystems[i] = filesystems[j] /\ filesystems[i] # NoPrefix => i = j

DirsOK == directories \in Stack /\ next_entry \in EntryOrNone

TablesOK == DirsOK /\ OpenFilesOK /\ HandlesOK /\ MountsOK

\* The slot a prefix has.
LEMMA MappedFacts ==
    ASSUME MountsOK, NEW prefix, Mapped(prefix) # {}
    PROVE  /\ Min(Mapped(prefix)) \in 1 .. MAX_FILESYSTEMS
           /\ filesystems[Min(Mapped(prefix))] = prefix
<1>1. Mapped(prefix) \in SUBSET (1 .. MAX_FILESYSTEMS)
    BY DEF MountsOK, Mapped
<1>2. Min(Mapped(prefix)) \in Mapped(prefix)
    BY <1>1, MinFacts
<1> QED
    BY <1>1, <1>2 DEF Mapped

\* attach_filesystem takes a slot that is free, for a prefix that has none.
LEMMA AttachKeeps ==
    ASSUME MountsOK, NEW prefix \in Mounts \cup {"rom"}, attach_filesystem(prefix)
    PROVE  /\ MountsOK'
           /\ \A i \in 1 .. MAX_FILESYSTEMS :
                filesystems[i] # NoPrefix => filesystems'[i] = filesystems[i]
<1>1. CASE ~Attachable(prefix)
    BY <1>1 DEF attach_filesystem, MountsOK
<1>2. CASE Attachable(prefix)
    <2> DEFINE i == Min(Mapped(NoPrefix))
    <2>1. i \in 1 .. MAX_FILESYSTEMS /\ filesystems[i] = NoPrefix
        BY <1>2, MappedFacts DEF Attachable
    <2>2. filesystems' = [filesystems EXCEPT ![i] = prefix]
        BY <1>2 DEF attach_filesystem
    <2>3. \A j \in 1 .. MAX_FILESYSTEMS : filesystems[j] # prefix
        BY <1>2 DEF Attachable, Mapped, MountsOK
    <2> HIDE DEF i
    <2> QED
        BY <2>1, <2>2, <2>3, NewlibAssumption DEF MountsOK
<1> QED
    BY <1>1, <1>2

\* The slot that a new number gets, and what is put there.
LEMMA TakeFacts ==
    ASSUME OpenFilesOK, HandlesOK, MountsOK, NEW prefix, NEW path,
           OpenReturns(prefix), TakeHandle(prefix, path)
    PROVE  \E i \in 1 .. MAX_OPEN_HANDLES, h \in HandleType :
            /\ handles[i] = Unused /\ h # Unused /\ handles' = [handles EXCEPT ![i] = h]
            /\ h.fileno = fileno /\ fileno' = fileno + 1
            /\ h.handle = (IF CanOpen(<<>>, path) THEN next_handle ELSE Missing)
            /\ h.fs_mapping \in 1 .. MAX_FILESYSTEMS /\ filesystems[h.fs_mapping] = prefix
<1> DEFINE i == Min(FreeHandles)
           h == [fileno |-> fileno, handle |-> IF CanOpen(<<>>, path) THEN next_handle ELSE Missing,
                 fs_mapping |-> Min(Mapped(prefix))]
<1>1. FreeHandles \in SUBSET (1 .. MAX_OPEN_HANDLES) /\ FreeHandles # {}
    BY DEF HandlesOK, FreeHandles, OpenReturns
<1>2. i \in FreeHandles
    BY <1>1, MinFacts
<1>3. i \in 1 .. MAX_OPEN_HANDLES /\ handles[i] = Unused
    BY <1>1, <1>2 DEF FreeHandles
<1>4. Min(Mapped(prefix)) \in 1 .. MAX_FILESYSTEMS /\ filesystems[Min(Mapped(prefix))] = prefix
    BY MappedFacts DEF OpenReturns
<1>5. next_handle \in Nat /\ fileno \in Nat /\ fileno >= 3
    BY DEF OpenFilesOK, HandlesOK
<1>6. /\ h \in HandleType /\ h.fileno = fileno
      /\ h.handle = (IF CanOpen(<<>>, path) THEN next_handle ELSE Missing)
      /\ h.fs_mapping = Min(Mapped(prefix))
    BY <1>4, <1>5 DEF HandleType
<1>7. h # Unused
    BY <1>5, <1>6 DEF Unused
<1>8. handles' = [handles EXCEPT ![i] = h] /\ fileno' = fileno + 1
    BY DEF TakeHandle
<1> HIDE DEF i, h
<1> QED
    BY <1>3, <1>4, <1>6, <1>7, <1>8

\* A new number is none that was given out before, and neither is its handle.
LEMMA TakeKeeps ==
    ASSUME OpenFilesOK, HandlesOK, MountsOK, NEW prefix, NEW path,
           OpenReturns(prefix), TakeHandle(prefix, path),
           next_handle' = IF CanOpen(<<>>, path) THEN next_handle + 1 ELSE next_handle
    PROVE  HandlesOK'
<1>1. PICK i \in 1 .. MAX_OPEN_HANDLES, h \in HandleType :
            /\ handles[i] = Unused /\ h # Unused /\ handles' = [handles EXCEPT ![i] = h]
            /\ h.fileno = fileno /\ fileno' = fileno + 1
            /\ h.handle = (IF CanOpen(<<>>, path) THEN next_handle ELSE Missing)
    BY TakeFacts
<1>2. next_handle \in Nat \ {0} /\ fileno \in Nat /\ fileno >= 3 /\ next_handle' \in Nat
      /\ next_handle <= next_handle'
    BY DEF OpenFilesOK, HandlesOK
<1>3. /\ handles' \in [1 .. MAX_OPEN_HANDLES -> {Unused} \cup HandleType]
      /\ handles'[i] = h /\ \A j \in 1 .. MAX_OPEN_HANDLES : j # i => handles'[j] = handles[j]
    BY <1>1 DEF HandlesOK
<1>4. ASSUME NEW j \in 1 .. MAX_OPEN_HANDLES, handles'[j] # Unused
      PROVE  /\ handles'[j].fileno \in 3 .. fileno' - 1
             /\ handles'[j].handle = Missing \/ handles'[j].handle \in 1 .. next_handle' - 1
    <2>1. CASE j = i
        BY <1>1, <1>2, <1>3, <2>1
    <2>2. CASE j # i
        <3>1. /\ handles[j].fileno \in 3 .. fileno - 1
              /\ handles[j].handle = Missing \/ handles[j].handle \in 1 .. next_handle - 1
            BY <1>3, <1>4, <2>2 DEF HandlesOK
        <3> QED
            BY <1>1, <1>2, <1>3, <2>2, <3>1
    <2> QED
        BY <2>1, <2>2
<1>5. ASSUME NEW j \in 1 .. MAX_OPEN_HANDLES, j # i, handles[j] # Unused
      PROVE  handles[j].fileno # h.fileno /\ (handles[j].handle = h.handle => h.handle = Missing)
    <2>1. /\ handles[j].fileno \in 3 .. fileno - 1
          /\ handles[j].handle = Missing \/ handles[j].handle \in 1 .. next_handle - 1
        BY <1>5 DEF HandlesOK
    <2> QED
        BY <1>1, <1>2, <2>1
<1>6. ASSUME NEW j \in 1 .. MAX_OPEN_HANDLES, NEW k \in 1 .. MAX_OPEN_HANDLES,
             handles'[j] # Unused, handles'[k] # Unused, j # k
      PROVE  /\ handles'[j].fileno # handles'[k].fileno
             /\ handles'[j].handle = handles'[k].handle => handles'[j].handle = Missing
    <2>1. CASE j = i
        BY <1>3, <1>5, <1>6, <2>1
    <2>2. CASE k = i
        BY <1>3, <1>5, <1>6, <2>2
    <2>3. CASE j # i /\ k # i
        BY <1>3, <1>6, <2>3 DEF HandlesOK
    <2> QED
        BY <2>1, <2>2, <2>3
<1>7. fileno' \in Nat /\ fileno' >= 3
    BY <1>1, <1>2
<1> QED
    BY <1>3, <1>4, <1>6, <1>7 DEF HandlesOK

\* dfs_init
LEMMA InitKeeps ==
    ASSUME TablesOK, dfs_init
    PROVE  /\ TablesOK' /\ \A i \in 1 .. MAX_OPEN_FILES : open_files'[i] = NoFile
           /\ UNCHANGED <<handles, fileno>>
<1>1. MountsOK'
    BY AttachKeeps DEF TablesOK, dfs_init
<1>2. /\ open_files' = [i \in DOMAIN open_files |-> NoFile] /\ directories' = <<>>
      /\ UNCHANGED <<next_entry, next_handle, handles, fileno>>
    BY DEF dfs_init, attach_filesystem
<1>3. DirsOK'
    BY <1>2, StackFacts DEF TablesOK, DirsOK
<1>4. OpenFilesOK'
    BY <1>2 DEF TablesOK, OpenFilesOK, FileOK
<1>5. HandlesOK'
    BY <1>2 DEF TablesOK, HandlesOK
<1> QED
    BY <1>1, <1>2, <1>3, <1>4, <1>5 DEF TablesOK, OpenFilesOK

\* detach_filesystem
LEMMA DetachKeeps ==
    ASSUME TablesOK, NEW prefix \in Mounts, detach_filesystem(prefix)
    PROVE  TablesOK'
<1> DEFINE i == Min(Mapped(prefix))
<1>1. filesystems' = [filesystems EXCEPT ![i] = NoPrefix]
      /\ UNCHANGED <<directories, next_entry, next_handle, handles, fileno>>
      /\ Mapped(prefix) # {}
    BY DEF detach_filesystem
<1>2. i \in 1 .. MAX_FILESYSTEMS
    BY <1>1, MappedFacts DEF TablesOK
<1> HIDE DEF i
<1>3. MountsOK'
    BY <1>1, <1>2 DEF TablesOK, MountsOK
<1>4. OpenFilesOK'
    <2> DEFINE closed == {handles[j].handle :
                j \in {j \in DOMAIN handles : handles[j] # Unused /\ Belong(handles[j], Min(Mapped(prefix)))}}
    <2>1. open_files' = [k \in DOMAIN open_files |->
                            IF open_files[k].handle \in closed THEN NoFile ELSE open_files[k]]
        BY DEF detach_filesystem
    <2> HIDE DEF closed
    <2> QED
        BY <1>1, <2>1, FilesClosed DEF TablesOK
<1>5. HandlesOK' /\ DirsOK'
    BY <1>1 DEF TablesOK, HandlesOK, DirsOK
<1> QED
    BY <1>3, <1>4, <1>5 DEF TablesOK

\* dfs_close keeps the open files in order.
LEMMA CloseKeeps ==
    ASSUME OpenFilesOK, NEW h, CloseFile(h), next_handle' = next_handle
    PROVE  OpenFilesOK'
BY FilesClosed DEF CloseFile

\* Only the directories change.
LEMMA DirsMoved ==
    ASSUME TablesOK, DirsOK', UNCHANGED <<open_files, next_handle, newlib>>
    PROVE  TablesOK'
BY DEF TablesOK, OpenFilesOK, FileOK, HandlesOK, MountsOK, newlib

\* Only the open files change.
LEMMA FilesMoved ==
    ASSUME TablesOK, OpenFilesOK', UNCHANGED <<directories, next_entry, next_handle, newlib>>
    PROVE  TablesOK'
BY DEF TablesOK, DirsOK, HandlesOK, MountsOK, newlib

\* The paths of clients are sequences of names and slashes.
LEMMA PathTypes ==
    /\ \A path \in WalkPaths : path \in Seq(STRING)
    /\ \A path \in OpenPaths : path \in Seq(STRING)
    /\ \A path \in RelativePaths : path \in Seq(STRING)
BY FilesAssumption DEF Spelled

\* Handles stay numbers of the past.
LEMMA HandlesLater ==
    ASSUME HandlesOK, next_handle \in Nat, next_handle' \in Nat, next_handle <= next_handle',
           UNCHANGED <<handles, fileno>>
    PROVE  HandlesOK'
<1>1. \A i \in 1 .. MAX_OPEN_HANDLES :
        handles[i].handle \in 1 .. next_handle - 1 => handles[i].handle \in 1 .. next_handle' - 1
    OBVIOUS
<1> QED
    BY <1>1 DEF HandlesOK

\* dfs_open counts the handles up.
LEMMA OpenNext ==
    ASSUME OpenFilesOK, NEW stack, NEW path, OpenFile(stack, path)
    PROVE  /\ next_handle \in Nat \ {0} /\ next_handle' \in Nat \ {0} /\ next_handle <= next_handle'
           /\ next_handle' = IF CanOpen(stack, path) THEN next_handle + 1 ELSE next_handle
BY DEF OpenFile, OpenFilesOK

\* Every call keeps the tables in order.
LEMMA TablesStep == TablesOK /\ [FilesNext]_filesVars => TablesOK'
<1> SUFFICES ASSUME TablesOK, [FilesNext]_filesVars PROVE TablesOK'
    OBVIOUS
<1> USE DEF TablesOK
<1>1. CASE Open
    <2>1. PICK p \in Mounts, path \in OpenPaths : open(p, path)
        BY <1>1 DEF Open
    <2>2. CASE OpenReturns(p)
        <3>1. TakeHandle(p, path) /\ OpenFile(<<>>, path)
            BY <2>1, <2>2 DEF open
        <3>2. OpenFilesOK'
            BY <3>1, OpenKeeps, PathTypes, StackFacts
        <3>3. HandlesOK'
            BY <2>2, <3>1, OpenNext, TakeKeeps
        <3>4. DirsOK' /\ MountsOK'
            BY <3>1, StackFacts DEF TakeHandle, DirsOK, MountsOK, EntryOrNone
        <3> QED
            BY <3>2, <3>3, <3>4
    <2>3. CASE ~OpenReturns(p)
        <3>1. UNCHANGED <<dragonFs, newlib>>
            BY <2>1, <2>3 DEF open
        <3> QED
            BY <3>1, DirsMoved DEF dragonFs, DirsOK
    <2> QED
        BY <2>2, <2>3
<1>2. CASE Stat
    <2>1. PICK p \in Mounts, path \in OpenPaths : stat(p, path)
        BY <1>2 DEF Stat
    <2>2. CASE OpenReturns(p)
        <3>1. /\ TakeHandle(p, path) /\ UNCHANGED open_files
              /\ next_handle' = IF CanOpen(<<>>, path) THEN next_handle + 1 ELSE next_handle
            BY <2>1, <2>2 DEF stat
        <3>2. OpenFilesOK'
            <4>1. next_handle' \in Nat \ {0} /\ next_handle <= next_handle' /\ next_handle \in Nat
                BY <3>1 DEF OpenFilesOK
            <4>2. \A k \in 1 .. MAX_OPEN_FILES : open_files[k] # NoFile =>
                    open_files[k].handle \in Nat /\ open_files[k].handle < next_handle
                BY DEF OpenFilesOK, OpenFileType
            <4> QED
                BY <3>1, <4>1, <4>2 DEF OpenFilesOK, FileOK
        <3>3. HandlesOK'
            BY <2>2, <3>1, TakeKeeps
        <3>4. DirsOK' /\ MountsOK'
            BY <3>1, StackFacts DEF TakeHandle, DirsOK, MountsOK, EntryOrNone
        <3> QED
            BY <3>2, <3>3, <3>4
    <2>3. CASE ~OpenReturns(p)
        <3>1. UNCHANGED <<dragonFs, newlib>>
            BY <2>1, <2>3 DEF stat
        <3> QED
            BY <3>1, DirsMoved DEF dragonFs, DirsOK
    <2> QED
        BY <2>2, <2>3
<1>3. CASE Start
    BY <1>3, InitKeeps DEF Start
<1>4. CASE Attach
    <2>1. PICK p \in Mounts : attach_filesystem(p) /\ UNCHANGED dragonFs
        BY <1>4 DEF Attach
    <2>2. MountsOK' /\ UNCHANGED <<handles, fileno>>
        BY <2>1, AttachKeeps DEF attach_filesystem
    <2> QED
        BY <2>1, <2>2 DEF dragonFs, DirsOK, OpenFilesOK, FileOK, HandlesOK
<1>5. CASE Detach
    BY <1>5, DetachKeeps DEF Detach
<1>6. CASE ChDir
    <2>1. PICK path \in WalkPaths : dfs_chdir(path) /\ UNCHANGED newlib
        BY <1>6 DEF ChDir
    <2>2. recurse_path(directories, path, "CHDIR").stack \in Stack
        <3>1. recurse_path(directories, path, "CHDIR") \in Walked
            BY PathTypes, WalkType DEF DirsOK
        <3> QED
            BY <3>1 DEF Walked
    <2>3. DirsOK' /\ UNCHANGED <<open_files, next_handle>>
        BY <2>1, <2>2 DEF dfs_chdir, DirsOK, EntryOrNone
    <2> QED
        BY <2>1, <2>3, DirsMoved
<1>7. ASSUME NEW path \in WalkPaths, dfs_dir_findfirst(path), UNCHANGED newlib PROVE TablesOK'
    <2>1. FirstOf(path) \in EntryOrNone
        BY PathTypes, FoundFacts DEF DirsOK
    <2>2. DirsOK' /\ UNCHANGED <<open_files, next_handle>>
        BY <1>7, <2>1, DragonFsAssumption DEF dfs_dir_findfirst, DirsOK, EntryOrNone
    <2> QED
        BY <1>7, <2>2, DirsMoved
<1>8. ASSUME dfs_dir_findnext, UNCHANGED newlib PROVE TablesOK'
    <2>1. DirsOK' /\ UNCHANGED <<open_files, next_handle>>
        BY <1>8, DragonFsAssumption DEF dfs_dir_findnext, DirsOK, EntryOrNone
    <2> QED
        BY <1>8, <2>1, DirsMoved
<1>9. ASSUME UNCHANGED <<dragonFs, newlib>> PROVE TablesOK'
    BY <1>9, DirsMoved DEF dragonFs, DirsOK
<1>10. CASE FindFirst
    BY <1>7, <1>10 DEF FindFirst
<1>11. CASE FindNext
    BY <1>8, <1>11 DEF FindNext
<1>12. CASE DirFindFirst
    BY <1>7, <1>9, <1>12 DEF DirFindFirst, dir_findfirst
<1>13. CASE DirFindNext
    BY <1>8, <1>9, <1>13 DEF DirFindNext, dir_findnext
<1>14. CASE DfsOpen
    <2>1. PICK path \in RelativePaths :
            OpenFile(directories, path) /\ UNCHANGED <<directories, next_entry, newlib>>
        BY <1>14 DEF DfsOpen
    <2>2. OpenFilesOK'
        BY <2>1, OpenKeeps, PathTypes DEF DirsOK
    <2>3. HandlesOK'
        BY <2>1, OpenNext, HandlesLater DEF newlib
    <2> QED
        BY <2>1, <2>2, <2>3 DEF newlib, DirsOK, MountsOK
<1>15. CASE DfsClose
    <2>1. PICK h : CloseFile(h) /\ UNCHANGED <<directories, next_entry, next_handle, newlib>>
        BY <1>15 DEF DfsClose
    <2>2. OpenFilesOK'
        BY <2>1, CloseKeeps
    <2> QED
        BY <2>1, <2>2, FilesMoved
<1>16. CASE Close
    <2>1. PICK fd \in Numbers : close(fd)
        BY <1>16 DEF Close
    <2>2. OpenFilesOK'
        <3>1. CASE Known(fd)
            BY <2>1, <3>1, CloseKeeps DEF close
        <3>2. CASE ~Known(fd)
            BY <2>1, <3>2 DEF close, OpenFilesOK, FileOK
        <3> QED
            BY <3>1, <3>2
    <2> QED
        BY <2>1, <2>2, FilesMoved DEF close
<1>17. CASE LSeek
    <2>1. PICK fd \in Numbers, offset \in Offsets, origin \in {"SET", "CUR", "END"} : lseek(fd, offset, origin)
        BY <1>17 DEF LSeek
    <2>2. OpenFilesOK'
        <3>1. CASE Known(fd)
            BY <2>1, <3>1, SeekKeeps, FilesAssumption DEF lseek
        <3>2. CASE ~Known(fd)
            BY <2>1, <3>2 DEF lseek, OpenFilesOK, FileOK
        <3> QED
            BY <3>1, <3>2
    <2> QED
        BY <2>1, <2>2, FilesMoved DEF lseek
<1>18. CASE ReadFile
    <2>1. PICK fd \in Numbers, n \in Counts : read(fd, n)
        BY <1>18 DEF ReadFile
    <2>2. OpenFilesOK'
        <3>1. CASE Known(fd)
            BY <2>1, <3>1, ReadKeeps, FilesAssumption DEF read
        <3>2. CASE ~Known(fd)
            BY <2>1, <3>2 DEF read, OpenFilesOK, FileOK
        <3> QED
            BY <3>1, <3>2
    <2> QED
        BY <2>1, <2>2, FilesMoved DEF read
<1>19. CASE FStat
    BY <1>9, <1>19 DEF FStat
<1>20. CASE UNCHANGED filesVars
    BY <1>9, <1>20 DEF filesVars
<1> QED
    BY <1>1, <1>2, <1>3, <1>4, <1>5, <1>6, <1>10, <1>11, <1>12, <1>13, <1>14, <1>15, <1>16, <1>17,
       <1>18, <1>19, <1>20 DEF FilesNext, Explore, Use

\* The tables are in order before the first call.
LEMMA TablesInit == FilesInit => TablesOK
<1> SUFFICES ASSUME FilesInit PROVE TablesOK
    OBVIOUS
<1>1. DirsOK
    BY StackFacts DEF FilesInit, DfsInit, DirsOK, EntryOrNone
<1>2. OpenFilesOK
    BY DEF FilesInit, DfsInit, OpenFilesOK
<1>3. HandlesOK
    BY DEF FilesInit, NewlibInit, HandlesOK
<1>4. MountsOK
    BY DEF FilesInit, NewlibInit, MountsOK
<1> QED
    BY <1>1, <1>2, <1>3, <1>4 DEF TablesOK

\* Tables in order are as wide and as deep as they may be.
LEMMA TablesTyped == TablesOK => FilesTypeOK
<1> SUFFICES ASSUME TablesOK PROVE FilesTypeOK
    OBVIOUS
<1>1. Len(directories) <= MAX_DIRECTORY_DEPTH /\ next_entry \in Entries \cup {0}
    BY DEF TablesOK, DirsOK, Stack, EntryOrNone
<1>2. \A f \in ToSet(open_files) : \E k \in 1 .. MAX_OPEN_FILES : f = open_files[k]
    BY DEF TablesOK, OpenFilesOK, ToSet
<1>3. \A k \in 1 .. MAX_OPEN_FILES : open_files[k] # NoFile => open_files[k].loc \in 0 .. open_files[k].size
    BY DEF TablesOK, OpenFilesOK, FileOK, OpenFileType
<1> QED
    BY <1>1, <1>2, <1>3 DEF FilesTypeOK

\* The length of a sequence made element by element.
LEMMA LengthOf ==
    ASSUME NEW m \in Nat, NEW X, NEW g \in [1 .. m -> X]
    PROVE  Len(g) = m
OBVIOUS

-----------------------------------------------------------------------------
(* Files: the tree of directories. *)

\* A directory has a first entry.
LEMMA DirectoryFacts ==
    /\ 0 \in Directories /\ Nothing \notin Directories /\ Nothing \notin Entries /\ 0 \notin Entries
    /\ \A dir \in Directories : FirstIn(dir) \in Entries
    /\ \A e \in Entries : e \in Directories <=> image[e].dir
    /\ \A e \in Directories : e # 0 => e \in Entries
<1>1. \A e \in Entries : e \in Nat /\ e # 0 /\ (image[e].dir => image[e].first \in Entries)
    BY DragonFsAssumption
<1>2. Root \in Entries
    BY DragonFsAssumption
<1>3. -1 \notin Nat
    OBVIOUS
<1> QED
    BY <1>1, <1>2, <1>3 DEF Directories, FirstIn, Nothing

\* A listing has the entries of a directory, each of which leads to the next.
LEMMA ListingFacts ==
    ASSUME NEW dir \in Directories
    PROVE  /\ Listing(FirstIn(dir)) \in Seq(Entries) /\ Listing(FirstIn(dir)) # <<>>
           /\ Listing(FirstIn(dir))[1] = FirstIn(dir)
           /\ \A n \in 1 .. Len(Listing(FirstIn(dir))) :
                /\ Listing(FirstIn(dir))[n] = Siblings(FirstIn(dir))[n - 1]
                /\ n - 1 \in 0 .. Cardinality(Entries)
                /\ n < Len(Listing(FirstIn(dir))) =>
                    image[Listing(FirstIn(dir))[n]].next = Listing(FirstIn(dir))[n + 1]
                /\ n = Len(Listing(FirstIn(dir))) => image[Listing(FirstIn(dir))[n]].next = 0
           /\ \A n \in 0 .. Cardinality(Entries) :
                Siblings(FirstIn(dir))[n] # 0 => n + 1 \in 1 .. Len(Listing(FirstIn(dir)))
<1> DEFINE C == Cardinality(Entries)
           S == Siblings(FirstIn(dir))
           Ends == {m \in 0 .. C : S[m] = 0}
           L == Min(Ends)
           l == Listing(FirstIn(dir))
<1>1. C \in Nat
    BY DragonFsAssumption, FS_CardinalityType
<1>2. FirstIn(dir) \in EntryOrNone /\ FirstIn(dir) # 0
    BY DirectoryFacts DEF EntryOrNone
<1>3. /\ S[0] = FirstIn(dir)
      /\ \A n \in 0 .. C : S[n] \in EntryOrNone
      /\ \A n \in 1 .. C : S[n] = IF S[n - 1] = 0 THEN 0 ELSE image[S[n - 1]].next
    BY <1>2, SiblingsFacts
<1>4. S[C] = 0
    BY ImageAssumption
<1>5. l = [n \in 1 .. L |-> S[n - 1]]
    BY DEF Listing
<1> HIDE DEF C, S, l
<1>6. Ends \in SUBSET Nat /\ Ends # {}
    BY <1>1, <1>4
<1>7. L \in Ends /\ \A m \in Ends : L <= m
    <2> HIDE DEF Ends
    <2> QED
        BY <1>6, MinFacts
<1>8. L \in 0 .. C /\ S[L] = 0 /\ \A m \in 0 .. C : S[m] = 0 => L <= m
    BY <1>7
<1> HIDE DEF L, Ends
<1>9. L \in 1 .. C
    BY <1>1, <1>2, <1>3, <1>8
<1>10. \A n \in 1 .. L : n - 1 \in 0 .. C /\ S[n - 1] # 0 /\ S[n - 1] \in Entries
    <2> TAKE n \in 1 .. L
    <2>1. n - 1 \in 0 .. C /\ ~(L <= n - 1)
        BY <1>1, <1>9
    <2> QED
        BY <1>3, <1>8, <2>1 DEF EntryOrNone
<1>11. l \in [1 .. L -> Entries]
    BY <1>5, <1>10
<1>12. l \in Seq(Entries) /\ Len(l) = L
    BY <1>9, <1>11, LengthOf
<1>13. \A n \in 0 .. C : S[n] # 0 => n < L
    <2> DEFINE G == {n \in 0 .. C : L <= n => S[n] = 0}
    <2>1. 0 \in G
        BY <1>1, <1>9
    <2>2. ASSUME NEW n \in 1 .. C, n - 1 \in G PROVE n \in G
        <3>1. CASE n = L
            BY <1>1, <1>8, <3>1
        <3>2. CASE n # L
            BY <1>3, <1>9, <2>2, <3>2
        <3> QED
            BY <3>1, <3>2
    <2>3. \A n \in 0 .. C : n \in G
        <3> HIDE DEF G
        <3> QED
            BY <1>1, <2>1, <2>2, Upward
    <2> QED
        BY <1>1, <1>9, <2>3
<1>14. \A n \in 1 .. L : l[n] = S[n - 1]
    BY <1>5
<1>15. ASSUME NEW n \in 1 .. L
       PROVE  /\ n < L => image[l[n]].next = l[n + 1]
              /\ n = L => image[l[n]].next = 0
    <2>1. n \in 1 .. C
        BY <1>1, <1>9
    <2>2. S[n] = image[l[n]].next
        BY <1>3, <1>10, <1>14, <2>1
    <2>3. n < L => n + 1 \in 1 .. L /\ (n + 1) - 1 = n
        BY <1>9
    <2> QED
        BY <1>8, <1>14, <2>2, <2>3
<1>16. l # <<>> /\ l[1] = FirstIn(dir)
    BY <1>3, <1>9, <1>12, <1>14
<1>17. \A n \in 0 .. C : n < L => n + 1 \in 1 .. L
    BY <1>1, <1>9
<1> QED
    BY <1>10, <1>12, <1>13, <1>14, <1>15, <1>16, <1>17 DEF C, S, l

\* What is in a directory.
LEMMA ChildrenFacts ==
    ASSUME NEW dir \in Directories
    PROVE  /\ Children(dir) \subseteq Entries
           /\ \A e : e \in Children(dir) <=>
                \E n \in 0 .. Cardinality(Entries) :
                    Siblings(FirstIn(dir))[n] # 0 /\ e = Siblings(FirstIn(dir))[n]
<1> DEFINE C == Cardinality(Entries)
           S == Siblings(FirstIn(dir))
           l == Listing(FirstIn(dir))
<1>1. /\ l \in Seq(Entries)
      /\ \A n \in 1 .. Len(l) : l[n] = S[n - 1] /\ n - 1 \in 0 .. C
      /\ \A n \in 0 .. C : S[n] # 0 => n + 1 \in 1 .. Len(l)
    BY ListingFacts
<1>2. Children(dir) = {l[n] : n \in 1 .. Len(l)}
    <2>1. DOMAIN l = 1 .. Len(l)
        BY <1>1
    <2> HIDE DEF l
    <2>2. ToSet(l) = {l[n] : n \in DOMAIN l}
        BY DEF ToSet
    <2> QED
        BY <2>1, <2>2 DEF Children, l
<1>3. C \in Nat
    BY DragonFsAssumption, FS_CardinalityType
<1> HIDE DEF C, S, l
<1>4. \A n \in 1 .. Len(l) : l[n] \in Entries /\ l[n] # 0
    BY <1>1, DirectoryFacts
<1>5. Children(dir) \subseteq Entries
    BY <1>2, <1>4
<1>6. ASSUME NEW e, e \in Children(dir) PROVE \E n \in 0 .. C : S[n] # 0 /\ e = S[n]
    <2>1. PICK n \in 1 .. Len(l) : e = l[n]
        BY <1>2, <1>6
    <2> QED
        BY <1>1, <1>4, <2>1
<1>7. ASSUME NEW n \in 0 .. C, S[n] # 0 PROVE S[n] \in Children(dir)
    <2>1. n + 1 \in 1 .. Len(l) /\ (n + 1) - 1 = n
        BY <1>1, <1>3, <1>7
    <2> QED
        BY <1>1, <1>2, <2>1
<1> QED
    BY <1>5, <1>6, <1>7 DEF C, S

\* find_dirent finds the entry of a directory that has the name.
LEMMA FindFacts ==
    ASSUME NEW dir \in Directories, NEW name
    PROVE  /\ find_dirent(name, FirstIn(dir)) # 0 =>
                /\ find_dirent(name, FirstIn(dir)) \in Children(dir)
                /\ image[find_dirent(name, FirstIn(dir))].name = name
           /\ find_dirent(name, FirstIn(dir)) = 0 => \A e \in Children(dir) : image[e].name # name
<1> DEFINE C == Cardinality(Entries)
           S == Siblings(FirstIn(dir))
           named == {n \in 0 .. C : S[n] # 0 /\ image[S[n]].name = name}
<1>1. find_dirent(name, FirstIn(dir)) = IF named = {} THEN 0 ELSE S[Min(named)]
    BY DEF find_dirent
<1>2. \A e : e \in Children(dir) <=> \E n \in 0 .. C : S[n] # 0 /\ e = S[n]
    BY ChildrenFacts
<1>3. C \in Nat
    BY DragonFsAssumption, FS_CardinalityType
<1> HIDE DEF C, S
<1>4. CASE named = {}
    BY <1>1, <1>2, <1>4
<1>5. CASE named # {}
    <2>1. named \in SUBSET Nat
        BY <1>3
    <2>2. Min(named) \in named
        <3> HIDE DEF named
        <3> QED
            BY <1>5, <2>1, MinFacts
    <2> QED
        BY <1>1, <1>2, <1>5, <2>2
<1> QED
    BY <1>4, <1>5

\* It is the entry that the name stands for.
LEMMA NamedFacts ==
    ASSUME NEW dir \in Directories, NEW name, name \notin {"/", ".", ".."}
    PROVE  Named(dir, name) = IF find_dirent(name, FirstIn(dir)) = 0 THEN Nothing
                              ELSE find_dirent(name, FirstIn(dir))
<1> DEFINE named == {c \in Children(dir) : image[c].name = name}
           e == find_dirent(name, FirstIn(dir))
<1>1. Named(dir, name) = IF named = {} THEN Nothing ELSE CHOOSE c \in named : TRUE
    BY DEF Named, IsDir
<1>2. CASE e = 0
    BY <1>1, <1>2, FindFacts
<1>3. CASE e # 0
    <2>1. e \in named
        BY <1>3, FindFacts
    <2>2. \A c \in named : c = e
        BY <2>1, ImageAssumption
    <2> HIDE DEF named, e
    <2>3. (CHOOSE c \in named : TRUE) = e
        BY <2>1, <2>2
    <2> QED
        BY <1>1, <1>3, <2>1, <2>3 DEF e
<1> QED
    BY <1>2, <1>3

-----------------------------------------------------------------------------
(* Files: the stack of directories. *)

\* The stack has the directories down to e, each in the one before it.
StackOf(s, e) ==
    \E c \in [0 .. Len(s) -> Directories] :
        /\ c[0] = 0 /\ c[Len(s)] = e
        /\ \A n \in 1 .. Len(s) : c[n] \in Children(c[n - 1]) /\ s[n] = image[c[n]].first

\* A directory is in one other.
LEMMA ParentFacts ==
    ASSUME NEW dir \in Directories, NEW e \in Children(dir)
    PROVE  Parent(e) = dir
<1>1. \A d \in Directories : e \in Children(d) => d = dir
    BY ImageAssumption
<1> QED
    BY <1>1 DEF Parent

\* In the root the stack is empty.
LEMMA StackOfRoot == StackOf(<<>>, 0)
<1> DEFINE c == [n \in 0 .. 0 |-> 0]
<1>1. Len(<<>>) = 0 /\ c \in [0 .. 0 -> Directories] /\ c[0] = 0
    BY DirectoryFacts
<1> HIDE DEF c
<1> QED
    BY <1>1 DEF StackOf

\* The top of the stack is the directory.
LEMMA StackTop ==
    ASSUME NEW s \in Stack, NEW e, StackOf(s, e)
    PROVE  e \in Directories /\ Peek(s) = FirstIn(e)
<1>1. PICK c \in [0 .. Len(s) -> Directories] :
        /\ c[0] = 0 /\ c[Len(s)] = e
        /\ \A n \in 1 .. Len(s) : c[n] \in Children(c[n - 1]) /\ s[n] = image[c[n]].first
    BY DEF StackOf
<1>2. Len(s) \in Nat /\ s \in Seq(Entries) /\ e \in Directories
    BY <1>1 DEF Stack
<1>3. CASE s = <<>>
    BY <1>1, <1>3 DEF Peek, FirstIn
<1>4. CASE s # <<>>
    <2>1. Len(s) \in 1 .. Len(s)
        BY <1>2, <1>4
    <2>2. Len(s) - 1 \in 0 .. Len(s)
        BY <1>2, <2>1
    <2>3. e \in Children(c[Len(s) - 1]) /\ s[Len(s)] = image[e].first /\ c[Len(s) - 1] \in Directories
        BY <1>1, <2>1, <2>2
    <2>4. e # 0
        BY <2>3, ChildrenFacts, DirectoryFacts
    <2> QED
        BY <1>2, <1>4, <2>3, <2>4 DEF Peek, Last, FirstIn
<1> QED
    BY <1>2, <1>3, <1>4

\* Without its top the stack leads to the directory above.
LEMMA StackOfParent ==
    ASSUME NEW s \in Stack, NEW e, StackOf(s, e)
    PROVE  StackOf(Pop(s), Named(e, ".."))
<1>1. PICK c \in [0 .. Len(s) -> Directories] :
        /\ c[0] = 0 /\ c[Len(s)] = e
        /\ \A n \in 1 .. Len(s) : c[n] \in Children(c[n - 1]) /\ s[n] = image[c[n]].first
    BY DEF StackOf
<1>2. Len(s) \in Nat /\ s \in Seq(Entries) /\ e \in Directories
    BY <1>1 DEF Stack
<1>3. Named(e, "..") = IF e = 0 THEN 0 ELSE Parent(e)
    BY <1>2 DEF Named, IsDir
<1>4. CASE s = <<>>
    BY <1>1, <1>3, <1>4 DEF Pop
<1>5. CASE s # <<>>
    <2> DEFINE m == Len(s) - 1
    <2>1. Len(s) \in 1 .. Len(s) /\ m \in 0 .. Len(s) /\ m \in Nat /\ m + 1 = Len(s)
        BY <1>2, <1>5
    <2>2. e \in Children(c[m]) /\ c[m] \in Directories
        BY <1>1, <2>1
    <2>3. e # 0
        BY <2>2, ChildrenFacts, DirectoryFacts
    <2>4. Named(e, "..") = c[m]
        BY <1>3, <2>2, <2>3, ParentFacts
    <2>5. Pop(s) = SubSeq(s, 1, m)
        BY <1>5 DEF Pop, Front
    <2> HIDE DEF m
    <2>6. Len(Pop(s)) = m /\ \A n \in 1 .. m : Pop(s)[n] = s[n]
        BY <1>2, <2>1, <2>5
    <2> DEFINE b == [n \in 0 .. m |-> c[n]]
    <2>7. b \in [0 .. m -> Directories] /\ \A n \in 0 .. m : b[n] = c[n]
        BY <2>1
    <2> HIDE DEF b
    <2>8. b[0] = 0 /\ b[m] = Named(e, "..")
        BY <1>1, <2>1, <2>4, <2>7
    <2>9. \A n \in 1 .. m : b[n] \in Children(b[n - 1]) /\ Pop(s)[n] = image[b[n]].first
        <3> TAKE n \in 1 .. m
        <3>1. n \in 1 .. Len(s) /\ n \in 0 .. m /\ n - 1 \in 0 .. m
            BY <2>1
        <3> QED
            BY <1>1, <2>6, <2>7, <3>1
    <2> QED
        BY <2>6, <2>7, <2>8, <2>9 DEF StackOf
<1> QED
    BY <1>4, <1>5

\* If no directory is too deep, there is room on the stack for what is in one.
LEMMA StackRoom ==
    ASSUME StackSuffices, NEW s \in Stack, NEW dir, StackOf(s, dir), NEW e \in Children(dir)
    PROVE  Len(s) < MAX_DIRECTORY_DEPTH
<1>1. PICK c \in [0 .. Len(s) -> Directories] :
        /\ c[0] = 0 /\ c[Len(s)] = dir
        /\ \A n \in 1 .. Len(s) : c[n] \in Children(c[n - 1]) /\ s[n] = image[c[n]].first
    BY DEF StackOf
<1>2. Len(s) \in Nat /\ dir \in Directories /\ e \in Entries
    BY <1>1, ChildrenFacts DEF Stack
<1>3. PICK level \in [Entries -> 1 .. MAX_DIRECTORY_DEPTH] :
        \A d \in Directories \ {0} : \A a \in Children(d) : level[d] < level[a]
    BY DEF StackSuffices
<1>4. \A a \in Entries : level[a] \in Nat /\ 1 <= level[a] /\ level[a] <= MAX_DIRECTORY_DEPTH
    BY <1>3, DragonFsAssumption
<1>5. \A n \in 1 .. Len(s) : c[n] \in Directories \ {0} /\ c[n] \in Entries /\ c[n] \in Children(c[n - 1])
    <2> TAKE n \in 1 .. Len(s)
    <2>1. n - 1 \in 0 .. Len(s) /\ n \in 0 .. Len(s)
        BY <1>2
    <2>2. c[n] \in Children(c[n - 1]) /\ c[n - 1] \in Directories /\ c[n] \in Directories
        BY <1>1, <2>1
    <2> QED
        BY <2>2, ChildrenFacts, DirectoryFacts
<1> DEFINE G == {n \in 0 .. Len(s) : n # 0 => n <= level[c[n]]}
<1>6. 0 \in G
    BY <1>2
<1>7. ASSUME NEW n \in 1 .. Len(s), n - 1 \in G PROVE n \in G
    <2>1. level[c[n]] \in Nat /\ 1 <= level[c[n]]
        BY <1>4, <1>5
    <2>2. CASE n = 1
        BY <2>1, <2>2
    <2>3. CASE n # 1
        <3>1. n - 1 \in 1 .. Len(s) /\ n - 1 <= level[c[n - 1]]
            BY <1>2, <1>7, <2>3
        <3>2. level[c[n - 1]] < level[c[n]] /\ level[c[n - 1]] \in Nat
            BY <1>3, <1>4, <1>5, <3>1
        <3> QED
            BY <2>1, <3>1, <3>2
    <2> QED
        BY <2>2, <2>3
<1> HIDE DEF G
<1>8. \A n \in 0 .. Len(s) : n \in G
    BY <1>2, <1>6, <1>7, Upward
<1>9. CASE Len(s) = 0
    BY <1>2, <1>4, <1>9, DragonFsAssumption
<1>10. CASE Len(s) # 0
    <2>1. Len(s) \in 1 .. Len(s) /\ Len(s) \in G
        BY <1>2, <1>8, <1>10
    <2>2. Len(s) <= level[dir] /\ level[dir] < level[e] /\ dir \in Entries
        BY <1>1, <1>3, <1>5, <2>1 DEF G
    <2> QED
        BY <1>2, <1>4, <2>2, DragonFsAssumption
<1> QED
    BY <1>9, <1>10

\* With a directory on top the stack leads there.
LEMMA StackOfChild ==
    ASSUME StackSuffices, NEW s \in Stack, NEW dir, StackOf(s, dir),
           NEW e \in Children(dir), e \in Directories
    PROVE  StackOf(Push(s, image[e].first), e)
<1>1. PICK c \in [0 .. Len(s) -> Directories] :
        /\ c[0] = 0 /\ c[Len(s)] = dir
        /\ \A n \in 1 .. Len(s) : c[n] \in Children(c[n - 1]) /\ s[n] = image[c[n]].first
    BY DEF StackOf
<1> DEFINE m == Len(s) + 1
           t == Append(s, image[e].first)
           b == [n \in 0 .. m |-> IF n = m THEN e ELSE c[n]]
<1>2. Push(s, image[e].first) = t
    BY StackRoom DEF Push
<1>3. Len(s) \in Nat /\ s \in Seq(Entries)
    BY DEF Stack
<1>4. m \in Nat /\ Len(s) \in 0 .. m /\ m - 1 = Len(s) /\ Len(s) # m
    BY <1>3
<1>5. Len(t) = m /\ t[m] = image[e].first /\ \A n \in 1 .. Len(s) : t[n] = s[n]
    <2>1. image[e].first \in Entries
        <3>1. e \in Entries /\ image[e].dir
            BY ChildrenFacts, DirectoryFacts, StackTop
        <3> QED
            BY <3>1, DragonFsAssumption
    <2> QED
        BY <1>3, <2>1
<1>6. b \in [0 .. m -> Directories] /\ b[m] = e /\ \A n \in 0 .. Len(s) : b[n] = c[n]
    <2> HIDE DEF m
    <2>1. \A n \in 0 .. m : n = m \/ n \in 0 .. Len(s)
        BY <1>3, <1>4
    <2>2. \A n \in 0 .. Len(s) : n \in 0 .. m /\ n # m
        BY <1>3, <1>4
    <2>3. m \in 0 .. m
        BY <1>4
    <2>4. \A n \in 0 .. m : b[n] = IF n = m THEN e ELSE c[n]
        OBVIOUS
    <2>5. \A n \in 0 .. m : b[n] \in Directories
        BY <1>1, <2>1, <2>4
    <2>6. \A n \in 0 .. Len(s) : b[n] = c[n]
        BY <2>2, <2>4
    <2>7. b = [n \in 0 .. m |-> b[n]]
        OBVIOUS
    <2> HIDE DEF b
    <2> QED
        BY <2>3, <2>4, <2>5, <2>6, <2>7
<1> HIDE DEF m, t, b
<1>7. \A n \in 1 .. m : n = m \/ (n \in 1 .. Len(s) /\ n \in 0 .. Len(s) /\ n - 1 \in 0 .. Len(s))
    BY <1>3, <1>4
<1>8. \A n \in 1 .. m : b[n] \in Children(b[n - 1]) /\ t[n] = image[b[n]].first
    <2> TAKE n \in 1 .. m
    <2>1. CASE n = m
        <3>1. b[n - 1] = dir
            BY <1>1, <1>3, <1>4, <1>6, <2>1
        <3> QED
            BY <1>5, <1>6, <2>1, <3>1
    <2>2. CASE n \in 1 .. Len(s) /\ n \in 0 .. Len(s) /\ n - 1 \in 0 .. Len(s)
        BY <1>1, <1>5, <1>6, <2>2
    <2> QED
        BY <1>7, <2>1, <2>2
<1>9. b[0] = 0
    BY <1>1, <1>3, <1>6
<1> QED
    BY <1>2, <1>5, <1>6, <1>8, <1>9 DEF StackOf

-----------------------------------------------------------------------------
(* Files: what a path names. *)

Places == Entries \cup {0, Nothing}

\* A name in a directory stands for something there or nothing, and nothing for nothing.
LEMMA NamedType ==
    ASSUME NEW e \in Places, NEW name
    PROVE  /\ Named(e, name) \in Places
           /\ name = "/" => Named(e, name) = e
           /\ name # "/" /\ e \notin Directories => Named(e, name) = Nothing
<1>1. name = "/" => Named(e, name) = e
    BY DEF Named
<1>2. name # "/" /\ e \notin Directories => Named(e, name) = Nothing
    BY DEF Named, IsDir
<1>3. CASE name # "/" /\ e \in Directories
    <2>1. CASE name = "."
        BY <1>3, <2>1 DEF Named, IsDir
    <2>2. CASE name = ".."
        <3>1. Named(e, name) = IF e = 0 THEN 0 ELSE Parent(e)
            BY <1>3, <2>2 DEF Named, IsDir
        <3>2. e # 0 => Parent(e) \in Directories
            BY <1>3, DirectoryFacts, ImageAssumption DEF Parent
        <3> QED
            BY <1>3, <3>1, <3>2, DirectoryFacts DEF Places
    <2>3. CASE name \notin {".", ".."}
        <3>1. Named(e, name) = IF find_dirent(name, FirstIn(e)) = 0 THEN Nothing
                               ELSE find_dirent(name, FirstIn(e))
            BY <1>3, <2>3, NamedFacts
        <3> QED
            BY <1>3, <3>1, FindFacts, ChildrenFacts DEF Places
    <2> QED
        BY <2>1, <2>2, <2>3
<1>4. Nothing \in Places
    BY DEF Places
<1> QED
    BY <1>1, <1>2, <1>3, <1>4

\* What the beginnings of a path name, one after the other.
Reads(at, from, path) ==
    /\ at \in [0 .. Len(path) -> Places]
    /\ at[0] = IF path[1] = "/" THEN 0 ELSE from
    /\ \A n \in 1 .. Len(path) : at[n] = Named(at[n - 1], path[n])

\* The last is what the path names.
LEMMA NamesFacts ==
    ASSUME NEW from \in Places, NEW path \in Seq(STRING), path # <<>>
    PROVE  \E at : Reads(at, from, path) /\ Names(from, path) = at[Len(path)]
<1> DEFINE L == Len(path)
           first == IF path[1] = "/" THEN 0 ELSE from
           on == [s \in (1 .. L) \X Places |-> Named(s[2], path[s[1]])]
           Step(f) == [n \in 0 .. L |->
                        IF n = 0 THEN (IF path[1] = "/" THEN 0 ELSE from) ELSE Named(f[n - 1], path[n])]
           at == CHOOSE f : f = Step(f)
<1>1. L \in Nat
    OBVIOUS
<1>2. first \in Places
    BY DEF Places
<1>3. on \in [(1 .. L) \X Places -> Places]
    <2>1. \A s \in (1 .. L) \X Places : Named(s[2], path[s[1]]) \in Places
        BY NamedType
    <2> QED
        BY <2>1
<1>4. PICK f \in [0 .. L -> Places] : StepByStep(f, L, first, on)
    <2> HIDE DEF L, on, first
    <2> QED
        BY <1>1, <1>2, <1>3, Recursion
<1>5. f = Step(f)
    <2>1. \A n \in 0 .. L : n = 0 \/ (n \in 1 .. L /\ n - 1 \in 0 .. L /\ f[n - 1] \in Places)
        BY <1>1, <1>4
    <2>2. \A n \in 0 .. L : f[n] = IF n = 0 THEN first ELSE on[<<n, f[n - 1]>>]
        <3> HIDE DEF L, on, first
        <3> QED
            BY <1>4 DEF StepByStep
    <2>3. \A n \in 0 .. L : f[n] = Step(f)[n]
        <3> HIDE DEF L
        <3> QED
            BY <2>1, <2>2
    <2>4. f = [n \in 0 .. L |-> f[n]]
        BY <1>4
    <2> HIDE DEF L
    <2> QED
        BY <2>3, <2>4
<1>6. at = Step(at)
    <2> HIDE DEF Step
    <2> QED
        BY <1>5, Zenon
<1>7. \A n \in 0 .. L : at[n] = IF n = 0 THEN first ELSE Named(at[n - 1], path[n])
    <2>1. \A g : \A n \in 0 .. L : Step(g)[n] = IF n = 0 THEN first ELSE Named(g[n - 1], path[n])
        OBVIOUS
    <2> HIDE DEF Step, at, first
    <2> QED
        BY <1>6, <2>1
<1>8. Names(from, path) = at[L]
    BY DEF Names
<1>9. at = [n \in 0 .. L |-> at[n]]
    <2>1. \A g : Step(g) = [n \in 0 .. L |-> Step(g)[n]]
        OBVIOUS
    <2> HIDE DEF Step, at
    <2> QED
        BY <1>6, <2>1
<1> HIDE DEF at, L, Step, on, first
<1>10. at[0] = first
    BY <1>1, <1>7
<1>11. \A n \in 1 .. L : at[n] = Named(at[n - 1], path[n])
    BY <1>1, <1>7
<1>12. \A n \in 1 .. L : at[n - 1] \in Places => at[n] \in Places
    BY <1>11, NamedType
<1>13. \A n \in 0 .. L : at[n] \in Places
    BY <1>1, <1>2, <1>10, <1>12, EachStep
<1>14. at \in [0 .. L -> Places]
    BY <1>9, <1>13
<1> QED
    BY <1>8, <1>10, <1>11, <1>14 DEF Reads, L, first

-----------------------------------------------------------------------------
(* Files: where a walk ends. *)

\* What is not a directory is left by slashes alone, and names lead to nothing from it.
LEMMA OutsideStays ==
    ASSUME NEW from, NEW path \in Seq(STRING), NEW at, Reads(at, from, path),
           NEW k \in 0 .. Len(path), at[k] \notin Directories
    PROVE  /\ at[Len(path)] \notin Directories
           /\ at[Len(path)] # Nothing =>
                at[Len(path)] = at[k] /\ \A n \in k + 1 .. Len(path) : path[n] = "/"
<1> DEFINE L == Len(path)
           G == {n \in 0 .. L : k <= n =>
                    /\ at[n] \notin Directories
                    /\ at[n] # Nothing => at[n] = at[k] /\ \A m \in k + 1 .. n : path[m] = "/"}
<1>1. L \in Nat /\ k \in Nat /\ k <= L
    OBVIOUS
<1>2. \A n \in 0 .. L : at[n] \in Places
    BY DEF Reads
<1>3. \A n \in 1 .. L : at[n] = Named(at[n - 1], path[n])
    BY DEF Reads
<1> HIDE DEF L
<1>5. 0 \in G
    BY <1>1
<1>6. ASSUME NEW n \in 1 .. L, n - 1 \in G PROVE n \in G
    <2>1. CASE n < k
        BY <1>1, <2>1
    <2>2. CASE n = k
        BY <1>1, <2>2
    <2>3. CASE k < n
        <3>1. n - 1 \in 0 .. L /\ k <= n - 1
            BY <1>1, <2>3
        <3>2. /\ at[n - 1] \in Places /\ at[n - 1] \notin Directories
              /\ at[n - 1] # Nothing => at[n - 1] = at[k] /\ \A m \in k + 1 .. n - 1 : path[m] = "/"
            BY <1>2, <1>6, <3>1
        <3>3. /\ path[n] = "/" => at[n] = at[n - 1]
              /\ path[n] # "/" => at[n] = Nothing
            BY <1>3, <3>2, NamedType
        <3>4. \A m \in k + 1 .. n : m = n \/ m \in k + 1 .. n - 1
            BY <1>1
        <3> QED
            BY <3>2, <3>3, <3>4, DirectoryFacts
    <2> QED
        BY <1>1, <2>1, <2>2, <2>3
<1> HIDE DEF G
<1>7. \A n \in 0 .. L : n \in G
    BY <1>1, <1>5, <1>6, Upward
<1>8. L \in G
    BY <1>1, <1>7
<1> QED
    BY <1>1, <1>8 DEF G, L

\* The rest of the rest of a path is a rest of the path.
LEMMA RestOfRest ==
    ASSUME NEW path \in Seq(STRING), NEW k \in 0 .. Len(path), NEW m \in Nat \ {0}
    PROVE  SubSeq(SubSeq(path, k + 1, Len(path)), m, Len(path) - k) = SubSeq(path, k + m, Len(path))
<1> DEFINE L == Len(path)
           p == SubSeq(path, k + 1, L)
           q == SubSeq(p, m, L - k)
           r == SubSeq(path, k + m, L)
<1>1. L \in Nat /\ k \in Nat /\ k <= L /\ \A n \in 1 .. L : path[n] \in STRING
    OBVIOUS
<1> HIDE DEF L
<1>2. /\ p \in Seq(STRING)
      /\ \A n \in 1 .. L - k : p[n] = path[k + n] /\ p[n] \in STRING
    <2>1. \A n \in k + 1 .. L : path[n] \in STRING
        BY <1>1
    <2>2. PICK a \in Int : a = k + 1
        BY <1>1
    <2>3. /\ SubSeq(path, a, L) \in Seq(STRING)
          /\ \A n \in 1 .. L - a + 1 : SubSeq(path, a, L)[n] = path[a + n - 1]
        BY <1>1, <2>1, <2>2, SubSeqProperties
    <2>4. p = SubSeq(path, a, L)
        BY <2>2
    <2>5. \A n \in 1 .. L - k : n \in 1 .. L - a + 1 /\ a + n - 1 = k + n /\ k + n \in 1 .. L
        BY <1>1, <2>2
    <2> HIDE DEF p
    <2> QED
        BY <1>1, <2>3, <2>4, <2>5
<1> HIDE DEF p
<1>3. /\ q \in Seq(STRING)
      /\ Len(q) = IF m <= L - k THEN (L - k) - m + 1 ELSE 0
      /\ \A n \in 1 .. (L - k) - m + 1 : q[n] = p[m + n - 1]
    <2>1. \A n \in m .. L - k : p[n] \in STRING
        BY <1>1, <1>2
    <2> QED
        BY <1>1, <2>1, SubSeqProperties
<1>4. /\ r \in Seq(STRING)
      /\ Len(r) = IF k + m <= L THEN L - (k + m) + 1 ELSE 0
      /\ \A n \in 1 .. L - (k + m) + 1 : r[n] = path[(k + m) + n - 1]
    <2>1. \A n \in k + m .. L : path[n] \in STRING
        BY <1>1
    <2> QED
        BY <1>1, <2>1, SubSeqProperties
<1> HIDE DEF q, r
<1>5. Len(q) = Len(r)
    BY <1>1, <1>3, <1>4
<1>6. \A n \in 1 .. Len(q) : q[n] = r[n]
    <2> TAKE n \in 1 .. Len(q)
    <2>1. n \in 1 .. (L - k) - m + 1 /\ n \in 1 .. L - (k + m) + 1
        BY <1>1, <1>3
    <2>2. m + n - 1 \in 1 .. L - k /\ k + (m + n - 1) = (k + m) + n - 1
        BY <1>1, <2>1
    <2>3. q[n] = p[m + n - 1] /\ r[n] = path[(k + m) + n - 1]
        BY <1>3, <1>4, <2>1
    <2> QED
        BY <1>2, <2>2, <2>3
<1>7. q = r
    BY <1>3, <1>4, <1>5, <1>6, SeqEqual
<1> QED
    BY <1>7 DEF p, q, r, L

\* A token is a name or a slash, and what follows is the rest of the path.
LEMMA TokenFacts ==
    ASSUME NEW path, Spelled(path), NEW k \in 0 .. Len(path) - 1
    PROVE  /\ SubSeq(path, k + 1, Len(path)) # <<>>
           /\ get_next_token(SubSeq(path, k + 1, Len(path))).token = path[k + 1]
           /\ \E l \in k + 1 .. Len(path) :
                /\ get_next_token(SubSeq(path, k + 1, Len(path))).rest = SubSeq(path, l + 1, Len(path))
                /\ l # k + 1 => l = k + 2 /\ path[k + 1] # "/" /\ path[l] = "/"
                /\ l = k + 1 /\ l # Len(path) => path[k + 1] = "/"
<1> DEFINE L == Len(path)
           p == SubSeq(path, k + 1, L)
<1>1. L \in Nat /\ path \in Seq(STRING) /\ k \in Nat /\ k + 1 <= L
    BY DEF Spelled
<1>2. p \in Seq(STRING) /\ Len(p) = L - k /\ p[1] = path[k + 1]
    <2>1. \A n \in k + 1 .. L : path[n] \in STRING
        BY <1>1
    <2>2. /\ p \in Seq(STRING) /\ Len(p) = IF k + 1 <= L THEN L - (k + 1) + 1 ELSE 0
          /\ \A n \in 1 .. L - (k + 1) + 1 : p[n] = path[(k + 1) + n - 1]
        BY <1>1, <2>1, SubSeqProperties
    <2>3. (k + 1) + 1 - 1 = k + 1 /\ 1 \in 1 .. L - (k + 1) + 1 /\ L - (k + 1) + 1 = L - k /\ k + 1 <= L
        BY <1>1
    <2> HIDE DEF L, p
    <2> QED
        BY <2>2, <2>3
<1>3. 2 \in Nat \ {0} /\ 3 \in Nat \ {0}
    OBVIOUS
<1>4. \A m \in Nat \ {0} : SubSeq(p, m, L - k) = SubSeq(path, k + m, L)
    BY <1>1, RestOfRest
<1> HIDE DEF p
<1>5. p # <<>>
    BY <1>1, <1>2
<1>6. get_next_token(p).token = path[k + 1]
    BY <1>2 DEF get_next_token
<1> DEFINE Rest(l) ==
            /\ get_next_token(p).rest = SubSeq(path, l + 1, L)
            /\ l # k + 1 => l = k + 2 /\ path[k + 1] # "/" /\ path[l] = "/"
            /\ l = k + 1 /\ l # L => path[k + 1] = "/"
<1>7. ASSUME path[k + 1] = "/" PROVE \E l \in k + 1 .. L : Rest(l)
    <2>1. get_next_token(p).rest = Tail(p)
        BY <1>2, <1>7 DEF get_next_token
    <2>2. Tail(p) = SubSeq(p, 2, L - k)
        BY <1>2, <1>5, TailIsSubSeq
    <2>3. get_next_token(p).rest = SubSeq(path, k + 2, L)
        BY <1>4, <1>3, <2>1, <2>2, Zenon
    <2>4. k + 1 \in k + 1 .. L /\ (k + 1) + 1 = k + 2
        BY <1>1
    <2> QED
        BY <1>7, <2>3, <2>4
<1>8. ASSUME path[k + 1] # "/" PROVE \E l \in k + 1 .. L : Rest(l)
    <2>1. get_next_token(p).rest = SubSeq(p, 3, L - k)
        BY <1>2, <1>8 DEF get_next_token
    <2>2. get_next_token(p).rest = SubSeq(path, k + 3, L)
        BY <1>4, <1>3, <2>1, Zenon
    <2>3. CASE k + 1 = L
        <3>1. SubSeq(path, k + 3, L) = <<>> /\ SubSeq(path, (k + 1) + 1, L) = <<>>
            BY <1>1, <2>3, SubSeqEmpty
        <3>2. k + 1 \in k + 1 .. L
            BY <1>1
        <3> QED
            BY <2>2, <2>3, <3>1, <3>2
    <2>4. CASE k + 1 # L
        <3>1. path[k + 2] = "/"
            BY <1>1, <1>8, <2>4 DEF Spelled
        <3>2. k + 2 \in k + 1 .. L /\ k + 2 # k + 1 /\ (k + 2) + 1 = k + 3
            BY <1>1, <2>4
        <3> QED
            BY <1>8, <2>2, <3>1, <3>2
    <2> QED
        BY <2>3, <2>4
<1> QED
    BY <1>5, <1>6, <1>7, <1>8 DEF p, L

\* The walk has read the path up to k, and its stack leads to what that names.
Follows(w, at, path, mode, k) ==
    /\ w \in Walked /\ w.path = SubSeq(path, k + 1, Len(path))
    /\ ~w.found => at[Len(path)] \notin Directories /\ (mode = "OPEN" => at[Len(path)] = Nothing)
    /\ w.found /\ w.type = "FILE" =>
        mode = "OPEN" /\ k = Len(path) /\ at[k] \in Entries \ Directories /\ Peek(w.stack) = at[k]
    /\ w.found /\ w.type # "FILE" => StackOf(w.stack, at[k]) /\ (k # 0 => w.type = "DIR")

\* A token takes both further by as much.
LEMMA TokenFollows ==
    ASSUME StackSuffices, NEW from, NEW path, Spelled(path), NEW at, Reads(at, from, path),
           NEW mode \in {"OPEN", "CHDIR"}, NEW k \in 0 .. Len(path), NEW w,
           Follows(w, at, path, mode, k), w.found, w.path # <<>>
    PROVE  \E l \in k + 1 .. Len(path) : Follows(Token(w, mode), at, path, mode, l)
<1> DEFINE L == Len(path)
           t == path[k + 1]
           dir == at[k]
           s == w.stack
           e == find_dirent(t, FirstIn(dir))
           Gone == at[L] \notin Directories /\ (mode = "OPEN" => at[L] = Nothing)
<1>1. /\ L \in Nat /\ path \in Seq(STRING)
      /\ w \in Walked /\ s \in Stack
      /\ \A n \in 0 .. L : at[n] \in Places
      /\ \A n \in 1 .. L : at[n] = Named(at[n - 1], path[n])
    BY DEF Spelled, Follows, Walked, Reads
<1>2. k # L
    <2>1. SubSeq(path, L + 1, L) = <<>>
        BY <1>1, SubSeqEmpty
    <2> QED
        BY <2>1 DEF Follows
<1>3. k \in 0 .. L - 1
    BY <1>1, <1>2
<1>4. StackOf(s, dir)
    BY <1>2 DEF Follows
<1>5. dir \in Directories /\ Peek(s) = FirstIn(dir)
    BY <1>1, <1>4, StackTop
<1>6. get_next_token(w.path).token = t
    BY <1>3, TokenFacts DEF Follows
<1>7. PICK l \in k + 1 .. L :
        /\ get_next_token(w.path).rest = SubSeq(path, l + 1, L)
        /\ l # k + 1 => l = k + 2 /\ t # "/" /\ path[l] = "/"
        /\ l = k + 1 /\ l # L => t = "/"
    BY <1>3, TokenFacts DEF Follows
<1> DEFINE tail == SubSeq(path, l + 1, L)
           on == [w EXCEPT !.path = tail]
<1> HIDE DEF t, dir, s, e, L, Gone, tail
<1>8. at[l] = Named(dir, t)
    <2>1. k + 1 \in 1 .. L /\ (k + 1) - 1 = k
        BY <1>1, <1>3
    <2>2. at[k + 1] = Named(dir, t) /\ at[k + 1] \in Places
        BY <1>1, <2>1 DEF dir, t
    <2>3. CASE l = k + 1
        BY <2>2, <2>3
    <2>4. CASE l # k + 1
        <3>1. l \in 1 .. L /\ l - 1 = k + 1 /\ path[l] = "/"
            BY <1>1, <1>3, <1>7, <2>4
        <3>2. at[l] = Named(at[k + 1], "/")
            BY <1>1, <3>1
        <3> QED
            BY <2>2, <3>2, NamedType
    <2> QED
        BY <2>3, <2>4
<1>9. l \in 0 .. L /\ l # 0 /\ at[l] \in Places
    BY <1>1, <1>3
<1>10. Token(w, mode) \in Walked
    BY <1>1, TokenType
<1>11. Token(w, mode) =
        CASE t \in {"/", "."} -> [on EXCEPT !.type = "DIR"]
          [] t = ".." -> [on EXCEPT !.type = "DIR", !.stack = Pop(@)]
          [] OTHER ->
                IF e # 0 /\ image[e].dir
                THEN [on EXCEPT !.type = "DIR", !.stack = Push(@, image[e].first)]
                ELSE IF e # 0 /\ mode = "OPEN" /\ on.path = <<>>
                     THEN [on EXCEPT !.type = "FILE", !.stack = Push(@, e)]
                     ELSE [on EXCEPT !.found = FALSE]
    BY <1>5, <1>6, <1>7 DEF Token, e, s, tail, L
<1>12. on \in Walked /\ on.path = tail /\ on.stack = s /\ on.found
    <2>1. w.path \in Seq(STRING)
        BY <1>1 DEF Walked
    <2>2. tail \in Seq(STRING)
        BY <1>7, <2>1, RestType DEF tail
    <2> QED
        BY <1>1, <2>2 DEF Walked, s
<1> HIDE DEF on
<1>13. e \in EntryOrNone /\ (e # 0 => e \in Children(dir) /\ e \in Entries)
    BY <1>5, FindFacts, ChildrenFacts DEF e, EntryOrNone
<1> DEFINE Done(v) == Follows(v, at, path, mode, l)
<1>14. ASSUME NEW v \in Walked, v.path = tail, v.found, v.type = "DIR", StackOf(v.stack, at[l])
       PROVE  Done(v)
    BY <1>9, <1>14 DEF Follows, tail, L
<1>15. CASE t \in {"/", "."}
    <2> DEFINE v == [on EXCEPT !.type = "DIR"]
    <2>1. v \in Walked /\ v.path = tail /\ v.found /\ v.type = "DIR" /\ v.stack = s
        BY <1>12 DEF Walked
    <2>2. at[l] = dir
        BY <1>5, <1>8, <1>15 DEF Named, IsDir
    <2>3. Token(w, mode) = v
        BY <1>11, <1>15
    <2> HIDE DEF v
    <2>4. Done(v)
        BY <1>4, <1>14, <2>1, <2>2
    <2> QED
        BY <2>3, <2>4 DEF L
<1>16. CASE t = ".."
    <2> DEFINE v == [on EXCEPT !.type = "DIR", !.stack = Pop(@)]
    <2>1. Pop(s) \in Stack
        BY <1>1, StackFacts
    <2>2. v \in Walked /\ v.path = tail /\ v.found /\ v.type = "DIR" /\ v.stack = Pop(s)
        BY <1>12, <2>1 DEF Walked
    <2>3. StackOf(Pop(s), at[l])
        BY <1>1, <1>4, <1>8, <1>16, StackOfParent
    <2>4. Token(w, mode) = v
        BY <1>11, <1>16
    <2> HIDE DEF v
    <2>5. Done(v)
        BY <1>14, <2>2, <2>3
    <2> QED
        BY <2>4, <2>5 DEF L
<1>17. CASE t \notin {"/", ".", ".."}
    <2>1. at[l] = IF e = 0 THEN Nothing ELSE e
        BY <1>5, <1>8, <1>17, NamedFacts DEF e
    <2>2. CASE e # 0 /\ image[e].dir
        <3> DEFINE v == [on EXCEPT !.type = "DIR", !.stack = Push(@, image[e].first)]
        <3>1. e \in Directories /\ image[e].first \in Entries
            BY <1>13, <2>2, DirectoryFacts, DragonFsAssumption
        <3>2. Push(s, image[e].first) \in Stack
            BY <1>1, <3>1, StackFacts
        <3>3. v \in Walked /\ v.path = tail /\ v.found /\ v.type = "DIR" /\ v.stack = Push(s, image[e].first)
            BY <1>12, <3>2 DEF Walked
        <3>4. StackOf(Push(s, image[e].first), at[l])
            BY <1>1, <1>4, <1>13, <2>1, <2>2, <3>1, StackOfChild
        <3>5. Token(w, mode) = v
            BY <1>11, <1>17, <2>2
        <3> HIDE DEF v
        <3>6. Done(v)
            BY <1>14, <3>3, <3>4
        <3> QED
            BY <3>5, <3>6 DEF L
    <2>3. CASE e # 0 /\ ~image[e].dir /\ mode = "OPEN" /\ tail = <<>>
        <3> DEFINE v == [on EXCEPT !.type = "FILE", !.stack = Push(@, e)]
        <3>1. Push(s, e) \in Stack
            BY <1>1, <1>13, <2>3, StackFacts
        <3>2. v \in Walked /\ v.path = tail /\ v.found /\ v.type = "FILE" /\ v.stack = Push(s, e)
            BY <1>12, <3>1 DEF Walked
        <3>3. at[l] = e /\ e \in Entries \ Directories
            BY <1>13, <2>1, <2>3, DirectoryFacts
        <3>4. Peek(Push(s, e)) = e
            <4>1. Push(s, e) = Append(s, e)
                BY <1>1, <1>4, <1>13, <2>3, StackRoom DEF Push
            <4>2. s \in Seq(Entries)
                BY <1>1 DEF Stack
            <4>3. Last(Append(s, e)) = e /\ Append(s, e) # <<>>
                BY <1>13, <2>3, <4>2 DEF Last
            <4> QED
                BY <4>1, <4>3 DEF Peek
        <3>5. l = L
            <4>1. Len(tail) = 0
                BY <2>3
            <4>2. l < L => Len(tail) = L - l
                BY <1>1, <1>9 DEF tail
            <4> QED
                BY <1>1, <1>9, <4>1, <4>2
        <3>6. Token(w, mode) = v
            BY <1>11, <1>12, <1>17, <2>3
        <3> HIDE DEF v
        <3>7. Done(v)
            BY <2>3, <3>2, <3>3, <3>4, <3>5 DEF Follows, tail, L
        <3> QED
            BY <3>6, <3>7 DEF L
    <2>4. CASE e = 0 \/ (~image[e].dir /\ ~(mode = "OPEN" /\ tail = <<>>))
        <3> DEFINE v == [on EXCEPT !.found = FALSE]
        <3>1. v \in Walked /\ v.path = tail /\ ~v.found
            BY <1>12 DEF Walked
        <3>2. at[l] \notin Directories
            BY <1>13, <2>1, <2>4, DirectoryFacts
        <3>3. /\ at[L] \notin Directories
              /\ at[L] # Nothing => at[L] = at[l] /\ \A n \in l + 1 .. L : path[n] = "/"
            BY <1>1, <1>9, <3>2, OutsideStays DEF L
        <3>4. mode = "OPEN" => at[L] = Nothing
            <4>1. CASE e = 0
                BY <2>1, <3>3, <4>1
            <4>2. CASE tail # <<>>
                <5>1. l < L
                    <6>1. SubSeq(path, L + 1, L) = <<>>
                        BY <1>1, SubSeqEmpty
                    <6> QED
                        BY <1>1, <1>9, <4>2, <6>1 DEF tail
                <5>2. l = k + 2 /\ path[l] = "/"
                    BY <1>7, <1>17, <5>1
                <5>3. \E n \in l + 1 .. L : path[n] # "/"
                    <6>1. L - 1 \in 1 .. L - 1 /\ (L - 1) + 1 = L
                        BY <1>1, <1>9, <5>1
                    <6>2. path[L - 1] # "/" \/ path[L] # "/"
                        BY <6>1 DEF Spelled, L
                    <6>3. CASE l = L - 1
                        BY <1>1, <1>9, <5>1, <5>2, <6>2, <6>3
                    <6>4. CASE l # L - 1
                        BY <1>1, <1>9, <5>1, <6>2, <6>4
                    <6> QED
                        BY <6>3, <6>4
                <5> QED
                    BY <3>3, <5>3
            <4> QED
                BY <2>4, <4>1, <4>2
        <3>5. Token(w, mode) = v
            BY <1>11, <1>12, <1>17, <2>4
        <3> HIDE DEF v
        <3>6. Done(v)
            BY <3>1, <3>3, <3>4 DEF Follows, tail, L
        <3> QED
            BY <3>5, <3>6 DEF L
    <2> QED
        BY <2>2, <2>3, <2>4
<1> QED
    BY <1>15, <1>16, <1>17

\* A walk from a directory ends where the path leads from there.
LEMMA WalkEnds ==
    ASSUME StackSuffices, NEW s \in Stack, NEW from, StackOf(s, from), NEW path, Spelled(path),
           NEW mode \in {"OPEN", "CHDIR"}
    PROVE  LET w == recurse_path(s, path, mode)
               e == Names(from, path)
           IN  /\ w \in Walked
               /\ ~w.found => e \notin Directories /\ (mode = "OPEN" => e = Nothing)
               /\ w.found /\ w.type = "FILE" =>
                    mode = "OPEN" /\ e \in Entries \ Directories /\ Peek(w.stack) = e
               /\ w.found /\ w.type # "FILE" => w.type = "DIR" /\ e \in Directories /\ StackOf(w.stack, e)
<1> DEFINE L == Len(path)
           e == Names(from, path)
<1>1. L \in Nat /\ path \in Seq(STRING)
    BY DEF Spelled
<1>2. PICK w : Walks(w, s, path, mode) /\ recurse_path(s, path, mode) = w[L]
    BY <1>1, WalkFacts
<1>3. from \in Directories /\ from \in Places
    BY StackTop, DirectoryFacts DEF Places
<1>4. CASE path = <<>>
    <2>1. L = 0
        BY <1>4
    <2>2. 0 \in 0 .. L
        BY <2>1
    <2>3. w[0] \in Walked /\ w[0].found = (path # <<>>)
        BY <1>2, <2>2 DEF Walks
    <2>4. e = Nothing
        BY <1>4 DEF Names
    <2> HIDE DEF L, e
    <2>5. ~w[L].found /\ w[L] \in Walked
        BY <1>4, <2>1, <2>3
    <2> QED
        BY <1>2, <2>4, <2>5, DirectoryFacts DEF L, e
<1>5. CASE path # <<>>
    <2>1. PICK at : Reads(at, from, path) /\ e = at[L]
        BY <1>1, <1>3, <1>5, NamesFacts
    <2> DEFINE start == [stack |-> IF path[1] = "/" THEN <<>> ELSE s,
                         path |-> path, type |-> "ANY", found |-> TRUE]
               G == {n \in 0 .. L : \E k \in 0 .. L :
                        Follows(w[n], at, path, mode, k) /\ (w[n].found => n <= k)}
    <2>2. 0 \in G
        <3>1. w[0] = start
            BY <1>2, <1>5 DEF Walks
        <3>2. SubSeq(path, 0 + 1, L) = path
            BY <1>1, SubSeqFull
        <3>3. StackOf(start.stack, at[0])
            BY <2>1, StackOfRoot DEF Reads
        <3>4. start \in Walked
            BY <1>1, StackFacts DEF Walked
        <3>5. Follows(start, at, path, mode, 0)
            BY <3>2, <3>3, <3>4 DEF Follows
        <3> QED
            BY <1>1, <3>1, <3>5
    <2>3. ASSUME NEW n \in 1 .. L, n - 1 \in G PROVE n \in G
        <3>1. PICK k \in 0 .. L : Follows(w[n - 1], at, path, mode, k) /\ (w[n - 1].found => n - 1 <= k)
            BY <2>3
        <3>2. w[n] = IF ~w[n - 1].found \/ w[n - 1].path = <<>> THEN w[n - 1] ELSE Token(w[n - 1], mode)
            BY <1>2 DEF Walks
        <3>3. CASE ~w[n - 1].found
            BY <3>1, <3>2, <3>3
        <3>4. CASE w[n - 1].found /\ w[n - 1].path = <<>>
            <4>1. k = L
                <5>1. SubSeq(path, k + 1, L) = <<>>
                    BY <3>1, <3>4 DEF Follows
                <5>2. k < L => SubSeq(path, k + 1, L) # <<>>
                    <6>1. k < L => k \in 0 .. L - 1
                        BY <1>1
                    <6> QED
                        BY <6>1, TokenFacts
                <5> QED
                    BY <1>1, <5>1, <5>2
            <4> QED
                BY <1>1, <3>1, <3>2, <3>4, <4>1
        <3>5. CASE w[n - 1].found /\ w[n - 1].path # <<>>
            <4>1. PICK l \in k + 1 .. L : Follows(Token(w[n - 1], mode), at, path, mode, l)
                BY <2>1, <3>1, <3>5, TokenFollows
            <4>2. l \in 0 .. L /\ n <= l
                BY <1>1, <3>1, <3>5
            <4> QED
                BY <3>2, <3>5, <4>1, <4>2
        <3> QED
            BY <3>3, <3>4, <3>5
    <2>4. L \in G
        <3> HIDE DEF G
        <3>1. \A n \in 0 .. L : n \in G
            BY <1>1, <2>2, <2>3, Upward
        <3> QED
            BY <1>1, <3>1
    <2>5. PICK k \in 0 .. L : Follows(w[L], at, path, mode, k) /\ (w[L].found => L <= k)
        BY <2>4
    <2>6. w[L].found => k = L /\ L # 0
        BY <1>1, <1>5, <2>5
    <2>7. w[L].found /\ w[L].type # "FILE" => e \in Directories
        BY <2>1, <2>5, <2>6, StackTop DEF Follows, Walked
    <2> HIDE DEF L, e
    <2> QED
        BY <1>2, <2>1, <2>5, <2>6, <2>7 DEF Follows, L, e
<1> QED
    BY <1>4, <1>5

\* dfs_open finds the file that the path names, and nothing else.
LEMMA FileFacts ==
    ASSUME StackSuffices, NEW s \in Stack, NEW from, StackOf(s, from), NEW path, Spelled(path)
    PROVE  FileAt(s, path) = IF IsFile(Names(from, path)) THEN Names(from, path) ELSE 0
<1> DEFINE w == recurse_path(s, path, "OPEN")
           e == Names(from, path)
<1>1. /\ w \in Walked
      /\ ~w.found => e = Nothing
      /\ w.found /\ w.type = "FILE" => e \in Entries \ Directories /\ Peek(w.stack) = e
      /\ w.found /\ w.type # "FILE" => e \in Directories
    BY WalkEnds
<1>2. FileAt(s, path) = IF w.found /\ w.type = "FILE" THEN Peek(w.stack) ELSE 0
    BY DEF FileAt
<1>3. IsFile(e) <=> e \in Entries \ Directories
    BY DirectoryFacts DEF IsFile
<1> HIDE DEF w, e
<1>4. FileAt(s, path) = IF IsFile(e) THEN e ELSE 0
    BY <1>1, <1>2, <1>3, DirectoryFacts
<1> QED
    BY <1>4 DEF e

\* dfs_dir_findfirst finds the first entry of the directory that the path names.
LEMMA FirstFacts ==
    ASSUME StackSuffices, DirsOK, StackOf(directories, cwd), NEW path, Spelled(path)
    PROVE  FirstOf(path) = IF IsDir(Names(cwd, path)) THEN FirstIn(Names(cwd, path)) ELSE 0
<1> DEFINE w == recurse_path(directories, path, "OPEN")
           e == Names(cwd, path)
<1>1. /\ w \in Walked
      /\ ~w.found => e = Nothing
      /\ w.found /\ w.type = "FILE" => e \in Entries \ Directories
      /\ w.found /\ w.type # "FILE" => w.type = "DIR" /\ e \in Directories /\ StackOf(w.stack, e)
    BY WalkEnds DEF DirsOK
<1>2. FirstOf(path) = IF w.found /\ w.type = "DIR" THEN Peek(w.stack) ELSE 0
    BY DEF FirstOf
<1>3. w.found /\ w.type # "FILE" => Peek(w.stack) = FirstIn(e)
    BY <1>1, StackTop DEF Walked
<1> HIDE DEF w, e
<1>4. FirstOf(path) = IF e \in Directories THEN FirstIn(e) ELSE 0
    BY <1>1, <1>2, <1>3, DirectoryFacts
<1> QED
    BY <1>4 DEF e, IsDir

\* dfs_chdir goes where the path leads, if that is a directory.
LEMMA ChDirFacts ==
    ASSUME StackSuffices, DirsOK, StackOf(directories, cwd), NEW path, Spelled(path)
    PROVE  /\ ChDirFound(path) \in BOOLEAN
           /\ ChDirFound(path) <=> IsDir(Names(cwd, path))
           /\ ChDirFound(path) =>
                StackOf(recurse_path(directories, path, "CHDIR").stack, Names(cwd, path))
<1> DEFINE w == recurse_path(directories, path, "CHDIR")
           e == Names(cwd, path)
<1>1. /\ w \in Walked
      /\ ~w.found => e \notin Directories
      /\ ~(w.found /\ w.type = "FILE")
      /\ w.found /\ w.type # "FILE" => e \in Directories /\ StackOf(w.stack, e)
    BY WalkEnds DEF DirsOK
<1>2. w.found \in BOOLEAN
    BY <1>1 DEF Walked
<1> HIDE DEF w, e
<1>3. w.found \in BOOLEAN /\ (w.found <=> e \in Directories) /\ (w.found => StackOf(w.stack, e))
    BY <1>1, <1>2
<1> QED
    BY <1>3 DEF w, e, ChDirFound, IsDir

\* Two sets whose members go together, one of one with one of the other, are as large as each other.
LEMMA PairedOff ==
    ASSUME NEW n \in Nat, NEW D, NEW Busy \in SUBSET (1 .. n), NEW R,
           \A a \in D : \E k \in Busy : <<a, k>> \in R,
           \A k \in Busy : \E a \in D : <<a, k>> \in R,
           \A a, b \in D : \A k \in Busy : <<a, k>> \in R /\ <<b, k>> \in R => a = b,
           \A a \in D : \A k, l \in Busy : <<a, k>> \in R /\ <<a, l>> \in R => k = l
    PROVE  Cardinality(D) < n <=> Busy # 1 .. n
<1>1. /\ IsFiniteSet(1 .. n) /\ Cardinality(1 .. n) = n
      /\ IsFiniteSet(Busy) /\ Cardinality(Busy) <= n /\ Cardinality(Busy) \in Nat
      /\ Cardinality(Busy) = n => Busy = 1 .. n
    <2>1. IsFiniteSet(1 .. n) /\ Cardinality(1 .. n) = n
        BY FS_Interval
    <2>2. /\ IsFiniteSet(Busy) /\ Cardinality(Busy) <= Cardinality(1 .. n)
          /\ Cardinality(Busy) = Cardinality(1 .. n) => Busy = 1 .. n
        BY <2>1, FS_Subset
    <2> QED
        BY <2>1, <2>2, FS_CardinalityType
<1>2. IsFiniteSet(D) /\ Cardinality(D) <= Cardinality(Busy)
    <2> DEFINE f == [a \in D |-> CHOOSE k \in Busy : <<a, k>> \in R]
    <2>1. ASSUME NEW a \in D PROVE f[a] \in Busy /\ <<a, f[a]>> \in R
        <3>1. PICK k \in Busy : <<a, k>> \in R
            OBVIOUS
        <3>2. f[a] = CHOOSE l \in Busy : <<a, l>> \in R
            OBVIOUS
        <3> QED
            BY <3>1, <3>2, Zenon
    <2>2. f \in [D -> Busy]
        BY <2>1
    <2> HIDE DEF f
    <2>3. \A a, b \in D : f[a] = f[b] => a = b
        BY <2>1
    <2>4. f \in Injection(D, Busy)
        BY <2>2, <2>3 DEF Injection, IsInjective
    <2> QED
        BY <1>1, <2>4, FS_Injection
<1>3. Cardinality(Busy) <= Cardinality(D)
    <2> DEFINE g == [k \in Busy |-> CHOOSE a \in D : <<a, k>> \in R]
    <2>1. \A k \in Busy : g[k] \in D /\ <<g[k], k>> \in R
        OBVIOUS
    <2>2. g \in Injection(Busy, D)
        BY <2>1 DEF Injection, IsInjective
    <2> HIDE DEF g
    <2> QED
        BY <1>2, <2>2, FS_Injection
<1>4. Cardinality(D) \in Nat
    BY <1>2, FS_CardinalityType
<1> QED
    BY <1>1, <1>2, <1>3, <1>4

\* A file can be opened if the path leads to one and there is room for it.
LEMMA OpenLeads ==
    ASSUME StackSuffices, Room <=> FreeFiles # {},
           NEW s \in Stack, NEW from, StackOf(s, from), NEW path, Spelled(path)
    PROVE  /\ CanOpen(s, path) <=> IsFile(Names(from, path)) /\ Room
           /\ CanOpen(s, path) => FileAt(s, path) = Names(from, path)
<1>1. FileAt(s, path) = IF IsFile(Names(from, path)) THEN Names(from, path) ELSE 0
    BY FileFacts
<1>2. IsFile(Names(from, path)) => Names(from, path) # 0
    BY DragonFsAssumption DEF IsFile
<1> QED
    BY <1>1, <1>2 DEF CanOpen

-----------------------------------------------------------------------------
(* Files: the picture of what is open. *)

\* The number fd is in slot i of handles, its file in slot k of open_files.
Refers(fd, i, k) ==
    /\ handles[i] # Unused /\ handles[i].fileno = fd
    /\ filesystems[handles[i].fs_mapping] = opened[fd].prefix /\ opened[fd].prefix # NoPrefix
    /\ open_files[k] # NoFile /\ open_files[k].handle = handles[i].handle
    /\ open_files[k].start = opened[fd].file /\ open_files[k].loc = opened[fd].pos

\* Every number that is open in the picture refers to its file, every open file has such a number.
PictureOK ==
    /\ DOMAIN opened \subseteq 3 .. fileno - 1
    /\ \A fd \in DOMAIN opened : opened[fd] \in [file : Entries, pos : Nat, prefix : Mounts]
    /\ \A fd \in DOMAIN opened :
        \E i \in 1 .. MAX_OPEN_HANDLES, k \in 1 .. MAX_OPEN_FILES : Refers(fd, i, k)
    /\ \A k \in 1 .. MAX_OPEN_FILES : open_files[k] # NoFile =>
        \E i \in 1 .. MAX_OPEN_HANDLES :
            handles[i] # Unused /\ handles[i].handle = open_files[k].handle
                /\ handles[i].fileno \in DOMAIN opened

\* Handles that are open tell the numbers apart.
LEMMA HandleFacts ==
    ASSUME TablesOK
    PROVE  /\ \A k \in 1 .. MAX_OPEN_FILES : open_files[k] # NoFile =>
                open_files[k] \in OpenFileType /\ FileOK(open_files[k])
                    /\ open_files[k].handle \in Nat \ {0} /\ open_files[k].handle # Missing
           /\ \A k \in 1 .. MAX_OPEN_FILES : open_files[k] = NoFile <=> open_files[k].handle = 0
           /\ \A i \in 1 .. MAX_OPEN_HANDLES : handles[i] # Unused =>
                handles[i] \in HandleType /\ handles[i].fileno \in 3 .. fileno - 1
           /\ \A i \in 1 .. MAX_OPEN_HANDLES : handles[i] = Unused <=> handles[i].fileno = 0
           /\ \A i, j \in 1 .. MAX_OPEN_HANDLES : handles[i] # Unused /\ handles[j] # Unused =>
                /\ handles[i].fileno = handles[j].fileno => i = j
                /\ \A k \in 1 .. MAX_OPEN_FILES :
                    open_files[k] # NoFile /\ handles[i].handle = open_files[k].handle
                        /\ handles[j].handle = open_files[k].handle => i = j
           /\ \A k, l \in 1 .. MAX_OPEN_FILES : open_files[k] # NoFile /\ open_files[l] # NoFile
                /\ open_files[k].handle = open_files[l].handle => k = l
<1>1. \A k \in 1 .. MAX_OPEN_FILES : open_files[k] # NoFile =>
                open_files[k] \in OpenFileType /\ FileOK(open_files[k])
                    /\ open_files[k].handle \in Nat \ {0} /\ open_files[k].handle # Missing
    BY DEF TablesOK, OpenFilesOK, OpenFileType, Missing
<1>2. \A k \in 1 .. MAX_OPEN_FILES : open_files[k] = NoFile <=> open_files[k].handle = 0
    BY <1>1 DEF NoFile
<1>3. \A i \in 1 .. MAX_OPEN_HANDLES : handles[i] # Unused =>
                handles[i] \in HandleType /\ handles[i].fileno \in 3 .. fileno - 1
    BY DEF TablesOK, HandlesOK
<1>4. \A i \in 1 .. MAX_OPEN_HANDLES : handles[i] = Unused <=> handles[i].fileno = 0
    BY <1>3 DEF Unused
<1>5. \A i, j \in 1 .. MAX_OPEN_HANDLES : handles[i] # Unused /\ handles[j] # Unused =>
                /\ handles[i].fileno = handles[j].fileno => i = j
                /\ \A k \in 1 .. MAX_OPEN_FILES :
                    open_files[k] # NoFile /\ handles[i].handle = open_files[k].handle
                        /\ handles[j].handle = open_files[k].handle => i = j
    BY <1>1 DEF TablesOK, HandlesOK
<1>6. \A k, l \in 1 .. MAX_OPEN_FILES : open_files[k] # NoFile /\ open_files[l] # NoFile
                /\ open_files[k].handle = open_files[l].handle => k = l
    BY DEF TablesOK, OpenFilesOK
<1> QED
    BY <1>1, <1>2, <1>3, <1>4, <1>5, <1>6

\* newlib finds a number that it has given out.
LEMMA NumberFound ==
    ASSUME TablesOK, NEW i \in 1 .. MAX_OPEN_HANDLES, handles[i] # Unused
    PROVE  /\ HandleOf(handles[i].fileno) = handles[i].handle
           /\ Known(handles[i].fileno) <=> filesystems[handles[i].fs_mapping] # NoPrefix
<1> DEFINE fd == handles[i].fileno
           at == CHOOSE j \in DOMAIN handles : handles[j].fileno = fd
<1>1. DOMAIN handles = 1 .. MAX_OPEN_HANDLES
    BY DEF TablesOK, HandlesOK
<1>2. fd # 0
    BY HandleFacts
<1>3. \A j \in 1 .. MAX_OPEN_HANDLES : handles[j].fileno = fd => j = i
    BY <1>2, HandleFacts
<1>4. at = i
    BY <1>1, <1>3
<1> QED
    BY <1>1, <1>3, <1>4 DEF HandleOf, Known

\* DragonFs finds a handle that is open.
LEMMA HandleFound ==
    ASSUME TablesOK, NEW k \in 1 .. MAX_OPEN_FILES, open_files[k] # NoFile
    PROVE  /\ OpenHandle(open_files[k].handle) /\ SlotOf(open_files[k].handle) = k
           /\ FileOf(open_files[k].handle) = open_files[k]
<1> DEFINE h == open_files[k].handle
<1>1. DOMAIN open_files = 1 .. MAX_OPEN_FILES
    BY DEF TablesOK, OpenFilesOK
<1>2. h # 0
    BY HandleFacts
<1>3. \A l \in 1 .. MAX_OPEN_FILES : open_files[l].handle = h => l = k
    BY <1>2, HandleFacts
<1> QED
    BY <1>1, <1>2, <1>3 DEF OpenHandle, SlotOf, FileOf

\* A number that refers to a file leads there.
LEMMA OpenedFacts ==
    ASSUME TablesOK, NEW fd, NEW i \in 1 .. MAX_OPEN_HANDLES, NEW k \in 1 .. MAX_OPEN_FILES,
           Refers(fd, i, k)
    PROVE  /\ Known(fd) /\ OpenHandle(HandleOf(fd)) /\ HandleOf(fd) = handles[i].handle
           /\ SlotOf(HandleOf(fd)) = k /\ FileOf(HandleOf(fd)) = open_files[k]
<1>1. HandleOf(fd) = handles[i].handle /\ Known(fd)
    BY NumberFound DEF Refers
<1>2. open_files[k] # NoFile /\ open_files[k].handle = handles[i].handle
    BY DEF Refers
<1> QED
    BY <1>1, <1>2, HandleFound

\* One that is closed or was never open leads nowhere.
LEMMA UnopenedFacts ==
    ASSUME TablesOK, PictureOK, NEW fd \in Numbers, fd \notin DOMAIN opened, Known(fd)
    PROVE  ~OpenHandle(HandleOf(fd))
<1> SUFFICES ASSUME OpenHandle(HandleOf(fd)) PROVE FALSE
    OBVIOUS
<1>1. DOMAIN handles = 1 .. MAX_OPEN_HANDLES /\ DOMAIN open_files = 1 .. MAX_OPEN_FILES /\ fd # 0
    BY DEF TablesOK, HandlesOK, OpenFilesOK, Numbers
<1>2. PICK i \in 1 .. MAX_OPEN_HANDLES : handles[i].fileno = fd
    BY <1>1 DEF Known
<1>3. handles[i] # Unused
    BY <1>1, <1>2, HandleFacts
<1>4. HandleOf(fd) = handles[i].handle
    BY <1>2, <1>3, NumberFound
<1>5. PICK k \in 1 .. MAX_OPEN_FILES : open_files[k].handle = handles[i].handle /\ handles[i].handle # 0
    BY <1>1, <1>4 DEF OpenHandle
<1>6. open_files[k] # NoFile
    BY <1>5, HandleFacts
<1>7. PICK j \in 1 .. MAX_OPEN_HANDLES : handles[j] # Unused /\ handles[j].handle = open_files[k].handle
                /\ handles[j].fileno \in DOMAIN opened
    BY <1>6 DEF PictureOK
<1>8. i = j
    BY <1>3, <1>5, <1>6, <1>7, HandleFacts
<1> QED
    BY <1>2, <1>7, <1>8

\* There is room for a file exactly if the table has a free slot.
LEMMA RoomFacts ==
    ASSUME TablesOK, PictureOK
    PROVE  Room <=> FreeFiles # {}
<1> DEFINE D == DOMAIN opened
           Busy == {k \in 1 .. MAX_OPEN_FILES : open_files[k] # NoFile}
           R == {ak \in D \X Busy : \E i \in 1 .. MAX_OPEN_HANDLES : Refers(ak[1], i, ak[2])}
<1>1. DOMAIN open_files = 1 .. MAX_OPEN_FILES /\ MAX_OPEN_FILES \in Nat
    BY DragonFsAssumption DEF TablesOK, OpenFilesOK
<1>2. \A a \in D : \A k \in Busy : <<a, k>> \in R <=> \E i \in 1 .. MAX_OPEN_HANDLES : Refers(a, i, k)
    OBVIOUS
<1>3. ASSUME NEW a \in D PROVE \E k \in Busy : <<a, k>> \in R
    <2>1. PICK i \in 1 .. MAX_OPEN_HANDLES, k \in 1 .. MAX_OPEN_FILES : Refers(a, i, k)
        BY DEF PictureOK
    <2> QED
        BY <1>2, <2>1 DEF Refers
<1>4. ASSUME NEW k \in Busy PROVE \E a \in D : <<a, k>> \in R
    <2>1. PICK i \in 1 .. MAX_OPEN_HANDLES :
            handles[i] # Unused /\ handles[i].handle = open_files[k].handle /\ handles[i].fileno \in D
        BY DEF PictureOK
    <2>2. PICK a \in D : a = handles[i].fileno
        BY <2>1
    <2>3. PICK j \in 1 .. MAX_OPEN_HANDLES, l \in 1 .. MAX_OPEN_FILES : Refers(a, j, l)
        BY DEF PictureOK
    <2>4. i = j
        BY <2>1, <2>2, <2>3, HandleFacts DEF Refers
    <2>5. k = l
        BY <2>1, <2>3, <2>4, HandleFacts DEF Refers
    <2> QED
        BY <1>2, <2>3, <2>5
<1>5. ASSUME NEW a \in D, NEW b \in D, NEW k \in Busy, <<a, k>> \in R, <<b, k>> \in R PROVE a = b
    <2>1. PICK i \in 1 .. MAX_OPEN_HANDLES : Refers(a, i, k)
        BY <1>2, <1>5
    <2>2. PICK j \in 1 .. MAX_OPEN_HANDLES : Refers(b, j, k)
        BY <1>2, <1>5
    <2>3. i = j
        BY <2>1, <2>2, HandleFacts DEF Refers
    <2> QED
        BY <2>1, <2>2, <2>3 DEF Refers
<1>6. ASSUME NEW a \in D, NEW k \in Busy, NEW l \in Busy, <<a, k>> \in R, <<a, l>> \in R PROVE k = l
    <2>1. PICK i \in 1 .. MAX_OPEN_HANDLES : Refers(a, i, k)
        BY <1>2, <1>6
    <2>2. PICK j \in 1 .. MAX_OPEN_HANDLES : Refers(a, j, l)
        BY <1>2, <1>6
    <2>3. i = j
        BY <2>1, <2>2, HandleFacts DEF Refers
    <2> QED
        BY <2>1, <2>2, <2>3, HandleFacts DEF Refers
<1>7. Busy \in SUBSET (1 .. MAX_OPEN_FILES) /\ FreeFiles = (1 .. MAX_OPEN_FILES) \ Busy
    BY <1>1 DEF FreeFiles
<1> HIDE DEF D, Busy, R
<1>8. Cardinality(D) < MAX_OPEN_FILES <=> Busy # 1 .. MAX_OPEN_FILES
    BY <1>1, <1>3, <1>4, <1>5, <1>6, <1>7, PairedOff
<1> QED
    BY <1>7, <1>8 DEF Room, D

\* A file and a place in the picture.
PlaceType == [file : Entries, pos : Nat, prefix : Mounts]

\* The picture stays right when nothing of it moves but free mounts.
LEMMA PictureSame ==
    ASSUME TablesOK, PictureOK, UNCHANGED <<open_files, handles, fileno, opened>>,
           \A m \in 1 .. MAX_FILESYSTEMS : filesystems[m] # NoPrefix => filesystems'[m] = filesystems[m]
    PROVE  PictureOK'
<1>1. ASSUME NEW fd \in DOMAIN opened, NEW i \in 1 .. MAX_OPEN_HANDLES, NEW k \in 1 .. MAX_OPEN_FILES,
             Refers(fd, i, k)
      PROVE  Refers(fd, i, k)'
    <2>1. handles[i].fs_mapping \in 1 .. MAX_FILESYSTEMS
        BY <1>1, HandleFacts DEF Refers, HandleType
    <2> QED
        BY <1>1, <2>1 DEF Refers
<1>2. \A fd \in DOMAIN opened' :
        \E i \in 1 .. MAX_OPEN_HANDLES, k \in 1 .. MAX_OPEN_FILES : Refers(fd, i, k)'
    BY <1>1 DEF PictureOK
<1>3. /\ DOMAIN opened' \subseteq 3 .. fileno' - 1
      /\ \A fd \in DOMAIN opened' : opened'[fd] \in [file : Entries, pos : Nat, prefix : Mounts]
      /\ \A k \in 1 .. MAX_OPEN_FILES : open_files'[k] # NoFile =>
            \E i \in 1 .. MAX_OPEN_HANDLES :
                handles'[i] # Unused /\ handles'[i].handle = open_files'[k].handle
                    /\ handles'[i].fileno \in DOMAIN opened'
    BY DEF PictureOK
<1> QED
    BY <1>2, <1>3 DEF PictureOK

\* A file whose place moves is the one its number refers to.
LEMMA PlaceMoved ==
    ASSUME TablesOK, PictureOK, NEW fd \in DOMAIN opened,
           NEW i \in 1 .. MAX_OPEN_HANDLES, NEW k \in 1 .. MAX_OPEN_FILES, Refers(fd, i, k),
           NEW f \in OpenFileType, f.handle = open_files[k].handle, f.start = open_files[k].start,
           open_files' = [open_files EXCEPT ![k] = f], opened' = [opened EXCEPT ![fd].pos = f.loc],
           UNCHANGED newlib
    PROVE  PictureOK'
<1>1. /\ DOMAIN opened' = DOMAIN opened
      /\ \A gd \in DOMAIN opened : gd # fd => opened'[gd] = opened[gd]
      /\ opened'[fd] = [opened[fd] EXCEPT !.pos = f.loc] /\ opened[fd] \in PlaceType
    BY DEF PictureOK, PlaceType
<1>2. /\ opened'[fd] \in PlaceType /\ opened'[fd].pos = f.loc
      /\ opened'[fd].file = opened[fd].file /\ opened'[fd].prefix = opened[fd].prefix
    BY <1>1 DEF PlaceType, OpenFileType
<1>3. DOMAIN open_files = 1 .. MAX_OPEN_FILES /\ f # NoFile /\ open_files[k] # NoFile
    BY DEF TablesOK, OpenFilesOK, OpenFileType, NoFile, Refers
<1>4. open_files'[k] = f /\ \A l \in 1 .. MAX_OPEN_FILES : l # k => open_files'[l] = open_files[l]
    BY <1>3
<1>5. handles' = handles /\ filesystems' = filesystems /\ fileno' = fileno
    BY DEF newlib
<1>6. Refers(fd, i, k)'
    BY <1>2, <1>3, <1>4, <1>5 DEF Refers
<1>7. ASSUME NEW gd \in DOMAIN opened, gd # fd, NEW j \in 1 .. MAX_OPEN_HANDLES,
             NEW l \in 1 .. MAX_OPEN_FILES, Refers(gd, j, l)
      PROVE  Refers(gd, j, l)'
    <2>1. l # k
        <3>1. SUFFICES ASSUME l = k PROVE FALSE
            OBVIOUS
        <3>2. i = j
            BY <1>7, <3>1, HandleFacts DEF Refers
        <3> QED
            BY <1>7, <3>2 DEF Refers
    <2> QED
        BY <1>1, <1>4, <1>5, <1>7, <2>1 DEF Refers
<1>8. \A gd \in DOMAIN opened' :
        \E j \in 1 .. MAX_OPEN_HANDLES, l \in 1 .. MAX_OPEN_FILES : Refers(gd, j, l)'
    <2> TAKE gd \in DOMAIN opened'
    <2>1. CASE gd = fd
        BY <1>6, <2>1
    <2>2. CASE gd # fd
        <3>1. PICK j \in 1 .. MAX_OPEN_HANDLES, l \in 1 .. MAX_OPEN_FILES : Refers(gd, j, l)
            BY <1>1 DEF PictureOK
        <3> QED
            BY <1>1, <1>7, <2>2, <3>1
    <2> QED
        BY <2>1, <2>2
<1>9. \A gd \in DOMAIN opened' : opened'[gd] \in [file : Entries, pos : Nat, prefix : Mounts]
    BY <1>1, <1>2 DEF PictureOK, PlaceType
<1>10. \A l \in 1 .. MAX_OPEN_FILES : open_files'[l] # NoFile =>
            \E j \in 1 .. MAX_OPEN_HANDLES :
                handles'[j] # Unused /\ handles'[j].handle = open_files'[l].handle
                    /\ handles'[j].fileno \in DOMAIN opened'
    <2>1. \A l \in 1 .. MAX_OPEN_FILES : open_files'[l] # NoFile =>
            open_files[l] # NoFile /\ open_files'[l].handle = open_files[l].handle
        BY <1>3, <1>4
    <2> QED
        BY <1>1, <1>5, <2>1 DEF PictureOK
<1>11. DOMAIN opened' \subseteq 3 .. fileno' - 1
    BY <1>1, <1>5 DEF PictureOK
<1> QED
    BY <1>8, <1>9, <1>10, <1>11 DEF PictureOK

\* What is closed is closed in both, and nothing else.
LEMMA SomeClosed ==
    ASSUME TablesOK, PictureOK, NEW D \in SUBSET DOMAIN opened,
           opened' = Restrict(opened, D), UNCHANGED <<handles, fileno>>,
           \A fd \in D : \A i \in 1 .. MAX_OPEN_HANDLES, k \in 1 .. MAX_OPEN_FILES :
                Refers(fd, i, k) =>
                    /\ open_files'[k] = open_files[k]
                    /\ filesystems'[handles[i].fs_mapping] = filesystems[handles[i].fs_mapping],
           \A k \in 1 .. MAX_OPEN_FILES : open_files'[k] # NoFile =>
                /\ open_files'[k] = open_files[k]
                /\ \A i \in 1 .. MAX_OPEN_HANDLES :
                    handles[i] # Unused /\ handles[i].handle = open_files[k].handle
                        /\ handles[i].fileno \in DOMAIN opened => handles[i].fileno \in D
    PROVE  PictureOK'
<1>1. DOMAIN opened' = D /\ \A fd \in D : opened'[fd] = opened[fd]
    BY DEF Restrict
<1>2. ASSUME NEW fd \in D
      PROVE  \E i \in 1 .. MAX_OPEN_HANDLES, k \in 1 .. MAX_OPEN_FILES : Refers(fd, i, k)'
    <2>1. PICK i \in 1 .. MAX_OPEN_HANDLES, k \in 1 .. MAX_OPEN_FILES : Refers(fd, i, k)
        BY DEF PictureOK
    <2>2. /\ open_files'[k] = open_files[k]
          /\ filesystems'[handles[i].fs_mapping] = filesystems[handles[i].fs_mapping]
        BY <2>1
    <2>3. Refers(fd, i, k)'
        BY <1>1, <2>1, <2>2 DEF Refers
    <2> QED
        BY <2>3
<1>3. ASSUME NEW k \in 1 .. MAX_OPEN_FILES, open_files'[k] # NoFile
      PROVE  \E i \in 1 .. MAX_OPEN_HANDLES :
                handles'[i] # Unused /\ handles'[i].handle = open_files'[k].handle
                    /\ handles'[i].fileno \in DOMAIN opened'
    <2>1. open_files'[k] = open_files[k] /\ open_files[k] # NoFile
        BY <1>3
    <2>2. PICK i \in 1 .. MAX_OPEN_HANDLES : handles[i] # Unused /\ handles[i].handle = open_files[k].handle
                    /\ handles[i].fileno \in DOMAIN opened
        BY <2>1 DEF PictureOK
    <2> QED
        BY <1>1, <1>3, <2>1, <2>2
<1>4. /\ DOMAIN opened' \subseteq 3 .. fileno' - 1
      /\ \A fd \in DOMAIN opened' : opened'[fd] \in [file : Entries, pos : Nat, prefix : Mounts]
    BY <1>1 DEF PictureOK
<1> QED
    BY <1>1, <1>2, <1>3, <1>4 DEF PictureOK

\* A number that is taken for nothing refers to nothing.
LEMMA NumberTaken ==
    ASSUME TablesOK, PictureOK, NEW i \in 1 .. MAX_OPEN_HANDLES, NEW h \in HandleType,
           handles[i] = Unused, handles' = [handles EXCEPT ![i] = h], fileno' = fileno + 1,
           UNCHANGED <<open_files, filesystems, opened>>
    PROVE  PictureOK'
<1>1. DOMAIN handles = 1 .. MAX_OPEN_HANDLES /\ fileno \in Nat
    BY DEF TablesOK, HandlesOK
<1>2. \A j \in 1 .. MAX_OPEN_HANDLES : handles[j] # Unused => handles'[j] = handles[j]
    BY <1>1
<1>3. ASSUME NEW fd, NEW j \in 1 .. MAX_OPEN_HANDLES, NEW k \in 1 .. MAX_OPEN_FILES, Refers(fd, j, k)
      PROVE  Refers(fd, j, k)'
    BY <1>2, <1>3 DEF Refers
<1>4. \A fd \in DOMAIN opened' :
        \E j \in 1 .. MAX_OPEN_HANDLES, k \in 1 .. MAX_OPEN_FILES : Refers(fd, j, k)'
    BY <1>3 DEF PictureOK
<1>5. \A k \in 1 .. MAX_OPEN_FILES : open_files'[k] # NoFile =>
            \E j \in 1 .. MAX_OPEN_HANDLES :
                handles'[j] # Unused /\ handles'[j].handle = open_files'[k].handle
                    /\ handles'[j].fileno \in DOMAIN opened'
    <2> TAKE k \in 1 .. MAX_OPEN_FILES
    <2> HAVE open_files'[k] # NoFile
    <2>1. PICK j \in 1 .. MAX_OPEN_HANDLES : handles[j] # Unused /\ handles[j].handle = open_files[k].handle
                    /\ handles[j].fileno \in DOMAIN opened
        BY DEF PictureOK
    <2> QED
        BY <1>2, <2>1
<1>6. DOMAIN opened' \subseteq 3 .. fileno' - 1
    BY <1>1 DEF PictureOK
<1>7. \A fd \in DOMAIN opened' : opened'[fd] \in [file : Entries, pos : Nat, prefix : Mounts]
    BY DEF PictureOK
<1> QED
    BY <1>4, <1>5, <1>6, <1>7 DEF PictureOK

\* A number that is taken for a file refers to it.
LEMMA NumberOpened ==
    ASSUME TablesOK, PictureOK, NEW i \in 1 .. MAX_OPEN_HANDLES, NEW h \in HandleType,
           handles[i] = Unused, h # Unused, handles' = [handles EXCEPT ![i] = h],
           h.fileno = fileno, fileno' = fileno + 1, UNCHANGED filesystems,
           NEW k \in 1 .. MAX_OPEN_FILES, NEW f \in OpenFileType, open_files[k] = NoFile,
           open_files' = [open_files EXCEPT ![k] = f], f.handle = h.handle, f.loc = 0,
           NEW p \in Mounts, filesystems[h.fs_mapping] = p, NowOpen(fileno, f.start, p)
    PROVE  PictureOK'
<1>1. DOMAIN handles = 1 .. MAX_OPEN_HANDLES /\ fileno \in Nat /\ fileno >= 3
    BY DEF TablesOK, HandlesOK
<1>2. DOMAIN open_files = 1 .. MAX_OPEN_FILES /\ f # NoFile
    BY DEF TablesOK, OpenFilesOK, OpenFileType, NoFile
<1>3. handles'[i] = h /\ \A j \in 1 .. MAX_OPEN_HANDLES : handles[j] # Unused => handles'[j] = handles[j]
    BY <1>1
<1>4. open_files'[k] = f /\ \A l \in 1 .. MAX_OPEN_FILES : l # k => open_files'[l] = open_files[l]
    BY <1>2
<1>5. DOMAIN opened \subseteq 3 .. fileno - 1 /\ fileno \notin DOMAIN opened
    BY <1>1 DEF PictureOK
<1>6. /\ DOMAIN opened' = DOMAIN opened \cup {fileno}
      /\ opened'[fileno] = [file |-> f.start, pos |-> 0, prefix |-> p]
      /\ \A fd \in DOMAIN opened : opened'[fd] = opened[fd]
    BY <1>5 DEF NowOpen
<1>7. PICK gd : gd = fileno
    OBVIOUS
<1>8. Refers(gd, i, k)'
    BY <1>2, <1>3, <1>4, <1>6, <1>7, NewlibAssumption DEF Refers
<1>9. ASSUME NEW fd \in DOMAIN opened
      PROVE  \E j \in 1 .. MAX_OPEN_HANDLES, l \in 1 .. MAX_OPEN_FILES : Refers(fd, j, l)'
    <2>1. PICK j \in 1 .. MAX_OPEN_HANDLES, l \in 1 .. MAX_OPEN_FILES : Refers(fd, j, l)
        BY DEF PictureOK
    <2>2. Refers(fd, j, l)'
        BY <1>3, <1>4, <1>6, <2>1 DEF Refers
    <2> QED
        BY <2>2
<1>10. \A l \in 1 .. MAX_OPEN_FILES : open_files'[l] # NoFile =>
            \E j \in 1 .. MAX_OPEN_HANDLES :
                handles'[j] # Unused /\ handles'[j].handle = open_files'[l].handle
                    /\ handles'[j].fileno \in DOMAIN opened'
    <2> TAKE l \in 1 .. MAX_OPEN_FILES
    <2> HAVE open_files'[l] # NoFile
    <2>1. CASE l = k
        BY <1>3, <1>4, <1>6, <2>1
    <2>2. CASE l # k
        <3>1. PICK j \in 1 .. MAX_OPEN_HANDLES : handles[j] # Unused
                    /\ handles[j].handle = open_files[l].handle /\ handles[j].fileno \in DOMAIN opened
            BY <1>4, <2>2 DEF PictureOK
        <3> QED
            BY <1>3, <1>4, <1>6, <2>2, <3>1
    <2> QED
        BY <2>1, <2>2
<1>11. DOMAIN opened' \subseteq 3 .. fileno' - 1
    BY <1>1, <1>5, <1>6
<1>12. ASSUME NEW fd \in DOMAIN opened' PROVE opened'[fd] \in [file : Entries, pos : Nat, prefix : Mounts]
    <2>1. CASE fd = fileno
        BY <1>6, <2>1 DEF OpenFileType
    <2>2. CASE fd \in DOMAIN opened
        BY <1>6, <2>2 DEF PictureOK
    <2> QED
        BY <1>6, <2>1, <2>2
<1>13. \A fd \in DOMAIN opened' :
        \E j \in 1 .. MAX_OPEN_HANDLES, l \in 1 .. MAX_OPEN_FILES : Refers(fd, j, l)'
    BY <1>6, <1>7, <1>8, <1>9
<1> QED
    BY <1>10, <1>11, <1>12, <1>13 DEF PictureOK

-----------------------------------------------------------------------------
(* Files: the calls of the client that uses them. *)

PictureHolds == right /\ PictureOK

\* The bytes due are those from the place on.
LEMMA DueFacts ==
    ASSUME TablesOK, NEW fd, NEW i \in 1 .. MAX_OPEN_HANDLES, NEW k \in 1 .. MAX_OPEN_FILES,
           Refers(fd, i, k), NEW n \in Nat
    PROVE  /\ Due(opened[fd], n) = Bytes(open_files[k], n)
           /\ Len(Due(opened[fd], n)) = ToRead(open_files[k], n)
<1> DEFINE f == open_files[k]
<1>1. f \in OpenFileType /\ FileOK(f) /\ f.start = opened[fd].file /\ f.loc = opened[fd].pos
    BY HandleFacts DEF Refers
<1>2. f.loc \in Nat /\ f.size \in Nat /\ f.loc <= f.size /\ f.size = image[opened[fd].file].size
    BY <1>1 DEF OpenFileType, FileOK
<1> HIDE DEF f
<1>3. Within(n, f.size - f.loc) = ToRead(f, n)
    BY <1>2 DEF Within, ToRead
<1>4. Due(opened[fd], n) = [x \in 1 .. ToRead(f, n) |-> Byte(f.start, f.loc + x - 1)]
    BY <1>1, <1>2, <1>3 DEF Due
<1>5. Bytes(f, n) = [x \in 1 .. ToRead(f, n) |-> Byte(f.start, f.loc + x - 1)]
    BY <1>1, ReadFacts, Zenon
<1>6. ToRead(f, n) \in Nat
    BY <1>2 DEF ToRead
<1>7. Len([x \in 1 .. ToRead(f, n) |-> Byte(f.start, f.loc + x - 1)]) = ToRead(f, n)
    <2> DEFINE m == ToRead(f, n)
               g == [x \in 1 .. m |-> Byte(f.start, f.loc + x - 1)]
    <2>1. m \in Nat
        BY <1>6
    <2> HIDE DEF m
    <2>2. g \in [1 .. m -> {g[x] : x \in 1 .. m}]
        OBVIOUS
    <2> HIDE DEF g
    <2>3. Len(g) = m
        BY <2>1, <2>2, LengthOf
    <2> QED
        BY <2>3 DEF g, m
<1> QED
    BY <1>4, <1>5, <1>7 DEF f

\* read: the bytes and the new place are those of the picture.
LEMMA ReadHolds ==
    ASSUME TablesOK, PictureHolds, ReadFile
    PROVE  PictureHolds'
<1>1. PICK fd \in Numbers, n \in Counts :
        /\ read(fd, n)
        /\ Answered(BytesRead(fd, n), IF fd \in DOMAIN opened THEN Due(opened[fd], n) ELSE EBAD)
        /\ opened' = IF fd \in DOMAIN opened
                     THEN [opened EXCEPT ![fd].pos = @ + Len(Due(opened[fd], n))] ELSE opened
    BY DEF ReadFile
<1>2. n \in Nat /\ UNCHANGED newlib
    BY <1>1, FilesAssumption DEF read
<1>3. CASE fd \in DOMAIN opened
    <2>1. PICK i \in 1 .. MAX_OPEN_HANDLES, k \in 1 .. MAX_OPEN_FILES : Refers(fd, i, k)
        BY <1>3 DEF PictureHolds, PictureOK
    <2>2. /\ Known(fd) /\ OpenHandle(HandleOf(fd)) /\ HandleOf(fd) = handles[i].handle
          /\ SlotOf(HandleOf(fd)) = k /\ FileOf(HandleOf(fd)) = open_files[k]
        BY <2>1, OpenedFacts
    <2> DEFINE f == AfterRead(open_files[k], n)
    <2>3. open_files[k] \in OpenFileType /\ FileOK(open_files[k])
        BY <2>1, HandleFacts DEF Refers
    <2>4. /\ f \in OpenFileType /\ f.handle = open_files[k].handle /\ f.start = open_files[k].start
          /\ f.loc = open_files[k].loc + ToRead(open_files[k], n)
        BY <1>2, <2>3, ReadFacts
    <2>5. open_files' = [open_files EXCEPT ![k] = f]
        BY <1>1, <2>2 DEF read, Read
    <2>6. opened' = [opened EXCEPT ![fd].pos = f.loc]
        <3>1. Len(Due(opened[fd], n)) = ToRead(open_files[k], n) /\ open_files[k].loc = opened[fd].pos
            BY <1>2, <2>1, DueFacts DEF Refers
        <3> HIDE DEF f
        <3> QED
            BY <1>1, <1>3, <2>4, <3>1
    <2> HIDE DEF f
    <2>7. PictureOK'
        BY <1>2, <1>3, <2>1, <2>4, <2>5, <2>6, PlaceMoved DEF PictureHolds
    <2>8. right'
        BY <1>1, <1>2, <1>3, <2>1, <2>2, DueFacts DEF Answered, BytesRead
    <2> QED
        BY <2>7, <2>8 DEF PictureHolds
<1>4. CASE fd \notin DOMAIN opened
    <2>1. ~(Known(fd) /\ OpenHandle(HandleOf(fd)))
        BY <1>4, UnopenedFacts DEF PictureHolds
    <2>2. open_files' = open_files /\ opened' = opened
        BY <1>1, <1>4, <2>1 DEF read, Read
    <2>3. PictureOK'
        BY <1>2, <2>2, PictureSame DEF PictureHolds, newlib
    <2>4. right'
        BY <1>1, <1>4, <2>1 DEF Answered, BytesRead
    <2> QED
        BY <2>3, <2>4 DEF PictureHolds
<1> QED
    BY <1>3, <1>4

\* lseek: the new place is that of the picture.
LEMMA SeekHolds ==
    ASSUME TablesOK, PictureHolds, LSeek
    PROVE  PictureHolds'
<1> DEFINE To(fd, offset, origin) ==
            Within(Base(opened[fd], origin) + offset, image[opened[fd].file].size)
<1>1. PICK fd \in Numbers, offset \in Offsets, origin \in {"SET", "CUR", "END"} :
        /\ lseek(fd, offset, origin)
        /\ Answered(Sought(fd, offset, origin),
                    IF fd \in DOMAIN opened THEN <<To(fd, offset, origin)>> ELSE EBAD)
        /\ opened' = IF fd \in DOMAIN opened
                     THEN [opened EXCEPT ![fd].pos = To(fd, offset, origin)] ELSE opened
    BY DEF LSeek
<1>2. offset \in Int /\ UNCHANGED newlib
    BY <1>1, FilesAssumption DEF lseek
<1>3. CASE fd \in DOMAIN opened
    <2>1. PICK i \in 1 .. MAX_OPEN_HANDLES, k \in 1 .. MAX_OPEN_FILES : Refers(fd, i, k)
        BY <1>3 DEF PictureHolds, PictureOK
    <2>2. /\ Known(fd) /\ OpenHandle(HandleOf(fd)) /\ HandleOf(fd) = handles[i].handle
          /\ SlotOf(HandleOf(fd)) = k /\ FileOf(HandleOf(fd)) = open_files[k]
        BY <2>1, OpenedFacts
    <2> DEFINE to == SeekTo(open_files[k], offset, origin)
               f == [open_files[k] EXCEPT !.loc = to]
    <2>3. open_files[k] \in OpenFileType /\ FileOK(open_files[k])
        BY <2>1, HandleFacts DEF Refers
    <2>4. /\ f \in OpenFileType /\ f.handle = open_files[k].handle /\ f.start = open_files[k].start
          /\ f.loc = to
        BY <1>2, <2>3, SeekFacts DEF OpenFileType
    <2>5. open_files' = [open_files EXCEPT ![k] = f]
        BY <1>1, <2>2 DEF lseek, Seek
    <2>6. To(fd, offset, origin) = to
        <3>1. /\ open_files[k].loc = opened[fd].pos /\ open_files[k].loc \in Nat
              /\ open_files[k].size = image[opened[fd].file].size /\ open_files[k].size \in Nat
            BY <2>1, <2>3 DEF Refers, FileOK, OpenFileType
        <3> QED
            BY <1>2, <3>1 DEF SeekTo, Clamp, Within, Base
    <2> HIDE DEF f, to, To
    <2>7. opened' = [opened EXCEPT ![fd].pos = f.loc]
        BY <1>1, <1>3, <2>4, <2>6
    <2>8. PictureOK'
        BY <1>2, <1>3, <2>1, <2>4, <2>5, <2>7, PlaceMoved DEF PictureHolds
    <2>9. right'
        BY <1>1, <1>3, <2>2, <2>6 DEF Answered, Sought, to
    <2> QED
        BY <2>8, <2>9 DEF PictureHolds
<1>4. CASE fd \notin DOMAIN opened
    <2>1. ~(Known(fd) /\ OpenHandle(HandleOf(fd)))
        BY <1>4, UnopenedFacts DEF PictureHolds
    <2>2. open_files' = open_files /\ opened' = opened
        BY <1>1, <1>4, <2>1 DEF lseek, Seek
    <2>3. PictureOK'
        BY <1>2, <2>2, PictureSame DEF PictureHolds, newlib
    <2>4. right'
        BY <1>1, <1>4, <2>1 DEF Answered, Sought
    <2> QED
        BY <2>3, <2>4 DEF PictureHolds
<1> QED
    BY <1>3, <1>4

\* fstat: the size is that of the file, or an error where the number has none.
LEMMA SizeHolds ==
    ASSUME TablesOK, PictureHolds, FStat
    PROVE  PictureHolds'
<1>1. PICK fd \in Numbers :
        Answered(SizeOf(fd), AskedFor(Known(fd), fd \in DOMAIN opened, opened[fd].file))
    BY DEF FStat
<1>2. UNCHANGED <<dragonFs, newlib, opened>>
    BY DEF FStat
<1>3. PictureOK'
    BY <1>2, PictureSame DEF PictureHolds, newlib, dragonFs
<1>4. CASE fd \in DOMAIN opened
    <2>1. PICK i \in 1 .. MAX_OPEN_HANDLES, k \in 1 .. MAX_OPEN_FILES : Refers(fd, i, k)
        BY <1>4 DEF PictureHolds, PictureOK
    <2>2. Known(fd) /\ OpenHandle(HandleOf(fd)) /\ FileOf(HandleOf(fd)) = open_files[k]
        BY <2>1, OpenedFacts
    <2>3. open_files[k].size = image[opened[fd].file].size
        BY <2>1, HandleFacts DEF Refers, FileOK
    <2> QED
        BY <1>1, <1>3, <1>4, <2>2, <2>3 DEF PictureHolds, Answered, SizeOf, AskedFor, dfs_size
<1>5. CASE fd \notin DOMAIN opened
    <2>1. ~(Known(fd) /\ OpenHandle(HandleOf(fd)))
        BY <1>5, UnopenedFacts DEF PictureHolds
    <2> QED
        BY <1>1, <1>3, <1>5, <2>1 DEF PictureHolds, Answered, SizeOf, AskedFor, dfs_size
<1> QED
    BY <1>4, <1>5

\* close: the file of the number is closed, and no other.
LEMMA CloseHolds ==
    ASSUME TablesOK, PictureHolds, Close
    PROVE  PictureHolds'
<1>1. PICK fd \in Numbers :
        /\ close(fd)
        /\ Answered(Closed(fd), IF fd \in DOMAIN opened THEN <<0>> ELSE EBAD)
        /\ opened' = Restrict(opened, DOMAIN opened \ {fd})
    BY DEF Close
<1>2. PictureOK /\ UNCHANGED <<handles, fileno, filesystems>>
    BY <1>1 DEF PictureHolds, close, newlib
<1>3. /\ DOMAIN open_files = 1 .. MAX_OPEN_FILES
      /\ open_files' = IF Known(fd) THEN [k \in 1 .. MAX_OPEN_FILES |->
                            IF HandleOf(fd) # 0 /\ open_files[k].handle = HandleOf(fd) THEN NoFile
                            ELSE open_files[k]]
                       ELSE open_files
    BY <1>1 DEF close, CloseFile, TablesOK, OpenFilesOK
<1>4. ASSUME NEW gd \in DOMAIN opened \ {fd}, NEW j \in 1 .. MAX_OPEN_HANDLES,
             NEW l \in 1 .. MAX_OPEN_FILES, Refers(gd, j, l)
      PROVE  open_files'[l] = open_files[l]
    <2>1. SUFFICES ASSUME Known(fd), HandleOf(fd) # 0, open_files[l].handle = HandleOf(fd) PROVE FALSE
        BY <1>3
    <2>2. open_files[l] # NoFile /\ handles[j] # Unused /\ handles[j].fileno = gd
          /\ handles[j].handle = open_files[l].handle
        BY <1>4 DEF Refers
    <2>3. fd \in DOMAIN opened
        <3>1. OpenHandle(HandleOf(fd))
            BY <1>3, <2>1 DEF OpenHandle
        <3> QED
            BY <1>2, <2>1, <3>1, UnopenedFacts
    <2>4. PICK i \in 1 .. MAX_OPEN_HANDLES, k \in 1 .. MAX_OPEN_FILES : Refers(fd, i, k)
        BY <1>2, <2>3 DEF PictureOK
    <2>5. HandleOf(fd) = handles[i].handle /\ handles[i] # Unused /\ handles[i].fileno = fd
        BY <2>4, OpenedFacts DEF Refers
    <2>6. i = j
        BY <2>1, <2>2, <2>5, HandleFacts
    <2> QED
        BY <2>2, <2>5, <2>6
<1>5. ASSUME NEW k \in 1 .. MAX_OPEN_FILES, open_files'[k] # NoFile,
             NEW i \in 1 .. MAX_OPEN_HANDLES, handles[i] # Unused,
             handles[i].handle = open_files[k].handle, handles[i].fileno \in DOMAIN opened
      PROVE  handles[i].fileno \in DOMAIN opened \ {fd}
    <2>1. SUFFICES ASSUME handles[i].fileno = fd PROVE FALSE
        BY <1>5
    <2>2. PICK j \in 1 .. MAX_OPEN_HANDLES, l \in 1 .. MAX_OPEN_FILES : Refers(fd, j, l)
        BY <1>2, <1>5, <2>1 DEF PictureOK
    <2>3. Known(fd) /\ HandleOf(fd) = handles[i].handle
        BY <1>5, <2>1, <2>2, OpenedFacts, NumberFound
    <2>4. open_files[k] # NoFile /\ open_files[k].handle # 0
        <3>1. open_files[k] # NoFile
            BY <1>3, <1>5
        <3> QED
            BY <3>1, HandleFacts
    <2> QED
        BY <1>3, <1>5, <2>3, <2>4
<1>6. PictureOK'
    <2>1. \A k \in 1 .. MAX_OPEN_FILES : open_files'[k] # NoFile => open_files'[k] = open_files[k]
        BY <1>3
    <2> DEFINE D == DOMAIN opened \ {fd}
    <2>2. D \in SUBSET DOMAIN opened /\ opened' = Restrict(opened, D)
        BY <1>1
    <2> QED
        BY <1>2, <1>4, <1>5, <2>1, <2>2, SomeClosed
<1>7. right'
    <2>1. CASE fd \in DOMAIN opened
        <3>1. PICK i \in 1 .. MAX_OPEN_HANDLES, k \in 1 .. MAX_OPEN_FILES : Refers(fd, i, k)
            BY <1>2, <2>1 DEF PictureOK
        <3>2. Known(fd) /\ OpenHandle(HandleOf(fd))
            BY <3>1, OpenedFacts
        <3> QED
            BY <1>1, <2>1, <3>2 DEF Answered, Closed
    <2>2. CASE fd \notin DOMAIN opened
        <3>1. ~(Known(fd) /\ OpenHandle(HandleOf(fd)))
            BY <1>2, <2>2, UnopenedFacts
        <3> QED
            BY <1>1, <2>2, <3>1 DEF Answered, Closed
    <2> QED
        BY <2>1, <2>2
<1> QED
    BY <1>6, <1>7 DEF PictureHolds

\* detach_filesystem: what is open there is closed, and nothing else.
LEMMA DetachHolds ==
    ASSUME TablesOK, PictureHolds, Detach
    PROVE  PictureHolds'
<1>1. PICK p \in Mounts :
        /\ detach_filesystem(p)
        /\ opened' = Restrict(opened, {k \in DOMAIN opened : opened[k].prefix # p})
        /\ right' = right
    BY DEF Detach
<1> DEFINE m == Min(Mapped(p))
           Those == {j \in DOMAIN handles : handles[j] # Unused /\ Belong(handles[j], m)}
           Gone == {handles[j].handle : j \in Those}
           D == {fd \in DOMAIN opened : opened[fd].prefix # p}
<1>2. /\ Mapped(p) # {} /\ UNCHANGED <<handles, fileno>>
      /\ open_files' = [k \in DOMAIN open_files |->
                            IF open_files[k].handle \in Gone THEN NoFile ELSE open_files[k]]
      /\ filesystems' = [filesystems EXCEPT ![m] = NoPrefix]
    BY <1>1 DEF detach_filesystem
<1>3. m \in 1 .. MAX_FILESYSTEMS /\ filesystems[m] = p
    BY <1>2, MappedFacts DEF TablesOK
<1>4. DOMAIN handles = 1 .. MAX_OPEN_HANDLES /\ DOMAIN open_files = 1 .. MAX_OPEN_FILES
      /\ DOMAIN filesystems = 1 .. MAX_FILESYSTEMS
    BY DEF TablesOK, HandlesOK, OpenFilesOK, MountsOK
<1>5. \A h : h \in Gone <=> \E j \in 1 .. MAX_OPEN_HANDLES :
                handles[j] # Unused /\ handles[j].fs_mapping = m /\ handles[j].handle = h
    BY <1>4 DEF Belong
<1>6. PictureOK /\ p # NoPrefix
    BY NewlibAssumption DEF PictureHolds
<1> HIDE DEF m, Gone
<1>7. ASSUME NEW fd \in D, NEW i \in 1 .. MAX_OPEN_HANDLES, NEW k \in 1 .. MAX_OPEN_FILES,
             Refers(fd, i, k)
      PROVE  /\ open_files'[k] = open_files[k]
             /\ filesystems'[handles[i].fs_mapping] = filesystems[handles[i].fs_mapping]
    <2>1. handles[i] # Unused /\ handles[i].fs_mapping \in 1 .. MAX_FILESYSTEMS
          /\ open_files[k] # NoFile /\ open_files[k].handle = handles[i].handle
        BY <1>7, HandleFacts DEF Refers, HandleType
    <2>2. handles[i].fs_mapping # m
        BY <1>3, <1>7 DEF Refers
    <2>3. open_files[k].handle \notin Gone
        BY <1>5, <2>1, <2>2, HandleFacts
    <2> QED
        BY <1>2, <1>4, <2>1, <2>2, <2>3
<1>8. ASSUME NEW k \in 1 .. MAX_OPEN_FILES, open_files'[k] # NoFile,
             NEW i \in 1 .. MAX_OPEN_HANDLES, handles[i] # Unused,
             handles[i].handle = open_files[k].handle, handles[i].fileno \in DOMAIN opened
      PROVE  handles[i].fileno \in D
    <2>1. PICK j \in 1 .. MAX_OPEN_HANDLES, l \in 1 .. MAX_OPEN_FILES : Refers(handles[i].fileno, j, l)
        BY <1>6, <1>8 DEF PictureOK
    <2>2. i = j
        BY <1>8, <2>1, HandleFacts DEF Refers
    <2>3. opened[handles[i].fileno].prefix = filesystems[handles[i].fs_mapping]
        BY <2>1, <2>2 DEF Refers
    <2>4. handles[i].fs_mapping # m
        BY <1>2, <1>4, <1>5, <1>8
    <2>5. handles[i].fs_mapping \in 1 .. MAX_FILESYSTEMS
        BY <1>8, HandleFacts DEF HandleType
    <2>6. filesystems[handles[i].fs_mapping] # p
        BY <1>3, <1>6, <2>4, <2>5 DEF TablesOK, MountsOK
    <2> QED
        BY <1>8, <2>3, <2>6
<1>9. \A k \in 1 .. MAX_OPEN_FILES : open_files'[k] # NoFile => open_files'[k] = open_files[k]
    BY <1>2, <1>4
<1>10. D \in SUBSET DOMAIN opened /\ opened' = Restrict(opened, D)
    BY <1>1
<1> HIDE DEF D
<1>11. PictureOK'
    BY <1>2, <1>6, <1>7, <1>8, <1>9, <1>10, SomeClosed
<1> QED
    BY <1>1, <1>11 DEF PictureHolds

\* What opens is what the picture says is there, if there is room.
LEMMA CanOpenFacts ==
    ASSUME StackSuffices, TablesOK, PictureOK, NEW path \in OpenPaths
    PROVE  /\ CanOpen(<<>>, path) <=> IsFile(Names(0, path)) /\ Room
           /\ CanOpen(<<>>, path) => FileAt(<<>>, path) = Names(0, path)
BY RoomFacts, OpenLeads, StackOfRoot, StackFacts, FilesAssumption

\* The slot that a new file gets, and what is put there.
LEMMA OpenFacts ==
    ASSUME OpenFilesOK, NEW stack \in Stack, NEW path \in Seq(STRING), OpenFile(stack, path),
           CanOpen(stack, path)
    PROVE  \E k \in 1 .. MAX_OPEN_FILES, f \in OpenFileType :
            /\ open_files[k] = NoFile /\ open_files' = [open_files EXCEPT ![k] = f]
            /\ f.handle = next_handle /\ f.start = FileAt(stack, path) /\ f.loc = 0
<1> DEFINE k == Min(FreeFiles)
           e == FileAt(stack, path)
           f == [handle |-> next_handle, start |-> e, size |-> image[e].size,
                 loc |-> 0, sector_number |-> 0, cur |-> 0]
<1>1. FreeFiles \in SUBSET (1 .. MAX_OPEN_FILES) /\ FreeFiles # {}
    BY DEF OpenFilesOK, FreeFiles, CanOpen
<1>2. k \in FreeFiles
    BY <1>1, MinFacts
<1>3. k \in 1 .. MAX_OPEN_FILES /\ open_files[k] = NoFile
    BY <1>1, <1>2 DEF FreeFiles
<1>4. e \in Entries
    BY FoundFacts DEF CanOpen, EntryOrNone
<1>5. f \in OpenFileType /\ f.handle = next_handle /\ f.start = e /\ f.loc = 0
    BY <1>4, DragonFsAssumption DEF OpenFilesOK, OpenFileType
<1>6. open_files' = [open_files EXCEPT ![k] = f]
    BY DEF OpenFile
<1> HIDE DEF k, f
<1> QED
    BY <1>3, <1>5, <1>6

\* open: the number refers to the file of the path, or to nothing.
LEMMA OpenHolds ==
    ASSUME StackSuffices, TablesOK, PictureHolds, Open
    PROVE  PictureHolds'
<1>1. PICK p \in Mounts, path \in OpenPaths :
        /\ open(p, path)
        /\ IF OpenReturns(p) /\ IsFile(Names(0, path)) /\ Room
           THEN NowOpen(fileno, Names(0, path), p) ELSE UNCHANGED opened
    BY DEF Open
<1>2. right' = right /\ PictureOK
    BY DEF Open, PictureHolds
<1>3. CASE ~OpenReturns(p)
    <2>1. UNCHANGED <<dragonFs, newlib, opened>>
        BY <1>1, <1>3 DEF open
    <2>2. PictureOK'
        BY <1>2, <2>1, PictureSame DEF dragonFs, newlib
    <2> QED
        BY <1>2, <2>2 DEF PictureHolds
<1>4. CASE OpenReturns(p)
    <2>1. TakeHandle(p, path) /\ OpenFile(<<>>, path) /\ UNCHANGED filesystems
        BY <1>1, <1>4 DEF open, TakeHandle
    <2>2. PICK i \in 1 .. MAX_OPEN_HANDLES, h \in HandleType :
            /\ handles[i] = Unused /\ h # Unused /\ handles' = [handles EXCEPT ![i] = h]
            /\ h.fileno = fileno /\ fileno' = fileno + 1
            /\ h.handle = (IF CanOpen(<<>>, path) THEN next_handle ELSE Missing)
            /\ h.fs_mapping \in 1 .. MAX_FILESYSTEMS /\ filesystems[h.fs_mapping] = p
        BY <1>4, <2>1, TakeFacts DEF TablesOK
    <2>3. CASE CanOpen(<<>>, path)
        <3>1. IsFile(Names(0, path)) /\ Room /\ FileAt(<<>>, path) = Names(0, path)
            BY <1>2, <2>3, CanOpenFacts
        <3>2. PICK k \in 1 .. MAX_OPEN_FILES, f \in OpenFileType :
                /\ open_files[k] = NoFile /\ open_files' = [open_files EXCEPT ![k] = f]
                /\ f.handle = next_handle /\ f.start = FileAt(<<>>, path) /\ f.loc = 0
            BY <2>1, <2>3, OpenFacts, PathTypes, StackFacts DEF TablesOK
        <3>3. NowOpen(fileno, f.start, p)
            BY <1>1, <1>4, <3>1, <3>2
        <3>4. PictureOK'
            BY <1>2, <2>1, <2>2, <2>3, <3>2, <3>3, NumberOpened
        <3> QED
            BY <1>2, <3>4 DEF PictureHolds
    <2>4. CASE ~CanOpen(<<>>, path)
        <3>1. ~(IsFile(Names(0, path)) /\ Room)
            BY <1>2, <2>4, CanOpenFacts
        <3>2. UNCHANGED <<open_files, filesystems, opened>>
            BY <1>1, <2>1, <2>4, <3>1 DEF OpenFile
        <3>3. PictureOK'
            BY <1>2, <2>2, <3>2, NumberTaken
        <3> QED
            BY <1>2, <3>3 DEF PictureHolds
    <2> QED
        BY <2>3, <2>4
<1> QED
    BY <1>3, <1>4

\* stat: the size is that of the file, or an error where there is none, and the
\* number refers to nothing.
LEMMA StatHolds ==
    ASSUME StackSuffices, TablesOK, PictureHolds, Stat
    PROVE  PictureHolds'
<1>1. PICK p \in Mounts, path \in OpenPaths :
        /\ stat(p, path)
        /\ Answered(StatOf(p, path),
                    AskedFor(OpenReturns(p), IsFile(Names(0, path)) /\ Room, Names(0, path)))
        /\ UNCHANGED opened
    BY DEF Stat
<1>2. PictureOK
    BY DEF PictureHolds
<1>3. right'
    <2>1. /\ CanOpen(<<>>, path) <=> IsFile(Names(0, path)) /\ Room
          /\ CanOpen(<<>>, path) => FileAt(<<>>, path) = Names(0, path)
        BY <1>2, CanOpenFacts
    <2> QED
        BY <1>1, <2>1 DEF Answered, StatOf, AskedFor
<1>4. CASE ~OpenReturns(p)
    <2>1. UNCHANGED <<dragonFs, newlib, opened>>
        BY <1>1, <1>4 DEF stat
    <2>2. PictureOK'
        BY <1>2, <2>1, PictureSame DEF dragonFs, newlib
    <2> QED
        BY <1>3, <2>2 DEF PictureHolds
<1>5. CASE OpenReturns(p)
    <2>1. TakeHandle(p, path) /\ UNCHANGED <<open_files, filesystems, opened>>
        BY <1>1, <1>5 DEF stat, TakeHandle
    <2>2. PICK i \in 1 .. MAX_OPEN_HANDLES, h \in HandleType :
            /\ handles[i] = Unused /\ h # Unused /\ handles' = [handles EXCEPT ![i] = h]
            /\ h.fileno = fileno /\ fileno' = fileno + 1
        BY <1>5, <2>1, TakeFacts DEF TablesOK
    <2>3. PictureOK'
        BY <1>2, <2>1, <2>2, NumberTaken
    <2> QED
        BY <1>3, <2>3 DEF PictureHolds
<1> QED
    BY <1>4, <1>5

\* dfs_init: nothing is open.
LEMMA StartHolds ==
    ASSUME TablesOK, PictureHolds, Start
    PROVE  PictureHolds'
<1>1. /\ \A k \in 1 .. MAX_OPEN_FILES : open_files'[k] = NoFile
      /\ fileno' = fileno
    BY InitKeeps DEF Start
<1>2. opened' = <<>> /\ right' = right
    BY DEF Start
<1>3. DOMAIN opened' = {}
    BY <1>2
<1>4. PictureOK'
    BY <1>1, <1>3 DEF PictureOK
<1> QED
    BY <1>2, <1>4 DEF PictureHolds

\* attach_filesystem: what is open stays where it was.
LEMMA AttachHolds ==
    ASSUME TablesOK, PictureHolds, Attach
    PROVE  PictureHolds'
<1>1. PICK p \in Mounts : attach_filesystem(p) /\ UNCHANGED <<dragonFs, picture>>
    BY DEF Attach
<1>2. UNCHANGED <<open_files, handles, fileno, opened, right>>
    BY <1>1 DEF attach_filesystem, dragonFs, picture
<1>3. \A m \in 1 .. MAX_FILESYSTEMS : filesystems[m] # NoPrefix => filesystems'[m] = filesystems[m]
    BY <1>1, AttachKeeps DEF TablesOK
<1>4. PictureOK'
    BY <1>2, <1>3, PictureSame DEF PictureHolds
<1> QED
    BY <1>2, <1>4 DEF PictureHolds

\* Every call of the client that uses files is answered as the picture says.
LEMMA PictureStep ==
    ASSUME StackSuffices, TablesOK, PictureHolds, client = "reader", [FilesNext]_filesVars
    PROVE  PictureHolds'
<1>1. CASE UNCHANGED filesVars
    <2>1. UNCHANGED <<open_files, handles, fileno, filesystems, opened, right>>
        BY <1>1 DEF filesVars, dragonFs, newlib, picture
    <2>2. PictureOK'
        BY <2>1, PictureSame DEF PictureHolds
    <2> QED
        BY <2>1, <2>2 DEF PictureHolds
<1> QED
    BY <1>1, OpenHolds, StatHolds, StartHolds, AttachHolds, DetachHolds, CloseHolds, SeekHolds,
       ReadHolds, SizeHolds DEF FilesNext, Use

-----------------------------------------------------------------------------
(* Files: the calls of the client that explores directories. *)

\* The entries follow one another from e on, and the last is the last.
Remaining(entries, e) ==
    /\ entries \in Seq(Entries)
    /\ entries = <<>> => e = 0
    /\ entries # <<>> => e = entries[1] /\ image[entries[Len(entries)]].next = 0
    /\ \A n \in 1 .. Len(entries) - 1 : image[entries[n]].next = entries[n + 1]

\* The listing of a directory starts with its first entry.
LEMMA ListingRemains ==
    ASSUME NEW dir \in Directories
    PROVE  Remaining(Listing(FirstIn(dir)), FirstIn(dir))
<1> DEFINE l == Listing(FirstIn(dir))
<1>1. /\ l \in Seq(Entries) /\ l # <<>> /\ l[1] = FirstIn(dir)
      /\ \A n \in 1 .. Len(l) :
            /\ n < Len(l) => image[l[n]].next = l[n + 1]
            /\ n = Len(l) => image[l[n]].next = 0
    BY ListingFacts
<1> HIDE DEF l
<1>2. Len(l) \in 1 .. Len(l)
    BY <1>1
<1>3. image[l[Len(l)]].next = 0
    BY <1>1, <1>2
<1>4. \A n \in 1 .. Len(l) - 1 : n \in 1 .. Len(l) /\ n < Len(l)
    BY <1>1
<1>5. Remaining(l, FirstIn(dir))
    BY <1>1, <1>3, <1>4 DEF Remaining
<1> QED
    BY <1>5 DEF l

\* Without its first entry it goes on with the next.
LEMMA RemainingNext ==
    ASSUME NEW entries, NEW e, Remaining(entries, e), entries # <<>>
    PROVE  e = Head(entries) /\ e # 0 /\ Remaining(Tail(entries), image[e].next)
<1> DEFINE L == Len(entries)
           t == Tail(entries)
<1>1. entries \in Seq(Entries) /\ L \in Nat /\ L # 0 /\ e = entries[1]
    BY DEF Remaining
<1>2. e = Head(entries) /\ e \in Entries /\ e # 0
    BY <1>1, DirectoryFacts
<1>3. t \in Seq(Entries) /\ Len(t) = L - 1 /\ \A n \in 1 .. L - 1 : t[n] = entries[n + 1]
    BY <1>1, HeadTailProperties
<1>4. image[entries[L]].next = 0 /\ \A n \in 1 .. L - 1 : image[entries[n]].next = entries[n + 1]
    BY DEF Remaining
<1> HIDE DEF t, L
<1>5. CASE L = 1
    BY <1>1, <1>2, <1>3, <1>4, <1>5 DEF Remaining, t
<1>6. CASE L # 1
    <2>1. 1 \in 1 .. L - 1 /\ L - 1 \in 1 .. L - 1 /\ (L - 1) + 1 = L
        BY <1>1, <1>6
    <2>2. t # <<>> /\ t[1] = image[e].next /\ t[Len(t)] = entries[L]
        BY <1>1, <1>3, <1>4, <2>1
    <2>3. \A n \in 1 .. Len(t) - 1 : image[t[n]].next = t[n + 1]
        <3> TAKE n \in 1 .. Len(t) - 1
        <3>1. n \in 1 .. L - 1 /\ n + 1 \in 1 .. L - 1
            BY <1>1, <1>3
        <3> QED
            BY <1>3, <1>4, <3>1
    <2>4. Remaining(t, image[e].next)
        BY <1>3, <1>4, <2>2, <2>3 DEF Remaining
    <2> QED
        BY <1>2, <2>4 DEF t
<1> QED
    BY <1>5, <1>6

\* The stack leads to the working directory, the next entry to what is left of the listing.
PlaceOK == StackOf(directories, cwd) /\ Remaining(listing, next_entry)

\* An entry is listed, and the next one follows.
LEMMA EntryListed ==
    ASSUME NEW entries, NEW e, Remaining(entries, e), Lists(EntryOr(e), entries),
           next_entry' = IF e = 0 THEN 0 ELSE image[e].next
    PROVE  right' /\ Remaining(listing, next_entry)'
<1>1. CASE entries = <<>>
    <2>1. e = 0
        BY <1>1 DEF Remaining
    <2>2. next_entry' = 0 /\ listing' = <<>> /\ right'
        BY <1>1, <2>1 DEF Lists, Answered, EntryOr
    <2> QED
        BY <2>2 DEF Remaining
<1>2. CASE entries # <<>>
    <2>1. e = Head(entries) /\ e # 0 /\ Remaining(Tail(entries), image[e].next)
        BY <1>2, RemainingNext
    <2>2. next_entry' = image[e].next /\ listing' = Tail(entries) /\ right'
        BY <1>2, <2>1 DEF Lists, Answered, EntryOr
    <2> QED
        BY <2>1, <2>2
<1> QED
    BY <1>1, <1>2

\* chdir goes where the path leads.
LEMMA ChDirLeads ==
    ASSUME StackSuffices, TablesOK, PlaceOK, ChDir
    PROVE  right' /\ PlaceOK'
<1>1. PICK path \in WalkPaths :
        /\ dfs_chdir(path)
        /\ Answered(ChDirFound(path), IsDir(Names(cwd, path)))
        /\ cwd' = IF IsDir(Names(cwd, path)) THEN Names(cwd, path) ELSE cwd
        /\ listing' = <<>>
    BY DEF ChDir
<1>2. /\ ChDirFound(path) \in BOOLEAN
      /\ ChDirFound(path) <=> IsDir(Names(cwd, path))
      /\ ChDirFound(path) =>
            StackOf(recurse_path(directories, path, "CHDIR").stack, Names(cwd, path))
    BY FilesAssumption, ChDirFacts DEF TablesOK, PlaceOK
<1>3. right'
    <2>1. IsDir(Names(cwd, path)) \in BOOLEAN
        BY DEF IsDir
    <2>2. PICK p, q : p = ChDirFound(path) /\ q = IsDir(Names(cwd, path))
        OBVIOUS
    <2>3. p \in BOOLEAN /\ q \in BOOLEAN /\ (p <=> q)
        BY <1>2, <2>1, <2>2
    <2>4. right' = (p = q)
        BY <1>1, <2>2 DEF Answered
    <2>5. p = q
        BY <2>3
    <2> QED
        BY <2>4, <2>5
<1>4. StackOf(directories', cwd')
    <2>1. directories' = IF ChDirFound(path) THEN recurse_path(directories, path, "CHDIR").stack
                         ELSE directories
        BY <1>1 DEF dfs_chdir
    <2>2. CASE ChDirFound(path)
        BY <1>1, <1>2, <2>1, <2>2
    <2>3. CASE ~ChDirFound(path)
        BY <1>1, <1>2, <2>1, <2>3 DEF PlaceOK
    <2> QED
        BY <2>2, <2>3
<1>5. Remaining(listing', next_entry')
    BY <1>1 DEF dfs_chdir, Remaining
<1> QED
    BY <1>3, <1>4, <1>5 DEF PlaceOK

\* dir_findfirst starts the listing of the directory that the path leads to.
LEMMA FindFirstLeads ==
    ASSUME StackSuffices, TablesOK, PlaceOK, NEW path \in WalkPaths, dfs_dir_findfirst(path),
           Lists(EntryOr(FirstOf(path)), EntriesAt(path))
    PROVE  right' /\ PlaceOK'
<1> DEFINE dir == Names(cwd, path)
<1>1. FirstOf(path) = IF IsDir(dir) THEN FirstIn(dir) ELSE 0
    BY FilesAssumption, FirstFacts DEF TablesOK, PlaceOK
<1>2. EntriesAt(path) = IF IsDir(dir) THEN Listing(FirstIn(dir)) ELSE <<>>
    BY DEF EntriesAt
<1> HIDE DEF dir
<1>3. Remaining(EntriesAt(path), FirstOf(path))
    <2>1. CASE IsDir(dir)
        BY <1>1, <1>2, <2>1, ListingRemains DEF IsDir
    <2>2. CASE ~IsDir(dir)
        BY <1>1, <1>2, <2>2 DEF Remaining
    <2> QED
        BY <2>1, <2>2
<1>4. next_entry' = (IF FirstOf(path) = 0 THEN 0 ELSE image[FirstOf(path)].next)
      /\ UNCHANGED <<directories, cwd>>
    BY DEF dfs_dir_findfirst, Lists
<1>5. PICK e, entries : e = FirstOf(path) /\ entries = EntriesAt(path)
    OBVIOUS
<1>6. /\ Remaining(entries, e)
      /\ Lists(EntryOr(e), entries)
      /\ next_entry' = IF e = 0 THEN 0 ELSE image[e].next
    BY <1>3, <1>4, <1>5
<1>7. right' /\ Remaining(listing, next_entry)'
    BY <1>6, EntryListed
<1> QED
    BY <1>4, <1>7 DEF PlaceOK

\* dir_findnext goes on with it.
LEMMA FindNextLeads ==
    ASSUME PlaceOK, dfs_dir_findnext, Lists(EntryOr(next_entry), listing)
    PROVE  right' /\ PlaceOK'
<1>1. next_entry' = (IF next_entry = 0 THEN 0 ELSE image[next_entry].next)
      /\ UNCHANGED <<directories, cwd>>
    BY DEF dfs_dir_findnext, Lists
<1>2. PICK e, entries : e = next_entry /\ entries = listing
    OBVIOUS
<1>3. right' /\ Remaining(listing, next_entry)'
    BY <1>1, <1>2, EntryListed DEF PlaceOK
<1> QED
    BY <1>1, <1>3 DEF PlaceOK

-----------------------------------------------------------------------------
(* Files: what is open for the client that explores directories. *)

\* What is open under a key is in slot k of open_files: under the number that
\* newlib gave it, or under the handle itself.
Stands(key, k) ==
    /\ open_files[k] # NoFile /\ open_files[k].start = opened[key].file
    /\ key < 0 => open_files[k].handle = -key
    /\ key >= 0 =>
        \E i \in 1 .. MAX_OPEN_HANDLES :
            handles[i] # Unused /\ handles[i].fileno = key /\ handles[i].handle = open_files[k].handle

WalkerPicture ==
    /\ \A key \in DOMAIN opened :
        \/ key \in 3 .. fileno - 1
        \/ /\ key \in Int /\ key < 0 /\ -key < next_handle
           /\ \A i \in 1 .. MAX_OPEN_HANDLES : handles[i] # Unused => handles[i].handle # -key
    /\ \A key \in DOMAIN opened : \E k \in 1 .. MAX_OPEN_FILES : Stands(key, k)
    /\ \A k \in 1 .. MAX_OPEN_FILES : open_files[k] # NoFile => \E key \in DOMAIN opened : Stands(key, k)

\* A key has one slot, and a slot one key.
LEMMA StandsApart ==
    ASSUME TablesOK, WalkerPicture, NEW a \in DOMAIN opened, NEW k \in 1 .. MAX_OPEN_FILES, Stands(a, k)
    PROVE  /\ \A b \in DOMAIN opened : Stands(b, k) => a = b
           /\ \A l \in 1 .. MAX_OPEN_FILES : Stands(a, l) => k = l
<1>1. fileno \in Nat /\ \A key \in DOMAIN opened : key \in Int
    BY DEF TablesOK, HandlesOK, WalkerPicture
<1>2. ASSUME NEW b \in DOMAIN opened, Stands(b, k) PROVE a = b
    <2>1. CASE a < 0 /\ b < 0
        BY <1>1, <1>2, <2>1 DEF Stands
    <2>2. CASE a < 0 /\ b >= 0
        BY <1>1, <1>2, <2>2 DEF Stands, WalkerPicture
    <2>3. CASE a >= 0 /\ b < 0
        BY <1>1, <1>2, <2>3 DEF Stands, WalkerPicture
    <2>4. CASE a >= 0 /\ b >= 0
        <3>1. PICK i \in 1 .. MAX_OPEN_HANDLES :
                handles[i] # Unused /\ handles[i].fileno = a /\ handles[i].handle = open_files[k].handle
            BY <2>4 DEF Stands
        <3>2. PICK j \in 1 .. MAX_OPEN_HANDLES :
                handles[j] # Unused /\ handles[j].fileno = b /\ handles[j].handle = open_files[k].handle
            BY <1>2, <2>4 DEF Stands
        <3>3. i = j
            BY <1>2, <3>1, <3>2, HandleFacts DEF Stands
        <3> QED
            BY <3>1, <3>2, <3>3
    <2> QED
        BY <1>1, <2>1, <2>2, <2>3, <2>4
<1>3. ASSUME NEW l \in 1 .. MAX_OPEN_FILES, Stands(a, l) PROVE k = l
    <2>1. open_files[k].handle = open_files[l].handle
        <3>1. CASE a < 0
            BY <1>3, <3>1 DEF Stands
        <3>2. CASE a >= 0
            BY <1>3, <3>2, HandleFacts DEF Stands
        <3> QED
            BY <1>1, <3>1, <3>2
    <2> QED
        BY <1>3, <2>1, HandleFacts DEF Stands
<1> QED
    BY <1>2, <1>3

\* There is room for a file exactly if the table has a free slot.
LEMMA WalkerRoom ==
    ASSUME TablesOK, WalkerPicture
    PROVE  Room <=> FreeFiles # {}
<1> DEFINE D == DOMAIN opened
           Busy == {k \in 1 .. MAX_OPEN_FILES : open_files[k] # NoFile}
           R == {ak \in D \X Busy : Stands(ak[1], ak[2])}
<1>1. DOMAIN open_files = 1 .. MAX_OPEN_FILES /\ MAX_OPEN_FILES \in Nat
    BY DragonFsAssumption DEF TablesOK, OpenFilesOK
<1>2. \A a \in D : \A k \in Busy : <<a, k>> \in R <=> Stands(a, k)
    OBVIOUS
<1>3. \A a \in D : \A k \in 1 .. MAX_OPEN_FILES : Stands(a, k) => k \in Busy
    BY DEF Stands
<1>4. \A a \in D : \E k \in Busy : <<a, k>> \in R
    BY <1>2, <1>3 DEF WalkerPicture
<1>5. \A k \in Busy : \E a \in D : <<a, k>> \in R
    BY <1>2 DEF WalkerPicture
<1>6. \A a, b \in D : \A k \in Busy : <<a, k>> \in R /\ <<b, k>> \in R => a = b
    BY <1>2, StandsApart
<1>7. \A a \in D : \A k, l \in Busy : <<a, k>> \in R /\ <<a, l>> \in R => k = l
    BY <1>2, StandsApart
<1>8. Busy \in SUBSET (1 .. MAX_OPEN_FILES) /\ FreeFiles = (1 .. MAX_OPEN_FILES) \ Busy
    BY <1>1 DEF FreeFiles
<1> HIDE DEF D, Busy, R
<1>9. Cardinality(D) < MAX_OPEN_FILES <=> Busy # 1 .. MAX_OPEN_FILES
    BY <1>1, <1>4, <1>5, <1>6, <1>7, <1>8, PairedOff
<1> QED
    BY <1>8, <1>9 DEF Room, D

\* What is open stays where it is when its slots do.
LEMMA StandsStill ==
    ASSUME NEW key, NEW k, Stands(key, k), open_files'[k] = open_files[k], opened'[key] = opened[key],
           \A i \in 1 .. MAX_OPEN_HANDLES : handles[i] # Unused => handles'[i] = handles[i]
    PROVE  Stands(key, k)'
BY DEF Stands

\* Nothing that is open changes.
LEMMA WalkerSame ==
    ASSUME WalkerPicture, UNCHANGED <<open_files, next_handle, handles, fileno, opened>>
    PROVE  WalkerPicture'
<1>1. \A key, k : Stands(key, k) => Stands(key, k)'
    BY DEF Stands
<1> QED
    BY <1>1 DEF WalkerPicture

\* A number is taken for a path that led nowhere.
LEMMA WalkerTaken ==
    ASSUME TablesOK, WalkerPicture, NEW i \in 1 .. MAX_OPEN_HANDLES, NEW h \in HandleType,
           handles[i] = Unused, handles' = [handles EXCEPT ![i] = h], h.handle = Missing,
           fileno' = fileno + 1, UNCHANGED <<open_files, next_handle, opened>>
    PROVE  WalkerPicture'
<1>1. DOMAIN handles = 1 .. MAX_OPEN_HANDLES /\ fileno \in Nat
    BY DEF TablesOK, HandlesOK
<1>2. handles'[i] = h /\ \A j \in 1 .. MAX_OPEN_HANDLES :
        (j # i => handles'[j] = handles[j]) /\ (handles[j] # Unused => handles'[j] = handles[j])
    BY <1>1
<1>3. ASSUME NEW key, NEW k, Stands(key, k) PROVE Stands(key, k)'
    BY <1>2, <1>3, StandsStill
<1>4. ASSUME NEW key \in DOMAIN opened
      PROVE  \/ key \in 3 .. fileno' - 1
             \/ /\ key \in Int /\ key < 0 /\ -key < next_handle'
                /\ \A j \in 1 .. MAX_OPEN_HANDLES : handles'[j] # Unused => handles'[j].handle # -key
    <2>1. CASE key \in 3 .. fileno - 1
        BY <1>1, <2>1
    <2>2. CASE key \notin 3 .. fileno - 1
        <3>1. /\ key \in Int /\ key < 0 /\ -key < next_handle
              /\ \A j \in 1 .. MAX_OPEN_HANDLES : handles[j] # Unused => handles[j].handle # -key
            BY <2>2 DEF WalkerPicture
        <3>2. h.handle # -key
            BY <3>1 DEF Missing
        <3>3. \A j \in 1 .. MAX_OPEN_HANDLES : handles'[j] # Unused => handles'[j].handle # -key
            BY <1>2, <3>1, <3>2
        <3> QED
            BY <3>1, <3>3
    <2> QED
        BY <2>1, <2>2
<1> QED
    BY <1>3, <1>4 DEF WalkerPicture

\* A file is opened under a key: the number taken for it, or its handle.
LEMMA WalkerOpened ==
    ASSUME TablesOK, WalkerPicture, NEW k \in 1 .. MAX_OPEN_FILES, NEW f \in OpenFileType,
           open_files[k] = NoFile, open_files' = [open_files EXCEPT ![k] = f],
           f.handle = next_handle, next_handle' = next_handle + 1,
           NEW key, NEW p, NowOpen(key, f.start, p),
           \/ key = -next_handle /\ UNCHANGED <<handles, fileno>>
           \/ /\ key = fileno /\ fileno' = fileno + 1
              /\ \E i \in 1 .. MAX_OPEN_HANDLES, h \in HandleType :
                    /\ handles[i] = Unused /\ h # Unused /\ handles' = [handles EXCEPT ![i] = h]
                    /\ h.fileno = fileno /\ h.handle = next_handle
    PROVE  WalkerPicture'
<1>1. /\ DOMAIN handles = 1 .. MAX_OPEN_HANDLES /\ fileno \in Nat /\ fileno >= 3 /\ fileno' \in Nat
      /\ fileno <= fileno' /\ next_handle \in Nat \ {0}
      /\ DOMAIN open_files = 1 .. MAX_OPEN_FILES /\ f # NoFile
    BY DEF TablesOK, HandlesOK, OpenFilesOK, OpenFileType, NoFile
<1>2. \A a \in DOMAIN opened : a \in Int /\ -a < next_handle /\ a < fileno /\ a # key
    BY <1>1 DEF WalkerPicture
<1>3. /\ DOMAIN opened' = DOMAIN opened \cup {key}
      /\ opened'[key].file = f.start /\ \A a \in DOMAIN opened : opened'[a] = opened[a]
    BY <1>2 DEF NowOpen
<1>4. open_files'[k] = f /\ \A l \in 1 .. MAX_OPEN_FILES : l # k => open_files'[l] = open_files[l]
    BY <1>1
<1>5. \A j \in 1 .. MAX_OPEN_HANDLES :
        /\ handles[j] # Unused => handles'[j] = handles[j]
        /\ handles'[j] # Unused => handles'[j] = handles[j] \/ handles'[j].handle = next_handle
    BY <1>1
<1>6. PICK new : new = key
    OBVIOUS
<1>7. Stands(new, k)'
    <2>1. CASE key = -next_handle /\ UNCHANGED <<handles, fileno>>
        <3>1. new \in Int /\ new < 0 /\ f.handle = -new
            BY <1>1, <1>6, <2>1
        <3> QED
            BY <1>1, <1>3, <1>4, <1>6, <3>1 DEF Stands
    <2>2. ASSUME key = fileno,
                 NEW i \in 1 .. MAX_OPEN_HANDLES, NEW h \in HandleType,
                 handles[i] = Unused, h # Unused, handles' = [handles EXCEPT ![i] = h],
                 h.fileno = fileno, h.handle = next_handle
          PROVE  Stands(new, k)'
        <3>1. handles'[i] = h /\ ~(new < 0) /\ h.fileno = new
            BY <1>1, <1>6, <2>2
        <3> QED
            BY <1>1, <1>3, <1>4, <1>6, <2>2, <3>1 DEF Stands
    <2> QED
        BY <2>1, <2>2
<1>8. ASSUME NEW a \in DOMAIN opened, NEW l \in 1 .. MAX_OPEN_FILES, Stands(a, l) PROVE Stands(a, l)'
    <2>1. l # k
        BY <1>8 DEF Stands
    <2> QED
        BY <1>3, <1>4, <1>5, <1>8, <2>1, StandsStill
<1>9. ASSUME NEW a \in DOMAIN opened'
      PROVE  \/ a \in 3 .. fileno' - 1
             \/ /\ a \in Int /\ a < 0 /\ -a < next_handle'
                /\ \A j \in 1 .. MAX_OPEN_HANDLES : handles'[j] # Unused => handles'[j].handle # -a
    <2>1. CASE a \in 3 .. fileno - 1
        BY <1>1, <2>1
    <2>2. CASE a \in DOMAIN opened /\ a \notin 3 .. fileno - 1
        <3>1. /\ a \in Int /\ a < 0 /\ -a < next_handle
              /\ \A j \in 1 .. MAX_OPEN_HANDLES : handles[j] # Unused => handles[j].handle # -a
            BY <2>2 DEF WalkerPicture
        <3>2. \A j \in 1 .. MAX_OPEN_HANDLES : handles'[j] # Unused => handles'[j].handle # -a
            BY <1>1, <1>5, <3>1
        <3> QED
            BY <1>1, <3>1, <3>2
    <2>3. CASE a = key /\ key = fileno /\ fileno' = fileno + 1
        BY <1>1, <2>3
    <2>4. CASE a = key /\ key = -next_handle /\ UNCHANGED <<handles, fileno>>
        <3>1. a \in Int /\ a < 0 /\ -a = next_handle /\ -a < next_handle'
            BY <1>1, <2>4
        <3>2. \A j \in 1 .. MAX_OPEN_HANDLES : handles[j] # Unused =>
                handles[j].handle = Missing \/ handles[j].handle \in 1 .. next_handle - 1
            BY DEF TablesOK, HandlesOK
        <3>3. \A j \in 1 .. MAX_OPEN_HANDLES : handles[j] # Unused => handles[j].handle # -a
            BY <1>1, <3>1, <3>2 DEF Missing
        <3> QED
            BY <2>4, <3>1, <3>3
    <2> QED
        BY <1>3, <2>1, <2>2, <2>3, <2>4
<1>10. \A a \in DOMAIN opened' : \E l \in 1 .. MAX_OPEN_FILES : Stands(a, l)'
    <2> TAKE a \in DOMAIN opened'
    <2>1. CASE a = key
        BY <1>6, <1>7, <2>1
    <2>2. CASE a \in DOMAIN opened
        BY <1>8, <2>2 DEF WalkerPicture
    <2> QED
        BY <1>3, <2>1, <2>2
<1>11. \A l \in 1 .. MAX_OPEN_FILES : open_files'[l] # NoFile => \E a \in DOMAIN opened' : Stands(a, l)'
    <2> TAKE l \in 1 .. MAX_OPEN_FILES
    <2> HAVE open_files'[l] # NoFile
    <2>1. CASE l = k
        BY <1>3, <1>6, <1>7, <2>1
    <2>2. CASE l # k
        <3>1. PICK a \in DOMAIN opened : Stands(a, l)
            BY <1>4, <2>2 DEF WalkerPicture
        <3> QED
            BY <1>3, <1>8, <3>1
    <2> QED
        BY <2>1, <2>2
<1> QED
    BY <1>9, <1>10, <1>11 DEF WalkerPicture

\* What holds for it.
WalkerHolds == right /\ PlaceOK /\ WalkerPicture

\* The root is where its stack leads, and nothing is listed.
LEMMA PlaceAtRoot ==
    ASSUME directories' = <<>>, cwd' = 0, listing' = <<>>, next_entry' = 0
    PROVE  PlaceOK'
BY StackOfRoot DEF PlaceOK, Remaining

\* dfs_open from the working directory
LEMMA DfsOpenHolds ==
    ASSUME StackSuffices, TablesOK, WalkerHolds, DfsOpen
    PROVE  WalkerHolds'
<1>1. PICK path \in RelativePaths :
        /\ OpenFile(directories, path)
        /\ Answered(CanOpen(directories, path), IsFile(Names(cwd, path)) /\ Room)
        /\ IF IsFile(Names(cwd, path)) /\ Room THEN NowOpen(-next_handle, Names(cwd, path), NoPrefix)
           ELSE UNCHANGED opened
        /\ UNCHANGED <<directories, next_entry, newlib, cwd, listing>>
    BY DEF DfsOpen
<1>2. /\ directories \in Stack /\ StackOf(directories, cwd) /\ WalkerPicture
      /\ Spelled(path) /\ path \in Seq(STRING)
    BY FilesAssumption, PathTypes DEF TablesOK, DirsOK, WalkerHolds, PlaceOK
<1>3. /\ CanOpen(directories, path) <=> IsFile(Names(cwd, path)) /\ Room
      /\ CanOpen(directories, path) => FileAt(directories, path) = Names(cwd, path)
    BY <1>2, WalkerRoom, OpenLeads
<1>4. PlaceOK'
    BY <1>1 DEF WalkerHolds, PlaceOK
<1>5. right'
    <2>1. CanOpen(directories, path) \in BOOLEAN /\ (IsFile(Names(cwd, path)) /\ Room) \in BOOLEAN
        BY DEF CanOpen
    <2>2. PICK got, due : got = CanOpen(directories, path) /\ due = (IsFile(Names(cwd, path)) /\ Room)
        OBVIOUS
    <2>3. got \in BOOLEAN /\ due \in BOOLEAN /\ (got <=> due)
        BY <1>3, <2>1, <2>2
    <2>4. right' = (got = due)
        BY <1>1, <2>2 DEF Answered
    <2>5. got = due
        BY <2>3
    <2> QED
        BY <2>4, <2>5
<1>6. UNCHANGED <<handles, fileno>>
    BY <1>1 DEF newlib
<1>7. CASE CanOpen(directories, path)
    <2>1. PICK k \in 1 .. MAX_OPEN_FILES, f \in OpenFileType :
            /\ open_files[k] = NoFile /\ open_files' = [open_files EXCEPT ![k] = f]
            /\ f.handle = next_handle /\ f.start = FileAt(directories, path) /\ f.loc = 0
        BY <1>1, <1>2, <1>7, OpenFacts DEF TablesOK
    <2>2. PICK key : key = -next_handle
        OBVIOUS
    <2>3. NowOpen(key, f.start, NoPrefix)
        BY <1>1, <1>3, <1>7, <2>1, <2>2
    <2>4. next_handle' = next_handle + 1
        BY <1>1, <1>7 DEF OpenFile
    <2>5. WalkerPicture'
        BY <1>2, <1>6, <2>1, <2>2, <2>3, <2>4, WalkerOpened
    <2> QED
        BY <1>4, <1>5, <2>5 DEF WalkerHolds
<1>8. CASE ~CanOpen(directories, path)
    <2>1. UNCHANGED <<open_files, next_handle, opened>>
        BY <1>1, <1>3, <1>8 DEF OpenFile
    <2>2. WalkerPicture'
        BY <1>2, <1>6, <2>1, WalkerSame
    <2> QED
        BY <1>4, <1>5, <2>2 DEF WalkerHolds
<1> QED
    BY <1>7, <1>8

\* open, by the client that explores directories: it is in the root after it.
LEMMA WalkerOpens ==
    ASSUME StackSuffices, TablesOK, WalkerHolds, Open
    PROVE  WalkerHolds'
<1>1. PICK p \in Mounts, path \in OpenPaths :
        /\ open(p, path)
        /\ IF OpenReturns(p) /\ IsFile(Names(0, path)) /\ Room
           THEN NowOpen(fileno, Names(0, path), p) ELSE UNCHANGED opened
        /\ ToRoot(p) /\ UNCHANGED right
    BY DEF Open
<1>2. WalkerPicture /\ PlaceOK /\ right' = right /\ right
    BY <1>1 DEF WalkerHolds
<1>3. CASE ~OpenReturns(p)
    <2>1. UNCHANGED <<dragonFs, newlib, opened, cwd, listing>>
        BY <1>1, <1>3 DEF open, ToRoot
    <2>2. WalkerPicture'
        BY <1>2, <2>1, WalkerSame DEF dragonFs, newlib
    <2>3. PlaceOK'
        BY <1>2, <2>1 DEF PlaceOK, dragonFs
    <2> QED
        BY <1>2, <2>2, <2>3 DEF WalkerHolds
<1>4. CASE OpenReturns(p)
    <2>1. TakeHandle(p, path) /\ OpenFile(<<>>, path) /\ PlaceOK'
        BY <1>1, <1>4, PlaceAtRoot DEF open, TakeHandle, ToRoot
    <2>2. PICK i \in 1 .. MAX_OPEN_HANDLES, h \in HandleType :
            /\ handles[i] = Unused /\ h # Unused /\ handles' = [handles EXCEPT ![i] = h]
            /\ h.fileno = fileno /\ fileno' = fileno + 1
            /\ h.handle = (IF CanOpen(<<>>, path) THEN next_handle ELSE Missing)
        BY <1>4, <2>1, TakeFacts DEF TablesOK
    <2>3. /\ CanOpen(<<>>, path) <=> IsFile(Names(0, path)) /\ Room
          /\ CanOpen(<<>>, path) => FileAt(<<>>, path) = Names(0, path)
        BY <1>2, WalkerRoom, OpenLeads, StackOfRoot, StackFacts, FilesAssumption
    <2>4. CASE CanOpen(<<>>, path)
        <3>1. PICK k \in 1 .. MAX_OPEN_FILES, f \in OpenFileType :
                /\ open_files[k] = NoFile /\ open_files' = [open_files EXCEPT ![k] = f]
                /\ f.handle = next_handle /\ f.start = FileAt(<<>>, path) /\ f.loc = 0
            BY <2>1, <2>4, OpenFacts, PathTypes, StackFacts DEF TablesOK
        <3>2. PICK key : key = fileno
            OBVIOUS
        <3>3. NowOpen(key, f.start, p)
            BY <1>1, <1>4, <2>3, <2>4, <3>1, <3>2
        <3>4. next_handle' = next_handle + 1 /\ h.handle = next_handle
            BY <2>1, <2>2, <2>4 DEF OpenFile
        <3>5. WalkerPicture'
            BY <1>2, <2>2, <3>1, <3>2, <3>3, <3>4, WalkerOpened
        <3> QED
            BY <1>2, <2>1, <3>5 DEF WalkerHolds
    <2>5. CASE ~CanOpen(<<>>, path)
        <3>1. UNCHANGED <<open_files, next_handle, opened>>
            BY <1>1, <2>1, <2>3, <2>5 DEF OpenFile
        <3>2. WalkerPicture'
            BY <1>2, <2>2, <2>5, <3>1, WalkerTaken
        <3> QED
            BY <1>2, <2>1, <3>2 DEF WalkerHolds
    <2> QED
        BY <2>4, <2>5
<1> QED
    BY <1>3, <1>4

\* dfs_close: the slot that is free again is the key's.
LEMMA DfsCloseHolds ==
    ASSUME TablesOK, WalkerHolds, DfsClose
    PROVE  WalkerHolds'
<1>1. PICK key \in DOMAIN opened :
        /\ key < 0 /\ CloseFile(-key) /\ Answered(FileOf(-key).start, opened[key].file)
        /\ opened' = Restrict(opened, DOMAIN opened \ {key})
        /\ UNCHANGED <<directories, next_entry, next_handle, newlib, cwd, listing>>
    BY DEF DfsClose
<1>2. WalkerPicture
    BY DEF WalkerHolds
<1>3. PICK k \in 1 .. MAX_OPEN_FILES : Stands(key, k)
    BY <1>2 DEF WalkerPicture
<1>4. open_files[k] # NoFile /\ open_files[k].handle = -key /\ open_files[k].start = opened[key].file
    BY <1>1, <1>3 DEF Stands
<1>5. right'
    BY <1>1, <1>4, HandleFound DEF Answered
<1>6. PlaceOK'
    BY <1>1 DEF WalkerHolds, PlaceOK
<1>7. UNCHANGED <<next_handle, handles, fileno>>
    BY <1>1 DEF newlib
<1>8. DOMAIN open_files = 1 .. MAX_OPEN_FILES /\ -key # 0
    BY <1>4, HandleFacts DEF TablesOK, OpenFilesOK
<1>9. open_files'[k] = NoFile /\ \A l \in 1 .. MAX_OPEN_FILES : l # k => open_files'[l] = open_files[l]
    <2>1. \A l \in 1 .. MAX_OPEN_FILES : open_files[l].handle = -key => l = k
        BY <1>4, <1>8, HandleFacts
    <2> QED
        BY <1>1, <1>4, <1>8, <2>1 DEF CloseFile
<1>10. /\ DOMAIN opened' = DOMAIN opened \ {key}
       /\ \A a \in DOMAIN opened : a # key => opened'[a] = opened[a]
    BY <1>1 DEF Restrict
<1>11. ASSUME NEW a \in DOMAIN opened, a # key, NEW l \in 1 .. MAX_OPEN_FILES, Stands(a, l)
       PROVE  Stands(a, l)'
    <2>1. l # k
        BY <1>2, <1>3, <1>11, StandsApart
    <2> QED
        BY <1>7, <1>9, <1>10, <1>11, <2>1, StandsStill
<1>12. \A a \in DOMAIN opened' :
        \/ a \in 3 .. fileno' - 1
        \/ /\ a \in Int /\ a < 0 /\ -a < next_handle'
           /\ \A i \in 1 .. MAX_OPEN_HANDLES : handles'[i] # Unused => handles'[i].handle # -a
    BY <1>2, <1>7, <1>10 DEF WalkerPicture
<1>13. \A a \in DOMAIN opened' : \E l \in 1 .. MAX_OPEN_FILES : Stands(a, l)'
    BY <1>2, <1>10, <1>11 DEF WalkerPicture
<1>14. \A l \in 1 .. MAX_OPEN_FILES : open_files'[l] # NoFile => \E a \in DOMAIN opened' : Stands(a, l)'
    <2> TAKE l \in 1 .. MAX_OPEN_FILES
    <2> HAVE open_files'[l] # NoFile
    <2>1. l # k
        BY <1>9
    <2>2. PICK a \in DOMAIN opened : Stands(a, l)
        BY <1>2, <1>9, <2>1 DEF WalkerPicture
    <2>3. a # key
        BY <1>2, <1>3, <2>1, <2>2, StandsApart
    <2> QED
        BY <1>10, <1>11, <2>2, <2>3
<1>15. WalkerPicture'
    BY <1>12, <1>13, <1>14 DEF WalkerPicture
<1> QED
    BY <1>5, <1>6, <1>15 DEF WalkerHolds

\* dfs_init: nothing is open, and the listing goes on where it was.
LEMMA WalkerStarts ==
    ASSUME TablesOK, WalkerHolds, Start
    PROVE  WalkerHolds'
<1>1. /\ \A k \in 1 .. MAX_OPEN_FILES : open_files'[k] = NoFile
      /\ directories' = <<>> /\ UNCHANGED next_entry
    BY InitKeeps DEF Start, dfs_init
<1>2. opened' = <<>> /\ cwd' = 0 /\ UNCHANGED <<listing, right>>
    BY DEF Start
<1>3. DOMAIN opened' = {}
    BY <1>2
<1>4. WalkerPicture'
    BY <1>1, <1>3 DEF WalkerPicture
<1>5. PlaceOK'
    BY <1>1, <1>2, StackOfRoot DEF WalkerHolds, PlaceOK
<1> QED
    BY <1>2, <1>4, <1>5 DEF WalkerHolds

\* Only the place moves.
LEMMA WalkerMoves ==
    ASSUME WalkerHolds, right', PlaceOK',
           UNCHANGED <<open_files, next_handle, handles, fileno, opened>>
    PROVE  WalkerHolds'
BY WalkerSame DEF WalkerHolds

\* Every call of the client that explores directories is answered as the picture says.
LEMMA WalkerStep ==
    ASSUME StackSuffices, TablesOK, WalkerHolds, client = "walker", [FilesNext]_filesVars
    PROVE  WalkerHolds'
<1>1. PlaceOK /\ right
    BY DEF WalkerHolds
<1>2. ASSUME UNCHANGED filesVars PROVE WalkerHolds'
    <2>1. /\ UNCHANGED <<open_files, next_handle, handles, fileno, opened, right>>
          /\ UNCHANGED <<directories, cwd, listing, next_entry>>
        BY <1>2 DEF filesVars, dragonFs, newlib, picture
    <2>2. PlaceOK'
        BY <1>1, <2>1 DEF PlaceOK
    <2> QED
        BY <1>1, <2>1, <2>2, WalkerMoves
<1>3. ASSUME ChDir PROVE WalkerHolds'
    <2>1. UNCHANGED <<open_files, next_handle, handles, fileno, opened>>
        BY <1>3 DEF ChDir, dfs_chdir, newlib
    <2>2. right' /\ PlaceOK'
        BY <1>1, <1>3, ChDirLeads
    <2> QED
        BY <2>1, <2>2, WalkerMoves
<1>4. ASSUME NEW path \in WalkPaths, dfs_dir_findfirst(path),
             Lists(EntryOr(FirstOf(path)), EntriesAt(path)), UNCHANGED newlib
      PROVE  WalkerHolds'
    <2>1. UNCHANGED <<open_files, next_handle, handles, fileno, opened>>
        BY <1>4 DEF dfs_dir_findfirst, Lists, newlib
    <2>2. right' /\ PlaceOK'
        BY <1>1, <1>4, FindFirstLeads
    <2> QED
        BY <2>1, <2>2, WalkerMoves
<1>5. ASSUME dfs_dir_findnext, Lists(EntryOr(next_entry), listing), UNCHANGED newlib
      PROVE  WalkerHolds'
    <2>1. UNCHANGED <<open_files, next_handle, handles, fileno, opened>>
        BY <1>5 DEF dfs_dir_findnext, Lists, newlib
    <2>2. right' /\ PlaceOK'
        BY <1>1, <1>5, FindNextLeads
    <2> QED
        BY <2>1, <2>2, WalkerMoves
<1>6. CASE FindFirst \/ FindNext
    BY <1>4, <1>5, <1>6 DEF FindFirst, FindNext
<1>7. ASSUME DirFindFirst PROVE WalkerHolds'
    <2>1. PICK p \in Mounts, path \in WalkPaths :
            /\ dir_findfirst(p, path)
            /\ IF Mounted(p) THEN Lists(DirEntry(p, FirstOf(path)), EntriesAt(path))
               ELSE UNCHANGED picture
        BY <1>7 DEF DirFindFirst
    <2>2. CASE Mounted(p)
        <3>1. /\ dfs_dir_findfirst(path) /\ UNCHANGED newlib
              /\ Lists(EntryOr(FirstOf(path)), EntriesAt(path))
            BY <2>1, <2>2 DEF dir_findfirst, Mounted, DirEntry
        <3> QED
            BY <1>4, <3>1
    <2>3. CASE ~Mounted(p)
        <3>1. UNCHANGED filesVars
            BY <2>1, <2>3 DEF dir_findfirst, Mounted, filesVars
        <3> QED
            BY <1>2, <3>1
    <2> QED
        BY <2>2, <2>3
<1>8. ASSUME DirFindNext PROVE WalkerHolds'
    <2>1. PICK p \in Mounts :
            /\ dir_findnext(p)
            /\ IF Mounted(p) THEN Lists(DirEntry(p, next_entry), listing) ELSE UNCHANGED picture
        BY <1>8 DEF DirFindNext
    <2>2. CASE Mounted(p)
        <3>1. dfs_dir_findnext /\ UNCHANGED newlib /\ Lists(EntryOr(next_entry), listing)
            BY <2>1, <2>2 DEF dir_findnext, Mounted, DirEntry
        <3> QED
            BY <1>5, <3>1
    <2>3. CASE ~Mounted(p)
        <3>1. UNCHANGED filesVars
            BY <2>1, <2>3 DEF dir_findnext, Mounted, filesVars
        <3> QED
            BY <1>2, <3>1
    <2> QED
        BY <2>2, <2>3
<1> QED
    BY <1>2, <1>3, <1>6, <1>7, <1>8, WalkerOpens, WalkerStarts, DfsOpenHolds, DfsCloseHolds
       DEF FilesNext, Explore

-----------------------------------------------------------------------------
(* Files: both clients. *)

FilesInv ==
    /\ TablesOK
    /\ StackSuffices /\ client = "reader" => PictureHolds
    /\ StackSuffices /\ client = "walker" => WalkerHolds

\* No call changes which client it is.
LEMMA ClientStays == [FilesNext]_filesVars => client' = client
BY DEF FilesNext, Explore, Use, Open, Start, Attach, Detach, Stat, Close, LSeek, ReadFile, FStat, ChDir,
       FindFirst, FindNext, DirFindFirst, DirFindNext, DfsOpen, DfsClose, Lists, Answered, filesVars, picture

\* It holds from the start, and every call keeps it.
LEMMA FilesHold == FilesSpec => []FilesInv
<1>1. FilesInit => FilesInv
    <2> SUFFICES ASSUME FilesInit PROVE FilesInv
        OBVIOUS
    <2>1. /\ opened = <<>> /\ right /\ open_files = [k \in 1 .. MAX_OPEN_FILES |-> NoFile] /\ fileno = 3
          /\ directories = <<>> /\ cwd = 0 /\ listing = <<>> /\ next_entry = 0
        BY DEF FilesInit, DfsInit, NewlibInit
    <2>2. DOMAIN opened = {}
        BY <2>1
    <2>3. PictureOK /\ WalkerPicture
        BY <2>1, <2>2 DEF PictureOK, WalkerPicture
    <2>4. PlaceOK
        BY <2>1, StackOfRoot DEF PlaceOK, Remaining
    <2> QED
        BY <2>1, <2>3, <2>4, TablesInit DEF FilesInv, PictureHolds, WalkerHolds
<1>2. FilesInv /\ [FilesNext]_filesVars => FilesInv'
    BY TablesStep, PictureStep, WalkerStep, ClientStays DEF FilesInv
<1> QED
    BY <1>1, <1>2, PTL DEF FilesSpec

\* A client of newlib's calls finds by a number the file it opened, at the
\* place it left off, until it closes it, detaches its filesystem or starts
\* anew, and nothing by it after that: whatever it opens, asks for and closes in
\* between, with tables of any size that fill up, images of any shape that the
\* stack is deep enough for, and sectors of any length.
THEOREM NumbersKept == FilesSpec => []NumbersHold
<1>1. FilesInv => NumbersHold
    BY TablesTyped DEF FilesInv, NumbersHold, PictureHolds
<1> QED
    BY <1>1, FilesHold, PTL

\* A client that explores directories is where its paths led, is told so, gets
\* the entries of a directory in their order, and opens the file it names if
\* there is room for it: in any tree that the stack is deep enough for,
\* along any paths, also after walks that failed half way.
THEOREM PathsFound == FilesSpec => []PathsLead
<1>1. FilesInv => PathsLead
    BY DEF FilesInv, PathsLead, WalkerHolds
<1> QED
    BY <1>1, FilesHold, PTL
=============================================================================
