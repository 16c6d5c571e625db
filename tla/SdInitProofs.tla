---------------------------- MODULE SdInitProofs ----------------------------
(***************************************************************************)
(* Proofs about SdInit, for every number of times the card is asked, every *)
(* choice of cards and of faults, and any number of restarts.              *)
(***************************************************************************)
EXTENDS SdInit, TLAPS

\* Where diskInit is once it has cleared the flags.
Asking == {"v2_55", "v2_41", "v1_55", "v1_41"}
Selecting == {"CMD2", "CMD3", "CMD7_0", "CMD9", "CMD7", "CMD55", "ACMD6"}
Setting == {"set_init", "set_type"}
Cleared == {"cmd0", "cmd8", "waited", "set_init"} \cup Asking \cup Selecting

Chosen(c) == c.st \in {"tran", "data"}

\* The loops end before their counter leaves its range.
LoopInv ==
    /\ pc \in {"v2_55", "v2_41"} => i < wait_max
    /\ pc \in {"v1_55", "v1_41"} => i <= wait_max

\* Only diskInit's end raises the clock again.
SpeedInv == pc \in {"cmd0", "cmd8", "waited"} \cup Asking \cup Selecting => speed = "LO"

\* An answer comes from the card that is there.
AnswerInv ==
    /\ sd_resp_buff = "ready_hc" => card.kind = "HC"
    /\ sd_resp_buff = "ready" => card.kind # "HC"

\* What disk_card_type says of the card, as far as it has been asked: the
\* V2 loop is left with the card ready or the counter at its end.
TypeInv ==
    /\ pc \in {"v2_55", "v2_41"} => disk_card_type = {"V2"} /\ ~unheard
    /\ pc \in {"v1_55", "v1_41"} => disk_card_type = {} /\ unheard
    /\ pc = "waited" =>
        \/ disk_card_type = {} /\ unheard
        \/ /\ disk_card_type = {"V2"} /\ ~unheard
           /\ i = wait_max \/ sd_resp_buff \in {"ready", "ready_hc"}
    /\ pc \in Selecting \cup Setting =>
        /\ Believed => card.kind = "HC"
        /\ card.kind = "HC" /\ ~unheard => Believed
    /\ pc \in Setting => card.st = "tran"

\* What the flags say of a card that is selected; of any other card they say
\* nothing, for it will not answer the probe.
FlagInv ==
    /\ pc \in Cleared => boot_cfg = {}
    /\ pc = "set_type" => boot_cfg = {"SD_INIT"}
    /\ pc \in {"stop", "probe", "read"} =>
        "SD_INIT" \in boot_cfg /\ (Believed <=> "SD_TYPE" \in boot_cfg)
    /\ Chosen(card) /\ "SD_TYPE" \in boot_cfg => card.kind = "HC"
    /\ Chosen(card) /\ "SD_INIT" \in boot_cfg /\ card.kind = "HC"
        /\ ~torn /\ ~unheard /\ pc # "set_type" => "SD_TYPE" \in boot_cfg

\* diskInit has returned 0.
OkInv ==
    ret = "ok" =>
        /\ pc = "done"
        /\ Chosen(card)
        /\ Believed => card.kind = "HC"
        /\ card.kind = "HC" /\ ~torn /\ ~unheard => Believed

Inv ==
    /\ TypeOK
    /\ LoopInv /\ SpeedInv /\ AnswerInv /\ TypeInv /\ FlagInv /\ OkInv

-----------------------------------------------------------------------------
(* The card and its answers. *)

Cards == [kind : Kinds, st : States, told : BOOLEAN]
Heards == {"R1", "busy", "ready", "ready_hc", "R6", "other"}

\* A card that is put in is one, and is not selected.
LEMMA InsertedFacts ==
    ASSUME NEW kind \in Kinds
    PROVE  Inserted(kind) \in Cards /\ Inserted(kind).kind = kind /\ ~Chosen(Inserted(kind))
<1>1. (kind = "none") \in BOOLEAN /\ FALSE \in BOOLEAN
    OBVIOUS
<1> QED
    BY <1>1 DEF Inserted, Cards, States, Chosen

\* An answer leaves the kind of the card alone; only CMD7 selects it; CMD6 is
\* answered by a selected card; CMD41's answer tells a high capacity card
\* that is ready from another.
LEMMA AnswerFacts ==
    ASSUME card \in Cards, NEW cmd, NEW a \in Answers(cmd)
    PROVE  /\ a.card \in Cards /\ a.card.kind = card.kind
           /\ a.answer \in Heards
           /\ Chosen(a.card) => Chosen(card) \/ cmd = "CMD7"
           /\ cmd = "ACMD6" => a.card.st = "tran"
           /\ cmd # "ACMD41" => a.answer \notin {"ready", "ready_hc"}
           /\ a.answer = "ready_hc" => card.kind = "HC"
           /\ a.answer = "ready" => card.kind # "HC"
<1>1. CASE cmd = "CMD8"
    <2>1. a = [card |-> [card EXCEPT !.told = TRUE], answer |-> "other"]
        BY <1>1 DEF Answers
    <2>2. [card EXCEPT !.told = TRUE] \in Cards
        BY Zenon DEF Cards
    <2>3. a.card = [card EXCEPT !.told = TRUE] /\ a.answer = "other"
        BY <2>1
    <2>4. a.card.kind = card.kind /\ a.card.st = card.st
        BY <2>3 DEF Cards
    <2> QED
        BY <1>1, <2>2, <2>3, <2>4 DEF Heards, Chosen
<1>2. CASE cmd = "CMD55"
    BY <1>2 DEF Answers, Cards, Heards, Chosen, States
<1>3. CASE cmd = "ACMD41"
    BY <1>3 DEF Answers, Cards, Heards, Chosen, States
<1>4. CASE cmd \in {"CMD2", "CMD3", "CMD9", "CMD12"}
    BY <1>4 DEF Answers, Cards, Heards, Chosen, States
<1>5. CASE cmd \in {"CMD7", "ACMD6"}
    BY <1>5 DEF Answers, Cards, Heards, Chosen, States
<1>6. CASE cmd \notin {"CMD8", "CMD55", "ACMD41", "CMD2", "CMD3", "CMD9", "CMD12", "CMD7", "ACMD6"}
    BY <1>6 DEF Answers
<1> QED
    BY <1>1, <1>2, <1>3, <1>4, <1>5, <1>6

\* What a command does to the card and to the last answer, heard or not.
LEMMA SendFacts ==
    ASSUME TypeOK, AnswerInv, NEW cmd, NEW o \in Outcomes(cmd), Send(cmd, o)
    PROVE  /\ card' \in Cards /\ card'.kind = card.kind
           /\ sd_resp_buff' \in Heards \cup {sd_resp_buff}
           /\ AnswerInv'
           /\ Chosen(card') => Chosen(card) \/ cmd = "CMD7"
           /\ Heard(o) /\ cmd = "ACMD6" => card'.st = "tran"
<1>1. card \in Cards
    BY DEF TypeOK, Cards
<1>2. \/ o \in Answers(cmd)
      \/ o = Silent(card)
      \/ \E a \in Answers(cmd) : o = Silent(a.card)
    BY DEF Outcomes
<1>3. \A c : Silent(c).card = c /\ Silent(c).answer = "silent"
    BY DEF Silent
<1>4. CASE o \in Answers(cmd)
    BY <1>1, <1>4, AnswerFacts DEF Send, AnswerInv, Heards
<1>5. CASE o = Silent(card)
    BY <1>1, <1>3, <1>5 DEF Send, AnswerInv, Heard
<1>6. CASE \E a \in Answers(cmd) : o = Silent(a.card)
    BY <1>1, <1>3, <1>6, AnswerFacts DEF Send, AnswerInv, Heard
<1> QED
    BY <1>2, <1>4, <1>5, <1>6

\* The commands of Selection, one by one.
LEMMA SelectionFacts ==
    /\ DOMAIN Selection = Selecting
    /\ \A s \in Selecting :
        /\ Selection[s].err \in {"C5", "C6", "none", "C7", "C8", "C9", "CA"}
        /\ Selection[s].err = "none" <=> s = "CMD7_0"
        /\ Selection[s].then \in Selecting \cup {"set_init"}
        /\ Selection[s].then = "set_init" <=> s = "ACMD6"
<1>1. DOMAIN Selection = Selecting
    BY DEF Selection, Selecting
<1>2. /\ Selection["CMD2"] = [err |-> "C5", then |-> "CMD3"]
      /\ Selection["CMD3"] = [err |-> "C6", then |-> "CMD7_0"]
      /\ Selection["CMD7_0"] = [err |-> "none", then |-> "CMD9"]
      /\ Selection["CMD9"] = [err |-> "C7", then |-> "CMD7"]
      /\ Selection["CMD7"] = [err |-> "C8", then |-> "CMD55"]
      /\ Selection["CMD55"] = [err |-> "C9", then |-> "ACMD6"]
      /\ Selection["ACMD6"] = [err |-> "CA", then |-> "set_init"]
    BY DEF Selection
<1> QED
    BY <1>1, <1>2 DEF Selecting

-----------------------------------------------------------------------------

LEMMA InvInit == Init => Inv
<1> SUFFICES ASSUME Init PROVE Inv
    OBVIOUS
<1>1. PICK kind \in Kinds : card = Inserted(kind)
    BY DEF Init
<1>2. card \in Cards /\ ~Chosen(card)
    BY <1>1, InsertedFacts
<1>3. rca_right \in BOOLEAN /\ torn \in BOOLEAN /\ unheard \in BOOLEAN
    BY Zenon DEF Init
<1>4. TypeOK
    BY <1>2, <1>3, InitAssumption DEF Init, TypeOK, Cards, Steps
<1> QED
    BY <1>2, <1>4 DEF Init, Inv, LoopInv, SpeedInv, AnswerInv, TypeInv, FlagInv, OkInv,
        Asking, Selecting, Setting, Cleared

LEMMA InvStep == Inv /\ [Next]_vars => Inv'
<1> SUFFICES ASSUME Inv, [Next]_vars PROVE Inv'
    OBVIOUS
<1>t. /\ TypeOK /\ AnswerInv
      /\ wait_max \in Nat \ {0} /\ MaxRestarts \in Nat
      /\ card \in Cards
    BY InitAssumption DEF Inv, TypeOK, Cards
<1> USE DEF Inv, LoopInv, SpeedInv, AnswerInv, TypeInv, FlagInv, OkInv, Asking, Selecting,
            Setting, Cleared, host, history, Goto, Give, Believed
<1>1. CASE CheckFlags
    <2>1. TypeOK'
        <3>1. /\ disk_card_type' \in {{"HC"}, {}, disk_card_type} /\ disk_mode' \in {"RD", disk_mode}
              /\ speed' \in {"HI", speed} /\ pc' \in {"stop", "clear"}
              /\ UNCHANGED <<card, boot_cfg, sd_resp_buff, rca_right, i, restarts, torn, unheard, ret>>
            BY <1>1 DEF CheckFlags
        <3> QED
            BY <3>1 DEF TypeOK, Steps
    <2>2. CASE "SD_INIT" \in boot_cfg
        BY <1>1, <2>1, <2>2 DEF CheckFlags, Chosen
    <2>3. CASE "SD_INIT" \notin boot_cfg
        BY <1>1, <2>1, <2>3 DEF CheckFlags, Chosen
    <2> QED
        BY <2>2, <2>3
<1>2. CASE CheckStop
    BY <1>2, <1>t, SendFacts DEF CheckStop, TypeOK, Steps, Cards, Heards
<1>3. CASE CheckProbe
    BY <1>3, <1>t DEF CheckProbe, TypeOK, Steps, Cards, Chosen, States
<1>4. CASE CheckRead
    BY <1>4, <1>t DEF CheckRead, TypeOK, Steps, Chosen
<1>5. CASE Clear
    <2>1. /\ pc = "clear" /\ pc' = "cmd0" /\ boot_cfg' = {} /\ speed' = "LO" /\ disk_mode' = "NOP"
          /\ disk_card_type' = {} /\ torn' = FALSE /\ unheard' = FALSE
          /\ UNCHANGED <<card, sd_resp_buff, rca_right, i, restarts, ret>>
        BY <1>5 DEF Clear, FlagsCleared, SpeedCleared
    <2>2. TypeOK'
        BY <1>t, <2>1 DEF TypeOK, Steps
    <2>3. ret # "ok"
        BY <2>1
    <2> QED
        BY <2>1, <2>2, <2>3
<1>6. CASE Cmd0
    BY <1>6, <1>t, InsertedFacts DEF Cmd0, TypeOK, Steps, Cards
<1>7. CASE Cmd8
    <2>1. unheard' \in BOOLEAN
        BY <1>7, Zenon DEF Cmd8
    <2>2. TypeOK' /\ AnswerInv'
        BY <1>7, <2>1, <1>t, SendFacts DEF Cmd8, TypeOK, Steps, Cards, Heards
    <2>3. \/ disk_card_type' = {"V2"} /\ pc' = "v2_55" /\ ~unheard'
          \/ disk_card_type' = {} /\ pc' = "v1_55" /\ unheard'
        BY <1>7, Zenon DEF Cmd8
    <2> QED
        BY <1>7, <2>2, <2>3, <1>t DEF Cmd8
<1>8. CASE V2Cmd55
    BY <1>8, <1>t, SendFacts DEF V2Cmd55, Again, TypeOK, Steps, Cards, Heards
<1>9. CASE V2Cmd41
    BY <1>9, <1>t, SendFacts DEF V2Cmd41, Again, IsReady, TypeOK, Steps, Cards, Heards
<1>10. CASE V1Cmd55
    BY <1>10, <1>t, SendFacts DEF V1Cmd55, TypeOK, Steps, Cards, Heards
<1>11. CASE V1Cmd41
    <2>1. TypeOK' /\ AnswerInv'
        BY <1>11, <1>t, SendFacts
           DEF V1Cmd41, V1Counts, V1GivesUp, TypeOK, Steps, Cards, Heards
    <2>2. pc' \in {"done", "waited", "v1_55"} /\ (pc' = "v1_55" => i' <= wait_max)
        BY <1>11, <1>t DEF V1Cmd41, V1Counts, V1GivesUp, TypeOK
    <2> QED
        BY <1>11, <2>1, <2>2, <1>t DEF V1Cmd41
<1>12. CASE Waited
    <2>1. TypeOK' /\ AnswerInv'
        <3>1. /\ disk_card_type' \in {disk_card_type, disk_card_type \cup {"HC"}}
              /\ pc' \in {"CMD2", "done"} /\ ret' \in {"C4", ret}
              /\ UNCHANGED <<card, boot_cfg, disk_mode, speed, sd_resp_buff, rca_right, i,
                             restarts, torn, unheard>>
            BY <1>12 DEF Waited
        <3> QED
            BY <3>1, SelectionFacts DEF TypeOK, Steps
    <2>2. CASE i = wait_max
        BY <1>12, <2>1, <2>2 DEF Waited
    <2>3. CASE i # wait_max
        <3>1. /\ pc = "waited" /\ pc' = "CMD2"
              /\ boot_cfg' = {} /\ speed' = "LO" /\ ret' # "ok"
            BY <1>12, <2>3 DEF Waited
        <3>2. TypeInv'
            BY <1>12, <2>3, <3>1 DEF Waited
        <3> QED
            BY <2>1, <3>1, <3>2
    <2> QED
        BY <2>2, <2>3
<1>13. CASE Select
    <2>1. PICK o \in Outcomes(pc) :
            /\ Send(pc, o)
            /\ IF ~Heard(o) /\ Selection[pc].err # "none"
               THEN Give(Selection[pc].err) ELSE Goto(Selection[pc].then)
        BY <1>13 DEF Select
    <2>2. /\ pc \in Selecting
          /\ card' \in Cards /\ card'.kind = card.kind
          /\ sd_resp_buff' \in Heards \cup {sd_resp_buff} /\ AnswerInv'
          /\ Heard(o) /\ pc = "ACMD6" => card'.st = "tran"
        BY <1>13, <1>t, <2>1, SendFacts, SelectionFacts DEF Select
    <2>3. \/ /\ pc' = "done" /\ ret' \in {"C5", "C6", "C7", "C8", "C9", "CA"}
          \/ /\ pc' \in Selecting \cup {"set_init"} /\ ret' = ret
             /\ pc' = "set_init" => card'.st = "tran"
        BY <2>1, <2>2, SelectionFacts
    <2>4. rca_right' \in BOOLEAN
        BY <1>13, <1>t, Zenon DEF Select, TypeOK
    <2>5. TypeOK'
        BY <1>13, <2>2, <2>3, <2>4, SelectionFacts DEF Select, TypeOK, Steps, Cards, Heards
    <2> QED
        BY <1>13, <2>2, <2>3, <2>5 DEF Select
<1>14. CASE SetInit
    <2>1. TypeOK'
        BY <1>14 DEF SetInit, TypeOK, Steps
    <2> QED
        BY <1>14, <2>1 DEF SetInit, Chosen
<1>15. CASE SetType
    BY <1>15, <1>t DEF SetType, TypeOK, Steps, Chosen
<1>16. CASE Reset
    <2>1. TypeOK'
        <3>1. rca_right' \in BOOLEAN /\ torn' \in BOOLEAN
            BY <1>16, <1>t, Zenon DEF Reset, Boot
        <3> QED
            BY <1>16, <1>t, <3>1 DEF Reset, Boot, TypeOK, Steps
    <2>2. torn \/ (pc = "set_type" /\ "HC" \in disk_card_type) => torn'
        BY <1>16, Zenon DEF Reset
    <2> QED
        BY <1>16, <2>1, <2>2 DEF Reset, Boot, Chosen
<1>17. ASSUME NEW kind \in Kinds, Exchange(kind) PROVE Inv'
    <2>1. rca_right' \in BOOLEAN /\ torn' \in BOOLEAN
        BY <1>17, <1>t, Zenon DEF Exchange, Boot
    <2> QED
        BY <1>17, <1>t, <2>1, InsertedFacts DEF Exchange, Boot, TypeOK, Steps, Cards
<1>18. CASE PowerCycle
    <2>1. rca_right' \in BOOLEAN /\ torn' \in BOOLEAN /\ unheard' \in BOOLEAN
        BY <1>18, Zenon DEF PowerCycle, Boot
    <2>2. Inserted(card.kind) \in Cards
        BY <1>t, InsertedFacts DEF Cards
    <2> QED
        BY <1>18, <1>t, <2>1, <2>2 DEF PowerCycle, Boot, TypeOK, Steps, Cards
<1>19. CASE UNCHANGED vars
    BY <1>19 DEF vars, TypeOK, Chosen
<1> QED
    BY <1>1, <1>2, <1>3, <1>4, <1>5, <1>6, <1>7, <1>8, <1>9, <1>10, <1>11, <1>12,
       <1>13, <1>14, <1>15, <1>16, <1>17, <1>18, <1>19
       DEF Next, diskInit, DiskCheckInit, Identify, Restart

LEMMA InvHolds == Spec => []Inv
  BY InvInit, InvStep, PTL DEF Spec

-----------------------------------------------------------------------------

\* When diskInit returns 0 a card is selected, and disk_card_type counts its
\* addresses as it does, but for the two ways ReadyMeansKnown names.
THEOREM IdentifiedRight == Spec => []ReadyMeansKnown
<1>1. Inv => ReadyMeansKnown
    BY DEF Inv, OkInv, ReadyMeansKnown, Chosen
<1> QED
    BY <1>1, InvHolds, PTL

\* A card is identified at the slow clock (diskInit: BI_SD_SPD_LO).
THEOREM IdentifiedSlowly == Spec => []SlowIdentification
<1>1. Inv => SlowIdentification
    BY SelectionFacts DEF Inv, SpeedInv, Asking, SlowIdentification
<1> QED
    BY <1>1, InvHolds, PTL
=============================================================================
