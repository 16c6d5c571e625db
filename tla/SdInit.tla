------------------------------- MODULE SdInit -------------------------------
(***************************************************************************)
(* diskInit of disk.c, with the card it identifies and the two flags by    *)
(* which a restarted console learns that the card is identified already.   *)
(*                                                                         *)
(* The flags live in the cartridge's REG_BOOT_CFG and outlive a restart of *)
(* the console; so does the card, in whatever state it is in.  A restarted *)
(* console believes the flags, tries a read (DiskCheckInit), and goes      *)
(* through the whole identification only if that fails.                    *)
(*                                                                         *)
(* One action per command and per register write, so that a restart, a     *)
(* power cycle or another card may come between any two.  External: the    *)
(* card, and the register.                                                 *)
(*                                                                         *)
(* A definition named X_... is X with a bug the code does not have; runs   *)
(* use it to see that a property notices.                                  *)
(***************************************************************************)
EXTENDS Integers

CONSTANTS
    wait_max,       \* 1024: times the card is asked whether it is ready
    MaxRestarts,    \* bound: restarts of the console
    Kinds,          \* the cards a user may insert: "none", "V1", "V2", "HC"
    Faults          \* "cmd": the card misses a command, "resp": its answer
                    \* is lost, "read": it does not deliver sector 0 in time

ASSUME InitAssumption ==
    /\ wait_max \in Nat \ {0}
    /\ MaxRestarts \in Nat
    /\ Kinds \subseteq {"none", "V1", "V2", "HC"}
    /\ Faults \subseteq {"cmd", "resp", "read"}

VARIABLES
    card,           \* the card: kind, state, whether CMD8 told it of V2
    boot_cfg,       \* REG_BOOT_CFG: a subset of {"SD_INIT", "SD_TYPE"}
    disk_card_type, \* a subset of {"HC", "V2"}
    disk_mode,
    speed,          \* "LO" or "HI": bi_sd_cfg's clock
    sd_resp_buff,   \* the last answer that arrived
    rca_right,      \* rca is the address the card gave itself
    i,              \* the counter of the loops that wait for the card
    pc,             \* where diskInit is
    ret,            \* what it returned
    restarts,       \* restarts so far, for the bound
    torn,           \* history: a restart fell between the two flag writes
                    \* of the last complete identification
    unheard         \* history: this identification had no answer to CMD8

host == <<disk_card_type, disk_mode, speed, sd_resp_buff, rca_right, i>>
history == <<torn, unheard>>
vars == <<card, boot_cfg, host, pc, ret, restarts, history>>

\* The commands after the card is ready, in order: what each asks of the
\* card, and the error it ends with.  CMD7 for nobody is not answered, and
\* has no error: what sd_resp_buff holds after it is still CMD3's answer.
Selection ==
    [CMD2   |-> [err |-> "C5",   then |-> "CMD3"],
     CMD3   |-> [err |-> "C6",   then |-> "CMD7_0"],
     CMD7_0 |-> [err |-> "none", then |-> "CMD9"],
     CMD9   |-> [err |-> "C7",   then |-> "CMD7"],
     CMD7   |-> [err |-> "C8",   then |-> "CMD55"],
     CMD55  |-> [err |-> "C9",   then |-> "ACMD6"],
     ACMD6  |-> [err |-> "CA",   then |-> "set_init"]]

States == {"none", "idle", "ready", "ident", "stby", "tran", "data"}

Steps == DOMAIN Selection \cup {"check", "stop", "probe", "read", "clear", "cmd0", "cmd8",
          "v2_55", "v2_41", "v1_55", "v1_41", "waited", "set_init", "set_type", "done"}

TypeOK ==
    /\ card \in [kind : Kinds, st : States, told : BOOLEAN]
    /\ boot_cfg \subseteq {"SD_INIT", "SD_TYPE"}
    /\ disk_card_type \subseteq {"HC", "V2"}
    /\ disk_mode \in {"NOP", "RD"}
    /\ speed \in {"LO", "HI"}
    /\ sd_resp_buff \in {"zeros", "R1", "busy", "ready", "ready_hc", "R6", "other"}
    /\ rca_right \in BOOLEAN
    /\ i \in 0 .. wait_max + 1
    /\ pc \in Steps
    /\ ret \in {"none", "ok", "C1", "C2", "C3", "C4", "C5", "C6", "C7", "C8", "C9", "CA"}
    /\ restarts \in 0 .. MaxRestarts
    /\ torn \in BOOLEAN
    /\ unheard \in BOOLEAN

-----------------------------------------------------------------------------
(* The card (external). *)

Inserted(kind) ==
    [kind |-> kind, st |-> IF kind = "none" THEN "none" ELSE "idle", told |-> FALSE]

\* A high capacity card waits for a host that has introduced itself.
MayGetReady == card.kind = "HC" => card.told

\* The answers a card in its present state may give to a command, each with
\* the state it is in afterwards; none if it takes no notice of it.
Answers(cmd) ==
    LET to(st, answer) == [card |-> [card EXCEPT !.st = st], answer |-> answer]
    IN  CASE cmd = "CMD0" -> {}
          [] cmd = "CMD8" /\ card.st = "idle" /\ card.kind \in {"V2", "HC"} ->
                {[card |-> [card EXCEPT !.told = TRUE], answer |-> "other"]}
          [] cmd = "CMD55" /\ card.st = "idle" -> {to("idle", "R1")}
          [] cmd = "CMD55" /\ card.st = "tran" /\ rca_right -> {to("tran", "R1")}
          [] cmd = "ACMD41" /\ card.st = "idle" ->
                {to("idle", "busy")} \cup
                (IF MayGetReady
                 THEN {to("ready", IF card.kind = "HC" THEN "ready_hc" ELSE "ready")}
                 ELSE {})
          [] cmd = "CMD2" /\ card.st = "ready" -> {to("ident", "other")}
          [] cmd = "CMD3" /\ card.st = "ident" -> {to("stby", "R6")}
          [] cmd = "CMD9" /\ card.st = "stby" /\ rca_right -> {to("stby", "other")}
          [] cmd = "CMD7" /\ card.st = "stby" /\ rca_right -> {to("tran", "R1")}
          [] cmd = "ACMD6" /\ card.st = "tran" -> {to("tran", "R1")}
          [] cmd = "CMD12" /\ card.st = "data" -> {to("tran", "R1")}
          [] OTHER -> {}

\* What the host may see of a command: an answer, or none.
Silent(c) == [card |-> c, answer |-> "silent"]
Outcomes(cmd) ==
    Answers(cmd)
    \cup (IF Answers(cmd) = {} \/ "cmd" \in Faults THEN {Silent(card)} ELSE {})
    \cup (IF "resp" \in Faults THEN {Silent(a.card) : a \in Answers(cmd)} ELSE {})

\* diskCmdSD: bytes 1 and up of sd_resp_buff keep the last answer if no other
\* comes within DISK_CMD_TOUT (0xD9).
Send(cmd, outcome) ==
    /\ outcome \in Outcomes(cmd)
    /\ card' = outcome.card
    /\ sd_resp_buff' = IF outcome.answer = "silent" THEN sd_resp_buff ELSE outcome.answer

Heard(outcome) == outcome.answer # "silent"

-----------------------------------------------------------------------------
(* DiskCheckInit *)

Goto(step) == pc' = step /\ UNCHANGED ret
Give(result) == pc' = "done" /\ ret' = result

\* The flags say the card is identified, and of which kind.  An open stream
\* is assumed, whatever the card is doing.
CheckFlags ==
    /\ pc = "check"
    /\ IF "SD_INIT" \in boot_cfg
       THEN /\ disk_mode' = "RD"
            /\ disk_card_type' = IF "SD_TYPE" \in boot_cfg THEN {"HC"} ELSE {}
            /\ speed' = "HI"
            /\ Goto("stop")
       ELSE /\ Goto("clear")
            /\ UNCHANGED <<disk_mode, disk_card_type, speed>>
    /\ UNCHANGED <<card, boot_cfg, sd_resp_buff, rca_right, i, restarts, history>>

\* diskCloseRW, whatever comes of it.
CheckStop ==
    /\ pc = "stop"
    /\ \E o \in Outcomes("CMD12") : Send("CMD12", o)
    /\ disk_mode' = "NOP"
    /\ Goto("probe")
    /\ UNCHANGED <<boot_cfg, disk_card_type, speed, rca_right, i, restarts, history>>

\* CMD18 for sector 0, which is the same argument in sectors and in bytes,
\* and whose answer is not read.
CheckProbe ==
    /\ pc = "probe"
    /\ \/ card.st = "tran" /\ card' = [card EXCEPT !.st = "data"]
       \/ card.st # "tran" /\ UNCHANGED card
       \/ "cmd" \in Faults /\ UNCHANGED card
    /\ disk_mode' = "RD"
    /\ Goto("read")
    /\ UNCHANGED <<boot_cfg, disk_card_type, speed, sd_resp_buff, rca_right, i,
                   restarts, history>>

\* A sector arrives, and diskInit is done; or none does.
CheckRead ==
    /\ pc = "read"
    /\ \/ card.st = "data" /\ Give("ok")
       \/ card.st # "data" /\ Goto("clear")
       \/ "read" \in Faults /\ Goto("clear")
    /\ UNCHANGED <<card, boot_cfg, host, restarts, history>>

-----------------------------------------------------------------------------
(* The identification. *)

FlagsCleared_Stay == boot_cfg
FlagsCleared == {}

SpeedCleared_Stays == speed
SpeedCleared == "LO"

\* The flags are cleared together, before the card is touched.
Clear ==
    /\ pc = "clear"
    /\ disk_card_type' = {}
    /\ disk_mode' = "NOP"
    /\ boot_cfg' = FlagsCleared
    /\ torn' = FALSE
    /\ unheard' = FALSE
    /\ speed' = SpeedCleared
    /\ Goto("cmd0")
    /\ UNCHANGED <<card, sd_resp_buff, rca_right, i, restarts>>

\* CMD0 is not answered; a card that hears it starts again.
Cmd0 ==
    /\ pc = "cmd0"
    /\ \/ card' = Inserted(card.kind)
       \/ "cmd" \in Faults /\ UNCHANGED card
    /\ Goto("cmd8")
    /\ UNCHANGED <<boot_cfg, host, restarts, history>>

\* An answer to CMD8 makes it a V2 card, silence a V1 card.
Cmd8 ==
    /\ pc = "cmd8"
    /\ \E o \in Outcomes("CMD8") :
        /\ Send("CMD8", o)
        /\ IF Heard(o)
           THEN disk_card_type' = {"V2"} /\ Goto("v2_55")
           ELSE disk_card_type' = {} /\ Goto("v1_55")
        /\ unheard' = ~Heard(o)
    /\ i' = 0
    /\ UNCHANGED <<boot_cfg, disk_mode, speed, rca_right, restarts, torn>>

-----------------------------------------------------------------------------
(* for (i = 0; i < wait_max; i++): CMD55, and CMD41 if the card's status    *)
(* has its ready bit, until CMD41's answer has the other one.  CMD41's      *)
(* result is not looked at: without an answer the old one is, again.        *)

Again == i' = i + 1 /\ (IF i + 1 < wait_max THEN Goto("v2_55") ELSE Goto("waited"))

IsReady == sd_resp_buff' \in {"ready", "ready_hc"}

V2Cmd55 ==
    /\ pc = "v2_55"
    /\ \E o \in Outcomes("CMD55") :
        /\ Send("CMD55", o)
        /\ \/ ~Heard(o) /\ Give("C1") /\ UNCHANGED i
           \/ Heard(o) /\ Goto("v2_41") /\ UNCHANGED i
           \/ Heard(o) /\ Again
    /\ UNCHANGED <<boot_cfg, disk_card_type, disk_mode, speed, rca_right, restarts,
                   history>>

V2Cmd41 ==
    /\ pc = "v2_41"
    /\ \E o \in Outcomes("ACMD41") :
        /\ Send("ACMD41", o)
        /\ IF IsReady THEN Goto("waited") /\ UNCHANGED i ELSE Again
    /\ UNCHANGED <<boot_cfg, disk_card_type, disk_mode, speed, rca_right, restarts,
                   history>>

(* do ... while (not ready && i++ < wait_max), for a V1 card.               *)

V1Cmd55 ==
    /\ pc = "v1_55"
    /\ \E o \in Outcomes("CMD55") :
        /\ Send("CMD55", o)
        /\ IF Heard(o) THEN Goto("v1_41") ELSE Give("C2")
    /\ UNCHANGED <<boot_cfg, disk_card_type, disk_mode, speed, rca_right, i,
                   restarts, history>>

V1GivesUp == i >= wait_max

V1Counts_Not == i
V1Counts == i + 1

V1Cmd41 ==
    /\ pc = "v1_41"
    /\ \E o \in Outcomes("ACMD41") :
        /\ Send("ACMD41", o)
        /\ IF ~Heard(o) THEN Give("C3") /\ UNCHANGED i
           ELSE IF IsReady THEN Goto("waited") /\ UNCHANGED i
           ELSE i' = V1Counts /\ Goto(IF V1GivesUp THEN "waited" ELSE "v1_55")
    /\ UNCHANGED <<boot_cfg, disk_card_type, disk_mode, speed, rca_right, restarts,
                   history>>

\* if (i == wait_max): all there is to tell a card that got ready from one
\* that did not.  The V1 loop gives up with i one higher, and leaves with
\* wait_max when the card gets ready at the last moment.
Waited ==
    /\ pc = "waited"
    /\ IF i = wait_max
       THEN Give("C4") /\ UNCHANGED disk_card_type
       ELSE /\ disk_card_type' =
                    IF sd_resp_buff = "ready_hc" /\ disk_card_type # {}
                    THEN disk_card_type \cup {"HC"}
                    ELSE disk_card_type
            /\ pc' = "CMD2"
            /\ UNCHANGED ret
    /\ UNCHANGED <<card, boot_cfg, disk_mode, speed, sd_resp_buff, rca_right, i,
                   restarts, history>>

-----------------------------------------------------------------------------
(* CMD2, CMD3, CMD7, CMD9, CMD7, CMD55, CMD6. *)

\* After the CMD7 nobody answers, rca is taken from what CMD3 left behind.
Select ==
    /\ pc \in DOMAIN Selection
    /\ \E o \in Outcomes(pc) :
        /\ Send(pc, o)
        /\ IF ~Heard(o) /\ Selection[pc].err # "none"
           THEN Give(Selection[pc].err)
           ELSE Goto(Selection[pc].then)
    /\ rca_right' = IF pc = "CMD7_0" THEN sd_resp_buff' = "R6" ELSE rca_right
    /\ UNCHANGED <<boot_cfg, disk_card_type, disk_mode, speed, i, restarts, history>>

\* The two flags are written one after the other.
SetInit ==
    /\ pc = "set_init"
    /\ speed' = "HI"
    /\ boot_cfg' = boot_cfg \cup {"SD_INIT"}
    /\ Goto("set_type")
    /\ UNCHANGED <<card, disk_card_type, disk_mode, sd_resp_buff, rca_right, i,
                   restarts, history>>

SetType ==
    /\ pc = "set_type"
    /\ boot_cfg' = IF "HC" \in disk_card_type THEN boot_cfg \cup {"SD_TYPE"} ELSE boot_cfg
    /\ Give("ok")
    /\ UNCHANGED <<card, host, restarts, history>>

-----------------------------------------------------------------------------
(* Restarts. *)

\* bi_init and the cleared RAM of a console that starts.
Boot ==
    /\ restarts < MaxRestarts
    /\ restarts' = restarts + 1
    /\ pc' = "check"
    /\ ret' = "none"
    /\ disk_card_type' = {}
    /\ disk_mode' = "NOP"
    /\ speed' = "LO"
    /\ sd_resp_buff' = "zeros"
    /\ rca_right' = FALSE
    /\ i' = 0

\* The console restarts; the cartridge and the card stay as they are.
Reset ==
    /\ Boot
    /\ torn' = (torn \/ (pc = "set_type" /\ "HC" \in disk_card_type))
    /\ UNCHANGED <<card, boot_cfg, unheard>>

\* ... with another card, or the same one taken out and put back.
Exchange(kind) ==
    /\ Boot
    /\ card' = Inserted(kind)
    /\ torn' = (torn \/ (pc = "set_type" /\ "HC" \in disk_card_type))
    /\ UNCHANGED <<boot_cfg, unheard>>

\* Off and on again.
PowerCycle ==
    /\ Boot
    /\ card' = Inserted(card.kind)
    /\ boot_cfg' = {}
    /\ torn' = FALSE
    /\ unheard' = FALSE

Init ==
    /\ card \in {Inserted(kind) : kind \in Kinds}
    /\ boot_cfg = {}
    /\ disk_card_type = {}
    /\ disk_mode = "NOP"
    /\ speed = "LO"
    /\ sd_resp_buff = "zeros"
    /\ rca_right = FALSE
    /\ i = 0
    /\ pc = "check"
    /\ ret = "none"
    /\ restarts = 0
    /\ torn = FALSE
    /\ unheard = FALSE

DiskCheckInit == CheckFlags \/ CheckStop \/ CheckProbe \/ CheckRead
Identify ==
    \/ Clear \/ Cmd0 \/ Cmd8
    \/ V2Cmd55 \/ V2Cmd41 \/ V1Cmd55 \/ V1Cmd41 \/ Waited
    \/ Select \/ SetInit \/ SetType
diskInit == DiskCheckInit \/ Identify

Restart == Reset \/ (\E kind \in Kinds : Exchange(kind)) \/ PowerCycle

Next == diskInit \/ Restart

Spec == Init /\ [][Next]_vars

\* The processor keeps running; nobody has to restart anything.
FairSpec == Spec /\ WF_vars(diskInit)

-----------------------------------------------------------------------------
(* Properties. *)

Believed == "HC" \in disk_card_type

\* When diskInit returns 0 there is a selected card behind it, and it counts
\* its addresses the way disk_card_type says.  There are exactly two ways for
\* that to be wrong: a restart between the writes of the two flags, after
\* which the flags call a high capacity card an ordinary one, and an answer
\* to CMD8 that was lost, after which the identification does.
ReadyMeansKnown ==
    /\ TypeOK
    /\ ret = "ok" =>
        /\ card.st \in {"tran", "data"}
        /\ Believed => card.kind = "HC"
        /\ card.kind = "HC" /\ ~torn /\ ~unheard => Believed

\* A card that is not identified yet hears its commands at the slow clock,
\* also after a failed attempt at the fast one.
SlowIdentification ==
    pc \in {"cmd0", "cmd8", "v2_55", "v2_41", "v1_55", "v1_41"} \cup DOMAIN Selection
        => speed = "LO"

\* However silent the card, diskInit returns.
InitReturns == pc # "done" ~> pc = "done"
=============================================================================
