------------------------------ MODULE SdStream ------------------------------
(***************************************************************************)
(* The sector stream of disk.c, in front of an SD card.                    *)
(*                                                                         *)
(* The card is left in the middle of a multi-block transfer between calls: *)
(* disk_mode says which (NOP, RD, WR) and disk_cur_addr which sector the   *)
(* card is believed to be at, so that the next call for that sector goes   *)
(* on with the open stream and sends no command.  The host believes; the   *)
(* card knows.  This module keeps both, with the card as an actor of its   *)
(* own that may be late, miss a command, or have its answer lost.          *)
(*                                                                         *)
(* One action per card command, per sector moved and per poll of a         *)
(* waiting loop.  External: the card, its wires and the cartridge's DMA.   *)
(*                                                                         *)
(* A definition named X_... is X with a bug the code does not have; runs   *)
(* use it to see that a property notices.                                  *)
(***************************************************************************)
EXTENDS Integers, Sequences

CONSTANTS
    NumSectors,     \* the card holds sectors 0 .. NumSectors - 1
    MaxLen,         \* bound: sectors of the longest call (slen, a u16)
    MaxPolls,       \* bound: how often a waiting loop polls (65534 or so)
    HighCapacity,   \* the card counts in sectors; disk_card_type & SD_HC
    SectorBytes,    \* 512
    ArgRange,       \* 2^32: a command's argument is a u32
    Faults          \* what may go wrong on the wires: see FaultKinds

\* "cmd": the card misses a command.  "resp": its answer is lost.
\* "crc": it refuses a block written to it.  "dma": the DMA ends in an error.
FaultKinds == {"cmd", "resp", "crc", "dma"}

ASSUME StreamAssumption ==
    /\ NumSectors \in Nat \ {0}
    /\ MaxLen \in Nat \ {0}
    /\ MaxPolls \in Nat \ {0}
    /\ HighCapacity \in BOOLEAN
    /\ SectorBytes \in Nat \ {0}
    /\ Faults \subseteq FaultKinds

\* A card that counts in bytes has no sector whose address does not fit.
ASSUME ArgAssumption ==
    /\ ArgRange \in Nat
    /\ NumSectors <= ArgRange
    /\ ~HighCapacity => NumSectors * SectorBytes <= ArgRange

VARIABLES
    disk_mode,      \* "NOP", "RD" or "WR"
    disk_cur_addr,  \* the sector the open stream is believed to be at
    card,           \* the card: its state, its position, ready or not
    pc,             \* where the host is; "idle" between calls
    direct,         \* the call in progress is a diskCloseRW of the caller's
    req,            \* the transfer in progress, or the last one
    moved,          \* the sectors the card has moved for it, in order
    polls,          \* polls left in the waiting loop the host is in
    dma_err,        \* DMA_STA_ERROR
    ret,            \* what the last call returned
    lost            \* history: the host has seen a transfer or a stop fail
                    \* and no acknowledged stop since

stream == <<disk_mode, disk_cur_addr>>
call == <<req, moved, direct>>
vars == <<stream, card, pc, call, polls, dma_err, ret, lost>>

Sector == 0 .. NumSectors - 1
Transfers == {"toRam", "toRom", "fromRam"}
Requests ==
    {r \in [kind : Transfers, addr : Sector, len : 1 .. MaxLen] :
        r.addr + r.len <= NumSectors}

ModeOf(kind) == IF kind = "fromRam" THEN "WR" ELSE "RD"

\* The loop a transfer runs in: bi_sd_to_ram, bi_sd_to_rom or bi_ram_to_sd.
PhaseOf(kind) ==
    IF kind = "toRam" THEN "recv" ELSE IF kind = "toRom" THEN "dma" ELSE "send"

\* 0xD3 from either read, 0xD4 from CMD25, 0xD5 .. 0xD8 from a block written,
\* 0xD9 from the CMD12 of a caller's diskCloseRW.
Errors == {"D3", "D4", "D5", "D6", "D7", "D8", "D9"}

TypeOK ==
    /\ disk_mode \in {"NOP", "RD", "WR"}
    /\ disk_cur_addr \in 0 .. NumSectors
    /\ card \in [st : {"tran", "data", "rcv", "prg"}, pos : 0 .. NumSectors, rdy : BOOLEAN]
    /\ pc \in {"idle", "open", "stop", "busy", "cmd", "recv", "dma", "send", "program"}
    /\ direct \in BOOLEAN
    /\ req \in Requests
    /\ moved \in Seq(Sector)
    /\ polls \in 0 .. MaxPolls
    /\ dma_err \in BOOLEAN
    /\ ret \in Errors \cup {"ok"}
    /\ lost \in BOOLEAN

-----------------------------------------------------------------------------
(* The card (external). *)

\* The sector a command's argument names to the card.
CardSector(arg) == IF HighCapacity THEN arg ELSE arg \div SectorBytes

Streaming(st, arg) == [st |-> st, pos |-> CardSector(arg), rdy |-> st = "rcv"]
Stopped == [card EXCEPT !.st = IF card.st = "data" THEN "tran" ELSE "prg", !.rdy = FALSE]

\* The next block is ready to be read, or the last one written is stored.
CardReady ==
    /\ card.st \in {"data", "rcv"}
    /\ ~card.rdy
    /\ card' = [card EXCEPT !.rdy = TRUE]
    /\ UNCHANGED <<stream, pc, call, polls, dma_err, ret, lost>>

\* The card has finished programming what was written before the stop.
CardProgrammed ==
    /\ card.st = "prg"
    /\ card' = [card EXCEPT !.st = "tran"]
    /\ UNCHANGED <<stream, pc, call, polls, dma_err, ret, lost>>

\* One sector passes between the card and the host.
Passed == [card EXCEPT !.pos = @ + 1, !.rdy = FALSE]

MoveSector ==
    /\ card' = Passed
    /\ moved' = Append(moved, card.pos)
    /\ UNCHANGED <<req, direct>>

HasBlock == card.st = "data" /\ card.rdy /\ card.pos < NumSectors
TakesBlock == card.st = "rcv" /\ card.rdy /\ card.pos < NumSectors

-----------------------------------------------------------------------------
(* The calls. *)

Return(result) ==
    /\ pc' = "idle"
    /\ ret' = result
    /\ UNCHANGED polls

\* A transfer that failed in the middle: the stream stays open as it is.
Abort(result) ==
    /\ Return(result)
    /\ lost' = TRUE
    /\ UNCHANGED <<stream, dma_err>>

\* diskReadToRam, diskReadToRom and DiskWriteFromRam are called.
Call(r) ==
    /\ pc = "idle"
    /\ pc' = "open"
    /\ req' = r
    /\ moved' = <<>>
    /\ direct' = FALSE
    /\ UNCHANGED <<stream, card, polls, dma_err, ret, lost>>

\* diskCloseRW is called by the caller; with no stream open it returns 0.
CallClose ==
    /\ pc = "idle"
    /\ IF disk_mode = "NOP"
       THEN Return("ok")
       ELSE pc' = "stop" /\ UNCHANGED <<polls, ret>>
    /\ direct' = TRUE
    /\ moved' = <<>>
    /\ UNCHANGED <<stream, card, req, dma_err, lost>>

Transfer_KeepsOldAddr ==
    /\ disk_cur_addr' = disk_cur_addr + req.len
    /\ pc' = PhaseOf(req.kind)
    /\ polls' = MaxPolls
    /\ dma_err' = FALSE

\* disk_cur_addr += slen, and the transfer begins.
Transfer ==
    /\ disk_cur_addr' = req.addr + req.len
    /\ pc' = PhaseOf(req.kind)
    /\ polls' = MaxPolls
    /\ dma_err' = FALSE

Continues_AnyAddr == disk_mode = ModeOf(req.kind)
Continues == disk_mode = ModeOf(req.kind) /\ disk_cur_addr = req.addr

\* diskOpenRead or diskOpenWrite finds its stream open at the right sector.
OpenContinue ==
    /\ pc = "open"
    /\ Continues
    /\ Transfer
    /\ UNCHANGED <<disk_mode, card, call, ret, lost>>

\* ... or closes whatever is open first.
OpenAnew ==
    /\ pc = "open"
    /\ ~Continues
    /\ pc' = IF disk_mode = "NOP" THEN "cmd" ELSE "stop"
    /\ UNCHANGED <<stream, card, call, polls, dma_err, ret, lost>>

-----------------------------------------------------------------------------
(* diskCloseRW: CMD12, then the poll until the card lets go of its data      *)
(* line.  diskOpenRead and diskOpenWrite go on whatever it returns.          *)

Closed(result) ==
    IF direct
    THEN Return(result)
    ELSE pc' = "cmd" /\ UNCHANGED <<polls, ret>>

StopAcked ==
    /\ pc = "stop"
    /\ card.st \in {"data", "rcv"}
    /\ card' = Stopped
    /\ disk_mode' = "NOP"
    /\ pc' = "busy"
    /\ polls' = MaxPolls
    /\ lost' = FALSE
    /\ UNCHANGED <<disk_cur_addr, call, dma_err, ret>>

\* No answer within DISK_CMD_TOUT: the card did not hear the command, had
\* nothing to stop, or its answer was lost.
StopTimeout ==
    /\ pc = "stop"
    /\ \/ card.st \notin {"data", "rcv"} /\ UNCHANGED card
       \/ "cmd" \in Faults /\ UNCHANGED card
       \/ "resp" \in Faults /\ card.st \in {"data", "rcv"} /\ card' = Stopped
    /\ disk_mode' = "NOP"
    /\ lost' = TRUE
    /\ Closed("D9")
    /\ UNCHANGED <<disk_cur_addr, call, dma_err>>

BusyEnd_Unbounded ==
    /\ pc = "busy"
    /\ card.st # "prg"
    /\ Closed("ok")
    /\ UNCHANGED <<stream, card, call, dma_err, lost>>

\* The loop's end, the card being free or the polls used up: 0 either way.
BusyEnd ==
    /\ pc = "busy"
    /\ card.st # "prg" \/ polls = 0
    /\ Closed("ok")
    /\ UNCHANGED <<stream, card, call, dma_err, lost>>

-----------------------------------------------------------------------------
(* The command that opens the stream. *)

CmdArg_AlwaysSectors(saddr) == saddr

\* saddr *= 512 in u32 arithmetic, unless the card counts in sectors.
CmdArg(saddr) == IF HighCapacity THEN saddr ELSE (saddr * SectorBytes) % ArgRange

\* CMD18's answer is never read: the host takes the stream for open whether
\* or not the card heard the command.
CmdRead ==
    /\ pc = "cmd"
    /\ req.kind # "fromRam"
    /\ \/ card.st = "tran" /\ card' = Streaming("data", CmdArg(req.addr))
       \/ card.st # "tran" /\ UNCHANGED card
       \/ "cmd" \in Faults /\ UNCHANGED card
    /\ disk_mode' = "RD"
    /\ Transfer
    /\ UNCHANGED <<call, ret, lost>>

CmdWrite ==
    /\ pc = "cmd"
    /\ req.kind = "fromRam"
    /\ card.st = "tran"
    /\ card' = Streaming("rcv", CmdArg(req.addr))
    /\ disk_mode' = "WR"
    /\ Transfer
    /\ UNCHANGED <<call, ret, lost>>

\* No answer to CMD25.  A card whose answer was lost is receiving.
CmdWriteTimeout ==
    /\ pc = "cmd"
    /\ req.kind = "fromRam"
    /\ \/ card.st # "tran" /\ UNCHANGED card
       \/ "cmd" \in Faults /\ UNCHANGED card
       \/ /\ "resp" \in Faults
          /\ card.st = "tran"
          /\ card' = Streaming("rcv", CmdArg(req.addr))
    /\ disk_cur_addr' = req.addr
    /\ Return("D4")
    /\ UNCHANGED <<disk_mode, call, dma_err, lost>>

-----------------------------------------------------------------------------
(* The transfers. *)

Finished_OneShort == Len(moved) >= req.len - 1
Finished == Len(moved) = req.len

\* bi_sd_to_ram: each sector waits for its start bits.
RecvSector ==
    /\ pc = "recv"
    /\ ~Finished
    /\ HasBlock
    /\ MoveSector
    /\ polls' = MaxPolls
    /\ UNCHANGED <<stream, pc, dma_err, ret, lost>>

RecvTimeout ==
    /\ pc = "recv"
    /\ ~Finished
    /\ ~HasBlock
    /\ polls = 0
    /\ Abort("D3")
    /\ UNCHANGED <<card, call>>

\* bi_sd_to_rom: the cartridge moves the sectors and the host polls DMA_STA,
\* with no bound of its own.
DmaSector ==
    /\ pc = "dma"
    /\ ~Finished
    /\ ~dma_err
    /\ HasBlock
    /\ MoveSector
    /\ UNCHANGED <<stream, pc, polls, dma_err, ret, lost>>

\* The DMA gives up, on a sector the card has sent or on one it has not.
DmaFail ==
    /\ "dma" \in Faults
    /\ pc = "dma"
    /\ ~Finished
    /\ ~dma_err
    /\ dma_err' = TRUE
    /\ \/ UNCHANGED card
       \/ HasBlock /\ card' = Passed
    /\ UNCHANGED <<stream, pc, call, polls, ret, lost>>

DmaError ==
    /\ pc = "dma"
    /\ dma_err
    /\ Abort("D3")
    /\ UNCHANGED <<card, call>>

\* bi_ram_to_sd: a block goes out and the card's status comes back.
SendBlock ==
    /\ pc = "send"
    /\ ~Finished
    /\ TakesBlock
    /\ MoveSector
    /\ pc' = "program"
    /\ polls' = MaxPolls
    /\ UNCHANGED <<stream, dma_err, ret, lost>>

\* The card refuses the block (0xD7, 0xD8), does not answer (0xD6), or
\* stores it and its answer is lost (0xD6).
SendFail ==
    /\ pc = "send"
    /\ ~Finished
    /\ \/ /\ "crc" \in Faults
          /\ TakesBlock
          /\ \E e \in {"D7", "D8"} : Abort(e)
          /\ UNCHANGED <<card, call>>
       \/ ~TakesBlock /\ Abort("D6") /\ UNCHANGED <<card, call>>
       \/ "resp" \in Faults /\ TakesBlock /\ Abort("D6") /\ MoveSector

\* The wait until the block is stored.
Programmed ==
    /\ pc = "program"
    /\ card.rdy
    /\ pc' = "send"
    /\ UNCHANGED <<stream, card, call, polls, dma_err, ret, lost>>

ProgramTimeout ==
    /\ pc = "program"
    /\ ~card.rdy
    /\ polls = 0
    /\ Abort("D5")
    /\ UNCHANGED <<card, call>>

\* slen has come down to zero.
Succeed ==
    /\ pc \in {"recv", "dma", "send"}
    /\ Finished
    /\ Return("ok")
    /\ UNCHANGED <<stream, card, call, dma_err, lost>>

\* One more poll of a waiting loop that finds nothing.
Waiting ==
    \/ pc = "busy" /\ card.st = "prg"
    \/ pc = "recv" /\ ~Finished /\ ~HasBlock
    \/ pc = "program" /\ ~card.rdy

Poll ==
    /\ Waiting
    /\ polls > 0
    /\ polls' = polls - 1
    /\ UNCHANGED <<stream, card, pc, call, dma_err, ret, lost>>

-----------------------------------------------------------------------------

Init ==
    /\ disk_mode = "NOP"
    /\ disk_cur_addr = 0
    /\ card = [st |-> "tran", pos |-> 0, rdy |-> FALSE]
    /\ pc = "idle"
    /\ direct = TRUE
    /\ req = [kind |-> "toRam", addr |-> 0, len |-> 1]
    /\ moved = <<>>
    /\ polls = 0
    /\ dma_err = FALSE
    /\ ret = "ok"
    /\ lost = FALSE

Open == OpenContinue \/ OpenAnew
Close == StopAcked \/ StopTimeout \/ BusyEnd
Command == CmdRead \/ CmdWrite \/ CmdWriteTimeout
Dma == DmaSector \/ DmaFail
Move == RecvSector \/ RecvTimeout \/ DmaError
        \/ SendBlock \/ SendFail \/ Programmed \/ ProgramTimeout \/ Succeed

\* The host inside a call.
Host == Open \/ Close \/ Command \/ Move \/ Poll
Card == CardReady \/ CardProgrammed

Next ==
    \/ \E r \in Requests : Call(r)
    \/ CallClose
    \/ Host
    \/ Dma
    \/ Card

Spec == Init /\ [][Next]_vars

\* The processor keeps running and the DMA ends, one way or the other; nobody
\* has to call, and the card owes nothing.
FairSpec == Spec /\ WF_vars(Host) /\ WF_vars(Dma)

-----------------------------------------------------------------------------
(* Properties. *)

\* The sectors a call asks for, as far as it has come.
Asked(n) == [i \in 1 .. n |-> req.addr + i - 1]

\* As long as no transfer has failed and no stop has gone unacknowledged, the
\* sectors the card moves for a call are the ones it asked for, in order: an
\* open stream is used again only by a call for the sector the card is at.
RightSectors == ~lost => moved = Asked(Len(moved))

\* A stream the host has not seen fail is where disk_cur_addr, or the call in
\* progress, says it is (unless the DMA has just given up), and there is no
\* reading stream the host knows nothing of.  (A receiving card may be: its
\* answer to CMD25 was lost.  A reading mode may be without a stream: the
\* answer to CMD18 is never read.)
InTransfer == pc \in {"recv", "dma", "send", "program"}

CardAt(p) ==
    /\ disk_mode = "RD" /\ card.st = "data" => card.pos = p
    /\ disk_mode = "WR" => card.st = "rcv" /\ card.pos = p
    /\ disk_mode = "NOP" => card.st # "data"

Coherent ==
    ~lost /\ ~(pc = "dma" /\ dma_err)
        => CardAt(IF InTransfer THEN req.addr + Len(moved) ELSE disk_cur_addr)

\* Every call returns: no loop of a call polls for ever, the DMA's included.
EveryCallReturns == pc # "idle" ~> pc = "idle"

\* disk.c implements the sector device, its trust being that nothing was lost.
Device == INSTANCE SectorDevice WITH
    Kinds <- Transfers,
    active <- pc # "idle" /\ ~direct,
    trusted <- ~lost

DeviceSpec == Device!Spec

\* src/src/fat.c:356, "Read a number of sectors to RAM": a read that returns 0 has
\* delivered the sectors it was asked for.  Not so once a transfer has failed
\* in the middle: disk_cur_addr was advanced before the transfer, and the next
\* call for the sector after it goes on with a stream that never got there.
ReadsDeliver ==
    pc = "idle" /\ ret = "ok" /\ ~direct /\ req.kind # "fromRam"
        => moved = Asked(req.len)
=============================================================================
