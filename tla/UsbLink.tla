------------------------------ MODULE UsbLink -------------------------------
(***************************************************************************)
(* usb.c and the USB half of bios.c: the listener, the host, and between   *)
(* them the FPGA, which moves bytes to or from one 512-byte buffer while   *)
(* the processor does something else.  The unit here is the 16 bytes of a  *)
(* command, and all that the host sends comes in whole units.  The host    *)
(* sends what it likes when it likes.  Left out: the commands 's' and 'c', *)
(* which do not use the link beyond their frame (Boot has them), and       *)
(* bi_usb_init, also in Boot.  UsbCmdr does with RAM what UsbCmdR does     *)
(* with ROM; the most blocks UsbCmdf takes, 0x40000, are more than any of  *)
(* Lens.                                                                   *)
(*                                                                         *)
(* A definition named X_... is X with a bug the code does not have.        *)
(***************************************************************************)
EXTENDS Integers, Sequences, FiniteSets, Cpu

CONSTANTS
    Block,          \* units in 512 bytes: 32
    Lens,           \* numbers of blocks in a command
    Depth           \* units the USB chip holds

ASSUME UsbAssumption == Block \in Nat \ {0} /\ Lens \subseteq Nat /\ Depth \in Nat \ {0}

VARIABLES
    fifo,           \* units the host has sent and nobody has read
    fpga,           \* dir of the transfer; the units it still has to move;
                    \* the buffer, and the first unit read into it
    call,           \* the command obeyed, and how many blocks it has still to move
    data,           \* UsbCmdW: the copy of a block
    arrived,        \* history: units that have left fifo since the command
    moved           \* history: the blocks or units the call has moved, in order

usb == <<fifo, fpga, call, data, arrived, moved>>

Other == [cmd |-> "data", len |-> 0]
Units == {Other, [cmd |-> "t", len |-> 0]} \cup [cmd : {"w", "W", "R", "f"}, len : Lens]

Nop == [dir |-> "none", left |-> 0, buffer |-> <<>>, first |-> Other]

UsbInit ==
    /\ fifo = <<>> /\ fpga = Nop
    /\ call = Other /\ data = <<>>
    /\ arrived = 0 /\ moved = <<>>

-----------------------------------------------------------------------------
(* The FPGA and the host *)

USB_STA_ACT == fpga.left > 0

\* USB_CMD_RD and USB_CMD_WR with an address: a transfer takes the place of
\* the one before.
USB_CMD_RD(n) == fpga' = [Nop EXCEPT !.dir = "rd", !.left = n]
USB_CMD_WR(units) == fpga' = [Nop EXCEPT !.dir = "wr", !.left = Len(units), !.buffer = units]

HostSends ==
    /\ Len(fifo) < Depth
    /\ \E u \in Units : fifo' = Append(fifo, u)
    /\ UNCHANGED <<pc, ie, fpga, call, data, arrived, moved>>

\* Nothing counts the units that leave between calls.
Receive ==
    /\ USB_STA_ACT /\ fpga.dir = "rd" /\ fifo # <<>>
    /\ fifo' = Tail(fifo)
    /\ arrived' = IF pc \in {"idle", "frame"} THEN 0 ELSE arrived + 1
    /\ fpga' = [fpga EXCEPT !.left = @ - 1, !.buffer = Append(@, arrived'),
                            !.first = IF pc = "frame" THEN Head(fifo) ELSE Other]
    /\ UNCHANGED <<pc, ie, call, data, moved>>

HostReceives ==
    /\ USB_STA_ACT /\ fpga.dir = "wr"
    /\ moved' = Append(moved, Head(fpga.buffer))
    /\ fpga' = [fpga EXCEPT !.left = @ - 1, !.buffer = Tail(@)]
    /\ UNCHANGED <<pc, ie, fifo, call, data, arrived>>

Link == Receive \/ HostReceives

-----------------------------------------------------------------------------
(* bi_usb_busy: the transfer ends, or the processor stops it after some    *)
(* polls, in the middle of a block.                                        *)

Ended_NotAsked == TRUE
Ended == ~USB_STA_ACT

Polls(at) == pc = at /\ Ended
Stops(at) == pc = at /\ USB_STA_ACT /\ fpga' = Nop

Done == pc' = "idle" /\ call' = Other /\ data' = <<>> /\ arrived' = 0 /\ moved' = <<>>

\* UsbResp
Respond == pc' = "send" /\ USB_CMD_WR(<<0>>) /\ data' = <<>> /\ arrived' = 0 /\ moved' = <<>>

-----------------------------------------------------------------------------
(* usbListener reads a unit, though a read may have been left in progress. *)

bi_usb_can_rd == fifo # <<>>

Listen ==
    /\ Goto("idle", "frame") /\ bi_usb_can_rd
    /\ USB_CMD_RD(1)
    /\ UNCHANGED <<ie, fifo, call, data, arrived, moved>>

FrameStops ==
    /\ Stops("frame") /\ Done
    /\ UNCHANGED <<ie, fifo>>

\* A block of ROM, for UsbCmdR (and of RAM, for UsbCmdr).
RomBlock(n) == [i \in 1 .. Block |-> n * Block + i]

Obey ==
    LET u == fpga.first IN
    /\ Polls("frame")
    /\ \/ u.cmd \in {"data", "w", "W", "R"} /\ u.len = 0 /\ Done /\ UNCHANGED fpga
       \/ /\ u.cmd = "t" \/ (u.cmd = "f" /\ u.len = 0)
          /\ Respond /\ call' = u
       \/ /\ u.len > 0 /\ call' = u
          /\ \/ u.cmd = "R" /\ pc' = "send" /\ USB_CMD_WR(RomBlock(0))
             \/ u.cmd \in {"w", "f"} /\ pc' = "read" /\ USB_CMD_RD(Block)
             \/ u.cmd = "W" /\ pc' = "end" /\ USB_CMD_RD(Block)
          /\ UNCHANGED <<data, arrived, moved>>
    /\ UNCHANGED <<ie, fifo>>

-----------------------------------------------------------------------------
(* bi_usb_wr, for UsbCmdR, UsbCmdr and UsbResp *)

BlocksSent == Len(moved) \div Block

SendBlock ==
    /\ Polls("send")
    /\ IF call.cmd = "R" /\ BlocksSent < call.len
       THEN USB_CMD_WR(RomBlock(BlocksSent)) /\ UNCHANGED <<pc, call, data, arrived, moved>>
       ELSE Done /\ UNCHANGED fpga
    /\ UNCHANGED <<ie, fifo>>

SendStops ==
    /\ Stops("send") /\ Done
    /\ UNCHANGED <<ie, fifo>>

-----------------------------------------------------------------------------
(* bi_usb_rd, for UsbCmdw and UsbCmdf, which responds whatever came of it. *)

More(n) == n < call.len

ReadBlock ==
    /\ pc = "read" /\ Ended
    /\ moved' = Append(moved, fpga.buffer)
    /\ pc' = "again"
    /\ UNCHANGED <<ie, fifo, fpga, call, data, arrived>>

ReadAgain ==
    /\ pc = "again"
    /\ \/ /\ More(Len(moved)) /\ pc' = "read" /\ USB_CMD_RD(Block)
          /\ UNCHANGED <<call, data, arrived, moved>>
       \/ ~More(Len(moved)) /\ call.cmd = "f" /\ Respond /\ UNCHANGED call
       \/ ~More(Len(moved)) /\ call.cmd = "w" /\ Done /\ UNCHANGED fpga
    /\ UNCHANGED <<ie, fifo>>

ReadStops ==
    /\ pc = "read" /\ USB_STA_ACT
    /\ \/ call.cmd = "f" /\ Respond /\ UNCHANGED call
       \/ call.cmd = "w" /\ Done /\ fpga' = Nop
    /\ UNCHANGED <<ie, fifo>>

-----------------------------------------------------------------------------
(* UsbCmdW: the next block is on its way while this one goes to ROM, and   *)
(* is asked for before the result of this one is looked at.                *)

bi_usb_rd_end ==
    /\ pc = "end" /\ Ended
    /\ data' = fpga.buffer
    /\ pc' = "next"
    /\ UNCHANGED <<ie, fifo, fpga, call, arrived, moved>>

bi_usb_rd_start ==
    /\ Goto("next", "store")
    /\ IF More(Len(moved) + 1) THEN USB_CMD_RD(Block) ELSE UNCHANGED fpga
    /\ UNCHANGED <<ie, fifo, call, data, arrived, moved>>

StoreBlock ==
    /\ pc = "store"
    /\ moved' = Append(moved, data)
    /\ pc' = IF More(Len(moved')) THEN "end" ELSE "over"
    /\ UNCHANGED <<ie, fifo, fpga, call, data, arrived>>

WriteOver ==
    /\ pc = "over" /\ Done
    /\ UNCHANGED <<ie, fifo, fpga>>

EndStops ==
    /\ pc = "end" /\ USB_STA_ACT
    /\ IF More(Len(moved) + 1) THEN USB_CMD_RD(Block) ELSE fpga' = Nop
    /\ Done
    /\ UNCHANGED <<ie, fifo>>

TimesOut == FrameStops \/ SendStops \/ ReadStops \/ EndStops
UsbThread ==
    \/ Obey \/ SendBlock \/ ReadBlock \/ ReadAgain
    \/ bi_usb_rd_end \/ bi_usb_rd_start \/ StoreBlock \/ WriteOver \/ TimesOut
UsbNext == HostSends \/ Link \/ Listen \/ UsbThread

\* The processor executes; host and FPGA may stop for good.
UsbFairness == WF_<<pc, ie, usb>>(UsbThread)

-----------------------------------------------------------------------------
(* Properties. *)

\* The blocks a call stores are those that follow its command, each once and
\* in order, and those it sends are ROM's, while the next block comes in over
\* the last and whatever an earlier call left in progress.
BlocksInOrder ==
    /\ call.cmd \in {"w", "W", "f"} /\ pc # "send" =>
        \A i \in DOMAIN moved : moved[i] = RomBlock(i - 1)
    /\ call.cmd = "R" => \A i \in DOMAIN moved : moved[i] = i
=============================================================================
