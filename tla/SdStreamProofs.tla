--------------------------- MODULE SdStreamProofs ---------------------------
(***************************************************************************)
(* Proofs about SdStream, for every size of card, every transfer length,   *)
(* every number of polls, either addressing and every set of faults.       *)
(***************************************************************************)
EXTENDS SdStream, TLAPS

\* u32 arithmetic loses no sector: the card starts the stream at the sector
\* the host meant (CmdArg is diskOpenRead's saddr *= 512).
LEMMA ArgIsExact ==
    \A s \in Sector : CardSector(CmdArg(s)) = s
<1> SUFFICES ASSUME NEW s \in Sector PROVE CardSector(CmdArg(s)) = s
    OBVIOUS
<1>1. CASE HighCapacity
    BY <1>1 DEF CardSector, CmdArg
<1>2. CASE ~HighCapacity
    <2>1. s * SectorBytes \in Nat /\ s * SectorBytes < ArgRange
        <3>1. s \in Nat /\ s + 1 <= NumSectors /\ SectorBytes \in Nat /\ SectorBytes > 0 /\ NumSectors \in Nat
            BY StreamAssumption DEF Sector
        <3>2. \A a, b, c \in Nat : a + 1 <= b /\ c > 0 => a * c < b * c
            BY SMT
        <3>3. NumSectors * SectorBytes <= ArgRange /\ ArgRange \in Nat
            BY <1>2, ArgAssumption
        <3>4. s * SectorBytes \in Nat /\ NumSectors * SectorBytes \in Nat
            BY <3>1, SMT
        <3> QED
            BY <3>1, <3>2, <3>3, <3>4
    <2>2. (s * SectorBytes) % ArgRange = s * SectorBytes
        <3>1. \A a, b \in Nat : a < b => a % b = a
            BY SMT
        <3> QED
            BY <2>1, <3>1, ArgAssumption
    <2>3. (s * SectorBytes) \div SectorBytes = s
        <3>1. \A a \in Nat : \A b \in Nat \ {0} : (a * b) \div b = a
            BY SMT
        <3> QED
            BY <3>1, StreamAssumption DEF Sector
    <2> QED
        BY <1>2, <2>2, <2>3 DEF CardSector, CmdArg
<1> QED
    BY <1>1, <1>2

-----------------------------------------------------------------------------
(* Type correctness. *)

\* What the lemmas below need to know of a request and of the arithmetic.
LEMMA RequestFacts ==
    ASSUME NEW r \in Requests
    PROVE  /\ r.kind \in Transfers
           /\ r.addr \in Sector
           /\ r.len \in 1 .. MaxLen
           /\ r.addr + r.len \in 0 .. NumSectors
BY StreamAssumption DEF Requests, Sector

CardType == [st : {"tran", "data", "rcv", "prg"}, pos : 0 .. NumSectors, rdy : BOOLEAN]

\* A call that begins has moved a sequence of sectors: none.
LEMMA EmptyRun == <<>> \in Seq(Sector) /\ Len(<<>>) = 0
OBVIOUS

\* A card that is told to stream is a card.
LEMMA StreamingType ==
    ASSUME NEW s \in Sector, NEW st \in {"data", "rcv"}
    PROVE  /\ Streaming(st, CmdArg(s)) \in CardType
           /\ Streaming(st, CmdArg(s)).st = st
           /\ Streaming(st, CmdArg(s)).pos = s
<1>1. Streaming(st, CmdArg(s)) = [st |-> st, pos |-> s, rdy |-> st = "rcv"]
    BY ArgIsExact DEF Streaming
<1>2. s \in 0 .. NumSectors
    BY StreamAssumption DEF Sector
<1>3. (st = "rcv") \in BOOLEAN
    OBVIOUS
<1> QED
    BY <1>1, <1>2, <1>3 DEF CardType

\* A card that is told to stop is a card, and streams no more.
LEMMA StoppedType ==
    ASSUME card \in CardType
    PROVE  /\ Stopped \in CardType
           /\ Stopped.pos = card.pos
           /\ Stopped.st \in {"tran", "prg"}
BY DEF Stopped, CardType

\* The card after one more sector.
LEMMA PassedType ==
    ASSUME card \in CardType, HasBlock \/ TakesBlock
    PROVE  /\ card.pos \in Sector
           /\ Passed \in CardType
           /\ Passed.pos = card.pos + 1
           /\ Passed.st = card.st
<1>1. card.pos \in Sector
    BY StreamAssumption DEF CardType, HasBlock, TakesBlock, Sector
<1>2. card.pos + 1 \in 0 .. NumSectors
    BY <1>1, StreamAssumption DEF Sector
<1> QED
    BY <1>1, <1>2 DEF CardType, Passed

\* Moving a sector leaves the card on it and the call one sector further.
LEMMA MoveType ==
    ASSUME TypeOK, MoveSector, HasBlock \/ TakesBlock
    PROVE  /\ card' \in CardType
           /\ card'.pos = card.pos + 1
           /\ card'.st = card.st
           /\ moved' \in Seq(Sector)
           /\ Len(moved') = Len(moved) + 1
<1>1. card.pos \in Sector
    BY PassedType DEF TypeOK, CardType
<1>2. card' = Passed /\ moved' = Append(moved, card.pos) /\ moved \in Seq(Sector)
    BY DEF MoveSector, TypeOK
<1> QED
    BY <1>1, <1>2, PassedType DEF TypeOK, CardType

\* The first state has its types.
LEMMA TypeInit == Init => TypeOK
<1> SUFFICES ASSUME Init PROVE TypeOK
    OBVIOUS
<1>1. req \in Requests
    BY StreamAssumption DEF Init, Requests, Sector, Transfers
<1>2. card \in CardType
    BY StreamAssumption DEF Init, CardType
<1>3. moved \in Seq(Sector)
    BY EmptyRun DEF Init
<1>4. disk_cur_addr \in 0 .. NumSectors /\ polls \in 0 .. MaxPolls
    BY StreamAssumption DEF Init
<1>5. /\ disk_mode = "NOP" /\ pc = "idle" /\ ret = "ok"
      /\ direct \in BOOLEAN /\ dma_err \in BOOLEAN /\ lost \in BOOLEAN
    BY DEF Init
<1> QED
    BY <1>1, <1>2, <1>3, <1>4, <1>5 DEF TypeOK, CardType

\* Every step keeps them.
LEMMA TypeStep == TypeOK /\ [Next]_vars => TypeOK'
<1> SUFFICES ASSUME TypeOK, [Next]_vars PROVE TypeOK'
    OBVIOUS
<1> USE DEF stream, call
<1>a. /\ req.kind \in Transfers
      /\ req.addr \in Sector
      /\ req.addr + req.len \in 0 .. NumSectors
      /\ MaxPolls \in 0 .. MaxPolls
    BY RequestFacts, StreamAssumption DEF TypeOK
<1>b. ASSUME Transfer
      PROVE  /\ disk_cur_addr' \in 0 .. NumSectors
             /\ pc' \in {"recv", "dma", "send"}
             /\ polls' \in 0 .. MaxPolls
             /\ dma_err' \in BOOLEAN
    BY <1>a, <1>b DEF Transfer, PhaseOf
<1>1. ASSUME NEW r \in Requests, Call(r) PROVE TypeOK'
    BY <1>1, EmptyRun DEF Call, TypeOK
<1>2. CASE CallClose
    BY <1>2, EmptyRun DEF CallClose, Return, TypeOK
<1>3. CASE OpenContinue
    BY <1>3, <1>b DEF OpenContinue, TypeOK
<1>4. CASE OpenAnew
    BY <1>4 DEF OpenAnew, TypeOK
<1>5. CASE StopAcked
    BY <1>5, <1>a, StoppedType DEF StopAcked, TypeOK, CardType
<1>6. CASE StopTimeout
    <2>1. card' \in CardType
        BY <1>6, StoppedType DEF StopTimeout, TypeOK, CardType
    <2> QED
        BY <1>6, <2>1 DEF StopTimeout, Closed, Return, TypeOK, CardType, Errors
<1>7. CASE BusyEnd
    BY <1>7 DEF BusyEnd, Closed, Return, TypeOK
<1>8. CASE CmdRead
    <2>1. card' \in CardType
        BY <1>8, <1>a, StreamingType DEF CmdRead, TypeOK, CardType
    <2> QED
        BY <1>8, <1>b, <2>1 DEF CmdRead, TypeOK, CardType
<1>9. CASE CmdWrite
    <2>1. card' \in CardType
        BY <1>9, <1>a, StreamingType DEF CmdWrite, TypeOK, CardType
    <2> QED
        BY <1>9, <1>b, <2>1 DEF CmdWrite, TypeOK, CardType
<1>10. CASE CmdWriteTimeout
    <2>1. card' \in CardType
        BY <1>10, <1>a, StreamingType DEF CmdWriteTimeout, TypeOK, CardType
    <2>2. req.addr \in 0 .. NumSectors
        BY <1>a, StreamAssumption DEF Sector
    <2> QED
        BY <1>10, <2>1, <2>2 DEF CmdWriteTimeout, Return, TypeOK, CardType, Errors
<1>11. CASE RecvSector
    BY <1>11, <1>a, MoveType DEF RecvSector, MoveSector, TypeOK, CardType
<1>12. CASE RecvTimeout
    BY <1>12 DEF RecvTimeout, Abort, Return, TypeOK, Errors
<1>13. CASE DmaSector
    BY <1>13, MoveType DEF DmaSector, MoveSector, TypeOK, CardType
<1>14. CASE DmaFail
    <2>1. card' \in CardType
        BY <1>14, PassedType DEF DmaFail, TypeOK, CardType
    <2> QED
        BY <1>14, <2>1 DEF DmaFail, TypeOK, CardType
<1>15. CASE DmaError
    BY <1>15 DEF DmaError, Abort, Return, TypeOK, Errors
<1>16. CASE SendBlock
    BY <1>16, <1>a, MoveType DEF SendBlock, MoveSector, TypeOK, CardType
<1>17. CASE SendFail
    <2>1. /\ pc' = "idle"
          /\ ret' \in {"D6", "D7", "D8"}
          /\ lost' = TRUE
          /\ UNCHANGED <<stream, polls, dma_err, req, direct>>
        BY <1>17 DEF SendFail, Abort, Return, MoveSector
    <2>2. card' \in CardType /\ moved' \in Seq(Sector)
        <3>1. CASE UNCHANGED <<card, call>>
            BY <3>1 DEF TypeOK, CardType
        <3>2. CASE TakesBlock /\ MoveSector
            BY <3>2, MoveType
        <3> QED
            BY <1>17, <3>1, <3>2 DEF SendFail
    <2> QED
        BY <2>1, <2>2 DEF TypeOK, CardType, Errors
<1>18. CASE Programmed
    BY <1>18 DEF Programmed, TypeOK
<1>19. CASE ProgramTimeout
    BY <1>19 DEF ProgramTimeout, Abort, Return, TypeOK, Errors
<1>20. CASE Succeed
    BY <1>20 DEF Succeed, Return, TypeOK
<1>21. CASE Poll
    BY <1>21, StreamAssumption DEF Poll, TypeOK
<1>22. CASE Card
    BY <1>22 DEF Card, CardReady, CardProgrammed, TypeOK
<1>23. CASE UNCHANGED vars
    BY <1>23 DEF vars, TypeOK
<1> QED
    BY <1>1, <1>2, <1>3, <1>4, <1>5, <1>6, <1>7, <1>8, <1>9, <1>10, <1>11, <1>12,
       <1>13, <1>14, <1>15, <1>16, <1>17, <1>18, <1>19, <1>20, <1>21, <1>22, <1>23
       DEF Next, Host, Open, Close, Command, Move, Dma

\* Every variable keeps its type, whatever calls are made and whatever the
\* card does: disk_cur_addr never leaves the card and no poll count goes
\* below zero.
THEOREM TypeCorrect == Spec => []TypeOK
<1> QED
    BY TypeInit, TypeStep, PTL DEF Spec

-----------------------------------------------------------------------------
(* The stream.  Coherent is not inductive by itself: between a call's steps *)
(* it needs to know which steps the host has taken.  Phases says so.        *)

Phases ==
    /\ pc \in {"open", "stop", "busy", "cmd"} => moved = <<>>
    /\ pc \in {"busy", "cmd"} => disk_mode = "NOP"
    /\ InTransfer =>
        /\ disk_cur_addr = req.addr + req.len
        /\ disk_mode = ModeOf(req.kind)
        /\ pc \in {"send", "program"} <=> req.kind = "fromRam"
    /\ pc = "dma" /\ dma_err => ~Finished

Inv == TypeOK /\ Phases /\ Coherent /\ RightSectors

\* A call that has moved nothing has moved nothing wrong.
LEMMA EmptyAsked == <<>> = Asked(0) /\ Len(<<>>) = 0
BY DEF Asked

\* One more sector of those asked for.
LEMMA AskedNext ==
    ASSUME req \in Requests,
           moved \in Seq(Sector), moved = Asked(Len(moved)),
           NEW s \in Sector, s = req.addr + Len(moved)
    PROVE  Append(moved, s) = Asked(Len(moved) + 1) /\ Len(Append(moved, s)) = Len(moved) + 1
<1> DEFINE n == Len(moved)
<1>1. n \in Nat /\ req.addr \in Nat
    BY RequestFacts, StreamAssumption DEF Sector
<1>2. Append(moved, s) \in Seq(Sector) /\ Len(Append(moved, s)) = n + 1
    OBVIOUS
<1>3. Asked(n + 1) \in Seq(Int) /\ Len(Asked(n + 1)) = n + 1
    BY <1>1 DEF Asked
<1>4. ASSUME NEW i \in 1 .. n + 1
      PROVE  Append(moved, s)[i] = Asked(n + 1)[i]
    <2>1. CASE i = n + 1
        BY <2>1, <1>1 DEF Asked
    <2>2. CASE i \in 1 .. n
        <3>1. moved[i] = req.addr + i - 1
            BY <2>2, <1>1 DEF Asked
        <3> QED
            BY <2>2, <3>1, <1>1 DEF Asked
    <2> QED
        BY <2>1, <2>2, <1>1
<1> QED
    BY <1>2, <1>3, <1>4, <1>1 DEF Asked

\* The stream is coherent to begin with.
LEMMA InvInit == Init => Inv
<1> SUFFICES ASSUME Init PROVE Inv
    OBVIOUS
<1>1. TypeOK
    BY TypeInit
<1>2. Phases
    BY DEF Init, Phases, InTransfer
<1>3. Coherent
    BY DEF Init, Coherent, CardAt, InTransfer
<1>4. RightSectors
    BY EmptyAsked DEF Init, RightSectors
<1> QED
    BY <1>1, <1>2, <1>3, <1>4 DEF Inv

\* Steps that end a call with an error in the middle of its transfer, and
\* steps that move no sector and leave the host's stream alone, keep it.
LEMMA InvAbort ==
    ASSUME Inv, TypeOK', NEW e, Abort(e)
    PROVE  Inv'
BY DEF Inv, Abort, Return, Phases, Coherent, RightSectors, InTransfer

\* A transfer that begins does so with the sector the call asked for.
LEMMA InvTransfer ==
    ASSUME TypeOK, TypeOK', Transfer, moved = <<>>, UNCHANGED <<call, lost>>,
           disk_mode' = ModeOf(req.kind),
           ~lost => CardAt(req.addr)'
    PROVE  Inv'
<1> USE DEF call
<1>0. /\ Len(moved) = 0 /\ moved' = moved /\ req' = req /\ req.addr + Len(moved) = req.addr
      /\ req.len > 0 /\ dma_err' = FALSE
    BY EmptyAsked, RequestFacts, StreamAssumption DEF TypeOK, Transfer, Sector
<1>1. Phases'
    BY <1>0 DEF Phases, Transfer, PhaseOf, InTransfer, TypeOK, Requests, Transfers
<1>2. Coherent'
    BY <1>0, <1>1 DEF Coherent, Transfer, PhaseOf, InTransfer, CardAt
<1>3. RightSectors'
    BY <1>0, EmptyAsked DEF RightSectors, Asked
<1> QED
    BY <1>1, <1>2, <1>3 DEF Inv

\* A sector moved on a stream that is where the call believes it to be is the
\* sector the call asked for next.
LEMMA InvMove ==
    ASSUME Inv, TypeOK', MoveSector, ~Finished,
           \/ pc \in {"recv", "dma"} /\ HasBlock
           \/ pc = "send" /\ TakesBlock,
           pc' \in {"recv", "dma", "send", "program"},
           pc \in {"send"} <=> pc' \in {"send", "program"},
           pc = "dma" => ~dma_err,
           pc' = "dma" => pc = "dma",
           UNCHANGED <<stream, dma_err, lost>>
    PROVE  Inv'
<1> USE DEF stream
<1>0. /\ card.pos \in Sector
      /\ card'.pos = card.pos + 1
      /\ card'.st = card.st
      /\ moved' = Append(moved, card.pos)
      /\ req' = req
      /\ moved \in Seq(Sector)
      /\ Len(moved') = Len(moved) + 1
      /\ req \in Requests
    BY PassedType, MoveType DEF Inv, TypeOK, CardType, MoveSector
<1>1. Phases'
    BY <1>0 DEF Inv, Phases, InTransfer, Finished
<1>2. ASSUME ~lost
      PROVE  card.pos = req.addr + Len(moved)
    BY <1>2 DEF Inv, Phases, Coherent, CardAt, InTransfer, ModeOf, HasBlock, TakesBlock
<1>3. Coherent'
    <2>1. req.addr + Len(moved') = req.addr + Len(moved) + 1
        <3>1. req.addr \in Nat /\ Len(moved) \in Nat
            BY <1>0, RequestFacts, StreamAssumption DEF Sector
        <3> QED
            BY <1>0, <3>1
    <2> QED
        BY <1>0, <1>2, <2>1 DEF Inv, Phases, Coherent, CardAt, InTransfer, ModeOf
<1>4. RightSectors'
    <2> SUFFICES ASSUME ~lost' PROVE (moved = Asked(Len(moved)))'
        BY DEF RightSectors
    <2>1. moved = Asked(Len(moved)) /\ card.pos = req.addr + Len(moved)
        BY <1>2 DEF Inv, RightSectors
    <2>2. moved' = Asked(Len(moved) + 1)
        BY <2>1, <1>0, AskedNext
    <2> QED
        BY <2>2, <1>0 DEF Asked
<1> QED
    BY <1>1, <1>3, <1>4 DEF Inv

\* Every step keeps the stream coherent.
LEMMA InvStep == Inv /\ [Next]_vars => Inv'
<1> SUFFICES ASSUME Inv, [Next]_vars PROVE Inv'
    OBVIOUS
<1> USE DEF stream, call
<1>t. TypeOK /\ TypeOK'
    BY TypeStep DEF Inv
<1>i. ASSUME Phases', Coherent', RightSectors'
      PROVE  Inv'
    BY <1>i, <1>t DEF Inv
<1>1. ASSUME NEW r \in Requests, Call(r) PROVE Inv'
    <2>1. Phases'
        BY <1>1 DEF Call, Phases, InTransfer
    <2>2. Coherent'
        BY <1>1 DEF Call, Inv, Coherent, CardAt, InTransfer
    <2>3. RightSectors'
        BY <1>1, EmptyAsked DEF Call, RightSectors, Asked
    <2> QED
        BY <2>1, <2>2, <2>3, <1>i
<1>2. CASE CallClose
    <2>1. Phases'
        BY <1>2 DEF CallClose, Return, Phases, InTransfer
    <2>2. Coherent'
        BY <1>2 DEF CallClose, Return, Inv, Coherent, CardAt, InTransfer
    <2>3. RightSectors'
        BY <1>2, EmptyAsked DEF CallClose, RightSectors, Asked
    <2> QED
        BY <2>1, <2>2, <2>3, <1>i
<1>3. CASE OpenContinue
    <2>1. moved = <<>> /\ disk_mode' = ModeOf(req.kind) /\ UNCHANGED <<call, lost>> /\ Transfer
        BY <1>3 DEF OpenContinue, Continues, Inv, Phases
    <2>2. ~lost => CardAt(req.addr)'
        BY <1>3 DEF OpenContinue, Continues, Inv, Coherent, CardAt, InTransfer
    <2> QED
        BY <2>1, <2>2, <1>t, InvTransfer
<1>4. CASE OpenAnew
    <2>1. Phases'
        BY <1>4 DEF OpenAnew, Inv, Phases, InTransfer
    <2>2. Coherent'
        BY <1>4 DEF OpenAnew, Inv, Coherent, CardAt, InTransfer
    <2>3. RightSectors'
        BY <1>4 DEF OpenAnew, Inv, RightSectors, Asked
    <2> QED
        BY <2>1, <2>2, <2>3, <1>i
<1>5. CASE StopAcked
    <2>1. Phases'
        BY <1>5 DEF StopAcked, Inv, Phases, InTransfer
    <2>2. Coherent'
        BY <1>5, <1>t, StoppedType DEF StopAcked, Coherent, CardAt, InTransfer, TypeOK, CardType
    <2>3. RightSectors'
        BY <1>5, EmptyAsked DEF StopAcked, Inv, Phases, RightSectors, Asked
    <2> QED
        BY <2>1, <2>2, <2>3, <1>i
<1>6. CASE StopTimeout
    BY <1>6, <1>t DEF StopTimeout, Closed, Return, Inv, Phases, Coherent, RightSectors, InTransfer
<1>7. CASE BusyEnd
    <2>1. Phases'
        BY <1>7 DEF BusyEnd, Closed, Return, Inv, Phases, InTransfer
    <2>2. Coherent'
        BY <1>7 DEF BusyEnd, Closed, Return, Inv, Coherent, CardAt, InTransfer
    <2>3. RightSectors'
        BY <1>7 DEF BusyEnd, Inv, RightSectors, Asked
    <2> QED
        BY <2>1, <2>2, <2>3, <1>i
<1>8. CASE CmdRead
    <2>1. moved = <<>> /\ disk_mode' = ModeOf(req.kind) /\ UNCHANGED <<call, lost>> /\ Transfer
        BY <1>8 DEF CmdRead, Inv, Phases, ModeOf
    <2>2. req.addr \in Sector
        BY <1>t, RequestFacts DEF TypeOK
    <2>3. ~lost => CardAt(req.addr)'
        BY <1>8, <2>2, StreamingType DEF CmdRead, Inv, Phases, Coherent, CardAt, InTransfer
    <2> QED
        BY <2>1, <2>3, <1>t, InvTransfer
<1>9. CASE CmdWrite
    <2>1. moved = <<>> /\ disk_mode' = ModeOf(req.kind) /\ UNCHANGED <<call, lost>> /\ Transfer
        BY <1>9 DEF CmdWrite, Inv, Phases, ModeOf
    <2>2. req.addr \in Sector
        BY <1>t, RequestFacts DEF TypeOK
    <2>3. ~lost => CardAt(req.addr)'
        BY <1>9, <2>2, StreamingType DEF CmdWrite, CardAt
    <2> QED
        BY <2>1, <2>3, <1>t, InvTransfer
<1>10. CASE CmdWriteTimeout
    <2>1. Phases'
        BY <1>10 DEF CmdWriteTimeout, Return, Inv, Phases, InTransfer
    <2>2. req.addr \in Sector
        BY <1>t, RequestFacts DEF TypeOK
    <2>3. Coherent'
        BY <1>10, <2>2, StreamingType DEF CmdWriteTimeout, Return, Inv, Phases, Coherent, CardAt, InTransfer
    <2>4. RightSectors'
        BY <1>10 DEF CmdWriteTimeout, Inv, RightSectors, Asked
    <2> QED
        BY <2>1, <2>3, <2>4, <1>i
<1>11. CASE RecvSector
    BY <1>11, <1>t, InvMove DEF RecvSector
<1>12. CASE RecvTimeout
    BY <1>12, <1>t, InvAbort DEF RecvTimeout
<1>13. CASE DmaSector
    BY <1>13, <1>t, InvMove DEF DmaSector
<1>14. CASE DmaFail
    <2>1. Phases'
        BY <1>14 DEF DmaFail, Inv, Phases, InTransfer, Finished
    <2>2. Coherent'
        BY <1>14 DEF DmaFail, Coherent
    <2>3. RightSectors'
        BY <1>14 DEF DmaFail, Inv, RightSectors, Asked
    <2> QED
        BY <2>1, <2>2, <2>3, <1>i
<1>15. CASE DmaError
    BY <1>15, <1>t, InvAbort DEF DmaError
<1>16. CASE SendBlock
    BY <1>16, <1>t, InvMove DEF SendBlock
<1>17. CASE SendFail
    <2>1. \E e : Abort(e)
        BY <1>17 DEF SendFail
    <2> QED
        BY <2>1, <1>t, InvAbort
<1>18. CASE Programmed
    <2>1. Phases'
        BY <1>18 DEF Programmed, Inv, Phases, InTransfer
    <2>2. Coherent'
        BY <1>18 DEF Programmed, Inv, Coherent, CardAt, InTransfer
    <2>3. RightSectors'
        BY <1>18 DEF Programmed, Inv, RightSectors, Asked
    <2> QED
        BY <2>1, <2>2, <2>3, <1>i
<1>19. CASE ProgramTimeout
    BY <1>19, <1>t, InvAbort DEF ProgramTimeout
<1>20. CASE Succeed
    <2>1. Phases'
        BY <1>20 DEF Succeed, Return, Inv, Phases, InTransfer
    <2>2. Coherent'
        BY <1>20 DEF Succeed, Return, Inv, Phases, Coherent, CardAt, InTransfer, Finished
    <2>3. RightSectors'
        BY <1>20 DEF Succeed, Inv, RightSectors, Asked
    <2> QED
        BY <2>1, <2>2, <2>3, <1>i
<1>21. CASE Poll
    <2>1. Phases'
        BY <1>21 DEF Poll, Inv, Phases, InTransfer, Finished
    <2>2. Coherent'
        BY <1>21 DEF Poll, Inv, Coherent, CardAt, InTransfer
    <2>3. RightSectors'
        BY <1>21 DEF Poll, Inv, RightSectors, Asked
    <2> QED
        BY <2>1, <2>2, <2>3, <1>i
<1>22. CASE Card
    <2>1. Phases'
        BY <1>22 DEF Card, CardReady, CardProgrammed, Inv, Phases, InTransfer, Finished
    <2>2. Coherent'
        <3>0. card \in CardType
            BY <1>t DEF TypeOK, CardType
        <3>1. /\ card'.pos = card.pos
              /\ card'.st = card.st \/ (card.st = "prg" /\ card'.st = "tran")
            <4>1. CASE CardReady
                BY <4>1, <3>0 DEF CardReady, CardType
            <4>2. CASE CardProgrammed
                BY <4>2, <3>0 DEF CardProgrammed, CardType
            <4> QED
                BY <1>22, <4>1, <4>2 DEF Card
        <3> QED
            BY <1>22, <3>1 DEF Card, CardReady, CardProgrammed, Inv, Coherent, CardAt, InTransfer
    <2>3. RightSectors'
        BY <1>22 DEF Card, CardReady, CardProgrammed, Inv, RightSectors, Asked
    <2> QED
        BY <2>1, <2>2, <2>3, <1>i
<1>23. CASE UNCHANGED vars
    BY <1>23 DEF vars, Inv, TypeOK, Phases, Coherent, CardAt, RightSectors, Asked, InTransfer, Finished
<1> QED
    BY <1>1, <1>2, <1>3, <1>4, <1>5, <1>6, <1>7, <1>8, <1>9, <1>10, <1>11, <1>12,
       <1>13, <1>14, <1>15, <1>16, <1>17, <1>18, <1>19, <1>20, <1>21, <1>22, <1>23
       DEF Next, Host, Open, Close, Command, Move, Dma

\* An open stream that nothing has gone wrong with is where the host believes
\* it to be, between calls and inside one.
THEOREM StreamCoherent == Spec => []Coherent
<1>1. Inv => Coherent
    BY DEF Inv
<1> QED
    BY <1>1, InvInit, InvStep, PTL DEF Spec

\* Until a transfer fails or a stop goes unanswered, every sector that passes
\* is the one the call asked for: an address is compared once, when the call
\* begins, and that is enough.
THEOREM SectorsRight == Spec => []RightSectors
<1>1. Inv => RightSectors
    BY DEF Inv
<1> QED
    BY <1>1, InvInit, InvStep, PTL DEF Spec

-----------------------------------------------------------------------------
(* SdStream implements SectorDevice.  The abstract device says which sector *)
(* even an untrusted call moves next, so the mapping needs three facts more: *)
(* no call moves more than it was asked to, a call of the caller's own       *)
(* diskCloseRW transfers nothing, and the card goes on from the sector it    *)
(* moved last.                                                               *)

Extent ==
    /\ Len(moved) <= req.len
    /\ direct => pc \in {"idle", "stop", "busy"}
    /\ InTransfer /\ ~(pc = "dma" /\ dma_err) /\ moved # <<>>
        => card.pos = moved[Len(moved)] + 1

DeviceInv == Inv /\ Extent

\* No call is in its transfer to begin with.
LEMMA ExtentInit == Init => Extent
BY DEF Init, Extent, InTransfer

\* What a sector moved does to the run moved so far.
LEMMA ExtentMove ==
    ASSUME TypeOK, MoveSector, HasBlock \/ TakesBlock, Len(moved) <= req.len, ~Finished
    PROVE  /\ Len(moved') <= req.len
           /\ moved'[Len(moved')] = card.pos
           /\ card'.pos = card.pos + 1
           /\ Len(moved) < req.len
           /\ moved' = Append(moved, card.pos)
           /\ card.pos \in Sector
<1>1. /\ card.pos \in Sector /\ card'.pos = card.pos + 1
      /\ moved \in Seq(Sector) /\ moved' = Append(moved, card.pos)
    BY PassedType, MoveType DEF TypeOK, CardType, MoveSector
<1>2. req.len \in Nat /\ Len(moved) \in Nat
    BY <1>1, RequestFacts, StreamAssumption DEF TypeOK
<1>3. moved'[Len(moved')] = card.pos /\ Len(moved') = Len(moved) + 1
    BY <1>1
<1>4. Len(moved) < req.len
    BY <1>2 DEF Finished
<1> QED
    BY <1>1, <1>2, <1>3, <1>4

\* Every step keeps the extent.
LEMMA ExtentStep == DeviceInv /\ [Next]_vars => Extent'
<1> SUFFICES ASSUME DeviceInv, [Next]_vars PROVE Extent'
    OBVIOUS
<1> USE DEF stream, call
<1>t. TypeOK /\ Extent /\ Phases
    BY DEF DeviceInv, Inv
<1>l. req.len \in Nat /\ req.len > 0 /\ Len(<<>>) = 0
    BY <1>t, RequestFacts, EmptyRun, StreamAssumption DEF TypeOK
<1>1. ASSUME NEW r \in Requests, Call(r) PROVE Extent'
    BY <1>1, RequestFacts, EmptyRun, StreamAssumption DEF Call, Extent, InTransfer
<1>2. CASE CallClose
    BY <1>2, <1>l DEF CallClose, Return, Extent, InTransfer
<1>3. CASE OpenContinue \/ CmdRead \/ CmdWrite
    <2>1. moved = <<>> /\ moved' = moved /\ UNCHANGED <<req, direct>> /\ ~direct
        BY <1>3, <1>t DEF OpenContinue, CmdRead, CmdWrite, Phases, Extent
    <2> QED
        BY <2>1, <1>t DEF Extent
<1>4. CASE OpenAnew \/ StopAcked \/ StopTimeout \/ BusyEnd \/ CmdWriteTimeout
    <2>1. ~InTransfer' /\ UNCHANGED <<req, moved, direct>>
        BY <1>4 DEF OpenAnew, StopAcked, StopTimeout, BusyEnd, Closed, CmdWriteTimeout, Return, InTransfer
    <2>2. direct => pc' \in {"idle", "stop", "busy"}
        BY <1>4, <1>t DEF OpenAnew, StopAcked, StopTimeout, BusyEnd, Closed, CmdWriteTimeout, Return, Extent
    <2> QED
        BY <2>1, <2>2, <1>t DEF Extent
<1>5. CASE RecvSector \/ DmaSector \/ SendBlock
    <2>1. MoveSector /\ ~Finished /\ (HasBlock \/ TakesBlock)
        BY <1>5 DEF RecvSector, DmaSector, SendBlock
    <2>2. ~direct' /\ req' = req
        BY <1>5, <1>t, <2>1 DEF RecvSector, DmaSector, SendBlock, MoveSector, Extent
    <2> QED
        BY <2>1, <2>2, <1>t, ExtentMove DEF Extent
<1>6. CASE RecvTimeout \/ DmaError \/ ProgramTimeout \/ Succeed
    BY <1>6, <1>t DEF RecvTimeout, DmaError, ProgramTimeout, Succeed, Abort, Return, Extent, InTransfer
<1>7. CASE SendFail
    <2>1. pc' = "idle" /\ UNCHANGED <<req, direct>>
        BY <1>7 DEF SendFail, Abort, Return, MoveSector
    <2>2. Len(moved') <= req.len
        <3>1. CASE UNCHANGED moved
            BY <3>1, <1>t DEF Extent
        <3>2. CASE MoveSector /\ TakesBlock
            BY <1>7, <3>2, <1>t, ExtentMove DEF SendFail, Extent
        <3> QED
            BY <1>7, <3>1, <3>2 DEF SendFail
    <2> QED
        BY <2>1, <2>2, <1>t DEF Extent, InTransfer
<1>8. CASE DmaFail
    BY <1>8, <1>t DEF DmaFail, Extent, InTransfer
<1>9. CASE Programmed \/ Poll
    BY <1>9, <1>t DEF Programmed, Poll, Extent, InTransfer
<1>10. CASE Card
    <2>1. card'.pos = card.pos
        BY <1>10, <1>t DEF Card, CardReady, CardProgrammed, TypeOK
    <2> QED
        BY <1>10, <2>1, <1>t DEF Card, CardReady, CardProgrammed, Extent, InTransfer
<1>11. CASE UNCHANGED vars
    BY <1>11, <1>t DEF vars, Extent, InTransfer
<1> QED
    BY <1>1, <1>2, <1>3, <1>4, <1>5, <1>6, <1>7, <1>8, <1>9, <1>10, <1>11
       DEF Next, Host, Open, Close, Command, Move, Dma

\* A sector the card moves is one the abstract device may move next.
LEMMA MoveAllowed ==
    ASSUME DeviceInv, MoveSector, ~Finished,
           \/ pc \in {"recv", "dma"} /\ HasBlock /\ ~(pc = "dma" /\ dma_err)
           \/ pc = "send" /\ TakesBlock
    PROVE  /\ Len(moved) < req.len
           /\ card.pos \in Sector
           /\ moved' = Append(moved, card.pos)
           /\ Device!MayMove(card.pos)
<1>1. TypeOK /\ Phases /\ Coherent /\ Extent
    BY DEF DeviceInv, Inv
<1>2. /\ Len(moved) < req.len
      /\ card.pos \in Sector
      /\ moved' = Append(moved, card.pos)
    BY <1>1, ExtentMove DEF Extent
<1>3. CASE lost
    <2>1. moved = <<>> \/ card.pos = moved[Len(moved)] + 1
        BY <1>1 DEF Extent, InTransfer
    <2> QED
        BY <1>2, <1>3, <2>1 DEF Device!MayMove
<1>4. CASE ~lost
    <2>1. card.pos = req.addr + Len(moved)
        BY <1>4, <1>1 DEF Phases, Coherent, CardAt, InTransfer, ModeOf, HasBlock, TakesBlock
    <2> QED
        BY <1>2, <1>4, <2>1 DEF Device!MayMove
<1> QED
    BY <1>2, <1>3, <1>4, <1>1 DEF TypeOK

\* A call that moves its next sector.
LEMMA MoveMaps ==
    ASSUME DeviceInv, RecvSector \/ DmaSector \/ SendBlock
    PROVE  \E s \in Sector : Device!Move(s)
<1>1. /\ MoveSector /\ ~Finished
      /\ \/ pc \in {"recv", "dma"} /\ HasBlock /\ ~(pc = "dma" /\ dma_err)
         \/ pc = "send" /\ TakesBlock
      /\ pc \notin {"idle", "stop", "busy"} /\ pc' # "idle"
      /\ UNCHANGED <<ret, lost>>
    BY DEF RecvSector, DmaSector, SendBlock
<1>2. ~direct /\ ~direct' /\ req' = req
    BY <1>1 DEF DeviceInv, Extent, MoveSector
<1> QED
    BY <1>1, <1>2, MoveAllowed DEF Device!Move

\* A call that ends with an error.
LEMMA FailMaps ==
    ASSUME DeviceInv,
           RecvTimeout \/ DmaError \/ ProgramTimeout \/ SendFail \/ CmdWriteTimeout
    PROVE  \E e \in Errors : Device!Fail(e)
<1> USE DEF stream, call
<1>1. /\ pc \notin {"idle", "stop", "busy"} /\ pc' = "idle"
      /\ ret' \in Errors
      /\ UNCHANGED <<req, direct>>
      /\ lost' \in {lost, TRUE}
    BY DEF RecvTimeout, DmaError, ProgramTimeout, SendFail, CmdWriteTimeout,
           Abort, Return, MoveSector, Errors
<1>2. ~direct /\ lost \in BOOLEAN
    BY <1>1 DEF DeviceInv, Extent, Inv, TypeOK
<1>3. (~lost)' \in {~lost, FALSE}
    BY <1>1, <1>2
<1>4. \/ UNCHANGED moved
      \/ /\ Len(moved) < req.len
         /\ \E s \in Device!Sector : Device!MayMove(s) /\ moved' = Append(moved, s)
    <2>1. CASE UNCHANGED moved
        BY <2>1
    <2>2. CASE SendFail /\ MoveSector /\ TakesBlock
        <3>1. pc = "send" /\ ~Finished
            BY <2>2 DEF SendFail
        <3> QED
            BY <2>2, <3>1, MoveAllowed DEF Device!Sector, Sector
    <2> QED
        BY <2>1, <2>2 DEF RecvTimeout, DmaError, ProgramTimeout, SendFail, CmdWriteTimeout
<1> QED
    BY <1>1, <1>2, <1>3, <1>4 DEF Device!Fail

\* Every step of the stream is a step of the device, or none.
LEMMA DeviceStep == DeviceInv /\ [Next]_vars => [Device!Next]_Device!vars
<1> SUFFICES ASSUME DeviceInv, [Next]_vars
             PROVE  Device!Next \/ UNCHANGED Device!vars
    OBVIOUS
<1> USE DEF stream, call
<1>t. TypeOK /\ Extent /\ Phases
    BY DEF DeviceInv, Inv
<1>s. Device!Sector = Sector /\ Device!Requests = Requests
    BY DEF Device!Sector, Sector, Device!Requests, Requests
<1>1. ASSUME NEW r \in Requests, Call(r) PROVE Device!Next
    <2>1. Device!Call(r)
        BY <1>1 DEF Call, Device!Call
    <2> QED
        BY <2>1, <1>s DEF Device!Next
<1>2. CASE CallClose
    <2>1. Device!Close
        BY <1>2, <1>t DEF CallClose, Return, Device!Close, TypeOK
    <2> QED
        BY <2>1 DEF Device!Next
<1>3. CASE OpenContinue \/ OpenAnew \/ CmdRead \/ CmdWrite
    <2>1. pc # "idle" /\ pc' # "idle" /\ UNCHANGED <<call, ret, lost>>
        BY <1>3 DEF OpenContinue, OpenAnew, CmdRead, CmdWrite, Transfer, PhaseOf
    <2> QED
        BY <2>1 DEF Device!vars
<1>4. CASE StopAcked \/ StopTimeout \/ BusyEnd
    <2>1. /\ pc # "idle" /\ moved = <<>> /\ moved' = <<>>
          /\ UNCHANGED <<req, direct>>
          /\ lost' \in BOOLEAN
          /\ ret' \in Errors \cup {"ok"}
        BY <1>4, <1>t DEF StopAcked, StopTimeout, BusyEnd, Closed, Return, Phases, TypeOK, Errors
    <2>2. CASE direct
        BY <2>1, <2>2 DEF Device!Next, Device!Close
    <2>3. CASE ~direct
        <3>1. pc' # "idle" /\ ret' = ret
            BY <1>4, <2>3 DEF StopAcked, StopTimeout, BusyEnd, Closed
        <3> QED
            BY <2>1, <2>3, <3>1 DEF Device!Next, Device!Resync
    <2> QED
        BY <2>2, <2>3
<1>5. CASE RecvSector \/ DmaSector \/ SendBlock
    BY <1>5, <1>s, MoveMaps DEF Device!Next
<1>6. CASE RecvTimeout \/ DmaError \/ ProgramTimeout \/ SendFail \/ CmdWriteTimeout
    BY <1>6, FailMaps DEF Device!Next
<1>7. CASE Succeed
    <2>1. Device!Succeed
        BY <1>7, <1>t DEF Succeed, Return, Finished, Extent, Device!Succeed
    <2> QED
        BY <2>1 DEF Device!Next
<1>8. CASE DmaFail \/ Programmed \/ Poll \/ Card
    <2>1. UNCHANGED <<call, ret, lost>> /\ (pc' = "idle" <=> pc = "idle")
        BY <1>8 DEF DmaFail, Programmed, Poll, Card, CardReady, CardProgrammed
    <2> QED
        BY <2>1 DEF Device!vars
<1>9. CASE UNCHANGED vars
    BY <1>9 DEF vars, Device!vars
<1> QED
    BY <1>1, <1>2, <1>3, <1>4, <1>5, <1>6, <1>7, <1>8, <1>9
       DEF Next, Host, Open, Close, Command, Move, Dma

\* The stream starts as the device does.
LEMMA DeviceInit == Init => Device!Init
<1> SUFFICES ASSUME Init PROVE Device!Init
    OBVIOUS
<1>1. req \in Device!Requests
    BY TypeInit DEF TypeOK, Requests, Device!Requests, Sector, Device!Sector
<1> QED
    BY <1>1 DEF Init, Device!Init

\* disk.c is a sector device: a call moves the sectors asked for, in order
\* and all of them, or fails, as long as the host can trust its stream; and
\* when it cannot, it still moves a run of consecutive sectors.
THEOREM ImplementsDevice == Spec => DeviceSpec
<1>1. Init => DeviceInv
    BY InvInit, ExtentInit DEF DeviceInv
<1>2. DeviceInv /\ [Next]_vars => DeviceInv'
    BY InvStep, ExtentStep DEF DeviceInv
<1> QED
    BY <1>1, <1>2, DeviceInit, DeviceStep, PTL DEF Spec, DeviceSpec, Device!Spec

=============================================================================
