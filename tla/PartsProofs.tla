----------------------------- MODULE PartsProofs ----------------------------
(***************************************************************************)
(* Proofs about Parts, for rings of any size, any number of timers, blocks *)
(* of any length and commands of any number of them: the ring of audio.c   *)
(* implements a queue; the listener moves the blocks that follow its       *)
(* command; the next interrupt of the timers is on its way, and a timer    *)
(* fires early by no more than the margin and what the counter showed.     *)
(***************************************************************************)
EXTENDS Parts, FiniteSetTheorems, WellFoundedInduction, TLAPS

-----------------------------------------------------------------------------
(* The inductive invariants. *)

\* The USB link.  Block n is on its way: the units of it that have arrived
\* are in the buffer.
Coming(n) ==
    /\ fpga.left \in 0 .. Block
    /\ arrived = (n * Block) + (Block - fpga.left)
    /\ fpga.buffer = [i \in 1 .. Block - fpga.left |-> (n * Block) + i]

UsbTypeOK ==
    /\ fifo \in Seq(Units)
    /\ fpga \in [dir : {"none", "rd", "wr"}, left : Nat, buffer : Seq(Nat), first : Units]
    /\ call \in Units /\ data \in Seq(Nat) /\ arrived \in Nat
    /\ moved \in Seq(Seq(Nat) \cup Nat)

\* Which command is obeyed where, and which way the FPGA moves: what an
\* earlier call has left in progress is a read.
UsbControl ==
    /\ fpga.left > 0 => fpga.dir = IF pc = "send" THEN "wr" ELSE "rd"
    /\ pc \in {"idle", "frame"} => call = Other /\ moved = <<>> /\ arrived = 0
    /\ pc \in {"read", "again"} => call.cmd \in {"w", "f"}
    /\ pc \in {"end", "next", "store", "over"} => call.cmd = "W"
    /\ pc = "send" => call.cmd \in {"t", "f", "R"} /\ fpga.left = Len(fpga.buffer)
    /\ pc \in {"idle", "frame", "read", "again", "end", "next", "store", "over", "send"}

\* The block that comes next follows those that have been moved.
UsbBlocks ==
    /\ pc \in {"read", "end"} => Coming(Len(moved))
    /\ pc = "again" => fpga.left = 0 /\ arrived = Len(moved) * Block
    /\ pc \in {"next", "store"} => data = RomBlock(Len(moved))
    /\ pc = "next" => fpga.left = 0 /\ arrived = (Len(moved) + 1) * Block
    /\ pc = "store" /\ More(Len(moved) + 1) => Coming(Len(moved) + 1)
    /\ call.cmd \in {"w", "W", "f"} /\ pc # "send" =>
        \A i \in 1 .. Len(moved) : moved[i] = RomBlock(i - 1)

\* What is sent of ROM goes on to the end of a block.
UsbSent ==
    pc = "send" /\ call.cmd = "R" =>
        /\ \E b \in Nat : Len(moved) + fpga.left = b * Block
        /\ \A j \in 1 .. fpga.left : fpga.buffer[j] = Len(moved) + j
        /\ \A i \in 1 .. Len(moved) : moved[i] = i

UsbInv == UsbTypeOK /\ UsbControl /\ UsbBlocks /\ UsbSent

\* The audio ring.
AudioTypeOK ==
    /\ buffers \in {"NULL", "garbage", "silent", "ready"} /\ _num_buf \in 2 .. Bits
    /\ content \in [0 .. Bits - 1 -> Sounds] /\ chunk \in Sounds
    /\ buf_full \subseteq 0 .. Bits - 1
    /\ now_playing \in 0 .. Bits - 1 /\ now_writing \in 0 .. Bits - 1
    /\ sent \in [chunk : Sounds \cup {Noise}, turn : BOOLEAN]
    /\ astray \in BOOLEAN

\* Where there are buffers, and which calls have which.
AudioControl ==
    /\ pc \in {"idle", "array", "setup", "reset", "wait", "written",
               "idle+", "array+", "setup+", "reset+", "wait+"}
    /\ pc \in {"idle", "idle+"} => buffers \in {"NULL", "ready"}
    /\ pc \in {"array", "array+"} => buffers = "NULL"
    /\ pc \in {"setup", "setup+"} => buffers = "garbage"
    /\ pc \in {"reset", "reset+"} => buffers = "silent"
    /\ pc \in {"wait", "wait+", "written"} => buffers = "ready"
    /\ buffers # "ready" => astray = FALSE

\* The buffers that wait are those behind the one that plays, up to the one
\* written last, unless the ring was not reset in one piece.
Waits == Cardinality(buf_full)
Ring ==
    buffers = "ready" /\ astray = FALSE =>
        /\ IsFiniteSet(buf_full) /\ Waits <= _num_buf
        /\ now_playing \in 0 .. _num_buf - 1
        /\ buf_full = {(now_playing + j) % _num_buf : j \in 1 .. Waits}
        /\ now_writing = (now_playing + Waits) % _num_buf

AudioInv == AudioTypeOK /\ AudioControl /\ Ring

\* The timers.  What is on the counter, of the ticks since the last walk.
Inside == {"section", "walk", "arm", "rewind"}
Since == IF pc = "arm" THEN count - start ELSE count

\* How far the counter is; between calls the alarm is still to come, or has
\* been given.
Counter ==
    /\ spent \in 0 .. Latency /\ start \in Nat
    /\ pc \in Inside \cup {"idle"}
    /\ pc = "idle" => ie /\ spent = 0 /\ count <= Far + Latency
    /\ pc = "section" => count <= Far + spent
    /\ pc \in Inside => count <= Far + Latency + spent
    /\ pc = "arm" => start <= count
    /\ installed /\ pc \in {"idle", "section"} => raised \/ count < compare
    /\ ~installed => TI_timers = {} /\ pc = "idle"

Alarm ==
    /\ IsFiniteSet(TI_timers)
    /\ pc \in {"idle", "section"} /\ TI_timers # {} => raised \/ compare <= smallest
    /\ pc = "rewind" => TI_timers = {}

\* What is left of a timer runs behind its time by no more than what the
\* counter showed when it was added.
Owing ==
    \A t \in TI_timers :
        \/ owed[t].ticks <= 0
        \/ owed[t].ticks <= timers[t].left - Since + owed[t].before

TimersInv == TimersTypeOK /\ Counter /\ Alarm /\ Owing

\* Parts nobody uses are as they were.
Inv ==
    /\ part \in {"audio", "timers", "usb"}
    /\ IF part = "usb" THEN UsbInv ELSE call = Other
    /\ part = "audio" => AudioInv
    /\ IF part = "timers" THEN TimersInv ELSE TimersTypeOK /\ TI_timers = {}

-----------------------------------------------------------------------------
(* The USB link. *)

LEMMA BlockFacts == Block \in Nat \ {0} /\ Lens \subseteq Nat
BY UsbAssumption

LEMMA Blocks ==
    ASSUME NEW n \in Nat
    PROVE  /\ n * Block \in Nat /\ (n + 1) * Block = (n * Block) + Block
           /\ (n * Block) \div Block = n
           /\ RomBlock(n) \in Seq(Nat) /\ Len(RomBlock(n)) = Block
           /\ RomBlock(n) = [i \in 1 .. Block |-> (n * Block) + i]
<1>1. n * Block \in Nat /\ (n + 1) * Block = (n * Block) + Block
    BY BlockFacts
<1>2. (n * Block) \div Block = n
    BY BlockFacts
<1>3. RomBlock(n) = [i \in 1 .. Block |-> (n * Block) + i]
    BY DEF RomBlock
<1> DEFINE m == n * Block
<1> HIDE DEF m
<1>4. [i \in 1 .. Block |-> m + i] \in Seq(Nat) /\ Len([i \in 1 .. Block |-> m + i]) = Block
    BY <1>1, BlockFacts DEF m
<1> QED
    BY <1>1, <1>2, <1>3, <1>4 DEF m

LEMMA UnitFacts ==
    /\ Other \in Units /\ Other.cmd = "data"
    /\ \A u \in Units : u.len \in Nat /\ u.cmd \in {"data", "t", "w", "W", "R", "f"}
    /\ Nop \in [dir : {"none", "rd", "wr"}, left : Nat, buffer : Seq(Nat), first : Units]
    /\ Nop.left = 0
<1>1. Other \in Units /\ Other.cmd = "data"
    BY DEF Other, Units
<1>2. ASSUME NEW u \in Units
      PROVE  u.len \in Nat /\ u.cmd \in {"data", "t", "w", "W", "R", "f"}
    <2>1. CASE u \in [cmd : {"w", "W", "R", "f"}, len : Lens]
        <3>1. u.len \in Lens /\ u.cmd \in {"w", "W", "R", "f"}
            BY <2>1
        <3> QED
            BY <3>1, BlockFacts
    <2>2. CASE u = [cmd |-> "t", len |-> 0]
        BY <2>2
    <2>3. CASE u = Other
        BY <2>3 DEF Other
    <2> QED
        BY <2>1, <2>2, <2>3 DEF Units
<1>3. <<>> \in Seq(Nat) /\ 0 \in Nat
    OBVIOUS
<1> HIDE DEF Other, Units
<1> QED
    BY <1>1, <1>2, <1>3 DEF Nop

\* A read is begun: nothing of the block has come.
LEMMA ReadFacts ==
    ASSUME NEW n \in Nat, USB_CMD_RD(n)
    PROVE  /\ fpga' \in [dir : {"none", "rd", "wr"}, left : Nat, buffer : Seq(Nat), first : Units]
           /\ fpga'.dir = "rd" /\ fpga'.left = n /\ fpga'.buffer = <<>>
BY UnitFacts DEF USB_CMD_RD, Nop

LEMMA WriteFacts ==
    ASSUME NEW s \in Seq(Nat), USB_CMD_WR(s)
    PROVE  /\ fpga' \in [dir : {"none", "rd", "wr"}, left : Nat, buffer : Seq(Nat), first : Units]
           /\ fpga'.dir = "wr" /\ fpga'.left = Len(s) /\ fpga'.buffer = s
<1>1. Len(s) \in Nat
    OBVIOUS
<1> QED
    BY <1>1, UnitFacts DEF USB_CMD_WR, Nop

LEMMA OneMore ==
    ASSUME NEW m \in Nat, NEW k \in Nat
    PROVE  Append([i \in 1 .. k |-> m + i], m + k + 1) = [i \in 1 .. k + 1 |-> m + i]
<1> DEFINE s == [i \in 1 .. k |-> m + i]
<1>1. s \in Seq(Nat) /\ Len(s) = k /\ \A i \in 1 .. k : s[i] = m + i
    OBVIOUS
<1>2. m + k + 1 \in Nat
    OBVIOUS
<1> DEFINE x == m + k + 1
<1> HIDE DEF s, x
<1>3. /\ Append(s, x) \in Seq(Nat) /\ Len(Append(s, x)) = k + 1
      /\ \A i \in 1 .. k : Append(s, x)[i] = m + i
      /\ Append(s, x)[k + 1] = x
    BY <1>1, <1>2 DEF x
<1> DEFINE r == Append(s, x)
<1> HIDE DEF r
<1>4. ASSUME NEW i \in 1 .. k + 1 PROVE r[i] = m + i
    <2>1. CASE i \in 1 .. k
        BY <1>3, <2>1 DEF r
    <2>2. CASE i = k + 1
        BY <1>3, <2>2 DEF r, x
    <2> QED
        BY <2>1, <2>2
<1>5. r = [i \in 1 .. k + 1 |-> m + i]
    <2>1. r \in Seq(Nat) /\ Len(r) = k + 1
        BY <1>3 DEF r
    <2>2. r = [i \in 1 .. Len(r) |-> r[i]]
        BY <2>1
    <2> QED
        BY <2>1, <2>2, <1>4
<1> QED
    BY <1>5 DEF r, s, x

LEMMA StepReceive == UsbInv /\ Receive => UsbInv'
<1> SUFFICES ASSUME UsbInv, Receive PROVE UsbInv'
    OBVIOUS
<1> USE DEF UsbInv
<1>1. /\ fpga.left > 0 /\ fpga.dir = "rd" /\ fifo # <<>>
      /\ fifo' = Tail(fifo)
      /\ arrived' = (IF pc \in {"idle", "frame"} THEN 0 ELSE arrived + 1)
      /\ fpga' = [fpga EXCEPT !.left = @ - 1, !.buffer = Append(@, arrived'),
                               !.first = IF pc = "frame" THEN Head(fifo) ELSE Other]
      /\ UNCHANGED <<pc, call, data, moved>>
    BY DEF Receive, USB_STA_ACT
<1>2. pc # "send" /\ pc # "again" /\ pc # "next"
    BY <1>1 DEF UsbControl, UsbBlocks
<1> DEFINE first == IF pc = "frame" THEN Head(fifo) ELSE Other
           left == fpga.left - 1
           buffer == Append(fpga.buffer, arrived')
<1>3. /\ arrived' \in Nat /\ first \in Units /\ left \in Nat /\ buffer \in Seq(Nat)
      /\ fifo' \in Seq(Units)
    <2>1. arrived' \in Nat
        BY <1>1 DEF UsbTypeOK
    <2>2. first \in Units
        BY <1>1, UnitFacts DEF UsbTypeOK
    <2>3. left \in Nat
        BY <1>1 DEF UsbTypeOK
    <2>4. buffer \in Seq(Nat)
        BY <2>1 DEF UsbTypeOK
    <2>5. fifo' \in Seq(Units)
        BY <1>1 DEF UsbTypeOK
    <2> QED
        BY <2>1, <2>2, <2>3, <2>4, <2>5
<1> HIDE DEF first, left, buffer
<1>4. fpga' = [fpga EXCEPT !.left = left, !.buffer = buffer, !.first = first]
    BY <1>1 DEF first, left, buffer
<1>5. /\ fpga' \in [dir : {"none", "rd", "wr"}, left : Nat, buffer : Seq(Nat), first : Units]
      /\ fpga'.left = left /\ fpga'.buffer = buffer /\ fpga'.dir = "rd"
    BY <1>1, <1>3, <1>4 DEF UsbTypeOK
<1>6. UsbTypeOK'
    BY <1>1, <1>3, <1>5 DEF UsbTypeOK
<1>7. UsbControl'
    BY <1>1, <1>2, <1>5 DEF UsbControl
<1>8. ASSUME NEW n \in Nat, Coming(n), pc \notin {"idle", "frame"}
      PROVE  Coming(n)'
    <2> DEFINE m == n * Block  k == Block - fpga.left
    <2>0. m \in Nat /\ fpga.left \in 0 .. Block
        BY <1>8, Blocks DEF Coming
    <2>1. m \in Nat /\ k \in Nat /\ Block - left = k + 1 /\ left \in 0 .. Block
        <3> HIDE DEF m
        <3> QED
            BY <2>0, <1>1, <1>3, BlockFacts DEF left
    <2>2. arrived = m + k /\ fpga.buffer = [i \in 1 .. k |-> m + i]
        BY <1>8 DEF Coming
    <2> HIDE DEF m, k
    <2>3. arrived' = m + k + 1
        BY <1>1, <1>8, <2>1, <2>2
    <2>4. buffer = [i \in 1 .. k + 1 |-> m + i]
        BY <2>1, <2>2, <2>3, OneMore DEF buffer
    <2>5. arrived' = m + (k + 1)
        BY <2>1, <2>3
    <2> QED
        BY <1>5, <2>1, <2>4, <2>5 DEF Coming, m
<1>9. UsbBlocks'
    <2>1. PICK n \in Nat : n = Len(moved)
        BY DEF UsbTypeOK
    <2>2. n = Len(moved')
        BY <1>1, <2>1
    <2>3. pc \in {"read", "end"} => Coming(n)'
        BY <1>8, <2>1 DEF UsbBlocks
    <2>4. pc = "store" /\ More(n + 1) => Coming(n + 1)'
        BY <1>8, <2>1 DEF UsbBlocks
    <2> QED
        BY <1>1, <1>2, <2>1, <2>2, <2>3, <2>4 DEF UsbBlocks, More
<1>10. UsbSent'
    BY <1>1, <1>2 DEF UsbSent
<1> QED
    BY <1>6, <1>7, <1>9, <1>10

\* A call is over; a read may be left in progress.
LEMMA AfterDone ==
    ASSUME Done, fifo' \in Seq(Units), fpga'.left > 0 => fpga'.dir = "rd",
           fpga' \in [dir : {"none", "rd", "wr"}, left : Nat, buffer : Seq(Nat), first : Units]
    PROVE  UsbInv'
<1>1. <<>> \in Seq(Seq(Nat) \cup Nat) /\ <<>> \in Seq(Nat) /\ 0 \in Nat
    OBVIOUS
<1>2. UsbTypeOK'
    BY <1>1, UnitFacts DEF UsbTypeOK, Done
<1>3. UsbControl'
    BY DEF UsbControl, Done
<1>4. UsbBlocks' /\ UsbSent'
    BY UnitFacts DEF UsbBlocks, UsbSent, Done
<1> QED
    BY <1>2, <1>3, <1>4 DEF UsbInv

LEMMA AfterRespond ==
    ASSUME Respond, fifo' \in Seq(Units), call' \in Units, call'.cmd \in {"t", "f"}
    PROVE  UsbInv'
<1>1. <<>> \in Seq(Seq(Nat) \cup Nat) /\ <<>> \in Seq(Nat) /\ 0 \in Nat
    OBVIOUS
<1>2. /\ fpga' \in [dir : {"none", "rd", "wr"}, left : Nat, buffer : Seq(Nat), first : Units]
      /\ fpga'.dir = "wr" /\ fpga'.left = Len(fpga'.buffer)
    <2>1. <<0>> \in Seq(Nat)
        OBVIOUS
    <2>2. USB_CMD_WR(<<0>>)
        BY DEF Respond
    <2> QED
        BY <2>1, <2>2, WriteFacts
<1>3. UsbTypeOK'
    BY <1>1, <1>2 DEF UsbTypeOK, Respond
<1>4. UsbControl'
    BY <1>2 DEF UsbControl, Respond
<1>5. UsbBlocks' /\ UsbSent'
    BY DEF UsbBlocks, UsbSent, Respond
<1> QED
    BY <1>3, <1>4, <1>5 DEF UsbInv

\* Block n is asked for, and once it has come the buffer holds it.
LEMMA Asks ==
    ASSUME NEW n \in Nat, USB_CMD_RD(Block), arrived' = n * Block
    PROVE  Coming(n)'
<1>1. fpga'.left = Block /\ fpga'.buffer = <<>>
    BY ReadFacts, BlockFacts
<1> DEFINE m == n * Block
<1>2. m \in Nat /\ arrived' = m
    BY Blocks
<1> HIDE DEF m
<1>3. /\ fpga'.left \in 0 .. Block /\ arrived' = m + (Block - fpga'.left)
      /\ Block - fpga'.left = 0
    BY <1>1, <1>2, BlockFacts
<1>4. fpga'.buffer = [i \in 1 .. Block - fpga'.left |-> m + i]
    BY <1>1, <1>3
<1> QED
    BY <1>3, <1>4 DEF Coming, m

LEMMA Came ==
    ASSUME NEW n \in Nat, Coming(n), fpga.left = 0
    PROVE  fpga.buffer = RomBlock(n) /\ arrived = (n + 1) * Block
<1> DEFINE m == n * Block
<1>1. m \in Nat /\ (n + 1) * Block = m + Block
    BY Blocks
<1>2. arrived = m + (Block - fpga.left) /\ fpga.buffer = [i \in 1 .. Block - fpga.left |-> m + i]
    BY DEF Coming
<1> HIDE DEF m
<1>3. Block - fpga.left = Block
    BY BlockFacts
<1> QED
    BY <1>1, <1>2, <1>3 DEF RomBlock, m

\* What follows the blocks that have been moved is one of them now.
LEMMA Moved ==
    ASSUME NEW s \in Seq(Seq(Nat) \cup Nat), NEW x \in Seq(Nat) \cup Nat
    PROVE  /\ Append(s, x) \in Seq(Seq(Nat) \cup Nat) /\ Len(Append(s, x)) = Len(s) + 1
           /\ \A i \in 1 .. Len(s) : Append(s, x)[i] = s[i]
           /\ Append(s, x)[Len(s) + 1] = x /\ Len(s) \in Nat
           /\ \A i \in 1 .. Len(s) + 1 : i \in 1 .. Len(s) \/ i = Len(s) + 1
<1> DEFINE S == Seq(Nat) \cup Nat
<1>1. s \in Seq(S) /\ x \in S
    OBVIOUS
<1> HIDE DEF S
<1>2. /\ Append(s, x) \in Seq(S) /\ Len(Append(s, x)) = Len(s) + 1
      /\ \A i \in 1 .. Len(s) : Append(s, x)[i] = s[i]
      /\ Append(s, x)[Len(s) + 1] = x /\ Len(s) \in Nat
    BY <1>1
<1> QED
    BY <1>2 DEF S

LEMMA StepUsb == UsbInv /\ UsbNext => UsbInv'
<1> SUFFICES ASSUME UsbInv, UsbNext PROVE UsbInv'
    OBVIOUS
<1> USE DEF UsbInv
<1>1. CASE HostSends
    <2>1. PICK u \in Units : fifo' = Append(fifo, u)
        BY <1>1 DEF HostSends
    <2>2. UNCHANGED <<pc, fpga, call, data, arrived, moved>>
        BY <1>1 DEF HostSends
    <2>3. UsbTypeOK'
        BY <2>1, <2>2 DEF UsbTypeOK
    <2> QED
        BY <2>2, <2>3 DEF UsbControl, UsbBlocks, UsbSent, Coming, More
<1>2. CASE HostReceives
    <2>1. /\ fpga.left > 0 /\ fpga.dir = "wr" /\ pc = "send"
          /\ moved' = Append(moved, Head(fpga.buffer))
          /\ fpga' = [fpga EXCEPT !.left = @ - 1, !.buffer = Tail(@)]
          /\ UNCHANGED <<pc, fifo, call, data, arrived>>
        BY <1>2 DEF HostReceives, USB_STA_ACT, UsbControl
    <2>2. fpga.buffer \in Seq(Nat) /\ fpga.left = Len(fpga.buffer) /\ moved \in Seq(Seq(Nat) \cup Nat)
        BY <2>1 DEF UsbControl, UsbTypeOK
    <2> DEFINE s == fpga.buffer  left == fpga.left - 1  x == Head(s)  r == Tail(s)
    <2>3. /\ x \in Nat /\ x = s[1] /\ r \in Seq(Nat) /\ Len(r) = left /\ left \in Nat
          /\ \A j \in 1 .. left : r[j] = s[j + 1]
        <3>1. s \in Seq(Nat) /\ Len(s) > 0
            BY <2>1, <2>2
        <3> HIDE DEF s
        <3>2. s # <<>> /\ Len(s) - 1 \in Nat
            BY <3>1
        <3>3. x \in Nat /\ x = s[1] /\ r \in Seq(Nat) /\ Len(r) = Len(s) - 1
            BY <3>1, <3>2
        <3>4. \A j \in 1 .. Len(s) - 1 : r[j] = s[j + 1]
            BY <3>1, <3>2
        <3> QED
            BY <3>2, <3>3, <3>4, <2>2 DEF s
    <2> HIDE DEF left, r, x
    <2>4. /\ fpga' \in [dir : {"none", "rd", "wr"}, left : Nat, buffer : Seq(Nat), first : Units]
          /\ fpga'.left = left /\ fpga'.buffer = r /\ fpga'.dir = "wr"
        <3>1. fpga' = [fpga EXCEPT !.left = left, !.buffer = r]
            BY <2>1 DEF left, r
        <3> HIDE DEF s
        <3> QED
            BY <3>1, <2>1, <2>3 DEF UsbTypeOK
    <2>5. /\ moved' \in Seq(Seq(Nat) \cup Nat) /\ Len(moved') = Len(moved) + 1 /\ Len(moved) \in Nat
          /\ \A i \in 1 .. Len(moved) : moved'[i] = moved[i]
          /\ moved'[Len(moved) + 1] = x
          /\ \A i \in 1 .. Len(moved) + 1 : i \in 1 .. Len(moved) \/ i = Len(moved) + 1
        <3>1. x \in Seq(Nat) \cup Nat /\ moved' = Append(moved, x)
            BY <2>1, <2>3 DEF x
        <3> QED
            BY <3>1, <2>2, Moved
    <2>6. UsbTypeOK' /\ UsbControl'
        BY <2>1, <2>3, <2>4, <2>5 DEF UsbTypeOK, UsbControl
    <2>7. ASSUME call.cmd = "R"
          PROVE  /\ \E b \in Nat : Len(moved') + fpga'.left = b * Block
                 /\ \A j \in 1 .. fpga'.left : fpga'.buffer[j] = Len(moved') + j
                 /\ \A i \in 1 .. Len(moved') : moved'[i] = i
        <3>1. /\ \E b \in Nat : Len(moved) + fpga.left = b * Block
              /\ \A j \in 1 .. fpga.left : s[j] = Len(moved) + j
              /\ \A i \in 1 .. Len(moved) : moved[i] = i
            BY <2>1, <2>7 DEF UsbSent
        <3>2. fpga.left \in Nat /\ fpga.left > 0
            BY <2>1 DEF UsbTypeOK
        <3>3. Len(moved') + fpga'.left = Len(moved) + fpga.left
            <4>1. left = fpga.left - 1
                BY DEF left
            <4>2. Len(moved') = Len(moved) + 1 /\ Len(moved) \in Nat
                BY <2>5
            <4>3. fpga'.left = left
                BY <2>4
            <4> DEFINE a == Len(moved)  b == fpga.left
            <4> HIDE DEF a, b
            <4> QED
                BY <3>2, <4>1, <4>2, <4>3 DEF a, b
        <3>4. x = Len(moved) + 1
            BY <3>1, <3>2, <2>3
        <3>5. ASSUME NEW j \in 1 .. left PROVE r[j] = Len(moved') + j
            <4>1. j + 1 \in 1 .. fpga.left /\ r[j] = s[j + 1]
                BY <2>3, <3>2 DEF left
            <4>2. s[j + 1] = Len(moved) + (j + 1)
                BY <3>1, <4>1
            <4> QED
                BY <4>1, <4>2, <2>5
        <3> QED
            BY <2>4, <2>5, <3>1, <3>3, <3>4, <3>5
    <2>8. UsbSent'
        BY <2>1, <2>7 DEF UsbSent
    <2>9. UsbBlocks'
        BY <2>1 DEF UsbBlocks
    <2> QED
        BY <2>6, <2>8, <2>9
<1>3. CASE Listen
    <2>1. /\ pc = "idle" /\ pc' = "frame" /\ USB_CMD_RD(1)
          /\ UNCHANGED <<fifo, call, data, arrived, moved>>
        BY <1>3 DEF Listen, Goto
    <2>2. /\ fpga' \in [dir : {"none", "rd", "wr"}, left : Nat, buffer : Seq(Nat), first : Units]
          /\ fpga'.dir = "rd"
        BY <2>1, ReadFacts
    <2>3. call = Other
        BY <2>1 DEF UsbControl
    <2>4. UsbTypeOK' /\ UsbControl'
        BY <2>1, <2>2 DEF UsbTypeOK, UsbControl
    <2> QED
        BY <2>1, <2>3, <2>4, UnitFacts DEF UsbBlocks, UsbSent
<1>4. ASSUME Done, fifo' = fifo, fpga' = fpga \/ fpga' = Nop \/ USB_CMD_RD(Block), pc # "send" \/ fpga.left = 0
      PROVE  UsbInv'
    <2>1. fifo' \in Seq(Units)
        BY <1>4 DEF UsbTypeOK
    <2>2. CASE fpga' = fpga
        BY <1>4, <2>1, <2>2, AfterDone DEF UsbTypeOK, UsbControl
    <2>3. CASE fpga' = Nop
        BY <1>4, <2>1, <2>3, AfterDone, UnitFacts
    <2>4. CASE USB_CMD_RD(Block)
        BY <1>4, <2>1, <2>4, AfterDone, ReadFacts, BlockFacts
    <2> QED
        BY <1>4, <2>2, <2>3, <2>4
<1>5. CASE FrameStops
    BY <1>4, <1>5 DEF FrameStops, Stops
<1>6. CASE Obey
    <2> DEFINE u == fpga.first
    <2>1. /\ pc = "frame" /\ fpga.left = 0 /\ fifo' = fifo /\ u \in Units
          /\ u.len \in Nat /\ moved = <<>> /\ arrived = 0
        BY <1>6, UnitFacts DEF Obey, Polls, Ended, USB_STA_ACT, UsbTypeOK, UsbControl
    <2>2. CASE u.cmd \in {"data", "w", "W", "R"} /\ u.len = 0 /\ Done /\ UNCHANGED fpga
        BY <1>4, <2>1, <2>2
    <2>3. CASE (u.cmd = "t" \/ (u.cmd = "f" /\ u.len = 0)) /\ Respond /\ call' = u
        BY <2>1, <2>3, AfterRespond DEF UsbTypeOK
    <2>4. CASE u.len > 0 /\ call' = u /\ u.cmd = "R" /\ pc' = "send" /\ USB_CMD_WR(RomBlock(0))
               /\ UNCHANGED <<data, arrived, moved>>
        <3>1. /\ fpga' \in [dir : {"none", "rd", "wr"}, left : Nat, buffer : Seq(Nat), first : Units]
              /\ fpga'.dir = "wr" /\ fpga'.left = Block /\ fpga'.buffer = RomBlock(0)
            BY <2>4, Blocks, WriteFacts
        <3>2. UsbTypeOK' /\ UsbControl'
            <4>1. Len(RomBlock(0)) = Block
                BY Blocks
            <4> QED
                BY <2>1, <2>4, <3>1, <4>1 DEF UsbTypeOK, UsbControl
        <3>3. UsbBlocks'
            BY <2>4 DEF UsbBlocks
        <3>4. UsbSent'
            <4>1. Len(moved') = 0 /\ 0 + Block = 1 * Block /\ 1 \in Nat
                BY <2>1, <2>4, BlockFacts
            <4>2. \A j \in 1 .. Block : RomBlock(0)[j] = 0 + j
                BY BlockFacts DEF RomBlock
            <4> QED
                <5>1. Len(moved') + fpga'.left = 1 * Block
                    BY <3>1, <4>1
                <5>2. \A j \in 1 .. fpga'.left : fpga'.buffer[j] = Len(moved') + j
                    BY <3>1, <4>1, <4>2
                <5>3. \A i \in 1 .. Len(moved') : moved'[i] = i
                    BY <4>1
                <5> QED
                    BY <4>1, <5>1, <5>2, <5>3 DEF UsbSent
        <3> QED
            BY <3>2, <3>3, <3>4
    <2>5. CASE u.len > 0 /\ call' = u /\ USB_CMD_RD(Block) /\ UNCHANGED <<data, arrived, moved>>
               /\ \/ u.cmd \in {"w", "f"} /\ pc' = "read"
                  \/ u.cmd = "W" /\ pc' = "end"
        <3>1. /\ fpga' \in [dir : {"none", "rd", "wr"}, left : Nat, buffer : Seq(Nat), first : Units]
              /\ fpga'.dir = "rd"
            BY <2>5, ReadFacts, BlockFacts
        <3>2. UsbTypeOK' /\ UsbControl'
            BY <2>1, <2>5, <3>1 DEF UsbTypeOK, UsbControl
        <3>3. Coming(0)'
            <4>1. arrived' = 0 * Block /\ 0 \in Nat
                BY <2>1, <2>5, BlockFacts
            <4> QED
                BY <2>5, <4>1, Asks
        <3>4. Len(moved') = 0
            BY <2>1, <2>5
        <3>5. UsbBlocks' /\ UsbSent'
            <4>1. Coming(Len(moved))'
                BY <3>3, <3>4 DEF Coming
            <4> QED
                BY <2>5, <3>4, <4>1 DEF UsbBlocks, UsbSent
        <3> QED
            BY <3>2, <3>5
    <2> QED
        BY <1>6, <2>2, <2>3, <2>4, <2>5 DEF Obey
<1>7. CASE SendBlock
    <2>1. pc = "send" /\ fpga.left = 0 /\ fifo' = fifo
        BY <1>7 DEF SendBlock, Polls, Ended, USB_STA_ACT, UsbTypeOK
    <2>2. CASE Done /\ UNCHANGED fpga
        BY <1>4, <2>1, <2>2
    <2>3. CASE /\ call.cmd = "R" /\ USB_CMD_WR(RomBlock(BlocksSent))
               /\ UNCHANGED <<pc, call, data, arrived, moved>>
        <3>1. PICK b \in Nat : Len(moved) + 0 = b * Block
            BY <2>1, <2>3 DEF UsbSent
        <3>2. Len(moved) \in Nat
            BY DEF UsbTypeOK
        <3>3. BlocksSent = b /\ Len(moved) = b * Block
            BY <3>1, <3>2, Blocks DEF BlocksSent
        <3>4. /\ fpga' \in [dir : {"none", "rd", "wr"}, left : Nat, buffer : Seq(Nat), first : Units]
              /\ fpga'.dir = "wr" /\ fpga'.left = Block /\ fpga'.buffer = RomBlock(b)
            BY <2>3, <3>3, Blocks, WriteFacts
        <3>5. UsbTypeOK' /\ UsbControl'
            <4>1. Len(RomBlock(b)) = Block
                BY Blocks
            <4> QED
                BY <2>1, <2>3, <3>4, <4>1 DEF UsbTypeOK, UsbControl
        <3>6. UsbBlocks'
            BY <2>1, <2>3 DEF UsbBlocks
        <3>7. UsbSent'
            <4>1. Len(moved) + Block = (b + 1) * Block /\ b + 1 \in Nat
                BY <3>3, Blocks
            <4>2. \A j \in 1 .. Block : RomBlock(b)[j] = Len(moved) + j
                BY <3>3 DEF RomBlock
            <4> QED
                BY <2>1, <2>3, <3>4, <4>1, <4>2 DEF UsbSent
        <3> QED
            BY <3>5, <3>6, <3>7
    <2> QED
        BY <1>7, <2>2, <2>3 DEF SendBlock
<1>8. CASE SendStops
    <2>1. Done /\ fpga' = Nop /\ fifo' = fifo
        BY <1>8 DEF SendStops, Stops
    <2> QED
        BY <2>1, AfterDone, UnitFacts DEF UsbTypeOK
<1>9. CASE ReadBlock
    <2>1. /\ pc = "read" /\ fpga.left = 0 /\ moved' = Append(moved, fpga.buffer) /\ pc' = "again"
          /\ UNCHANGED <<fifo, fpga, call, data, arrived>>
        BY <1>9 DEF ReadBlock, Ended, USB_STA_ACT, UsbTypeOK
    <2>2. PICK n \in Nat : n = Len(moved)
        BY DEF UsbTypeOK
    <2>3. fpga.buffer = RomBlock(n) /\ arrived = (n + 1) * Block
        BY <2>1, <2>2, Came DEF UsbBlocks
    <2>4. /\ moved' \in Seq(Seq(Nat) \cup Nat) /\ Len(moved') = n + 1
          /\ \A i \in 1 .. n : moved'[i] = moved[i]
          /\ moved'[n + 1] = RomBlock(n)
          /\ \A i \in 1 .. n + 1 : i \in 1 .. n \/ i = n + 1
        <3>1. moved \in Seq(Seq(Nat) \cup Nat) /\ RomBlock(n) \in Seq(Nat) \cup Nat
            BY Blocks DEF UsbTypeOK
        <3>2. moved' = Append(moved, RomBlock(n))
            BY <2>1, <2>3
        <3> QED
            BY <2>2, <3>1, <3>2, Moved
    <2>5. UsbTypeOK' /\ UsbControl'
        BY <2>1, <2>4 DEF UsbTypeOK, UsbControl
    <2>6. \A i \in 1 .. Len(moved') : moved'[i] = RomBlock(i - 1)
        <3>1. call.cmd \in {"w", "W", "f"}
            BY <2>1 DEF UsbControl
        <3>2. \A i \in 1 .. n : moved[i] = RomBlock(i - 1)
            BY <2>1, <2>2, <3>1 DEF UsbBlocks
        <3>3. (n + 1) - 1 = n
            OBVIOUS
        <3> QED
            BY <2>4, <3>2, <3>3
    <2> QED
        BY <2>1, <2>3, <2>4, <2>5, <2>6 DEF UsbBlocks, UsbSent
<1>10. CASE ReadAgain
    <2>1. /\ pc = "again" /\ fifo' = fifo /\ fpga.left = 0 /\ arrived = Len(moved) * Block
          /\ call \in Units /\ call.cmd \in {"w", "f"}
        BY <1>10 DEF ReadAgain, UsbBlocks, UsbTypeOK, UsbControl
    <2>2. CASE pc' = "read" /\ USB_CMD_RD(Block) /\ UNCHANGED <<call, data, arrived, moved>>
        <3>1. /\ fpga' \in [dir : {"none", "rd", "wr"}, left : Nat, buffer : Seq(Nat), first : Units]
              /\ fpga'.dir = "rd"
            BY <2>2, ReadFacts, BlockFacts
        <3>2. UsbTypeOK' /\ UsbControl'
            BY <2>1, <2>2, <3>1 DEF UsbTypeOK, UsbControl
        <3>3. PICK n \in Nat : n = Len(moved)
            BY DEF UsbTypeOK
        <3>4. Coming(n)'
            BY <2>1, <2>2, <3>3, Asks
        <3>5. Coming(Len(moved))'
            BY <2>2, <3>3, <3>4 DEF Coming
        <3> QED
            BY <2>1, <2>2, <3>2, <3>5 DEF UsbBlocks, UsbSent
    <2>3. CASE call.cmd = "f" /\ Respond /\ UNCHANGED call
        BY <2>1, <2>3, AfterRespond DEF UsbTypeOK
    <2>4. CASE Done /\ UNCHANGED fpga
        BY <1>4, <2>1, <2>4
    <2> QED
        BY <1>10, <2>2, <2>3, <2>4 DEF ReadAgain
<1>11. CASE ReadStops
    <2>1. pc = "read" /\ fifo' = fifo /\ call \in Units /\ fifo \in Seq(Units)
        BY <1>11 DEF ReadStops, UsbTypeOK
    <2>2. CASE call.cmd = "f" /\ Respond /\ UNCHANGED call
        BY <2>1, <2>2, AfterRespond
    <2>3. CASE Done /\ fpga' = Nop
        BY <1>4, <2>1, <2>3
    <2> QED
        BY <1>11, <2>2, <2>3 DEF ReadStops
<1>12. CASE bi_usb_rd_end
    <2>1. /\ pc = "end" /\ fpga.left = 0 /\ data' = fpga.buffer /\ pc' = "next"
          /\ UNCHANGED <<fifo, fpga, call, arrived, moved>>
        BY <1>12 DEF bi_usb_rd_end, Ended, USB_STA_ACT, UsbTypeOK
    <2>2. PICK n \in Nat : n = Len(moved)
        BY DEF UsbTypeOK
    <2>3. fpga.buffer = RomBlock(n) /\ arrived = (n + 1) * Block
        BY <2>1, <2>2, Came DEF UsbBlocks
    <2>4. UsbTypeOK' /\ UsbControl'
        BY <2>1 DEF UsbTypeOK, UsbControl
    <2> QED
        BY <2>1, <2>2, <2>3, <2>4 DEF UsbBlocks, UsbSent
<1>13. CASE bi_usb_rd_start
    <2>1. /\ pc = "next" /\ pc' = "store" /\ fpga.left = 0 /\ arrived = (Len(moved) + 1) * Block
          /\ UNCHANGED <<fifo, call, data, arrived, moved>>
        BY <1>13 DEF bi_usb_rd_start, Goto, UsbBlocks
    <2>2. PICK n \in Nat : n = Len(moved) + 1
        BY DEF UsbTypeOK
    <2>3. CASE More(n) /\ USB_CMD_RD(Block)
        <3>1. /\ fpga' \in [dir : {"none", "rd", "wr"}, left : Nat, buffer : Seq(Nat), first : Units]
              /\ fpga'.dir = "rd"
            BY <2>3, ReadFacts, BlockFacts
        <3>2. UsbTypeOK' /\ UsbControl'
            BY <2>1, <3>1 DEF UsbTypeOK, UsbControl
        <3>3. Coming(n)'
            BY <2>1, <2>2, <2>3, Asks
        <3>4. Coming(Len(moved) + 1)'
            BY <2>1, <2>2, <3>3 DEF Coming
        <3> QED
            BY <2>1, <3>2, <3>4 DEF UsbBlocks, UsbSent
    <2>4. CASE ~More(n) /\ fpga' = fpga
        <3>1. UsbTypeOK' /\ UsbControl'
            BY <2>1, <2>4 DEF UsbTypeOK, UsbControl
        <3> QED
            BY <2>1, <2>2, <2>4, <3>1 DEF UsbBlocks, UsbSent, More
    <2> QED
        BY <1>13, <2>2, <2>3, <2>4 DEF bi_usb_rd_start
<1>14. CASE StoreBlock
    <2>1. /\ pc = "store" /\ moved' = Append(moved, data)
          /\ pc' = (IF Len(moved') < call.len THEN "end" ELSE "over")
          /\ UNCHANGED <<fifo, fpga, call, data, arrived>>
        BY <1>14 DEF StoreBlock, More
    <2>2. PICK n \in Nat : n = Len(moved)
        BY DEF UsbTypeOK
    <2>3. data = RomBlock(n)
        BY <2>1, <2>2 DEF UsbBlocks
    <2>4. /\ moved' \in Seq(Seq(Nat) \cup Nat) /\ Len(moved') = n + 1
          /\ \A i \in 1 .. n : moved'[i] = moved[i]
          /\ moved'[n + 1] = RomBlock(n)
          /\ \A i \in 1 .. n + 1 : i \in 1 .. n \/ i = n + 1
        <3>1. moved \in Seq(Seq(Nat) \cup Nat) /\ RomBlock(n) \in Seq(Nat) \cup Nat
            BY Blocks DEF UsbTypeOK
        <3>2. moved' = Append(moved, RomBlock(n))
            BY <2>1, <2>3
        <3> QED
            BY <2>2, <3>1, <3>2, Moved
    <2>5. UsbTypeOK' /\ UsbControl'
        BY <2>1, <2>4 DEF UsbTypeOK, UsbControl
    <2>6. \A i \in 1 .. Len(moved') : moved'[i] = RomBlock(i - 1)
        <3>1. call.cmd \in {"w", "W", "f"}
            BY <2>1 DEF UsbControl
        <3>2. \A i \in 1 .. n : moved[i] = RomBlock(i - 1)
            BY <2>1, <2>2, <3>1 DEF UsbBlocks
        <3>3. (n + 1) - 1 = n
            OBVIOUS
        <3> QED
            BY <2>4, <3>2, <3>3
    <2>7. pc' = "end" => Coming(Len(moved))'
        <3>1. pc' = "end" => Coming(n + 1)
            BY <2>1, <2>2, <2>4 DEF UsbBlocks, More
        <3> QED
            BY <2>1, <2>4, <3>1 DEF Coming
    <2> QED
        BY <2>1, <2>5, <2>6, <2>7 DEF UsbBlocks, UsbSent
<1>15. CASE WriteOver
    BY <1>4, <1>15 DEF WriteOver
<1>16. CASE EndStops
    BY <1>4, <1>16 DEF EndStops
<1> QED
    BY <1>1, <1>2, <1>3, <1>5, <1>6, <1>7, <1>8, <1>9, <1>10, <1>11, <1>12, <1>13, <1>14, <1>15,
       <1>16, StepReceive DEF UsbNext, Link, UsbThread, TimesOut

-----------------------------------------------------------------------------
(* The least of what is left of the timers, of which there may be any      *)
(* number.                                                                 *)

LEMMA LeastNumber ==
    ASSUME NEW N \in SUBSET Nat, N # {}
    PROVE  \E n \in N : \A m \in N : n <= m
<1> DEFINE R == {ss \in Nat \X Nat : ss[1] < ss[2]}
<1>1. IsWellFoundedOn(R, Nat)
    BY NatLessThanWellFounded DEF OpToRel
<1>2. \A x \in Nat, y \in Nat : <<y, x>> \in R <=> y < x
    OBVIOUS
<1> HIDE DEF R
<1>3. PICK n \in N : \A m \in N : ~(<<m, n>> \in R)
    BY <1>1, WFMin
<1>4. \A m \in N : ~(m < n)
    BY <1>2, <1>3
<1>5. \A m \in N : n <= m
    BY <1>4
<1> QED
    BY <1>5

\* One of finitely many numbers is the least: take one out of the smallest
\* set without.
LEMMA Least ==
    ASSUME NEW D, IsFiniteSet(D), D # {}, NEW f, \A t \in D : f[t] \in Int
    PROVE  \E t \in D : \A u \in D : f[t] <= f[u]
<1> DEFINE HasLeast(U) == \E t \in U : \A u \in U : f[t] <= f[u]
           Without == {U \in SUBSET D : U # {} /\ ~HasLeast(U)}
           N == {Cardinality(U) : U \in Without}
<1>1. ASSUME NEW U \in SUBSET D
      PROVE  IsFiniteSet(U) /\ Cardinality(U) \in Nat
    BY FS_Subset, FS_CardinalityType
<1>2. SUFFICES ASSUME Without # {} PROVE FALSE
    OBVIOUS
<1>3. N \in SUBSET Nat /\ N # {}
    BY <1>1, <1>2
<1> HIDE DEF N
<1>4. PICK n \in N : \A m \in N : n <= m
    BY <1>3, LeastNumber
<1>5. PICK U \in Without : Cardinality(U) = n
    BY <1>4 DEF N
<1>6. PICK t \in U : TRUE
    BY <1>5
<1> DEFINE V == U \ {t}
<1>7. V \in SUBSET D /\ U \in SUBSET D /\ Cardinality(V) = n - 1 /\ n \in Nat
    BY <1>1, <1>5, <1>6, FS_RemoveElement
<1> HIDE DEF V, Without
<1>8. V \notin Without
    <2>1. V \in Without => Cardinality(V) \in N
        BY DEF N
    <2>2. n - 1 \notin N
        BY <1>4, <1>7
    <2> QED
        BY <2>1, <2>2, <1>7
<1> USE DEF V, Without
<1>9. CASE V = {}
    <2>1. U = {t} /\ f[t] <= f[t]
        BY <1>5, <1>6, <1>9
    <2>2. HasLeast(U)
        BY <2>1
    <2> QED
        BY <1>5, <2>2
<1>10. CASE V # {}
    <2>1. HasLeast(V)
        BY <1>7, <1>8, <1>10
    <2>2. PICK v \in V : \A u \in V : f[v] <= f[u]
        BY <2>1
    <2>3. \A u \in U : u = t \/ u \in V
        OBVIOUS
    <2>4. \A u \in U : f[u] \in Int
        BY <1>7
    <2>5. CASE f[v] <= f[t]
        <3>1. \A u \in U : f[v] <= f[u]
            BY <2>2, <2>3, <2>5
        <3>2. HasLeast(U)
            BY <3>1, <2>2
        <3> QED
            BY <1>5, <3>2
    <2>6. CASE f[t] <= f[v]
        <3>1. \A u \in U : f[t] <= f[u]
            BY <1>6, <2>2, <2>3, <2>4, <2>6
        <3>2. HasLeast(U)
            BY <3>1, <1>6
        <3> QED
            BY <1>5, <3>2
    <2> QED
        BY <2>2, <2>4, <2>5, <2>6, <1>6
<1> QED
    BY <1>9, <1>10

LEMMA TimersFacts ==
    /\ Margin \in Nat \ {0} /\ Latency \in Nat /\ Far \in Nat /\ Margin + Latency < Far
    /\ \A t \in Ticks : t \in Nat /\ 0 < t /\ t <= Far
BY TimersAssumption

\* The next alarm is Far away, or as far as the least that is left.
LEMMA NextAlarm ==
    ASSUME NEW D, IsFiniteSet(D), NEW f, \A t \in D : f[t] \in Int
    PROVE  LET m == Min({Far} \cup {f[t] : t \in D}) IN
           /\ m \in Int /\ m <= Far /\ \A t \in D : m <= f[t]
           /\ m = Far \/ \E t \in D : m = f[t]
<1> DEFINE S == {Far} \cup {f[t] : t \in D}
<1>1. S \subseteq Int /\ Far \in S
    BY TimersFacts
<1>2. \E x \in S : \A y \in S : x <= y
    <2>1. CASE D = {}
        BY <2>1, TimersFacts
    <2>2. CASE D # {}
        <3>1. PICK t \in D : \A u \in D : f[t] <= f[u]
            BY <2>2, Least
        <3>2. CASE f[t] <= Far
            BY <3>1, <3>2
        <3>3. CASE Far <= f[t]
            <4>1. \A u \in D : Far <= f[u]
                BY <3>1, <3>3, TimersFacts
            <4> QED
                BY <4>1, TimersFacts
        <3> QED
            BY <3>2, <3>3, TimersFacts
    <2> QED
        BY <2>1, <2>2
<1> DEFINE m == Min(S)
<1>3. m \in S /\ \A y \in S : m <= y
    <2> HIDE DEF S
    <2> QED
        BY <1>2 DEF Min
<1> HIDE DEF m
<1>4. m \in Int /\ m <= Far /\ (\A t \in D : m <= f[t]) /\ (m = Far \/ \E t \in D : m = f[t])
    BY <1>1, <1>3
<1> QED
    BY <1>4 DEF m

-----------------------------------------------------------------------------
(* The timers. *)

\* What a timer in the list may be, and what is known of its time.
Entry == [left : Int, set : Ticks, continuous : BOOLEAN]
Debt == [ticks : Int, before : Nat]

\* What the alarm is set to, whatever the list.
LEMMA AlarmFacts ==
    ASSUME TimersTypeOK, IsFiniteSet(TI_timers)
    PROVE  /\ smallest \in Int /\ smallest <= Far
           /\ \A t \in TI_timers : smallest <= timers[t].left
<1> DEFINE f == [t \in TI_timers |-> timers[t].left]
<1>1. \A t \in TI_timers : f[t] \in Int /\ f[t] = timers[t].left
    BY DEF TimersTypeOK
<1>2. {timers[t].left : t \in TI_timers} = {f[t] : t \in TI_timers}
    BY <1>1
<1> HIDE DEF f
<1>3. LET m == Min({Far} \cup {f[t] : t \in TI_timers}) IN
      m \in Int /\ m <= Far /\ \A t \in TI_timers : m <= f[t]
    BY <1>1, NextAlarm
<1> QED
    BY <1>1, <1>2, <1>3 DEF smallest

LEMMA NextAlarmFacts ==
    ASSUME TimersTypeOK', IsFiniteSet(TI_timers')
    PROVE  /\ smallest' \in Int /\ smallest' <= Far
           /\ smallest' = Far \/ \E t \in TI_timers' : smallest' = timers'[t].left
<1> DEFINE D == TI_timers'  f == [t \in D |-> timers'[t].left]
<1>1. \A t \in D : f[t] \in Int /\ f[t] = timers'[t].left
    BY DEF TimersTypeOK
<1>2. {timers'[t].left : t \in D} = {f[t] : t \in D}
    BY <1>1
<1> HIDE DEF f
<1>3. LET m == Min({Far} \cup {f[t] : t \in D}) IN
      m \in Int /\ m <= Far /\ (m = Far \/ \E t \in D : m = f[t])
    BY <1>1, NextAlarm
<1> QED
    BY <1>1, <1>2, <1>3 DEF smallest

\* A tick: what is owed and what the counter showed since go together.
LEMMA StepPass ==
    ASSUME TimersInv, Pass, UNCHANGED <<pc, ie, TI_timers, timers, allocated, compare, installed, start>>,
           spent' \in 0 .. Latency,
           \/ pc = "idle" /\ count < compare /\ spent' = spent
           \/ pc # "idle" /\ spent' = spent + 1
    PROVE  TimersInv'
<1> USE DEF TimersInv
<1>1. /\ count' = count + 1 /\ raised' = (raised \/ count' = compare)
      /\ owed' = [t \in TI_timers |-> [owed[t] EXCEPT !.ticks = IF @ > 0 THEN @ - 1 ELSE 0]]
    BY DEF Pass
<1>2. /\ count \in Nat /\ compare \in Nat /\ compare <= Far /\ spent \in Nat /\ start \in Nat
      /\ Latency \in Nat /\ Far \in Nat
    BY TimersFacts DEF TimersTypeOK, Counter
<1>3. ASSUME NEW t \in TI_timers
      PROVE  /\ owed'[t] \in Debt /\ owed'[t].before = owed[t].before
             /\ owed'[t].ticks = IF owed[t].ticks > 0 THEN owed[t].ticks - 1 ELSE 0
    <2>1. owed[t] \in Debt
        BY DEF TimersTypeOK, Debt
    <2> DEFINE x == IF owed[t].ticks > 0 THEN owed[t].ticks - 1 ELSE 0
    <2>2. x \in Int
        BY <2>1 DEF Debt
    <2> HIDE DEF x
    <2>3. owed'[t] = [owed[t] EXCEPT !.ticks = x]
        BY <1>1 DEF x
    <2> QED
        BY <2>1, <2>2, <2>3 DEF Debt, x
<1>4. count' <= Far + Latency + spent' /\ (pc = "idle" => count' <= Far)
    BY <1>1, <1>2 DEF Counter, Inside
<1>5. TimersTypeOK'
    <2>1. owed' \in [TI_timers -> Debt]
        BY <1>1, <1>3
    <2>2. count' \in 0 .. Far + 2 * Latency
        BY <1>1, <1>2, <1>4
    <2> QED
        BY <2>1, <2>2 DEF TimersTypeOK, Debt
<1>6. Counter'
    <2>1. installed /\ pc \in {"idle", "section"} => raised' \/ count' < compare
        <3>1. CASE raised
            BY <1>1, <3>1
        <3>2. CASE ~raised /\ installed /\ pc \in {"idle", "section"}
            <4>1. count < compare
                BY <3>2 DEF Counter
            <4>2. count + 1 = compare \/ count + 1 < compare
                BY <1>2, <4>1
            <4> QED
                BY <1>1, <4>2
        <3> QED
            BY <3>1, <3>2
    <2>2. pc = "section" => count' <= Far + spent'
        BY <1>1, <1>2 DEF Counter
    <2>3. pc = "arm" => start <= count'
        BY <1>1, <1>2 DEF Counter
    <2>4. pc = "idle" => ie /\ spent' = 0 /\ count' <= Far + Latency
        BY <1>2, <1>4 DEF Counter
    <2> QED
        BY <1>4, <2>1, <2>2, <2>3, <2>4 DEF Counter
<1>7. Alarm'
    BY <1>1 DEF Alarm, smallest
<1>8. Owing'
    <2> SUFFICES ASSUME NEW t \in TI_timers
                 PROVE  \/ owed'[t].ticks <= 0
                        \/ owed'[t].ticks <= timers[t].left - Since' + owed'[t].before
        BY DEF Owing
    <2>1. owed[t].ticks \in Int /\ owed[t].before \in Nat /\ timers[t].left \in Int
        BY DEF TimersTypeOK
    <2>2. Since' = Since + 1 /\ Since \in Int
        BY <1>1, <1>2 DEF Since
    <2>3. \/ owed[t].ticks <= 0
          \/ owed[t].ticks <= timers[t].left - Since + owed[t].before
        BY DEF Owing
    <2> QED
        BY <1>3, <2>1, <2>2, <2>3
<1> QED
    BY <1>5, <1>6, <1>7, <1>8

\* Walking the list.
LEMMA StepWalk ==
    ASSUME TimersInv, Walk PROVE TimersInv'
<1> USE DEF TimersInv
<1>1. /\ pc = "walk" /\ pc' = "arm" /\ start' = count
      /\ TI_timers' = {t \in TI_timers : t \in Fired => timers[t].continuous}
      /\ timers' = [t \in TI_timers' |-> Walked(t)]
      /\ owed' = [t \in TI_timers' |->
                    IF t \in Fired THEN [ticks |-> timers'[t].left, before |-> 0] ELSE owed[t]]
      /\ UNCHANGED <<allocated, count, compare, raised, installed, spent>>
    BY DEF Walk, time
<1>2. count \in Nat /\ Far \in Nat /\ Margin \in Nat \ {0}
    BY TimersFacts DEF TimersTypeOK
<1>3. ASSUME NEW t \in TI_timers
      PROVE  /\ Walked(t) \in Entry /\ Walked(t).left < Far + Margin
             /\ t \notin Fired => Walked(t).left = timers[t].left - count
    <2>1. timers[t] \in Entry /\ timers[t].left \in Int /\ timers[t].set \in Nat /\ timers[t].set <= Far
        BY TimersFacts DEF TimersTypeOK, Entry
    <2> DEFINE left == timers[t].left - count
               x == IF t \in Fired /\ timers[t].continuous THEN timers[t].set + left ELSE left
    <2>2. left \in Int /\ x \in Int /\ (t \notin Fired => x = left) /\ x < Far + Margin
        <3>1. left \in Int /\ left < Far + Margin
            BY <1>2, <2>1 DEF TimersTypeOK
        <3>2. t \in Fired => left < Margin
            BY DEF Fired, Expired
        <3> HIDE DEF left
        <3> QED
            BY <1>2, <2>1, <3>1, <3>2
    <2>3. Walked(t) = [timers[t] EXCEPT !.left = x]
        BY DEF Walked, Again
    <2> HIDE DEF x
    <2> QED
        BY <2>1, <2>2, <2>3 DEF Entry
<1>4. TI_timers' \subseteq TI_timers
    BY <1>1
<1>5. ASSUME NEW t \in TI_timers'
      PROVE  /\ timers'[t] \in Entry /\ timers'[t].left < Far + Margin
             /\ owed'[t] \in Debt
             /\ \/ owed'[t].ticks <= 0
                \/ owed'[t].ticks <= timers'[t].left + owed'[t].before
    <2>1. timers'[t] = Walked(t) /\ t \in TI_timers
        BY <1>1
    <2>2. CASE t \in Fired
        <3>1. owed'[t] = [ticks |-> timers'[t].left, before |-> 0]
            BY <1>1, <2>2
        <3> QED
            BY <1>3, <2>1, <3>1 DEF Debt, Entry
    <2>3. CASE t \notin Fired
        <3>1. owed'[t] = owed[t] /\ owed[t] \in Debt
            BY <1>1, <2>1, <2>3 DEF TimersTypeOK, Debt
        <3>2. timers'[t].left = timers[t].left - count
            BY <1>3, <2>1, <2>3
        <3>3. \/ owed[t].ticks <= 0
              \/ owed[t].ticks <= timers[t].left - count + owed[t].before
            BY <1>1, <2>1 DEF Owing, Since
        <3> QED
            BY <1>3, <2>1, <3>1, <3>2, <3>3
    <2> QED
        BY <2>2, <2>3
<1>6. TimersTypeOK'
    <2>1. timers' \in [TI_timers' -> Entry] /\ owed' \in [TI_timers' -> Debt]
        BY <1>1, <1>5
    <2> QED
        BY <1>1, <1>4, <1>5, <2>1 DEF TimersTypeOK, Entry, Debt
<1>7. Counter'
    BY <1>1, <1>2 DEF Counter, Inside
<1>8. Alarm'
    BY <1>1, <1>4, FS_Subset DEF Alarm
<1>9. Owing'
    <2>1. Since' = 0
        BY <1>1, <1>2 DEF Since
    <2> SUFFICES ASSUME NEW t \in TI_timers'
                 PROVE  \/ owed'[t].ticks <= 0
                        \/ owed'[t].ticks <= timers'[t].left - 0 + owed'[t].before
        BY <2>1 DEF Owing
    <2>2. owed'[t].before \in Nat /\ timers'[t].left \in Int
        BY <1>5 DEF Debt, Entry
    <2> QED
        BY <1>5, <2>2
<1> QED
    BY <1>6, <1>7, <1>8, <1>9

\* The list is walked once more, or the alarm is set.
LEMMA StepArm ==
    ASSUME TimersInv, Arm PROVE TimersInv'
<1> USE DEF TimersInv
<1> DEFINE d == count - start
<1>1. /\ pc = "arm" /\ UNCHANGED <<TI_timers, timers, allocated, installed, owed>>
      /\ IF smallest < d + Margin
         THEN count' = d /\ pc' = "walk" /\ UNCHANGED <<ie, compare, raised, start, spent>>
         ELSE /\ count' = 0 /\ compare' = smallest - d /\ raised' = FALSE
              /\ pc' = "idle" /\ ie' = TRUE /\ start' = 0 /\ spent' = 0
    BY DEF Arm, Elapsed, Soon, Return, write_count, write_compare, enable_interrupts
<1>2. /\ count \in Nat /\ start \in Nat /\ start <= count /\ Far \in Nat /\ Latency \in Nat
      /\ Margin \in Nat \ {0} /\ spent \in 0 .. Latency /\ count <= Far + Latency + spent
    BY <1>1, TimersFacts DEF TimersTypeOK, Counter, Inside
<1>3. d \in Nat /\ d <= count
    BY <1>2
<1>4. /\ smallest \in Int /\ smallest <= Far
      /\ \A t \in TI_timers : smallest <= timers[t].left
    BY AlarmFacts DEF Alarm
<1>5. smallest' = smallest
    BY <1>1 DEF smallest
<1>6. Since = d
    BY <1>1 DEF Since
<1> HIDE DEF d
<1>7. CASE smallest < d + Margin
    <2>1. count' = d /\ pc' = "walk" /\ UNCHANGED <<ie, compare, raised, start, spent>>
        BY <1>1, <1>7
    <2>2. TimersTypeOK'
        BY <1>1, <1>2, <1>3, <2>1 DEF TimersTypeOK
    <2>3. Counter'
        BY <1>1, <1>2, <1>3, <2>1 DEF Counter, Inside
    <2>4. Alarm'
        BY <1>1, <2>1 DEF Alarm
    <2>5. Owing'
        <3>1. Since' = d
            BY <2>1 DEF Since
        <3> QED
            BY <1>1, <1>6, <3>1 DEF Owing
    <2> QED
        BY <2>2, <2>3, <2>4, <2>5
<1>8. CASE ~(smallest < d + Margin)
    <2>1. /\ count' = 0 /\ compare' = smallest - d /\ raised' = FALSE
          /\ pc' = "idle" /\ ie' = TRUE /\ start' = 0 /\ spent' = 0
        BY <1>1, <1>8
    <2>2. 0 < compare' /\ compare' \in 0 .. Far /\ compare' <= smallest
        BY <1>2, <1>3, <1>4, <1>8, <2>1
    <2>3. TimersTypeOK'
        BY <1>1, <1>2, <2>1, <2>2 DEF TimersTypeOK
    <2>4. Counter'
        BY <1>1, <1>2, <2>1, <2>2 DEF Counter, Inside
    <2>5. Alarm'
        BY <1>1, <1>5, <2>1, <2>2 DEF Alarm
    <2>6. Owing'
        <3> SUFFICES ASSUME NEW t \in TI_timers
                     PROVE  \/ owed[t].ticks <= 0
                            \/ owed[t].ticks <= timers[t].left - 0 + owed[t].before
            BY <1>1, <2>1 DEF Owing, Since
        <3>1. owed[t].ticks \in Int /\ owed[t].before \in Nat /\ timers[t].left \in Int
            BY DEF TimersTypeOK
        <3>2. \/ owed[t].ticks <= 0
              \/ owed[t].ticks <= timers[t].left - d + owed[t].before
            BY <1>6 DEF Owing
        <3> QED
            BY <1>3, <3>1, <3>2
    <2> QED
        BY <2>3, <2>4, <2>5, <2>6
<1> QED
    BY <1>7, <1>8

LEMMA StepInsert ==
    ASSUME NEW t, NEW ticks \in Ticks, NEW continuous \in BOOLEAN,
           TimersInv, Calling, installed, t \notin TI_timers, Insert(t, ticks, continuous),
           t \in allocated', allocated \subseteq allocated', allocated' \subseteq Timer
    PROVE  TimersInv'
<1> USE DEF TimersInv
<1> DEFINE v == [left |-> ticks, set |-> ticks, continuous |-> continuous]
           b == IF TI_timers = {} THEN 0 ELSE count
           o == [ticks |-> ticks, before |-> b]
<1>1. /\ pc = "idle" /\ ie /\ ~raised
      /\ timers' = With(timers, t, v) /\ owed' = With(owed, t, o)
      /\ TI_timers' = {t} \cup TI_timers /\ UNCHANGED installed
      /\ IF TI_timers = {}
         THEN count' = 0 /\ compare' = ticks /\ raised' = FALSE /\ UNCHANGED <<pc, ie, start, spent>>
         ELSE pc' = "walk" /\ ie' = FALSE /\ UNCHANGED <<count, compare, raised, start, spent>>
    BY DEF Insert, Calling, MayInterruptTimer, write_count, write_compare, time, disable_interrupts
<1>2. /\ ticks \in Nat /\ 0 < ticks /\ ticks <= Far
      /\ Far \in Nat /\ Margin \in Nat \ {0} /\ Latency \in Nat
    BY TimersFacts
<1>3. /\ count \in Nat /\ count <= Far + Latency /\ spent = 0 /\ start \in Nat
      /\ count < compare /\ compare \in Nat /\ compare <= Far
    BY <1>1, TimersFacts DEF TimersTypeOK, Counter
<1>4. b \in Nat /\ v \in Entry /\ o \in Debt
    BY <1>2, <1>3 DEF Entry, Debt
<1>5. /\ timers' \in [TI_timers' -> Entry] /\ timers'[t] = v
      /\ \A u \in TI_timers : timers'[u] = timers[u]
    <2>1. timers \in [TI_timers -> Entry]
        BY DEF TimersTypeOK, Entry
    <2> HIDE DEF v
    <2>2. With(timers, t, v) = [u \in {t} \cup TI_timers |-> IF u = t THEN v ELSE timers[u]]
        BY <2>1 DEF With
    <2>3. timers' = [u \in TI_timers' |-> IF u = t THEN v ELSE timers[u]]
        BY <1>1, <2>2
    <2>4. t \in TI_timers' /\ \A u \in TI_timers : u # t /\ u \in TI_timers'
        BY <1>1
    <2>5. timers' \in [TI_timers' -> Entry]
        BY <1>1, <1>4, <2>1, <2>3
    <2> QED
        BY <2>3, <2>4, <2>5
<1>6. /\ owed' \in [TI_timers' -> Debt] /\ owed'[t] = o
      /\ \A u \in TI_timers : owed'[u] = owed[u]
    <2>1. owed \in [TI_timers -> Debt]
        BY DEF TimersTypeOK, Debt
    <2> HIDE DEF o
    <2>2. With(owed, t, o) = [u \in {t} \cup TI_timers |-> IF u = t THEN o ELSE owed[u]]
        BY <2>1 DEF With
    <2>3. owed' = [u \in TI_timers' |-> IF u = t THEN o ELSE owed[u]]
        BY <1>1, <2>2
    <2>4. t \in TI_timers' /\ \A u \in TI_timers : u # t /\ u \in TI_timers'
        BY <1>1
    <2>5. owed' \in [TI_timers' -> Debt]
        BY <1>1, <1>4, <2>1, <2>3
    <2> QED
        BY <2>3, <2>4, <2>5
<1>7. TimersTypeOK'
    <2>1. \A u \in TI_timers' : timers'[u].left < Far + Margin
        BY <1>1, <1>2, <1>5 DEF TimersTypeOK
    <2>2. count' \in 0 .. Far + 2 * Latency /\ compare' \in 0 .. Far
        <3>1. \/ count' = 0 /\ compare' = ticks
              \/ count' = count /\ compare' = compare
            BY <1>1
        <3> QED
            BY <1>2, <1>3, <3>1
    <2>3. TI_timers' \subseteq allocated'
        BY <1>1 DEF TimersTypeOK
    <2> QED
        BY <1>5, <1>6, <2>1, <2>2, <2>3 DEF TimersTypeOK, Entry, Debt
<1>8. Counter'
    <2>1. CASE TI_timers = {}
        BY <1>1, <1>2, <1>3, <2>1 DEF Counter, Inside
    <2>2. CASE TI_timers # {}
        <3>1. pc' = "walk" /\ count' = count /\ spent' = 0 /\ start' = start
            BY <1>1, <1>3, <2>2
        <3> QED
            BY <1>1, <1>2, <1>3, <3>1 DEF Counter, Inside
    <2> QED
        BY <2>1, <2>2
<1>9. Alarm'
    <2>1. IsFiniteSet(TI_timers')
        BY <1>1, FS_Singleton, FS_Union DEF Alarm
    <2>2. CASE TI_timers = {}
        <3>1. compare' = ticks /\ TI_timers' = {t} /\ pc' = "idle"
            BY <1>1, <2>2
        <3>2. smallest' = Far \/ smallest' = timers'[t].left
            BY <1>7, <2>1, <3>1, NextAlarmFacts
        <3>3. compare' <= smallest'
            BY <1>2, <1>5, <3>1, <3>2
        <3> QED
            BY <2>1, <3>1, <3>3 DEF Alarm
    <2>3. CASE TI_timers # {}
        BY <1>1, <2>1, <2>3 DEF Alarm
    <2> QED
        BY <2>2, <2>3
<1>10. Owing'
    <2>1. Since = count /\ Since' = count'
        BY <1>1 DEF Since
    <2>2. ASSUME NEW u \in TI_timers'
          PROVE  \/ owed'[u].ticks <= 0
                 \/ owed'[u].ticks <= timers'[u].left - count' + owed'[u].before
        <3>1. CASE u = t
            <4>1. owed'[u].ticks = ticks /\ owed'[u].before = b /\ timers'[u].left = ticks
                BY <1>5, <1>6, <3>1
            <4>2. count' = b
                BY <1>1
            <4> HIDE DEF b
            <4> QED
                BY <1>2, <1>4, <4>1, <4>2
        <3>2. CASE u # t
            <4>1. u \in TI_timers /\ count' = count
                BY <1>1, <3>2
            <4> QED
                BY <1>5, <1>6, <2>1, <4>1 DEF Owing
        <3> QED
            BY <3>1, <3>2
    <2> QED
        BY <2>1, <2>2 DEF Owing
<1> QED
    BY <1>7, <1>8, <1>9, <1>10

LEMMA StepTakeOut ==
    ASSUME NEW t, TimersInv, Calling, TakeOut(t),
           allocated' = allocated \/ allocated' = allocated \ {t}
    PROVE  TimersInv'
<1> USE DEF TimersInv
<1>1. /\ pc = "idle" /\ TI_timers' = TI_timers \ {t}
      /\ timers' = Restrict(timers, TI_timers') /\ owed' = Restrict(owed, TI_timers')
      /\ UNCHANGED <<pc, ie, count, compare, raised, installed, start, spent>>
    BY DEF TakeOut, Calling, time
<1>2. /\ timers' \in [TI_timers' -> Entry] /\ owed' \in [TI_timers' -> Debt]
      /\ \A u \in TI_timers' : timers'[u] = timers[u] /\ owed'[u] = owed[u]
    <2>1. timers \in [TI_timers -> Entry] /\ owed \in [TI_timers -> Debt] /\ TI_timers' \in SUBSET TI_timers
        BY <1>1 DEF TimersTypeOK, Entry, Debt
    <2> QED
        BY <1>1, <2>1 DEF Restrict
<1>3. TimersTypeOK'
    BY <1>1, <1>2 DEF TimersTypeOK, Entry, Debt
<1>4. Counter'
    BY <1>1 DEF Counter, Inside
<1>5. Alarm'
    <2>1. IsFiniteSet(TI_timers')
        BY <1>1, FS_Subset DEF Alarm
    <2>2. /\ smallest \in Int /\ smallest <= Far
          /\ \A u \in TI_timers : smallest <= timers[u].left
        BY AlarmFacts DEF Alarm
    <2>3. /\ smallest' \in Int
          /\ smallest' = Far \/ \E u \in TI_timers' : smallest' = timers'[u].left
        BY <1>3, <2>1, NextAlarmFacts
    <2>4. smallest <= smallest'
        BY <1>1, <1>2, <2>2, <2>3
    <2>5. compare \in Nat
        BY DEF TimersTypeOK
    <2> QED
        BY <1>1, <2>1, <2>2, <2>3, <2>4, <2>5 DEF Alarm
<1>6. Owing'
    <2>1. Since' = Since
        BY <1>1 DEF Since
    <2> QED
        BY <1>1, <1>2, <2>1 DEF Owing
<1> QED
    BY <1>3, <1>4, <1>5, <1>6

LEMMA StepTimers == TimersInv /\ TimersNext => TimersInv'
<1> SUFFICES ASSUME TimersInv, TimersNext PROVE TimersInv'
    OBVIOUS
<1> USE DEF TimersInv
<1>1. CASE Tick
    <2>1. /\ pc = "idle" /\ installed /\ ~(ie /\ raised /\ installed) /\ Pass
          /\ UNCHANGED <<pc, ie, TI_timers, timers, allocated, compare, installed, start, spent>>
        BY <1>1 DEF Tick, MayInterruptTimer
    <2>2. count < compare /\ spent \in 0 .. Latency
        BY <2>1 DEF Counter
    <2> QED
        BY <2>1, <2>2, StepPass
<1>2. CASE TickInside
    <2>1. /\ pc # "idle" /\ spent < Latency /\ Pass /\ spent' = spent + 1
          /\ UNCHANGED <<pc, ie, TI_timers, timers, allocated, compare, installed, start>>
        BY <1>2 DEF TickInside
    <2>2. spent' \in 0 .. Latency
        BY <2>1, TimersFacts DEF Counter
    <2> QED
        BY <2>1, <2>2, StepPass
<1>3. CASE Walk
    BY <1>3, StepWalk
<1>4. CASE Arm
    BY <1>4, StepArm
<1>5. CASE Rewind
    <2>1. /\ pc = "rewind" /\ pc' = "idle" /\ ie' = TRUE /\ start' = 0 /\ spent' = 0
          /\ count' = 0 /\ compare' = Far /\ raised' = FALSE /\ TI_timers = {}
          /\ UNCHANGED <<TI_timers, timers, allocated, installed, owed>>
        BY <1>5 DEF Rewind, Return, write_count, write_compare, enable_interrupts, Alarm
    <2>2. 0 < Far /\ Far \in Nat /\ Latency \in Nat
        BY TimersFacts
    <2>3. TimersTypeOK' /\ Counter'
        BY <2>1, <2>2 DEF TimersTypeOK, Counter, Inside
    <2> QED
        BY <2>1, <2>3 DEF Alarm, Owing
<1>6. CASE TI_handler
    <2>1. /\ pc = "idle" /\ pc' = (IF TI_timers # {} THEN "walk" ELSE "rewind") /\ installed
          /\ compare' = 0 /\ raised' = FALSE
          /\ UNCHANGED <<TI_timers, timers, allocated, count, installed, start, spent, owed>>
        BY <1>6 DEF TI_handler, write_compare, MayInterruptTimer
    <2>2. TimersTypeOK' /\ Counter'
        BY <2>1, TimersFacts DEF TimersTypeOK, Counter, Inside
    <2>3. Alarm' /\ Owing'
        BY <2>1 DEF Alarm, Owing, Since
    <2> QED
        BY <2>2, <2>3
<1>7. CASE timer_init
    <2>1. /\ pc = "idle" /\ TI_timers = {} /\ count' = 0 /\ compare' = Far /\ raised' = FALSE
          /\ installed' = TRUE
          /\ UNCHANGED <<pc, ie, TI_timers, timers, allocated, start, spent, owed>>
        BY <1>7 DEF timer_init, Calling, write_count, write_compare, Counter
    <2>2. 0 < Far /\ Far \in Nat /\ Latency \in Nat
        BY TimersFacts
    <2>3. TimersTypeOK' /\ Counter'
        BY <2>1, <2>2 DEF TimersTypeOK, Counter, Inside
    <2> QED
        BY <2>1, <2>3 DEF Alarm, Owing
<1>8. CASE new_timer
    <2>1. PICK t \in Timer \ allocated, ticks \in Ticks, continuous \in BOOLEAN :
              /\ Calling /\ installed /\ allocated' = allocated \cup {t}
              /\ Insert(t, ticks, continuous)
        BY <1>8 DEF new_timer
    <2>2. t \notin TI_timers /\ t \in allocated' /\ allocated \subseteq allocated' /\ allocated' \subseteq Timer
        BY <2>1 DEF TimersTypeOK
    <2> QED
        BY <2>1, <2>2, StepInsert
<1>9. CASE start_timer
    <2>1. PICK t \in allocated \ TI_timers, ticks \in Ticks, continuous \in BOOLEAN :
              /\ Calling /\ installed /\ allocated' = allocated
              /\ Insert(t, ticks, continuous)
        BY <1>9 DEF start_timer
    <2>2. t \notin TI_timers /\ t \in allocated' /\ allocated \subseteq allocated' /\ allocated' \subseteq Timer
        BY <2>1 DEF TimersTypeOK
    <2> QED
        BY <2>1, <2>2, StepInsert
<1>10. CASE stop_timer
    BY <1>10, StepTakeOut DEF stop_timer
<1>11. CASE delete_timer
    BY <1>11, StepTakeOut DEF delete_timer
<1>12. CASE timer_close
    <2>1. /\ pc = "idle" /\ ~installed' /\ allocated' \subseteq allocated
          /\ TI_timers' = {} /\ timers' = <<>> /\ owed' = <<>>
          /\ UNCHANGED <<pc, ie, count, compare, raised, start, spent>>
        BY <1>12 DEF timer_close, Calling, time
    <2>2. \A S : <<>> \in [{} -> S]
        OBVIOUS
    <2>3. TimersTypeOK'
        BY <2>1, <2>2 DEF TimersTypeOK
    <2>4. Counter'
        BY <2>1 DEF Counter, Inside
    <2>5. Alarm' /\ Owing'
        BY <2>1, FS_EmptySet DEF Alarm, Owing
    <2> QED
        BY <2>3, <2>4, <2>5
<1>13. CASE timer_ticks
    <2>1. /\ pc = "idle" /\ installed /\ pc' = (IF TI_timers # {} THEN "walk" ELSE "rewind")
          /\ UNCHANGED <<TI_timers, timers, allocated, count, compare, raised, installed,
                         start, spent, owed>>
        BY <1>13 DEF timer_ticks, Calling, timer_callback
    <2>2. TimersTypeOK' /\ Counter'
        BY <2>1, TimersFacts DEF TimersTypeOK, Counter, Inside
    <2>3. Alarm' /\ Owing'
        BY <2>1 DEF Alarm, Owing, Since
    <2> QED
        BY <2>2, <2>3
<1>14. CASE BeginSection
    <2>1. /\ pc = "idle" /\ ~raised /\ installed /\ pc' = "section"
          /\ UNCHANGED <<TI_timers, timers, allocated, count, compare, raised, installed,
                         start, spent, owed>>
        BY <1>14 DEF BeginSection, Calling, MayInterruptTimer, timersVars, time
    <2>2. smallest' = smallest
        BY <2>1 DEF smallest
    <2>3. count < compare /\ compare <= Far /\ count \in Nat /\ compare \in Nat
        BY <2>1 DEF Counter, TimersTypeOK
    <2>4. TimersTypeOK' /\ Counter'
        BY <2>1, <2>3, TimersFacts DEF TimersTypeOK, Counter, Inside
    <2>5. Alarm' /\ Owing'
        BY <2>1, <2>2 DEF Alarm, Owing, Since
    <2> QED
        BY <2>4, <2>5
<1>15. CASE EndSection
    <2>1. /\ pc = "section" /\ pc' = "idle" /\ ie' = TRUE /\ start' = 0 /\ spent' = 0
          /\ UNCHANGED <<TI_timers, timers, allocated, count, compare, raised, installed, owed>>
        BY <1>15 DEF EndSection, Return, enable_interrupts, time
    <2>2. smallest' = smallest
        BY <2>1 DEF smallest
    <2>3. count <= Far + Latency
        BY <2>1, TimersFacts DEF Counter, TimersTypeOK
    <2>4. TimersTypeOK' /\ Counter'
        BY <2>1, <2>3, TimersFacts DEF TimersTypeOK, Counter, Inside
    <2>5. Alarm' /\ Owing'
        BY <2>1, <2>2 DEF Alarm, Owing, Since
    <2> QED
        BY <2>4, <2>5
<1> QED
    BY <1>1, <1>2, <1>3, <1>4, <1>5, <1>6, <1>7, <1>8, <1>9, <1>10, <1>11, <1>12, <1>13, <1>14,
       <1>15 DEF TimersNext, Process, TimersCall

-----------------------------------------------------------------------------
(* The audio ring. *)

LEMMA AudioFacts ==
    Silence \in Sounds /\ Asked \subseteq Nat /\ Bits \in Nat /\ NUM_BUFFERS \in 2 .. Bits
BY AudioAssumption

LEMMA Wrap ==
    ASSUME NEW n \in Nat \ {0}, NEW x \in Nat, x < 2 * n
    PROVE  x % n = IF x < n THEN x ELSE x - n
<1>1. CASE x < n
    BY <1>1
<1>2. CASE ~(x < n)
    BY <1>2
<1> QED
    BY <1>1, <1>2

LEMMA Turn ==
    ASSUME NEW n \in Nat \ {0}, NEW p \in 0 .. n - 1, NEW i \in 0 .. n
    PROVE  /\ (p + i) % n = IF p + i < n THEN p + i ELSE (p + i) - n
           /\ (p + i) % n \in 0 .. n - 1
<1>1. p + i \in Nat /\ p + i < 2 * n
    OBVIOUS
<1>2. (p + i) % n = IF p + i < n THEN p + i ELSE (p + i) - n
    BY <1>1, Wrap
<1> QED
    BY <1>1, <1>2

\* The slots of a ring are apart.
LEMMA Slots ==
    ASSUME NEW n \in Nat \ {0}, NEW p \in 0 .. n - 1
    PROVE  /\ \A i, j \in 1 .. n : (p + i) % n = (p + j) % n => i = j
           /\ (p + n) % n = p /\ (p + 0) % n = p
<1>1. ASSUME NEW i \in 1 .. n, NEW j \in 1 .. n, (p + i) % n = (p + j) % n
      PROVE  i = j
    <2>1. i \in 0 .. n /\ j \in 0 .. n
        OBVIOUS
    <2>2. (p + i) % n = IF p + i < n THEN p + i ELSE (p + i) - n
        BY <2>1, Turn
    <2>3. (p + j) % n = IF p + j < n THEN p + j ELSE (p + j) - n
        BY <2>1, Turn
    <2> QED
        BY <1>1, <2>2, <2>3
<1>2. (p + n) % n = p /\ (p + 0) % n = p
    <2>1. n \in 0 .. n /\ 0 \in 0 .. n
        OBVIOUS
    <2>2. (p + n) % n = IF p + n < n THEN p + n ELSE (p + n) - n
        BY <2>1, Turn
    <2>3. (p + 0) % n = IF p + 0 < n THEN p + 0 ELSE (p + 0) - n
        BY <2>1, Turn
    <2> QED
        BY <2>2, <2>3
<1> QED
    BY <1>1, <1>2

\* One further is one further, from either end.
LEMMA Further ==
    ASSUME NEW n \in Nat \ {0}, NEW p \in 0 .. n - 1, NEW i \in 0 .. n - 1
    PROVE  /\ (((p + 1) % n) + i) % n = (p + (i + 1)) % n
           /\ (((p + i) % n) + 1) % n = (p + (i + 1)) % n
<1>1. i \in 0 .. n /\ i + 1 \in 0 .. n /\ 1 \in 0 .. n
    OBVIOUS
<1> DEFINE q == (p + 1) % n  r == (p + i) % n
<1>2. q \in 0 .. n - 1 /\ q = IF p + 1 < n THEN p + 1 ELSE (p + 1) - n
    BY <1>1, Turn
<1>3. r \in 0 .. n - 1 /\ r = IF p + i < n THEN p + i ELSE (p + i) - n
    BY <1>1, Turn
<1>4. (p + (i + 1)) % n = IF p + (i + 1) < n THEN p + (i + 1) ELSE (p + (i + 1)) - n
    BY <1>1, Turn
<1> HIDE DEF q, r
<1>5. (q + i) % n = IF q + i < n THEN q + i ELSE (q + i) - n
    BY <1>1, <1>2, Turn
<1>6. (r + 1) % n = IF r + 1 < n THEN r + 1 ELSE (r + 1) - n
    BY <1>1, <1>3, Turn
<1>7. (q + i) % n = (p + (i + 1)) % n
    BY <1>2, <1>4, <1>5
<1>8. (r + 1) % n = (p + (i + 1)) % n
    BY <1>3, <1>4, <1>6
<1> QED
    BY <1>7, <1>8 DEF q, r

\* The first of the slots that wait is taken away; one more waits.
LEMMA TakeFirst ==
    ASSUME NEW n \in Nat \ {0}, NEW p \in 0 .. n - 1, NEW w \in 1 .. n
    PROVE  {(p + j) % n : j \in 1 .. w} \ {(p + 1) % n} = {(((p + 1) % n) + j) % n : j \in 1 .. w - 1}
<1> DEFINE q == (p + 1) % n
<1>1. \A i, j \in 1 .. n : (p + i) % n = (p + j) % n => i = j
    BY Slots
<1>2. \A i \in 0 .. n - 1 : (q + i) % n = (p + (i + 1)) % n
    BY Further
<1>3. 1 \in 1 .. n /\ q = (p + 1) % n
    OBVIOUS
<1> HIDE DEF q
<1>4. ASSUME NEW j \in 1 .. w, (p + j) % n # q
      PROVE  (p + j) % n \in {(q + i) % n : i \in 1 .. w - 1}
    <2>1. j # 1
        BY <1>3, <1>4
    <2>2. j - 1 \in 1 .. w - 1 /\ j - 1 \in 0 .. n - 1 /\ (j - 1) + 1 = j
        BY <2>1
    <2> QED
        BY <1>2, <2>2
<1>5. ASSUME NEW i \in 1 .. w - 1
      PROVE  (q + i) % n \in {(p + j) % n : j \in 1 .. w} /\ (q + i) % n # q
    <2>1. i + 1 \in 1 .. w /\ i \in 0 .. n - 1 /\ i + 1 \in 1 .. n /\ i + 1 # 1
        OBVIOUS
    <2>2. (q + i) % n = (p + (i + 1)) % n
        BY <1>2, <2>1
    <2> QED
        BY <1>1, <1>3, <2>1, <2>2
<1>6. {(p + j) % n : j \in 1 .. w} \ {q} = {(q + j) % n : j \in 1 .. w - 1}
    BY <1>4, <1>5
<1> QED
    BY <1>6 DEF q

LEMMA PutLast ==
    ASSUME NEW n \in Nat \ {0}, NEW p \in 0 .. n - 1, NEW w \in 0 .. n - 1
    PROVE  {(p + j) % n : j \in 1 .. w} \cup {(p + (w + 1)) % n} = {(p + j) % n : j \in 1 .. w + 1}
<1>1. \A j \in 1 .. w + 1 : j \in 1 .. w \/ j = w + 1
    OBVIOUS
<1>2. 1 .. w \subseteq 1 .. w + 1 /\ w + 1 \in 1 .. w + 1
    OBVIOUS
<1> QED
    BY <1>1, <1>2

\* The ring, where there is one.
LEMMA RingFacts ==
    ASSUME AudioTypeOK, Ring, buffers = "ready", astray = FALSE
    PROVE  \E n \in 2 .. Bits : \E p \in 0 .. n - 1, w \in 0 .. n :
               /\ _num_buf = n /\ now_playing = p /\ Waits = w
               /\ IsFiniteSet(buf_full) /\ buf_full = {(p + j) % n : j \in 1 .. w}
               /\ now_writing = (p + w) % n
               /\ Waiting = [i \in 1 .. w |-> content[(p + i) % n]]
               /\ Waiting \in Seq(Sounds) /\ Len(Waiting) = w
<1>1. PICK n \in 2 .. Bits : _num_buf = n
    BY DEF AudioTypeOK
<1>0. n \in Nat \ {0}
    BY <1>1, AudioFacts
<1>2. /\ IsFiniteSet(buf_full) /\ Waits <= n /\ now_playing \in 0 .. n - 1
      /\ buf_full = {(now_playing + j) % n : j \in 1 .. Waits}
      /\ now_writing = (now_playing + Waits) % n
    BY <1>1 DEF Ring
<1>3. PICK p \in 0 .. n - 1 : now_playing = p
    BY <1>2
<1>4. PICK w \in 0 .. n : Waits = w
    <2>1. Waits \in Nat
        BY <1>2, FS_CardinalityType DEF Waits
    <2>2. Waits \in 0 .. n
        BY <1>0, <1>2, <2>1
    <2> QED
        BY <2>2
<1>5. Waiting = [i \in 1 .. w |-> content[(p + i) % n]]
    BY <1>1, <1>3, <1>4 DEF Waiting, Waits
<1>6. ASSUME NEW i \in 1 .. w PROVE content[(p + i) % n] \in Sounds
    <2>1. /\ n \in Nat \ {0} /\ i \in 0 .. n /\ p \in 0 .. n - 1
          /\ n <= Bits /\ Bits \in Nat
        BY <1>1, <1>3, <1>4, AudioFacts
    <2>2. (p + i) % n \in 0 .. n - 1
        BY <2>1, Turn
    <2>3. (p + i) % n \in 0 .. Bits - 1
        BY <2>1, <2>2
    <2> QED
        BY <2>3 DEF AudioTypeOK
<1>7. [i \in 1 .. w |-> content[(p + i) % n]] \in Seq(Sounds)
    BY <1>4, <1>6
<1>8. Len([i \in 1 .. w |-> content[(p + i) % n]]) = w
    BY <1>4
<1> QED
    BY <1>1, <1>2, <1>3, <1>4, <1>5, <1>7, <1>8

\* The places and what is in them, whatever has become of the ring.
LEMMA Places ==
    ASSUME AudioTypeOK, NEW p \in 0 .. Bits - 1
    PROVE  After(p) \in 0 .. Bits - 1
<1>1. PICK n \in 2 .. Bits : _num_buf = n
    BY DEF AudioTypeOK
<1>2. n \in Nat \ {0} /\ p + 1 \in Nat /\ n <= Bits /\ Bits \in Nat
    BY <1>1, AudioFacts
<1>3. (p + 1) % n \in 0 .. n - 1
    BY <1>2
<1>4. (p + 1) % n \in 0 .. Bits - 1
    BY <1>2, <1>3
<1> QED
    BY <1>1, <1>4 DEF After

LEMMA FillTypes == ASSUME AudioTypeOK, Fill PROVE AudioTypeOK'
<1> DEFINE q == After(now_playing)
<1>1. q \in 0 .. Bits - 1
    BY Places DEF AudioTypeOK
<1> HIDE DEF q
<1>2. /\ buf_full' = buf_full \ {q} /\ now_playing' = q
      /\ sent' = [chunk |-> Sound(q), turn |-> ~sent.turn]
      /\ UNCHANGED <<buffers, _num_buf, now_writing, content, chunk, astray>>
    BY DEF Fill, q
<1>3. Sound(q) \in Sounds \cup {Noise}
    BY <1>1 DEF Sound, AudioTypeOK
<1>4. sent' \in [chunk : Sounds \cup {Noise}, turn : BOOLEAN]
    BY <1>2, <1>3
<1> QED
    BY <1>1, <1>2, <1>4 DEF AudioTypeOK

LEMMA StoreTypes == ASSUME AudioTypeOK, Store PROVE AudioTypeOK'
<1> DEFINE z == After(now_writing)
<1>1. z \in 0 .. Bits - 1
    BY Places DEF AudioTypeOK
<1> HIDE DEF z
<1>2. /\ buf_full' = buf_full \cup {z} /\ now_writing' = z
      /\ content' = [content EXCEPT ![z] = chunk]
      /\ UNCHANGED <<buffers, _num_buf, now_playing, chunk, sent, astray>>
    BY DEF Store, z
<1> QED
    BY <1>1, <1>2 DEF AudioTypeOK

\* As many bits as there are may be set, in whatever session.
LEMMA BitsSet ==
    ASSUME AudioTypeOK
    PROVE  IsFiniteSet(buf_full) /\ Waits \in 0 .. Bits
<1> DEFINE all == 0 .. Bits - 1
<1>1. Bits \in Nat /\ 0 \in Int /\ Bits - 1 \in Int
    BY AudioFacts
<1>2. IsFiniteSet(all) /\ Cardinality(all) = IF 0 > Bits - 1 THEN 0 ELSE (Bits - 1) - 0 + 1
    BY <1>1, FS_Interval
<1>3. Cardinality(all) = Bits
    BY <1>1, <1>2
<1> HIDE DEF all
<1>4. buf_full \subseteq all
    BY DEF AudioTypeOK, all
<1>5. IsFiniteSet(buf_full) /\ Cardinality(buf_full) <= Bits
    BY <1>2, <1>3, <1>4, FS_Subset
<1>6. Cardinality(buf_full) \in Nat
    BY <1>5, FS_CardinalityType
<1> QED
    BY <1>1, <1>5, <1>6 DEF Waits

LEMMA StepFill ==
    ASSUME AudioTypeOK, Ring, buffers = "ready", astray = FALSE, Fill,
           Phase' = Phase, Astray' = Astray
    PROVE  Ring' /\ Queue!HandOver
<1>1. PICK n \in 2 .. Bits : \E p \in 0 .. n - 1, w \in 0 .. n :
               /\ _num_buf = n /\ now_playing = p /\ Waits = w
               /\ IsFiniteSet(buf_full) /\ buf_full = {(p + j) % n : j \in 1 .. w}
               /\ now_writing = (p + w) % n
               /\ Waiting = [i \in 1 .. w |-> content[(p + i) % n]]
               /\ Waiting \in Seq(Sounds) /\ Len(Waiting) = w
    BY RingFacts
<1>2. PICK p \in 0 .. n - 1, w \in 0 .. n :
               /\ _num_buf = n /\ now_playing = p /\ Waits = w
               /\ IsFiniteSet(buf_full) /\ buf_full = {(p + j) % n : j \in 1 .. w}
               /\ now_writing = (p + w) % n
               /\ Waiting = [i \in 1 .. w |-> content[(p + i) % n]]
               /\ Waiting \in Seq(Sounds) /\ Len(Waiting) = w
    BY <1>1
<1>3. /\ n \in Nat \ {0} /\ n >= 2 /\ n <= Bits /\ Bits \in Nat
      /\ p \in 0 .. n - 1 /\ w \in 0 .. n
    BY <1>1, <1>2, AudioFacts
<1> DEFINE q == (p + 1) % n
<1>4. /\ q \in buf_full /\ buf_full' = buf_full \ {q} /\ now_playing' = q
      /\ sent' = [chunk |-> content[q], turn |-> ~sent.turn]
      /\ UNCHANGED <<buffers, _num_buf, now_writing, content, chunk, astray>>
    BY <1>2 DEF Fill, MayFill, Ready, After, Sound
<1>5. w \in 1 .. n
    BY <1>2, <1>4
<1>6. Cardinality(buf_full') = w - 1 /\ IsFiniteSet(buf_full')
    BY <1>2, <1>4, FS_RemoveElement DEF Waits
<1>7. q \in 0 .. n - 1 /\ 1 \in 1 .. n
    <2>1. 1 \in 0 .. n
        BY <1>3
    <2> QED
        BY <1>3, <2>1, Turn
<1>8. ASSUME NEW i \in 0 .. n - 1 PROVE (q + i) % n = (p + (i + 1)) % n
    BY <1>3, Further
<1>9. buf_full' = {(q + j) % n : j \in 1 .. w - 1}
    <2>1. {(p + j) % n : j \in 1 .. w} \ {q} = {(q + j) % n : j \in 1 .. w - 1}
        BY <1>3, <1>5, TakeFirst
    <2> QED
        BY <1>2, <1>4, <2>1
<1> HIDE DEF q
<1>10. now_writing' = (q + (w - 1)) % n
    <2>1. w - 1 \in 0 .. n - 1 /\ (w - 1) + 1 = w
        BY <1>3, <1>5
    <2> QED
        BY <1>2, <1>4, <1>8, <2>1
<1>11. Ring'
    <2>1. w - 1 \in Nat /\ w - 1 <= n
        BY <1>3, <1>5
    <2> QED
        BY <1>2, <1>4, <1>6, <1>7, <1>9, <1>10, <2>1 DEF Ring, Waits
<1>12. Left' = Left
    BY <1>4 DEF Left
<1>13. Waiting' = Tail(Waiting) /\ Waiting # <<>> /\ Head(Waiting) = content[q]
    <2>1. Waiting' = [i \in 1 .. w - 1 |-> content[(q + i) % n]]
        BY <1>2, <1>4, <1>6 DEF Waiting
    <2>2. \A i \in 1 .. w - 1 : content[(q + i) % n] = content[(p + (i + 1)) % n]
        BY <1>3, <1>5, <1>8
    <2> DEFINE s == Waiting
    <2>3. s \in Seq(Sounds) /\ Len(s) = w /\ \A i \in 1 .. w : s[i] = content[(p + i) % n]
        BY <1>2
    <2> HIDE DEF s
    <2>4. s # <<>> /\ Head(s) = s[1] /\ Tail(s) = [i \in 1 .. w - 1 |-> s[i + 1]]
        <3>1. Len(s) > 0
            BY <1>3, <1>5, <2>3
        <3>2. s # <<>> /\ Head(s) = s[1]
            BY <2>3, <3>1
        <3>3. /\ Tail(s) \in Seq(Sounds) /\ Len(Tail(s)) = Len(s) - 1
              /\ \A i \in 1 .. Len(s) - 1 : Tail(s)[i] = s[i + 1]
            BY <2>3, <3>2
        <3> DEFINE t == Tail(s)
        <3> HIDE DEF t
        <3>4. t = [i \in 1 .. w - 1 |-> s[i + 1]]
            <4>1. t \in Seq(Sounds) /\ Len(t) = w - 1 /\ \A i \in 1 .. w - 1 : t[i] = s[i + 1]
                BY <2>3, <3>3 DEF t
            <4>2. t = [i \in 1 .. Len(t) |-> t[i]]
                BY <4>1
            <4> QED
                BY <4>1, <4>2
        <3> QED
            BY <3>2, <3>4 DEF t
    <2>5. \A i \in 1 .. w - 1 : i + 1 \in 1 .. w
        BY <1>5
    <2>6. \A i \in 1 .. w - 1 : s[i + 1] = content[(q + i) % n]
        BY <2>2, <2>3, <2>5
    <2>7. Waiting' = Tail(s)
        BY <2>1, <2>4, <2>6
    <2>8. s[1] = content[q]
        BY <1>5, <2>3 DEF q
    <2> QED
        BY <2>4, <2>7, <2>8 DEF s
<1> QED
    BY <1>4, <1>11, <1>12, <1>13 DEF Queue!HandOver

LEMMA StepStore ==
    ASSUME AudioTypeOK, Ring, buffers = "ready", astray = FALSE, Store,
           Phase' = Phase, Phase = "open", Astray' = Astray, Astray = FALSE
    PROVE  Ring' /\ Queue!Write
<1>1. PICK n \in 2 .. Bits : \E p \in 0 .. n - 1, w \in 0 .. n :
               /\ _num_buf = n /\ now_playing = p /\ Waits = w
               /\ IsFiniteSet(buf_full) /\ buf_full = {(p + j) % n : j \in 1 .. w}
               /\ now_writing = (p + w) % n
               /\ Waiting = [i \in 1 .. w |-> content[(p + i) % n]]
               /\ Waiting \in Seq(Sounds) /\ Len(Waiting) = w
    BY RingFacts
<1>2. PICK p \in 0 .. n - 1, w \in 0 .. n :
               /\ _num_buf = n /\ now_playing = p /\ Waits = w
               /\ IsFiniteSet(buf_full) /\ buf_full = {(p + j) % n : j \in 1 .. w}
               /\ now_writing = (p + w) % n
               /\ Waiting = [i \in 1 .. w |-> content[(p + i) % n]]
               /\ Waiting \in Seq(Sounds) /\ Len(Waiting) = w
    BY <1>1
<1>3. /\ n \in Nat \ {0} /\ n >= 2 /\ n <= Bits /\ Bits \in Nat
      /\ p \in 0 .. n - 1 /\ w \in 0 .. n
    BY <1>1, <1>2, AudioFacts
<1> DEFINE z == (((p + w) % n) + 1) % n
<1>4. /\ z \notin buf_full /\ buf_full' = buf_full \cup {z} /\ now_writing' = z
      /\ content' = [content EXCEPT ![z] = chunk]
      /\ UNCHANGED <<buffers, _num_buf, now_playing, chunk, sent, astray>>
    BY <1>2 DEF Store, After
<1>5. w \in 0 .. n - 1
    <2>1. CASE w = n
        <3>1. (p + w) % n = p
            BY <1>3, <2>1, Slots
        <3>2. z = (p + 1) % n
            BY <3>1
        <3>3. 1 \in 1 .. w
            BY <1>3, <2>1
        <3> QED
            BY <1>2, <1>4, <3>2, <3>3
    <2> QED
        BY <1>3, <2>1
<1>6. z = (p + (w + 1)) % n
    BY <1>3, <1>5, Further
<1> HIDE DEF z
<1>7. z \in 0 .. n - 1 /\ z \in 0 .. Bits - 1
    <2>1. w + 1 \in 0 .. n
        BY <1>3, <1>5
    <2>2. z \in 0 .. n - 1
        BY <1>3, <1>6, <2>1, Turn
    <2> QED
        BY <1>3, <2>2
<1>8. Cardinality(buf_full') = w + 1 /\ IsFiniteSet(buf_full')
    BY <1>2, <1>4, FS_AddElement DEF Waits
<1>9. buf_full' = {(p + j) % n : j \in 1 .. w + 1}
    <2>1. {(p + j) % n : j \in 1 .. w} \cup {(p + (w + 1)) % n} = {(p + j) % n : j \in 1 .. w + 1}
        BY <1>3, <1>5, PutLast
    <2> QED
        BY <1>2, <1>4, <1>6, <2>1
<1>10. Ring'
    <2>1. w + 1 \in Nat /\ w + 1 <= n
        BY <1>3, <1>5
    <2> QED
        BY <1>2, <1>4, <1>6, <1>8, <1>9, <2>1 DEF Ring, Waits
<1>11. chunk \in Sounds /\ Left' = Left
    BY <1>4 DEF AudioTypeOK, Left
<1>12. Waiting' = Append(Waiting, chunk)
    <2>1. Waiting' = [i \in 1 .. w + 1 |-> content'[(p + i) % n]]
        BY <1>2, <1>4, <1>8 DEF Waiting
    <2>2. content'[z] = chunk
        BY <1>4, <1>7 DEF AudioTypeOK
    <2>3. ASSUME NEW i \in 1 .. w PROVE content'[(p + i) % n] = content[(p + i) % n]
        <3>1. (p + i) % n # z
            BY <1>2, <1>4
        <3> QED
            BY <1>4, <3>1 DEF AudioTypeOK
    <2> DEFINE s == Waiting
    <2>4. s \in Seq(Sounds) /\ Len(s) = w /\ \A i \in 1 .. w : s[i] = content[(p + i) % n]
        BY <1>2
    <2> HIDE DEF s
    <2> DEFINE r == Append(s, chunk)
    <2>5. /\ r \in Seq(Sounds) /\ Len(r) = w + 1 /\ r[w + 1] = chunk
          /\ \A i \in 1 .. w : r[i] = s[i]
        BY <1>11, <2>4
    <2> HIDE DEF r
    <2>6. r = [i \in 1 .. w + 1 |-> r[i]]
        BY <2>5
    <2>7. ASSUME NEW i \in 1 .. w + 1 PROVE r[i] = content'[(p + i) % n]
        <3>1. CASE i \in 1 .. w
            BY <2>3, <2>4, <2>5, <3>1
        <3>2. CASE i = w + 1
            BY <1>6, <2>2, <2>5, <3>2
        <3> QED
            BY <1>5, <3>1, <3>2
    <2>8. Waiting' = r
        BY <2>1, <2>6, <2>7
    <2> QED
        BY <2>8 DEF r, s
<1>13. Len(Waiting) < Bits
    BY <1>2, <1>3, <1>5
<1> QED
    BY <1>4, <1>10, <1>11, <1>12, <1>13 DEF Queue!Write

\* What a step of the queue, or none, is.
QueueStep == Queue!Next

LEMMA Still ==
    ASSUME UNCHANGED <<buffers, buf_full, now_playing, _num_buf, content, sent, astray>>
    PROVE  (UNCHANGED Queue!qvars) /\ (Ring /\ UNCHANGED now_writing => Ring')
<1>1. Waiting' = Waiting /\ Waits' = Waits /\ Left' = Left /\ Phase' = Phase
    BY DEF Waiting, Waits, Left, Phase
<1>2. Astray' = Astray
    BY DEF Astray
<1> QED
    BY <1>1, <1>2 DEF Queue!qvars, Ring

LEMMA NumberInRange == \A asked \in Asked : Number(asked) \in 2 .. Bits
<1> SUFFICES ASSUME NEW asked \in Asked PROVE Number(asked) \in 2 .. Bits
    OBVIOUS
<1>1. asked \in Nat
    BY AudioFacts
<1> QED
    BY <1>1, AudioFacts DEF Number

LEMMA StepAudio ==
    ASSUME AudioInv, AudioNext PROVE AudioInv' /\ [QueueStep]_(Queue!qvars)
<1> USE DEF AudioInv
<1>1. CASE OpenAudio
    <2>1. /\ pc = "idle" /\ pc' = "array" /\ buffers = "NULL"
          /\ UNCHANGED <<_num_buf, now_playing, now_writing, buf_full, content, buffers, chunk,
                         sent, astray>>
        BY <1>1 DEF OpenAudio, Goto, ring
    <2>2. AudioTypeOK' /\ AudioControl' /\ Ring'
        BY <2>1 DEF AudioTypeOK, AudioControl, Ring
    <2> QED
        BY <2>1, <2>2, Still
<1>2. CASE AllocateAudio
    <2>1. /\ pc = "array" /\ pc' = "setup" /\ buffers = "NULL" /\ buffers' = "garbage"
          /\ _num_buf' \in 2 .. Bits
          /\ UNCHANGED <<now_playing, now_writing, buf_full, content, chunk, sent, astray>>
        BY <1>2, NumberInRange DEF AllocateAudio, Goto, AudioControl
    <2>2. AudioTypeOK' /\ AudioControl' /\ Ring'
        BY <2>1 DEF AudioTypeOK, AudioControl, Ring
    <2>3. Phase = "closed" /\ Phase' = "opening" /\ Astray' = astray' /\ Astray = astray
        BY <2>1 DEF Phase, Astray
    <2>4. UNCHANGED <<Waiting, Left, sent>> /\ Astray' = Astray
        BY <2>1, <2>3 DEF Waiting, Left
    <2>5. Queue!Open
        BY <2>3, <2>4 DEF Queue!Open
    <2> QED
        BY <2>2, <2>5 DEF QueueStep, Queue!Next
<1>3. CASE SetUpAudio
    <2>1. /\ pc = "setup" /\ pc' = "reset" /\ buffers' = "silent" /\ now_playing' = 0
          /\ content' = [b \in DOMAIN content |-> Silence]
          /\ UNCHANGED <<_num_buf, now_writing, buf_full, chunk, sent, astray>>
        BY <1>3 DEF SetUpAudio, Goto
    <2>2. buffers = "garbage" /\ astray = FALSE
        BY <2>1 DEF AudioControl
    <2>3. 0 \in 0 .. Bits - 1
        BY AudioFacts
    <2>4. AudioTypeOK' /\ AudioControl' /\ Ring'
        BY <2>1, <2>2, <2>3, AudioFacts DEF AudioTypeOK, AudioControl, Ring
    <2>5. Phase' = Phase /\ Astray = FALSE
        BY <2>1, <2>2 DEF Phase, Astray
    <2>6. Astray' = FALSE
        BY <2>1 DEF Astray
    <2>7. UNCHANGED <<Waiting, Left, sent>> /\ Astray' = Astray
        BY <2>1, <2>2, <2>5, <2>6 DEF Waiting, Left
    <2> QED
        BY <2>4, <2>5, <2>7 DEF Queue!qvars
<1>4. CASE ResetAudio
    <2>1. /\ pc = "reset" /\ pc' = "idle" /\ buffers' = "ready"
          /\ now_writing' = 0 /\ buf_full' = {} /\ astray' = (now_playing # 0)
          /\ UNCHANGED <<_num_buf, now_playing, content, chunk, sent>>
        BY <1>4 DEF ResetAudio, Goto
    <2>2. buffers = "silent" /\ 0 \in 0 .. Bits - 1
        BY <2>1, AudioFacts DEF AudioControl
    <2>3. astray' \in BOOLEAN
        BY <2>1
    <2>4. AudioTypeOK' /\ AudioControl'
        BY <2>1, <2>2, <2>3 DEF AudioTypeOK, AudioControl
    <2>5. Waits' = 0 /\ IsFiniteSet(buf_full') /\ Waiting' = <<>> /\ Waiting = <<>> /\ Left' = 0
        <3>1. Cardinality(buf_full') = 0 /\ IsFiniteSet(buf_full')
            BY <2>1, FS_EmptySet
        <3> QED
            BY <3>1, <2>1, <2>2 DEF Waits, Waiting, Left
    <2>6. Ring'
        <3>1. CASE now_playing = 0
            <4>1. PICK n \in 2 .. Bits : _num_buf' = n
                BY <2>1 DEF AudioTypeOK
            <4>2. n \in Nat \ {0} /\ 0 <= n /\ 0 \in 0 .. n - 1
                BY <4>1, AudioFacts
            <4>3. (0 + 0) % n = 0
                BY <4>2, Slots
            <4>4. {(0 + j) % n : j \in 1 .. 0} = {}
                OBVIOUS
            <4> QED
                BY <2>1, <2>5, <3>1, <4>1, <4>2, <4>3, <4>4 DEF Ring
        <3>2. CASE now_playing # 0
            <4>1. astray' = TRUE
                BY <2>1, <3>2
            <4> QED
                BY <4>1 DEF Ring
        <3> QED
            BY <3>1, <3>2
    <2>7. Phase = "opening" /\ Phase' = "open" /\ Astray' = astray'
        BY <2>1, <2>2 DEF Phase, Astray
    <2>8. Astray = (now_playing # 0)
        BY <2>2 DEF Astray
    <2>9. Queue!Ready
        BY <2>1, <2>5, <2>7, <2>8 DEF Queue!Ready
    <2> QED
        BY <2>4, <2>6, <2>9 DEF QueueStep, Queue!Next
<1>5. CASE CloseAudio
    <2>1. /\ pc = "idle" /\ pc' = "idle" /\ buffers' = "NULL" /\ astray' = FALSE
          /\ UNCHANGED <<_num_buf, now_playing, now_writing, buf_full, content, chunk, sent>>
        BY <1>5 DEF CloseAudio, ring
    <2>2. AudioTypeOK' /\ AudioControl' /\ Ring'
        BY <2>1 DEF AudioTypeOK, AudioControl, Ring
    <2>3. Waiting' = <<>> /\ Left' = Waits /\ Phase' = "closed" /\ Astray = astray /\ Astray' = astray'
        BY <2>1 DEF Waiting, Left, Waits, Phase, Astray, AudioControl
    <2>4. CASE buffers = "ready"
        <3>1. Waits \in 0 .. Bits
            BY BitsSet
        <3>2. astray = TRUE \/ Left' = Len(Waiting)
            <4>1. CASE astray = FALSE
                BY <2>3, <2>4, <4>1, RingFacts
            <4>2. CASE astray = TRUE
                BY <4>2
            <4> QED
                BY <4>1, <4>2 DEF AudioTypeOK
        <3>3. Phase = "open"
            BY <2>4 DEF Phase
        <3>4. Queue!Close
            BY <2>1, <2>3, <3>1, <3>2, <3>3 DEF Queue!Close
        <3> QED
            BY <2>2, <3>4 DEF QueueStep, Queue!Next
    <2>5. CASE buffers # "ready"
        <3>1. Waiting = <<>> /\ Left = Waits /\ buffers = "NULL" /\ astray = FALSE
            BY <2>1, <2>5 DEF Waiting, Left, Waits, AudioControl
        <3>2. Phase = "closed"
            BY <3>1 DEF Phase
        <3> QED
            BY <2>1, <2>2, <2>3, <3>1, <3>2 DEF Queue!qvars
    <2> QED
        BY <2>4, <2>5
<1>6. CASE BeginWrite
    <2>1. /\ pc = "idle" /\ pc' = "wait" /\ buffers # "NULL" /\ chunk' \in Sounds
          /\ UNCHANGED <<_num_buf, now_playing, now_writing, buf_full, content, buffers,
                         sent, astray>>
        BY <1>6 DEF BeginWrite, Goto, ring
    <2>2. AudioTypeOK' /\ AudioControl'
        BY <2>1 DEF AudioTypeOK, AudioControl
    <2> QED
        BY <2>1, <2>2, Still
<1>7. CASE WriteFills \/ HandlerFills
    <2>1. /\ Fill /\ pc' = pc
          /\ pc \in {"wait", "written", "idle+", "array+", "wait+", "setup+", "reset+"}
        BY <1>7 DEF WriteFills, HandlerFills, Interrupted, Over
    <2>2. /\ buffers # "NULL"
          /\ sent' = [chunk |-> Sound(now_playing'), turn |-> ~sent.turn]
          /\ UNCHANGED <<buffers, _num_buf, now_writing, content, chunk, astray>>
        BY <2>1 DEF Fill, MayFill, Exists
    <2>3. AudioTypeOK' /\ AudioControl'
        <3>1. AudioTypeOK'
            BY <2>1, FillTypes
        <3> QED
            BY <2>1, <2>2, <3>1 DEF AudioControl
    <2>4. Phase' = Phase
        BY <2>2 DEF Phase
    <2>5. CASE buffers = "ready"
        <3>1. Astray' = astray' /\ Astray = astray
            BY <2>2, <2>5 DEF Astray
        <3>2. Astray' = Astray
            BY <2>2, <3>1
        <3>3. CASE astray = FALSE
            <4>1. Ring' /\ Queue!HandOver
                BY <2>1, <2>4, <2>5, <3>2, <3>3, StepFill
            <4> QED
                BY <2>3, <4>1 DEF QueueStep, Queue!Next
        <3>4. CASE astray = TRUE
            <4>1. Ring' /\ Waiting' = Waiting /\ Left' = Left /\ Phase = "open"
                BY <2>2, <2>5, <3>4 DEF Ring, Waiting, Left, Phase
            <4>2. Queue!Anyhow
                BY <2>4, <3>1, <3>2, <3>4, <4>1 DEF Queue!Anyhow
            <4> QED
                BY <2>3, <4>1, <4>2 DEF QueueStep, Queue!Next
        <3> QED
            BY <3>3, <3>4 DEF AudioTypeOK
    <2>6. CASE buffers # "ready"
        <3>1. buffers \in {"garbage", "silent"}
            BY <2>2, <2>6 DEF AudioTypeOK
        <3>2. Waits' = Waits - 1 /\ Waits > 0
            <4>1. IsFiniteSet(buf_full) /\ Waits \in 0 .. Bits
                BY BitsSet
            <4>2. After(now_playing) \in buf_full /\ buf_full' = buf_full \ {After(now_playing)}
                BY <2>1 DEF Fill, MayFill, Ready
            <4>3. Cardinality(buf_full') = Cardinality(buf_full) - 1
                BY <4>1, <4>2, FS_RemoveElement
            <4>4. Cardinality(buf_full') \in Nat
                <5>1. IsFiniteSet(buf_full')
                    BY <4>1, <4>2, FS_RemoveElement
                <5> QED
                    BY <5>1, FS_CardinalityType
            <4> QED
                BY <4>1, <4>3, <4>4 DEF Waits
        <3>3. Left' = Waits' /\ Left = Waits /\ Waiting' = Waiting /\ Ring'
            BY <2>2, <3>1 DEF Left, Waits, Waiting, Ring
        <3>4. Phase = "opening" /\ sent' = [chunk |-> Noise, turn |-> ~sent.turn]
            BY <2>2, <3>1 DEF Phase, Sound
        <3>5. Astray' \in BOOLEAN
            <4>1. CASE buffers = "silent"
                <5>1. Astray' = (now_playing' # 0)
                    BY <2>2, <4>1 DEF Astray
                <5> QED
                    BY <5>1
            <4>2. CASE buffers = "garbage"
                <5>1. Astray' = astray'
                    BY <2>2, <4>2 DEF Astray
                <5> QED
                    BY <2>3, <5>1 DEF AudioTypeOK
            <4> QED
                BY <3>1, <4>1, <4>2
        <3>6. Queue!Stray
            BY <2>4, <3>2, <3>3, <3>4, <3>5 DEF Queue!Stray
        <3> QED
            BY <2>3, <3>3, <3>6 DEF QueueStep, Queue!Next
    <2> QED
        BY <2>5, <2>6
<1>8. CASE LetInterruptsIn \/ KeepThemOut
    <2>1. /\ pc' = pc
          /\ UNCHANGED <<_num_buf, now_playing, now_writing, buf_full, content, buffers, chunk,
                         sent, astray>>
        BY <1>8 DEF LetInterruptsIn, KeepThemOut, audio
    <2>2. AudioTypeOK' /\ AudioControl'
        BY <2>1 DEF AudioTypeOK, AudioControl
    <2> QED
        BY <2>1, <2>2, Still
<1>9. CASE Store
    <2>1. pc = "wait" /\ pc' = "written" /\ UNCHANGED <<buffers, sent, astray>>
        BY <1>9 DEF Store, Goto
    <2>2. buffers = "ready"
        BY <2>1 DEF AudioControl
    <2>3. AudioTypeOK' /\ AudioControl'
        <3>1. AudioTypeOK'
            BY <1>9, StoreTypes
        <3> QED
            BY <2>1, <2>2, <3>1 DEF AudioControl
    <2>4. Phase = "open" /\ Phase' = Phase /\ Astray = astray /\ Astray' = astray'
        BY <2>1, <2>2 DEF Phase, Astray
    <2>5. Astray' = Astray
        BY <2>1, <2>4
    <2>6. CASE astray = FALSE
        <3>1. Ring' /\ Queue!Write
            BY <1>9, <2>2, <2>4, <2>5, <2>6, StepStore
        <3> QED
            BY <2>3, <3>1 DEF QueueStep, Queue!Next
    <2>7. CASE astray = TRUE
        <3>1. Ring' /\ Waiting' = Waiting /\ Left' = Left
            BY <2>1, <2>2, <2>7 DEF Ring, Waiting, Left
        <3> QED
            BY <2>1, <2>3, <2>4, <2>5, <3>1 DEF Queue!qvars
    <2> QED
        BY <2>6, <2>7 DEF AudioTypeOK
<1>10. CASE EndWrite
    <2>1. /\ pc = "written" /\ pc' = "idle"
          /\ UNCHANGED <<_num_buf, now_playing, now_writing, buf_full, content, buffers, chunk,
                         sent, astray>>
        BY <1>10 DEF EndWrite, Goto, audio
    <2>2. AudioTypeOK' /\ AudioControl'
        BY <2>1 DEF AudioTypeOK, AudioControl
    <2> QED
        BY <2>1, <2>2, Still
<1>11. CASE AI_handler
    <2>1. /\ pc \in DOMAIN Over /\ pc' = Over[pc]
          /\ UNCHANGED <<_num_buf, now_playing, now_writing, buf_full, content, buffers, chunk,
                         sent, astray>>
        BY <1>11 DEF AI_handler, ring
    <2>2. \/ pc = "idle" /\ pc' = "idle+"
          \/ pc = "array" /\ pc' = "array+"
          \/ pc = "setup" /\ pc' = "setup+"
          \/ pc = "reset" /\ pc' = "reset+"
          \/ pc = "wait" /\ pc' = "wait+"
        BY <2>1 DEF Over
    <2>3. AudioTypeOK' /\ AudioControl'
        BY <2>1, <2>2 DEF AudioTypeOK, AudioControl
    <2> QED
        BY <2>1, <2>3, Still
<1>12. CASE HandlerReturns
    <2>1. /\ \E p \in DOMAIN Over : pc = Over[p] /\ pc' = p
          /\ UNCHANGED <<_num_buf, now_playing, now_writing, buf_full, content, buffers, chunk,
                         sent, astray>>
        BY <1>12 DEF HandlerReturns, audio
    <2>2. \/ pc = "idle+" /\ pc' = "idle"
          \/ pc = "array+" /\ pc' = "array"
          \/ pc = "setup+" /\ pc' = "setup"
          \/ pc = "reset+" /\ pc' = "reset"
          \/ pc = "wait+" /\ pc' = "wait"
        BY <2>1 DEF Over
    <2>3. AudioTypeOK' /\ AudioControl'
        BY <2>1, <2>2 DEF AudioTypeOK, AudioControl
    <2> QED
        BY <2>1, <2>3, Still
<1>13. CASE Played
    <2>1. /\ pc' = pc
          /\ UNCHANGED <<_num_buf, now_playing, now_writing, buf_full, content, buffers, chunk,
                         sent, astray>>
        BY <1>13 DEF Played, ring
    <2>2. AudioTypeOK' /\ AudioControl'
        BY <2>1 DEF AudioTypeOK, AudioControl
    <2> QED
        BY <2>1, <2>2, Still
<1> QED
    BY <1>1, <1>2, <1>3, <1>4, <1>5, <1>6, <1>7, <1>8, <1>9, <1>10, <1>11, <1>12, <1>13
    DEF AudioNext, AudioThread, AudioHandler

-----------------------------------------------------------------------------
(* The theorems. *)

LEMMA InitInv == Init => Inv
<1> SUFFICES ASSUME Init PROVE Inv
    OBVIOUS
<1>1. part \in {"audio", "timers", "usb"} /\ pc = "idle" /\ ie = TRUE
    BY DEF Init
<1>2. UsbInv /\ call = Other
    <2>1. fifo = <<>> /\ fpga = Nop /\ call = Other /\ data = <<>> /\ arrived = 0 /\ moved = <<>>
        BY DEF Init, UsbInit
    <2>2. <<>> \in Seq(Seq(Nat) \cup Nat) /\ <<>> \in Seq(Nat) /\ <<>> \in Seq(Units) /\ 0 \in Nat
        OBVIOUS
    <2>3. UsbTypeOK
        BY <2>1, <2>2, UnitFacts DEF UsbTypeOK
    <2>4. UsbControl
        BY <1>1, <2>1, UnitFacts DEF UsbControl
    <2>5. UsbBlocks /\ UsbSent
        BY <1>1, <2>1, UnitFacts DEF UsbBlocks, UsbSent
    <2> QED
        BY <2>1, <2>3, <2>4, <2>5 DEF UsbInv
<1>3. AudioInv
    <2>1. /\ buffers = "NULL" /\ _num_buf = NUM_BUFFERS /\ content = [b \in 0 .. Bits - 1 |-> Silence]
          /\ now_playing = 0 /\ now_writing = 0 /\ buf_full = {} /\ chunk = Silence
          /\ astray = FALSE
          /\ sent = [chunk |-> CHOOSE c \in Sounds : TRUE, turn |-> FALSE]
        BY DEF Init, AudioInit
    <2>2. (CHOOSE c \in Sounds : TRUE) \in Sounds
        BY AudioFacts
    <2>3. 0 \in 0 .. Bits - 1 /\ content \in [0 .. Bits - 1 -> Sounds]
        BY <2>1, AudioFacts
    <2>4. sent \in [chunk : Sounds \cup {Noise}, turn : BOOLEAN]
        BY <2>1, <2>2
    <2>5. AudioTypeOK
        BY <2>1, <2>3, <2>4, AudioFacts DEF AudioTypeOK
    <2>6. AudioControl /\ Ring
        BY <1>1, <2>1 DEF AudioControl, Ring
    <2> QED
        BY <2>5, <2>6 DEF AudioInv
<1>4. TimersInv /\ TI_timers = {}
    <2>1. /\ TI_timers = {} /\ timers = <<>> /\ allocated = {} /\ owed = <<>>
          /\ count = 0 /\ compare = Far /\ installed = FALSE /\ start = 0 /\ spent = 0
        BY DEF Init, TimersInit
    <2>2. \A S : <<>> \in [{} -> S]
        OBVIOUS
    <2>3. TimersTypeOK
        BY <2>1, <2>2, TimersFacts DEF TimersTypeOK
    <2>4. Counter
        BY <1>1, <2>1, TimersFacts DEF Counter, Inside
    <2>5. Alarm /\ Owing
        BY <1>1, <2>1, FS_EmptySet DEF Alarm, Owing
    <2> QED
        BY <2>1, <2>3, <2>4, <2>5 DEF TimersInv
<1> QED
    BY <1>1, <1>2, <1>3, <1>4 DEF Inv, TimersInv

LEMMA StepInv == Inv /\ [Next]_vars => Inv'
<1> SUFFICES ASSUME Inv, [Next]_vars PROVE Inv'
    OBVIOUS
<1>1. CASE part = "audio" /\ AudioNext /\ UNCHANGED <<part, timersVars, usb>>
    <2>1. AudioInv'
        BY <1>1, StepAudio DEF Inv
    <2>2. call' = call /\ call = Other
        BY <1>1 DEF Inv, usb
    <2>3. TimersTypeOK' /\ TI_timers' = {}
        BY <1>1 DEF Inv, timersVars, time, TimersTypeOK
    <2>4. part' = "audio"
        BY <1>1
    <2> QED
        BY <2>1, <2>2, <2>3, <2>4 DEF Inv
<1>2. CASE part = "timers" /\ TimersNext /\ UNCHANGED <<part, audio, usb>>
    <2>1. TimersInv'
        BY <1>2, StepTimers DEF Inv
    <2>2. call' = call /\ call = Other
        BY <1>2 DEF Inv, usb
    <2>3. part' = "timers"
        BY <1>2
    <2> QED
        BY <2>1, <2>2, <2>3 DEF Inv
<1>3. CASE part = "usb" /\ UsbNext /\ UNCHANGED <<part, audio, timersVars>>
    <2>1. UsbInv'
        BY <1>3, StepUsb DEF Inv
    <2>2. TimersTypeOK' /\ TI_timers' = {}
        BY <1>3 DEF Inv, timersVars, time, TimersTypeOK
    <2>3. part' = "usb"
        BY <1>3
    <2> QED
        BY <2>1, <2>2, <2>3 DEF Inv
<1>4. CASE UNCHANGED vars
    <2>1. UNCHANGED <<part, pc, ie, audio, timersVars, usb>>
        BY <1>4 DEF vars
    <2>2. UsbInv => UsbInv'
        BY <2>1 DEF usb, UsbInv, UsbTypeOK, UsbControl, UsbBlocks, UsbSent, Coming, More
    <2>3. AudioInv => AudioInv'
        BY <2>1 DEF audio, AudioInv, AudioTypeOK, AudioControl, Ring, Waits
    <2>4. (TimersTypeOK => TimersTypeOK') /\ call' = call /\ TI_timers' = TI_timers /\ part' = part
        BY <2>1 DEF timersVars, time, TimersTypeOK, usb
    <2>5. TimersInv => TimersInv'
        BY <2>1, <2>4 DEF timersVars, time, TimersInv, Counter, Alarm, Owing, Since, smallest
    <2> QED
        BY <2>2, <2>3, <2>4, <2>5 DEF Inv
<1> QED
    BY <1>1, <1>2, <1>3, <1>4 DEF Next

LEMMA Invariant == Spec => []Inv
BY InitInv, StepInv, PTL DEF Spec

\* The listener's blocks, whatever the host sends and when: usb.c:70-167 and
\* bios.c's bi_usb_rd and bi_usb_wr, with a read that an earlier command left
\* in progress.
THEOREM BlocksMoved == Spec => []BlocksInOrder
<1>1. Inv => BlocksInOrder
    <2> SUFFICES ASSUME Inv PROVE BlocksInOrder
        OBVIOUS
    <2>1. CASE part # "usb"
        BY <2>1, UnitFacts DEF Inv, BlocksInOrder
    <2>2. CASE part = "usb"
        <3>1. UsbInv
            BY <2>2 DEF Inv
        <3>2. DOMAIN moved = 1 .. Len(moved)
            BY <3>1 DEF UsbInv, UsbTypeOK
        <3>3. call.cmd \in {"w", "W", "f"} /\ pc # "send" =>
                  \A i \in DOMAIN moved : moved[i] = RomBlock(i - 1)
            BY <3>1, <3>2 DEF UsbInv, UsbBlocks
        <3>4. call.cmd = "R" => \A i \in DOMAIN moved : moved[i] = i
            <4>1. CASE pc = "send"
                BY <3>1, <3>2, <4>1 DEF UsbInv, UsbSent
            <4>2. CASE pc # "send"
                <5>1. call.cmd # "R"
                    BY <3>1, <4>2, UnitFacts DEF UsbInv, UsbControl
                <5> QED
                    BY <5>1
            <4> QED
                BY <4>1, <4>2
        <3> QED
            BY <3>3, <3>4 DEF BlocksInOrder
    <2> QED
        BY <2>1, <2>2
<1> QED
    BY <1>1, Invariant, PTL

\* With timers in the list the next interrupt is on its way, and not after the
\* first of them is due: what __proc_timers and start_timer leave in the count
\* and compare registers (timer.c), for any finite number of timers whose
\* intervals are at least a tick, shorter than the margin or the latency or not.
THEOREM AlarmSet == Spec => []AlwaysArmed
<1>1. Inv => AlwaysArmed
    <2> SUFFICES ASSUME Inv PROVE AlwaysArmed
        OBVIOUS
    <2>1. CASE part # "timers"
        BY <2>1 DEF Inv, AlwaysArmed
    <2>2. CASE part = "timers"
        BY <2>2 DEF Inv, TimersInv, Counter, Alarm, AlwaysArmed
    <2> QED
        BY <2>1, <2>2
<1> QED
    BY <1>1, Invariant, PTL

\* A timer fires before its time by less than the margin and what the count
\* register showed when it was added: __proc_timers' comparison with
\* the margin, and the left that start_timer sets without the count.
THEOREM EarlyOnlyByTheCounter == Spec => EarlyByTheCounter
<1>1. Inv /\ [Next]_vars =>
          [\A t \in Timer : Fires(t) => owed[t].ticks < Margin + owed[t].before]_<<pc, start>>
    <2> SUFFICES ASSUME Inv, NEW t \in Timer, Fires(t)
                 PROVE  owed[t].ticks < Margin + owed[t].before
        OBVIOUS
    <2>1. t \in TI_timers /\ timers[t].left - count < Margin /\ pc = "walk"
        BY DEF Fires, Fired, Expired
    <2>2. TimersInv
        BY <2>1 DEF Inv
    <2>3. /\ owed[t].ticks \in Int /\ owed[t].before \in Nat /\ timers[t].left \in Int
          /\ count \in Nat /\ Margin \in Nat \ {0}
        BY <2>1, <2>2, TimersFacts DEF TimersInv, TimersTypeOK
    <2>4. \/ owed[t].ticks <= 0
          \/ owed[t].ticks <= timers[t].left - count + owed[t].before
        BY <2>1, <2>2 DEF TimersInv, Owing, Since
    <2> QED
        BY <2>1, <2>3, <2>4
<1> QED
    BY <1>1, Invariant, PTL DEF Spec, EarlyByTheCounter

\* The ring of audio.c is a queue of as many chunks as buf_full has bits: each
\* chunk reaches the audio interface once, in the order written, with the
\* callback run by the interrupt, wherever it breaks in, and by audio_write.
\* Excepted is what AudioQueue excepts: an interrupt that finds buf_full as a
\* close with chunks waiting left it while audio_init is under way.
THEOREM ImplementsQueue == Spec => QueueSpec
<1>1. Init => Queue!Init
    <2> SUFFICES ASSUME Init PROVE Queue!Init
        OBVIOUS
    <2>1. /\ buffers = "NULL" /\ buf_full = {} /\ astray = FALSE
          /\ sent = [chunk |-> CHOOSE c \in Sounds : TRUE, turn |-> FALSE]
        BY DEF Init, AudioInit
    <2>2. Waiting = <<>> /\ Phase = "closed" /\ Astray = astray /\ Left = 0
        BY <2>1, FS_EmptySet DEF Waiting, Phase, Astray, Left
    <2> QED
        BY <2>1, <2>2 DEF Queue!Init
<1>2. Inv /\ [Next]_vars => [Queue!Next]_(Queue!qvars)
    <2> SUFFICES ASSUME Inv, [Next]_vars PROVE [QueueStep]_(Queue!qvars)
        BY DEF QueueStep
    <2>1. CASE part = "audio" /\ AudioNext
        BY <2>1, StepAudio DEF Inv
    <2>2. CASE UNCHANGED audio
        BY <2>2, Still DEF audio
    <2> QED
        BY <2>1, <2>2 DEF Next, vars
<1> QED
    BY <1>1, <1>2, Invariant, PTL DEF Spec, QueueSpec, Queue!Spec
=============================================================================
