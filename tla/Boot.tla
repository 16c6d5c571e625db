-------------------------------- MODULE Boot --------------------------------
(***************************************************************************)
(* The boot sequence of main.c: bring up the registers, load the main FPGA *)
(* unless the boot flags say it is loaded, test the hardware, find the     *)
(* card and the file, load the ROM space and start it; or show an error    *)
(* and obey a host on the USB port.  The user may press reset or cut the   *)
(* power between any two steps.                                            *)
(*                                                                         *)
(* Identification, mount, lookup and load appear with what they promise    *)
(* (SdInit, FatDir, FatFile, SdStream) and with every way they fail.  One  *)
(* action per access to a register that outlives a reset, per call of      *)
(* MainLoadOS, and per part of the ROM space loaded.                       *)
(*                                                                         *)
(* A definition named X_... is X with a bug the code does not have; runs   *)
(* use it to see that a property notices.                                  *)
(***************************************************************************)
EXTENDS Integers, FiniteSets

CONSTANTS
    RomUnits,       \* the ROM space, in units of 4 KB: 0 .. RomUnits - 1
    TestUnits,      \* 32: as many are written by the test of the SDRAM
    FillUnits,      \* 256: as many, from the second on, are zeroed
    Sizes,          \* the sizes of OS64.V64 there may be
    HardwareFails,  \* the tests of the hardware may fail
    MaxSends,       \* bound: blocks the host sends
    MaxRestarts     \* bound: resets and power cycles

ASSUME BootAssumption ==
    /\ RomUnits \in Nat
    /\ TestUnits \in 0 .. RomUnits
    /\ FillUnits \in Nat /\ FillUnits + 1 <= RomUnits
    /\ Sizes \subseteq 0 .. RomUnits
    /\ HardwareFails \in BOOLEAN
    /\ MaxSends \in Nat /\ MaxRestarts \in Nat

Units == 0 .. RomUnits - 1
Contents == {"old", "test", "zero", "os", "host"}
AllOld == [u \in Units |-> "old"]

\* BI_BCFG_..., and the bit the test of the FPGA uses.
Flags == {"BOOTMOD", "SD_INIT", "SD_TYPE", "CICLOCK", "TEST"}

VARIABLES
    boot_cfg,       \* REG_BOOT_CFG, which outlives a reset
    mcn,            \* the main FPGA: "none" or "loaded"
    locked,         \* its registers are locked (REG_KEY)
    rom,            \* the ROM space
    sending,        \* the card is in the middle of a multi-block read
    usb,            \* blocks from the host that have not been read
    size,           \* of OS64.V64
    pc,
    inits,          \* which bi_init of MainLoadOS this is
    biBootCfg,      \* the copy of REG_BOOT_CFG
    disk_mode,      \* "NOP" or "RD"
    mainSdrResp,
    mainFpgResp,
    at,             \* units loaded
    err,            \* the code shown
    why,            \* history: what went wrong
    by,             \* history: who starts what is in the ROM space
    doubt,          \* history: the card may be sending without disk_mode saying so
    uploaded,       \* history: the host has loaded an FPGA since the restart
    sent, restarts  \* for the bounds

fpga == <<mcn, locked, rom>>
card == <<sending, disk_mode, doubt>>
flags == <<boot_cfg, biBootCfg>>
tests == <<mainSdrResp, mainFpgResp>>
shown == <<err, why>>
host == <<usb, sent>>
vars == <<fpga, card, flags, tests, shown, host, size, pc, inits, at, by, uploaded, restarts>>

-----------------------------------------------------------------------------
(* Errors: where each can come from, and what it is. *)

IoCodes == {\hD2, \hD3}
CardCodes == \hC1 .. \hCA

Errors ==
    {[at |-> "configuring", code |-> \hB3, why |-> "fpga"],
     [at |-> "tested", code |-> \h55, why |-> "hardware"],
     [at |-> "mount", code |-> \hF8, why |-> "filesystem"],
     [at |-> "load", code |-> \hF3, why |-> "fat"]}
    \cup [at : {"identify"}, code : CardCodes, why : {"card"}]
    \cup [at : {"mount", "open", "load"}, code : IoCodes, why : {"io"}]
    \cup [at : {"open"}, code : {\hF0, \hF5, \hF7}, why : {"missing"}]
    \cup [at : {"open"}, code : {\hF3, \hF6, \hFA}, why : {"fat"}]

\* printError, its ranges in its order.
MissingCodes_NotF5 == {\hF0, \hF7}
MissingCodes == {\hF0, \hF7, \hF5}

Message(e) ==
    CASE e \in \hC0 .. \hCA -> "SD card not found"
      [] e \in \hD2 .. \hD8 -> "DISK IO error"
      [] e \in MissingCodes -> "File not found"
      [] e = \hF8 -> "Unknown file system"
      [] e \in (\hF1 .. \hFB) \ (MissingCodes \cup {\hF8}) -> "FAT error"
      [] e = \h55 -> "Hardware error"
      [] e \in {\hB3, \hB4} -> "FPGA configuration error"
      [] OTHER -> "Unexpected error"

\* main: an error ends MainLoadOS and is shown; then the listener runs.
ErrorsHere == {e \in Errors : e.at = pc}
ShowError(e) == err' = e.code /\ why' = e.why /\ pc' = "listen"

-----------------------------------------------------------------------------
(* bi_init *)

Goto(from, to) == pc = from /\ pc' = to

\* The lock has no effect on an FPGA that is not there.
Unlock ==
    /\ Goto("unlock", "flush")
    /\ locked' = (mcn = "none")
    /\ UNCHANGED <<mcn, rom, card, flags, tests, shown, host, size, inits, at, by,
                   uploaded, restarts>>

\* bi_usb_init: a block from the host is read and dropped; the loop ends when
\* there is none or when one is incomplete.
Flush ==
    /\ pc = "flush"
    /\ \/ usb > 0 /\ usb' = usb - 1 /\ pc' \in {"flush", "get"}
       \/ usb = 0 /\ pc' = "get" /\ UNCHANGED usb
    /\ UNCHANGED <<fpga, card, flags, tests, shown, sent, size, inits, at, by,
                   uploaded, restarts>>

InitGet ==
    /\ Goto("get", "cic")
    /\ biBootCfg' = boot_cfg
    /\ UNCHANGED <<fpga, card, boot_cfg, tests, shown, host, size, inits, at, by,
                   uploaded, restarts>>

\* BiBootCfgSet, BiBootCfgClr: the copy is changed and written.
WriteCfg(new) == biBootCfg' = new /\ boot_cfg' = new

AfterInit_Once == "bootmod"
AfterInit == IF inits = 1 THEN "bootmod" ELSE "testsdr"

InitCic ==
    /\ Goto("cic", AfterInit)
    /\ WriteCfg(biBootCfg \cup {"CICLOCK"})
    /\ UNCHANGED <<fpga, card, tests, shown, host, size, inits, at, by, uploaded,
                   restarts>>

-----------------------------------------------------------------------------
(* MainLoadOS: the FPGA and the tests. *)

BootMod ==
    /\ Goto("bootmod", IF "BOOTMOD" \in boot_cfg THEN "testsdr" ELSE "configure")
    /\ biBootCfg' = boot_cfg
    /\ UNCHANGED <<fpga, card, boot_cfg, tests, shown, host, size, inits, at, by,
                   uploaded, restarts>>

\* BiMCNWr: the FPGA that was there is gone at once, and its SDRAM with it.
Configure ==
    /\ Goto("configure", "configuring")
    /\ mcn' = "none" /\ locked' = TRUE /\ rom' = AllOld
    /\ UNCHANGED <<card, flags, tests, shown, host, size, inits, at, by, uploaded,
                   restarts>>

\* It starts with its registers locked; MainLoadOS calls bi_init again.
AfterConfigure_Tests == "testsdr"
AfterConfigure == "unlock"

Configured ==
    /\ pc = "configuring"
    /\ \/ mcn' = "loaded" /\ inits' = 2 /\ pc' = AfterConfigure /\ UNCHANGED shown
       \/ (\E e \in ErrorsHere : ShowError(e)) /\ UNCHANGED <<mcn, inits>>
    /\ UNCHANGED <<locked, rom, card, flags, tests, host, size, at, by, uploaded,
                   restarts>>

\* MainTestSdr
TestSdr ==
    /\ Goto("testsdr", "testset")
    /\ rom' = IF mcn = "loaded" THEN [u \in Units |-> IF u < TestUnits THEN "test" ELSE rom[u]] ELSE rom
    /\ mainSdrResp' \in IF mcn = "none" THEN {1} ELSE IF HardwareFails THEN {0, 1} ELSE {0}
    /\ UNCHANGED <<mcn, locked, card, flags, mainFpgResp, shown, host, size, inits,
                   at, by, uploaded, restarts>>

\* MainTestFpg, access by access; on bad hardware the bit does not stay set.
TestSet ==
    /\ Goto("testset", "testget")
    /\ biBootCfg' = biBootCfg \cup {"TEST"}
    /\ \/ boot_cfg' = biBootCfg'
       \/ HardwareFails /\ boot_cfg' = biBootCfg' \ {"TEST"}
    /\ mainFpgResp' = 0
    /\ UNCHANGED <<fpga, card, mainSdrResp, shown, host, size, inits, at, by,
                   uploaded, restarts>>

TestGet ==
    /\ Goto("testget", "testclr")
    /\ biBootCfg' = boot_cfg
    /\ mainFpgResp' = IF "TEST" \in boot_cfg THEN mainFpgResp ELSE 1
    /\ UNCHANGED <<fpga, card, boot_cfg, mainSdrResp, shown, host, size, inits, at,
                   by, uploaded, restarts>>

TestClr ==
    /\ Goto("testclr", "testgetclr")
    /\ WriteCfg(biBootCfg \ {"TEST"})
    /\ UNCHANGED <<fpga, card, tests, shown, host, size, inits, at, by, uploaded,
                   restarts>>

TestGetClr ==
    /\ Goto("testgetclr", "tested")
    /\ biBootCfg' = boot_cfg
    /\ mainFpgResp' = IF "TEST" \in boot_cfg THEN 1 ELSE mainFpgResp
    /\ UNCHANGED <<fpga, card, boot_cfg, mainSdrResp, shown, host, size, inits, at,
                   by, uploaded, restarts>>

TestsPassed == mainSdrResp = 0 /\ mainFpgResp = 0

Tested ==
    /\ pc = "tested"
    /\ \/ TestsPassed /\ pc' = "check" /\ UNCHANGED shown
       \/ ~TestsPassed /\ \E e \in ErrorsHere : ShowError(e)
    /\ UNCHANGED <<fpga, card, flags, tests, host, size, inits, at, by, uploaded,
                   restarts>>

-----------------------------------------------------------------------------
(* diskInit, with SdInit's results. *)

\* DiskCheckInit
Check ==
    /\ pc = "check"
    /\ biBootCfg' = boot_cfg
    /\ IF "SD_INIT" \in boot_cfg
       THEN pc' = "checkread" /\ disk_mode' = "RD"
       ELSE pc' = "clear" /\ UNCHANGED disk_mode
    /\ UNCHANGED <<fpga, sending, doubt, boot_cfg, tests, shown, host, size, inits,
                   at, by, uploaded, restarts>>

\* A sector is read after the stream is closed; if that fails nothing is known.
CheckRead ==
    /\ pc = "checkread"
    /\ \/ pc' = "mount" /\ disk_mode' = "RD" /\ sending' = TRUE /\ doubt' = FALSE
       \/ pc' = "clear" /\ disk_mode' \in {"NOP", "RD"} /\ sending' \in BOOLEAN /\ doubt' = TRUE
    /\ UNCHANGED <<fpga, flags, tests, shown, host, size, inits, at, by, uploaded,
                   restarts>>

CardFlags == {"SD_INIT", "SD_TYPE"}

WithoutCard_StaleCopy == {"CICLOCK"}
WithoutCard == biBootCfg \ CardFlags

Clear ==
    /\ Goto("clear", "identify")
    /\ disk_mode' = "NOP"
    /\ WriteCfg(WithoutCard)
    /\ UNCHANGED <<fpga, sending, doubt, tests, shown, host, size, inits, at, by,
                   uploaded, restarts>>

\* CMD0 to CMD6: only a card that has heard CMD0 gets through.
Identify ==
    /\ pc = "identify"
    /\ \/ pc' = "setinit" /\ sending' = FALSE /\ doubt' = FALSE /\ UNCHANGED shown
       \/ \E e \in ErrorsHere : ShowError(e) /\ sending' \in {sending, FALSE} /\ UNCHANGED doubt
    /\ UNCHANGED <<fpga, disk_mode, flags, tests, host, size, inits, at, by,
                   uploaded, restarts>>

\* The card may be one that counts in sectors.
SetInit ==
    /\ pc = "setinit"
    /\ pc' \in {"settype", "mount"}
    /\ WriteCfg(biBootCfg \cup {"SD_INIT"})
    /\ UNCHANGED <<fpga, card, tests, shown, host, size, inits, at, by, uploaded,
                   restarts>>

SetType ==
    /\ Goto("settype", "mount")
    /\ WriteCfg(biBootCfg \cup {"SD_TYPE"})
    /\ UNCHANGED <<fpga, card, tests, shown, host, size, inits, at, by, uploaded,
                   restarts>>

-----------------------------------------------------------------------------
(* MainLoadOS: the file. *)

\* Reads that succeed leave the stream open; one that fails leaves it anyhow.
Streamed == disk_mode' = "RD" /\ sending' = TRUE /\ UNCHANGED doubt
Broken == disk_mode' \in {"NOP", "RD"} /\ sending' \in BOOLEAN /\ doubt' = TRUE

FailAt(where) ==
    /\ pc = where
    /\ \E e \in ErrorsHere : ShowError(e) /\ IF e.why = "io" THEN Broken ELSE Streamed
    /\ UNCHANGED <<fpga, flags, tests, host, size, inits, at, by, uploaded, restarts>>

\* fatInit
Mount ==
    /\ Goto("mount", "open") /\ Streamed
    /\ UNCHANGED <<fpga, flags, tests, shown, host, size, inits, at, by, uploaded,
                   restarts>>

\* fatOpenFileByName
Open ==
    /\ Goto("open", "fill") /\ Streamed
    /\ UNCHANGED <<fpga, flags, tests, shown, host, size, inits, at, by, uploaded,
                   restarts>>

\* The SDRAM is there, and holds what is written to it.
Written(units, what) ==
    rom' = IF mcn = "loaded" THEN [u \in Units |-> IF u \in units THEN what ELSE rom[u]] ELSE rom

\* BiCartRomFill(0, 0x1000, 0x100000)
Filled_OneShort == 1 .. FillUnits - 1
Filled == 1 .. FillUnits

Fill ==
    /\ Goto("fill", "load")
    /\ Written(Filled, "zero")
    /\ at' = 0
    /\ UNCHANGED <<mcn, locked, card, flags, tests, shown, host, size, inits, by,
                   uploaded, restarts>>

AllLoaded == at = size

\* simulate_pif_boot begins by closing the stream.
PifBoot_Unclosed == "lock"
PifBoot == "close"

\* FatReadFileRom
Load ==
    /\ pc = "load" /\ ~AllLoaded
    /\ Written({at}, "os")
    /\ at' = at + 1
    /\ Streamed
    /\ UNCHANGED <<mcn, locked, flags, tests, shown, host, size, pc, inits, by,
                   uploaded, restarts>>

Loaded ==
    /\ pc = "load" /\ AllLoaded
    /\ pc' = PifBoot /\ by' = "boot"
    /\ UNCHANGED <<fpga, card, flags, tests, shown, host, size, inits, at,
                   uploaded, restarts>>

-----------------------------------------------------------------------------
(* simulate_pif_boot *)

\* diskCloseRW, whose result is not looked at.  Locked registers do nothing.
Close ==
    /\ Goto("close", "lock")
    /\ disk_mode' = "NOP"
    /\ \/ disk_mode = "NOP" /\ UNCHANGED <<sending, doubt>>
       \/ disk_mode = "RD" /\ mcn = "loaded" /\ ~locked /\ sending' = FALSE /\ UNCHANGED doubt
       \/ disk_mode = "RD" /\ UNCHANGED sending /\ doubt' = TRUE
    /\ UNCHANGED <<fpga, flags, tests, shown, host, size, inits, at, by, uploaded,
                   restarts>>

LockRegs ==
    /\ Goto("lock", "started")
    /\ locked' = TRUE
    /\ UNCHANGED <<mcn, rom, card, flags, tests, shown, host, size, inits, at, by,
                   uploaded, restarts>>

-----------------------------------------------------------------------------
(* usbListener, after an error. *)

Command == pc = "listen" /\ usb > 0 /\ usb' = usb - 1

\* t, r, R, w and what is not a command.
Other ==
    /\ Command
    /\ UNCHANGED <<fpga, card, flags, tests, shown, sent, size, pc, inits, at, by,
                   uploaded, restarts>>

\* W and c
WriteRom ==
    /\ Command
    /\ \E u \in Units : Written({u}, "host")
    /\ UNCHANGED <<mcn, locked, card, flags, tests, shown, sent, size, pc, inits,
                   at, by, uploaded, restarts>>

\* f: BiMCNWr with what the host sends, and nothing after it.
Upload ==
    /\ Command
    /\ mcn' \in {"none", "loaded"} /\ locked' = TRUE /\ rom' = AllOld
    /\ uploaded' = TRUE
    /\ UNCHANGED <<card, flags, tests, shown, sent, size, pc, inits, at, by, restarts>>

\* s
Start ==
    /\ Command
    /\ WriteCfg(biBootCfg \ {"BOOTMOD"})
    /\ pc' = PifBoot /\ by' = "host"
    /\ UNCHANGED <<fpga, card, tests, shown, sent, size, inits, at, uploaded, restarts>>

-----------------------------------------------------------------------------
(* Around the program. *)

HostSends ==
    /\ sent < MaxSends
    /\ sent' = sent + 1 /\ usb' = usb + 1
    /\ UNCHANGED <<fpga, card, flags, tests, shown, size, pc, inits, at, by,
                   uploaded, restarts>>

\* What has been started sets BOOTMOD, and uses the registers, the ROM space
\* and the card as it likes.
Runs ==
    /\ Goto("started", "running")
    /\ mcn = "loaded"
    /\ boot_cfg' \in {boot_cfg \cup {"BOOTMOD"}, boot_cfg \ {"SD_INIT", "SD_TYPE"}}
    /\ locked' \in BOOLEAN /\ rom' = AllOld /\ sending' \in BOOLEAN
    /\ UNCHANGED <<mcn, disk_mode, doubt, biBootCfg, tests, shown, host, size,
                   inits, at, by, uploaded, restarts>>

\* The program from its beginning, with its variables as they are at first.
FromTheTop ==
    /\ pc' = "unlock" /\ inits' = 1
    /\ biBootCfg' = {} /\ disk_mode' = "NOP"
    /\ mainSdrResp' = 0 /\ mainFpgResp' = 0
    /\ at' = 0 /\ err' = 0 /\ why' = "none" /\ by' = "nobody"
    /\ uploaded' = FALSE
    /\ doubt' = sending'

Reset ==
    /\ restarts < MaxRestarts /\ restarts' = restarts + 1
    /\ UNCHANGED <<boot_cfg, fpga, sending, host, size>>
    /\ FromTheTop

PowerCycle ==
    /\ restarts < MaxRestarts /\ restarts' = restarts + 1
    /\ boot_cfg' = {} /\ mcn' = "none" /\ locked' = TRUE /\ rom' = AllOld
    /\ sending' = FALSE
    /\ FromTheTop
    /\ UNCHANGED <<host, size>>

Init ==
    /\ boot_cfg = {} /\ mcn = "none" /\ locked = TRUE /\ rom = AllOld
    /\ sending = FALSE
    /\ usb = 0 /\ sent = 0 /\ restarts = 0
    /\ size \in Sizes
    /\ pc = "unlock" /\ inits = 1
    /\ biBootCfg = {} /\ disk_mode = "NOP"
    /\ mainSdrResp = 0 /\ mainFpgResp = 0
    /\ at = 0 /\ err = 0 /\ why = "none" /\ by = "nobody"
    /\ uploaded = FALSE /\ doubt = FALSE

bi_init == Unlock \/ Flush \/ InitGet \/ InitCic
Tests ==
    \/ BootMod \/ Configure \/ Configured
    \/ TestSdr \/ TestSet \/ TestGet \/ TestClr \/ TestGetClr \/ Tested
diskInit == Check \/ CheckRead \/ Clear \/ Identify \/ SetInit \/ SetType
LoadFile ==
    \/ Mount \/ Open \/ Fill \/ Load \/ Loaded
    \/ \E where \in {"mount", "open", "load"} : FailAt(where)
MainLoadOS == bi_init \/ Tests \/ diskInit \/ LoadFile \/ Close \/ LockRegs
usbListener == Other \/ WriteRom \/ Upload \/ Start
Around == HostSends \/ Runs \/ Reset \/ PowerCycle

Next == MainLoadOS \/ usbListener \/ Around

Spec == Init /\ [][Next]_vars

\* The processor keeps running up to the error screen or the start.
FairSpec == Spec /\ WF_vars(MainLoadOS)

-----------------------------------------------------------------------------
(* Properties. *)

TypeOK ==
    /\ boot_cfg \subseteq Flags /\ biBootCfg \subseteq Flags
    /\ mcn \in {"none", "loaded"} /\ locked \in BOOLEAN
    /\ rom \in [Units -> Contents]
    /\ sending \in BOOLEAN /\ disk_mode \in {"NOP", "RD"} /\ doubt \in BOOLEAN
    /\ usb \in 0 .. MaxSends /\ sent \in 0 .. MaxSends
    /\ size \in Sizes /\ at \in 0 .. size
    /\ inits \in {1, 2}
    /\ mainSdrResp \in {0, 1} /\ mainFpgResp \in {0, 1}
    /\ err \in 0 .. 255
    /\ uploaded \in BOOLEAN /\ restarts \in 0 .. MaxRestarts
    /\ by \in {"nobody", "boot", "host"}
    /\ why \in {"none", "fpga", "hardware", "filesystem", "fat", "card", "io", "missing"}
    /\ pc \in {"unlock", "flush", "get", "cic", "bootmod", "configure", "configuring",
               "testsdr", "testset", "testget", "testclr", "testgetclr", "tested",
               "check", "checkread", "clear", "identify", "setinit", "settype",
               "mount", "open", "fill", "load", "close", "lock", "listen",
               "started", "running"}

\* What the boot starts by itself is the whole of the file, and behind it, up
\* to the end of what is filled, nothing of what the ROM space held before or
\* of the test's pattern.  Below the fill's beginning the pattern may stay.
StartsLoaded ==
    pc = "started" /\ by = "boot" =>
        /\ \A u \in Units : u < size => rom[u] = "os"
        /\ \A u \in 1 .. FillUnits : u >= size => rom[u] = "zero"

\* The card is only spoken to through an FPGA that is loaded and unlocked,
\* over every way the flags and the FPGA can have come apart by restarts: but
\* not if the host has loaded one since, which stays locked.
UsesCard ==
    \/ pc \in {"checkread", "identify", "mount", "open", "fill", "load"}
    \/ pc = "close" /\ disk_mode = "RD"
RegistersUsable ==
    /\ TypeOK
    /\ UsesCard => uploaded \/ (mcn = "loaded" /\ ~locked)

\* When something is started the card is not sending, unless a transfer or a
\* stop has failed, or the host starts it before diskInit has seen the card
\* that a reset left in the middle of a read.
StreamClosed == pc \in {"lock", "started"} => ~sending \/ doubt

\* printError names what went wrong, for every code that arrives there.
MessageFits ==
    pc = "listen" =>
        Message(err) =
            CASE why = "fpga" -> "FPGA configuration error"
              [] why = "hardware" -> "Hardware error"
              [] why = "card" -> "SD card not found"
              [] why = "io" -> "DISK IO error"
              [] why = "filesystem" -> "Unknown file system"
              [] why = "missing" -> "File not found"
              [] why = "fat" -> "FAT error"

\* Through the copy in biBootCfg no flag is lost that an earlier run or what was
\* started has set: diskInit clears the card's flags and no other, the host's start
\* BOOTMOD, the test of the FPGA its own bit, and no other step any.  What has been
\* started does as it likes with them, and a power cut clears them all.
MayClear ==
    CASE pc = "clear" -> CardFlags
      [] pc = "listen" -> {"BOOTMOD"}
      [] pc \in {"testset", "testclr"} -> {"TEST"}
      [] OTHER -> {}

KeepsFlags ==
    [][pc # "started" /\ restarts' = restarts => boot_cfg \ boot_cfg' \subseteq MayClear]_vars

\* Every boot comes to a start or to the error screen.
BootEnds == pc \notin {"listen", "started", "running"} ~> pc \in {"listen", "started", "running"}
=============================================================================
