----------------------------- MODULE BootProofs -----------------------------
(***************************************************************************)
(* Proofs about Boot, for every size of the ROM space, of what the test    *)
(* and the fill write and of the file, for hardware that may fail or not,  *)
(* and for any number of restarts and of blocks from the host.             *)
(***************************************************************************)
EXTENDS Boot, TLAPS

Ready == mcn = "loaded" /\ ~locked

\* bi_init unlocks what is there, and the tests fail if nothing is; so from
\* diskInit on the registers answer, until the host loads an FPGA.
Unlocked == {"flush", "get", "cic", "bootmod"}
Testing == {"testset", "testget", "testclr", "testgetclr", "tested"}
OnCard == {"check", "checkread", "clear", "identify", "setinit", "settype",
           "mount", "open", "fill", "load"}
Afterwards == {"listen", "close", "lock", "started", "running"}

FpgaInv ==
    /\ pc \in Unlocked \cup Testing \cup {"testsdr"} => (locked <=> mcn = "none")
    /\ pc = "configuring" => mcn = "none"
    /\ pc \in Testing /\ mcn = "none" => mainSdrResp = 1
    /\ pc \in OnCard => Ready
    /\ uploaded => pc \in Afterwards
    /\ disk_mode = "RD" => uploaded \/ Ready

\* disk_mode says that the card is sending, or there is doubt.
CardInv ==
    /\ pc \notin (OnCard \ {"check"}) \cup {"listen", "close"} => disk_mode = "NOP"
    /\ pc = "clear" => disk_mode = "NOP" \/ doubt
    /\ pc # "running" /\ sending => disk_mode = "RD" \/ doubt

\* What the ROM space holds while it is loaded and until it is started.
Holds(n) ==
    /\ \A u \in Units : u < n => rom[u] = "os"
    /\ \A u \in 1 .. FillUnits : u >= n => rom[u] = "zero"

RomInv ==
    /\ pc = "load" => Holds(at)
    /\ by = "boot" => pc \in {"close", "lock", "started", "running"}
    /\ by = "boot" /\ pc # "running" => Holds(size)

\* The code shown and what went wrong come from the same place.
ErrorInv == pc = "listen" => \E e \in Errors : e.code = err /\ e.why = why

\* From BiBootCfgGet on the copy has every flag the register has.
CfgInv ==
    pc \notin {"unlock", "flush", "get", "running"} => boot_cfg \subseteq biBootCfg

\* A block the host has not sent is not read.
UsbInv == usb <= sent

Inv == TypeOK /\ UsbInv /\ FpgaInv /\ CardInv /\ RomInv /\ ErrorInv /\ CfgInv

-----------------------------------------------------------------------------
(* The first state. *)

LEMMA InvInit == Init => Inv
<1> SUFFICES ASSUME Init PROVE Inv
    OBVIOUS
<1>1. TypeOK
    <2>1. locked \in BOOLEAN /\ sending \in BOOLEAN /\ doubt \in BOOLEAN /\ uploaded \in BOOLEAN
        BY Zenon DEF Init
    <2>2. rom \in [Units -> Contents]
        BY DEF Init, AllOld, Contents
    <2> QED
        BY <2>1, <2>2, BootAssumption DEF Init, TypeOK, Flags
<1>2. UsbInv /\ RomInv /\ ErrorInv /\ CfgInv
    BY DEF Init, UsbInv, RomInv, ErrorInv, CfgInv
<1>3. FpgaInv /\ CardInv
    BY DEF Init, FpgaInv, CardInv, Ready, Unlocked, Testing, OnCard, Afterwards
<1> QED
    BY <1>1, <1>2, <1>3 DEF Inv

-----------------------------------------------------------------------------
(* Errors, and writes to the ROM space. *)

Whys == {"none", "fpga", "hardware", "filesystem", "fat", "card", "io", "missing"}

\* What printError should say.
Expected(w) ==
    CASE w = "fpga" -> "FPGA configuration error"
      [] w = "hardware" -> "Hardware error"
      [] w = "card" -> "SD card not found"
      [] w = "io" -> "DISK IO error"
      [] w = "filesystem" -> "Unknown file system"
      [] w = "missing" -> "File not found"
      [] w = "fat" -> "FAT error"

\* Every error has a code of one byte, and the message that names it.
LEMMA ErrorFacts ==
    ASSUME NEW e \in Errors
    PROVE  /\ e.code \in 0 .. 255
           /\ e.why \in Whys
           /\ Message(e.code) = Expected(e.why)
<1>1. CASE e \in {[at |-> "configuring", code |-> \hB3, why |-> "fpga"],
                  [at |-> "tested", code |-> \h55, why |-> "hardware"],
                  [at |-> "mount", code |-> \hF8, why |-> "filesystem"],
                  [at |-> "load", code |-> \hF3, why |-> "fat"]}
    <2>1. \/ e.code = \hB3 /\ e.why = "fpga"
          \/ e.code = \h55 /\ e.why = "hardware"
          \/ e.code = \hF8 /\ e.why = "filesystem"
          \/ e.code = \hF3 /\ e.why = "fat"
        BY <1>1
    <2>2. CASE e.code = \hB3 /\ e.why = "fpga"
        BY <2>2 DEF Message, MissingCodes, Expected, Whys
    <2>3. CASE e.code = \h55 /\ e.why = "hardware"
        BY <2>3 DEF Message, MissingCodes, Expected, Whys
    <2>4. CASE e.code = \hF8 /\ e.why = "filesystem"
        BY <2>4 DEF Message, MissingCodes, Expected, Whys
    <2>5. CASE e.code = \hF3 /\ e.why = "fat"
        BY <2>5 DEF Message, MissingCodes, Expected, Whys
    <2> QED
        BY <2>1, <2>2, <2>3, <2>4, <2>5
<1>2. CASE e.why = "card" /\ e.code \in CardCodes
    BY <1>2 DEF Message, MissingCodes, Expected, Whys, CardCodes
<1>3. CASE e.why = "io" /\ e.code \in IoCodes
    BY <1>3 DEF Message, MissingCodes, Expected, Whys, IoCodes
<1>4. CASE e.why = "missing" /\ e.code \in {\hF0, \hF5, \hF7}
    BY <1>4 DEF Message, MissingCodes, Expected, Whys
<1>5. CASE e.why = "fat" /\ e.code \in {\hF3, \hF6, \hFA}
    BY <1>5 DEF Message, MissingCodes, Expected, Whys
<1> QED
    BY <1>1, <1>2, <1>3, <1>4, <1>5 DEF Errors

\* An error that ends MainLoadOS is one of them.
LEMMA ErrorShown ==
    ASSUME \E e \in ErrorsHere : ShowError(e)
    PROVE  err' \in 0 .. 255 /\ why' \in Whys /\ pc' = "listen" /\ ErrorInv'
BY ErrorFacts DEF ErrorsHere, ShowError, ErrorInv

\* What a write leaves in the SDRAM, and that it leaves the rest.
LEMMA WrittenFacts ==
    ASSUME rom \in [Units -> Contents], NEW units, NEW what \in Contents, Written(units, what)
    PROVE  /\ rom' \in [Units -> Contents]
           /\ mcn = "loaded" =>
                \A u \in Units : rom'[u] = IF u \in units THEN what ELSE rom[u]
BY DEF Written

-----------------------------------------------------------------------------
(* Types. *)

LEMMA TypeStep == TypeOK /\ UsbInv /\ [Next]_vars => TypeOK' /\ UsbInv'
<1> SUFFICES ASSUME TypeOK, UsbInv, [Next]_vars PROVE TypeOK' /\ UsbInv'
    OBVIOUS
<1> USE DEF TypeOK, UsbInv, fpga, card, flags, tests, shown, host, Goto
<1>0. CASE UNCHANGED vars
    BY <1>0 DEF vars
<1>1. CASE Unlock
    BY <1>1 DEF Unlock
<1>2. CASE Flush
    BY <1>2, BootAssumption DEF Flush
<1>3. CASE InitGet
    BY <1>3 DEF InitGet
<1>4. CASE InitCic
    BY <1>4 DEF InitCic, WriteCfg, AfterInit, Flags
<1>5. CASE BootMod
    BY <1>5 DEF BootMod
<1>6. CASE Configure
    BY <1>6 DEF Configure, AllOld, Contents
<1>7. CASE Configured
    BY <1>7, ErrorShown DEF Configured, AfterConfigure, Whys
<1>8. CASE TestSdr
    BY <1>8 DEF TestSdr, Contents, Units
<1>9. CASE TestSet
    <2>1. boot_cfg' \in {biBootCfg', biBootCfg' \ {"TEST"}}
        BY <1>9 DEF TestSet
    <2> QED
        BY <1>9, <2>1 DEF TestSet, Flags
<1>10. CASE TestGet
    BY <1>10 DEF TestGet
<1>11. CASE TestClr
    BY <1>11 DEF TestClr, WriteCfg
<1>12. CASE TestGetClr
    BY <1>12 DEF TestGetClr
<1>13. CASE Tested
    BY <1>13, ErrorShown DEF Tested, Whys
<1>14. CASE Check
    BY <1>14 DEF Check
<1>15. CASE CheckRead
    <2>1. sending' \in BOOLEAN /\ doubt' \in BOOLEAN
        BY <1>15, Zenon DEF CheckRead
    <2> QED
        BY <1>15, <2>1 DEF CheckRead
<1>16. CASE Clear
    BY <1>16 DEF Clear, WithoutCard, WriteCfg
<1>17. CASE Identify
    <2>1. sending' \in BOOLEAN /\ doubt' \in BOOLEAN
        BY <1>17, Zenon DEF Identify
    <2> QED
        <3>1. CASE pc' = "setinit" /\ UNCHANGED shown
            BY <1>17, <2>1, <3>1 DEF Identify
        <3>2. CASE \E e \in ErrorsHere : ShowError(e)
            BY <1>17, <2>1, <3>2, ErrorShown DEF Identify, Whys
        <3> QED
            BY <1>17, <3>1, <3>2 DEF Identify
<1>18. CASE SetInit
    BY <1>18 DEF SetInit, WriteCfg, Flags
<1>19. CASE SetType
    BY <1>19 DEF SetType, WriteCfg, Flags
<1>20. CASE Mount
    BY <1>20 DEF Mount, Streamed
<1>21. CASE Open
    BY <1>21 DEF Open, Streamed
<1>22. CASE Fill
    BY <1>22, WrittenFacts, BootAssumption DEF Fill, Contents
<1>23. CASE Load
    BY <1>23, WrittenFacts, BootAssumption DEF Load, Contents, Streamed, AllLoaded
<1>24. CASE Loaded
    BY <1>24 DEF Loaded, PifBoot
<1>25. ASSUME NEW where \in {"mount", "open", "load"}, FailAt(where) PROVE TypeOK' /\ UsbInv'
    <2>1. sending' \in BOOLEAN /\ doubt' \in BOOLEAN
        BY <1>25, Zenon DEF FailAt, Streamed, Broken
    <2> QED
        BY <1>25, <2>1, ErrorShown DEF FailAt, Streamed, Broken, Whys
<1>26. CASE Close
    <2>1. sending' \in BOOLEAN /\ doubt' \in BOOLEAN
        BY <1>26, Zenon DEF Close
    <2> QED
        BY <1>26, <2>1 DEF Close
<1>27. CASE LockRegs
    BY <1>27 DEF LockRegs
<1>28. CASE Other
    BY <1>28, BootAssumption DEF Other, Command
<1>29. CASE WriteRom
    BY <1>29, WrittenFacts, BootAssumption DEF WriteRom, Contents, Command
<1>30. CASE Upload
    BY <1>30, BootAssumption DEF Upload, AllOld, Contents, Command
<1>31. CASE Start
    BY <1>31, BootAssumption DEF Start, Command, WriteCfg, PifBoot
<1>32. CASE HostSends
    BY <1>32, BootAssumption DEF HostSends
<1>33. CASE Runs
    BY <1>33 DEF Runs, Flags, AllOld, Contents
<1>34. CASE Reset
    <2>1. sending' \in BOOLEAN /\ doubt' \in BOOLEAN /\ uploaded' \in BOOLEAN
        BY <1>34, Zenon DEF Reset, FromTheTop
    <2> QED
        BY <1>34, <2>1, BootAssumption DEF Reset, FromTheTop
<1>35. CASE PowerCycle
    <2>1. sending' \in BOOLEAN /\ doubt' \in BOOLEAN /\ uploaded' \in BOOLEAN /\ locked' \in BOOLEAN
        BY <1>35, Zenon DEF PowerCycle, FromTheTop
    <2> QED
        BY <1>35, <2>1, BootAssumption DEF PowerCycle, FromTheTop, AllOld, Contents
<1> QED
    BY <1>0, <1>1, <1>2, <1>3, <1>4, <1>5, <1>6, <1>7, <1>8, <1>9, <1>10, <1>11,
       <1>12, <1>13, <1>14, <1>15, <1>16, <1>17, <1>18, <1>19, <1>20, <1>21, <1>22,
       <1>23, <1>24, <1>25, <1>26, <1>27, <1>28, <1>29, <1>30, <1>31, <1>32, <1>33,
       <1>34, <1>35
       DEF Next, MainLoadOS, bi_init, Tests, diskInit, LoadFile, usbListener, Around

-----------------------------------------------------------------------------
(* The other parts of the invariant: one case for each part of the program, *)
(* and for what happens around it.                                          *)

\* The FPGA is loaded and unlocked when it is needed.
LEMMA FpgaStep == TypeOK /\ FpgaInv /\ CardInv /\ [Next]_vars => FpgaInv'
<1> SUFFICES ASSUME TypeOK, FpgaInv, CardInv, [Next]_vars PROVE FpgaInv'
    OBVIOUS
<1> USE DEF fpga, card, flags, tests, shown, host, Goto, TypeOK, FpgaInv, CardInv, Ready,
           Unlocked, Testing, OnCard, Afterwards
<1>1. CASE bi_init
    <2>1. CASE Unlock
        BY <2>1 DEF Unlock
    <2>2. CASE Flush \/ InitGet \/ InitCic
        BY <2>2 DEF Flush, InitGet, InitCic, WriteCfg, AfterInit
    <2> QED
        BY <1>1, <2>1, <2>2 DEF bi_init
<1>2. CASE Tests
    BY <1>2, ErrorShown DEF Tests, BootMod, Configure, AllOld, Configured,
        AfterConfigure, TestSdr, Units, TestSet, TestGet, TestClr, WriteCfg,
        TestGetClr, Tested, TestsPassed
<1>3. CASE diskInit
    <2>1. CASE Check \/ CheckRead \/ Clear
        BY <2>1 DEF Check, CheckRead, Clear, WithoutCard, CardFlags, WriteCfg
    <2>2. CASE Identify
        BY <2>2, ErrorShown DEF Identify
    <2>3. CASE SetInit \/ SetType
        BY <2>3 DEF SetInit, SetType, WriteCfg
    <2> QED
        BY <1>3, <2>1, <2>2, <2>3 DEF diskInit
<1>4. CASE LoadFile
    BY <1>4, ErrorShown DEF LoadFile, Mount, Streamed, Open, Fill, Written, Load,
        AllLoaded, Loaded, PifBoot, FailAt, Broken
<1>5. CASE Close \/ LockRegs
    BY <1>5 DEF Close, LockRegs
<1>6. CASE usbListener
    BY <1>6 DEF usbListener, Other, Command, WriteRom, Upload, AllOld, Start,
        WriteCfg, PifBoot
<1>7. CASE Around
    BY <1>7 DEF Around, HostSends, Runs, AllOld, Reset, FromTheTop, PowerCycle
<1>8. CASE UNCHANGED vars
    BY <1>8 DEF vars
<1> QED
    BY <1>1, <1>2, <1>3, <1>4, <1>5, <1>6, <1>7, <1>8 DEF Next, MainLoadOS

\* disk_mode follows the card.
LEMMA CardStep == TypeOK /\ CardInv /\ [Next]_vars => CardInv'
<1> SUFFICES ASSUME TypeOK, CardInv, [Next]_vars PROVE CardInv'
    OBVIOUS
<1> USE DEF fpga, card, flags, tests, shown, host, Goto, TypeOK, CardInv,
           Unlocked, Testing, OnCard, Afterwards
<1>1. CASE bi_init
    BY <1>1 DEF bi_init, Unlock, Flush, InitGet, InitCic, WriteCfg,
        AfterInit
<1>2. CASE Tests
    BY <1>2, ErrorShown DEF Tests, BootMod, Configure, AllOld, Configured,
        AfterConfigure, TestSdr, Units, TestSet, TestGet, TestClr, WriteCfg,
        TestGetClr, Tested
<1>3. CASE diskInit
    <2>1. CASE Check \/ CheckRead \/ Clear
        BY <2>1 DEF Check, CheckRead, Clear, WithoutCard, CardFlags, WriteCfg
    <2>2. CASE Identify
        <3>1. pc = "identify" /\ pc' \in {"setinit", "listen"} /\ disk_mode' = disk_mode
            BY <2>2, ErrorShown DEF Identify
        <3>2. sending' => sending /\ doubt' = doubt
            BY <2>2, Zenon DEF Identify
        <3> QED
            BY <3>1, <3>2
    <2>3. CASE SetInit \/ SetType
        BY <2>3 DEF SetInit, SetType, WriteCfg
    <2> QED
        BY <1>3, <2>1, <2>2, <2>3 DEF diskInit
<1>4. CASE LoadFile
    BY <1>4, ErrorShown DEF LoadFile, Mount, Streamed, Open, Fill, Load, AllLoaded,
        Loaded, PifBoot, FailAt, Broken
<1>5. CASE Close \/ LockRegs
    BY <1>5 DEF Close, LockRegs
<1>6. CASE usbListener
    BY <1>6 DEF usbListener, Other, Command, WriteRom, Upload, AllOld, Start,
        WriteCfg, PifBoot
<1>7. CASE Around
    BY <1>7 DEF Around, HostSends, Runs, AllOld, Reset, FromTheTop, PowerCycle
<1>8. CASE UNCHANGED vars
    BY <1>8 DEF vars
<1> QED
    BY <1>1, <1>2, <1>3, <1>4, <1>5, <1>6, <1>7, <1>8 DEF Next, MainLoadOS

\* The copy of the flags has what the register has.
LEMMA CfgStep == TypeOK /\ CfgInv /\ [Next]_vars => CfgInv'
<1> SUFFICES ASSUME TypeOK, CfgInv, [Next]_vars PROVE CfgInv'
    OBVIOUS
<1> USE DEF fpga, card, flags, tests, shown, host, Goto, TypeOK, CfgInv
<1>1. CASE bi_init
    BY <1>1 DEF bi_init, Unlock, Flush, InitGet, InitCic, WriteCfg,
        AfterInit
<1>2. CASE Tests
    BY <1>2, ErrorShown DEF Tests, BootMod, Configure, AllOld, Configured,
        AfterConfigure, TestSdr, Units, TestSet, TestGet, TestClr, WriteCfg,
        TestGetClr, Tested
<1>3. CASE diskInit
    BY <1>3, ErrorShown DEF diskInit, Check, CheckRead, Clear, WithoutCard, CardFlags,
        WriteCfg, Identify, SetInit, SetType
<1>4. CASE LoadFile
    BY <1>4, ErrorShown DEF LoadFile, Mount, Streamed, Open, Fill, Load, AllLoaded,
        Loaded, PifBoot, FailAt, Broken
<1>5. CASE Close \/ LockRegs
    BY <1>5 DEF Close, LockRegs
<1>6. CASE usbListener
    BY <1>6 DEF usbListener, Other, Command, WriteRom, Upload, AllOld, Start,
        WriteCfg, PifBoot
<1>7. CASE Around
    BY <1>7 DEF Around, HostSends, Runs, AllOld, Reset, FromTheTop, PowerCycle
<1>8. CASE UNCHANGED vars
    BY <1>8 DEF vars
<1> QED
    BY <1>1, <1>2, <1>3, <1>4, <1>5, <1>6, <1>7, <1>8 DEF Next, MainLoadOS

\* The error shown is one that happened.
LEMMA ErrorStep == ErrorInv /\ [Next]_vars => ErrorInv'
<1> SUFFICES ASSUME ErrorInv, [Next]_vars PROVE ErrorInv'
    OBVIOUS
<1> USE DEF fpga, card, flags, tests, shown, host, Goto, TypeOK, ErrorInv
<1>1. CASE bi_init
    BY <1>1 DEF bi_init, Unlock, Flush, InitGet, InitCic, WriteCfg,
        AfterInit
<1>2. CASE Tests
    BY <1>2, ErrorShown DEF Tests, BootMod, Configure, AllOld, Configured,
        AfterConfigure, TestSdr, Units, TestSet, TestGet, TestClr, WriteCfg,
        TestGetClr, Tested
<1>3. CASE diskInit
    BY <1>3, ErrorShown DEF diskInit, Check, CheckRead, Clear, WithoutCard, CardFlags,
        WriteCfg, Identify, SetInit, SetType
<1>4. CASE LoadFile
    BY <1>4, ErrorShown DEF LoadFile, Mount, Streamed, Open, Fill, Load, AllLoaded,
        Loaded, PifBoot, FailAt, Broken
<1>5. CASE Close \/ LockRegs
    BY <1>5 DEF Close, LockRegs
<1>6. CASE usbListener
    BY <1>6 DEF usbListener, Other, Command, WriteRom, Upload, AllOld, Start,
        WriteCfg, PifBoot
<1>7. CASE Around
    BY <1>7 DEF Around, HostSends, Runs, AllOld, Reset, FromTheTop, PowerCycle
<1>8. CASE UNCHANGED vars
    BY <1>8 DEF vars
<1> QED
    BY <1>1, <1>2, <1>3, <1>4, <1>5, <1>6, <1>7, <1>8 DEF Next, MainLoadOS

\* Everything but the test, the FPGA and the host leaves the ROM space alone
\* from the load on.
LEMMA RomStep == Inv /\ [Next]_vars => RomInv'
<1> SUFFICES ASSUME Inv, [Next]_vars PROVE RomInv'
    OBVIOUS
<1>t. TypeOK /\ RomInv /\ FpgaInv
    BY DEF Inv
<1> USE <1>t DEF fpga, card, flags, tests, shown, host, Goto, RomInv, Holds
<1>1. CASE bi_init \/ Tests \/ diskInit
    <2>1. pc \notin {"close", "lock", "started", "running"}
          /\ pc' \notin {"load", "close", "lock", "started"}
          /\ by' = by
        BY <1>1, ErrorShown
           DEF bi_init, Unlock, Flush, InitGet, InitCic, AfterInit, Tests, BootMod, Configure,
               Configured, AfterConfigure, TestSdr, TestSet, TestGet, TestClr, TestGetClr,
               Tested, diskInit, Check, CheckRead, Clear, WithoutCard, CardFlags, Identify, SetInit,
               SetType
    <2> QED
        BY <2>1
<1>2. CASE Mount \/ Open \/ \E where \in {"mount", "open", "load"} : FailAt(where)
    BY <1>2, ErrorShown DEF Mount, Open, FailAt
<1>3. CASE Fill
    <2>1. \A u \in Units : rom'[u] = IF u \in 1 .. FillUnits THEN "zero" ELSE rom[u]
        BY <1>3, WrittenFacts DEF Fill, Filled, FpgaInv, OnCard, Ready, TypeOK, Contents
    <2>2. 1 .. FillUnits \subseteq Units
        BY BootAssumption DEF Units
    <2> QED
        BY <1>3, <2>1, <2>2 DEF Fill, Units
<1>4. CASE Load
    <2>1. \A u \in Units : rom'[u] = IF u = at THEN "os" ELSE rom[u]
        BY <1>4, WrittenFacts DEF Load, FpgaInv, OnCard, Ready, TypeOK, Contents
    <2>2. at \in Nat /\ at' = at + 1 /\ 1 .. FillUnits \subseteq Units /\ Units \subseteq Int
        BY <1>4, BootAssumption DEF Load, Units, TypeOK
    <2> QED
        BY <1>4, <2>1, <2>2 DEF Load
<1>5. CASE Loaded
    BY <1>5 DEF Loaded, AllLoaded, PifBoot
<1>6. CASE Close \/ LockRegs
    BY <1>6 DEF Close, LockRegs
<1>7. CASE usbListener
    BY <1>7 DEF usbListener, Other, WriteRom, Upload, Start, Command, PifBoot
<1>8. CASE Around
    BY <1>8 DEF Around, HostSends, Runs, Reset, PowerCycle, FromTheTop
<1>9. CASE UNCHANGED vars
    BY <1>9 DEF vars
<1> QED
    BY <1>1, <1>2, <1>3, <1>4, <1>5, <1>6, <1>7, <1>8, <1>9 DEF Next, MainLoadOS, LoadFile

LEMMA InvHolds == Spec => []Inv
<1>1. Inv /\ [Next]_vars => Inv'
    BY TypeStep, FpgaStep, CardStep, RomStep, ErrorStep, CfgStep DEF Inv
<1> QED
    BY <1>1, InvInit, PTL DEF Spec

-----------------------------------------------------------------------------

\* The card is only spoken to through registers that answer: whatever flags
\* and whatever FPGA the restarts have left (bi_init, MainLoadOS, diskInit).
THEOREM RegistersAnswer == Spec => []RegistersUsable
<1>1. Inv => RegistersUsable
    BY DEF Inv, RegistersUsable, UsesCard, FpgaInv, OnCard, Ready
<1> QED
    BY <1>1, InvHolds, PTL

\* Nothing is started under a card that is sending, but for the two known
\* exceptions (simulate_pif_boot, diskCloseRW).
THEOREM ClosedWhenStarted == Spec => []StreamClosed
<1>1. Inv => StreamClosed
    BY DEF Inv, StreamClosed, CardInv, OnCard
<1> QED
    BY <1>1, InvHolds, PTL

\* What the boot starts is the whole file, with zeroes behind it as far as
\* the fill reaches (MainLoadOS: BiCartRomFill, FatReadFileRom).
THEOREM LoadedWhenStarted == Spec => []StartsLoaded
<1>1. Inv => StartsLoaded
    BY DEF Inv, StartsLoaded, RomInv, Holds
<1> QED
    BY <1>1, InvHolds, PTL

\* Every error is shown under the message that names it (printError).
THEOREM ErrorsNamed == Spec => []MessageFits
<1>1. Inv => MessageFits
    <2> SUFFICES ASSUME Inv, pc = "listen"
                 PROVE  Message(err) = Expected(why)
        BY DEF MessageFits, Expected
    <2> QED
        BY ErrorFacts DEF Inv, ErrorInv
<1> QED
    BY <1>1, InvHolds, PTL

\* Writing the flags back from the copy loses none but those the step is there to
\* clear (BiBootCfgSet, BiBootCfgClr).
THEOREM FlagsKept == Spec => KeepsFlags
<1> DEFINE Keeps == pc # "started" /\ restarts' = restarts
                        => boot_cfg \ boot_cfg' \subseteq MayClear
<1>1. Inv /\ [Next]_vars => [Keeps]_vars
    <2> SUFFICES ASSUME Inv, Next, pc # "started", restarts' = restarts
                 PROVE  boot_cfg \ boot_cfg' \subseteq MayClear
        OBVIOUS
    <2>t. TypeOK /\ CfgInv
        BY DEF Inv
    <2> USE <2>t DEF CfgInv, flags, Goto, MayClear
    <2>1. CASE bi_init
        BY <2>1 DEF bi_init, Unlock, Flush, InitGet, InitCic, WriteCfg
    <2>2. CASE Tests
        BY <2>2 DEF Tests, BootMod, Configure, Configured, TestSdr, TestSet, TestGet, TestClr,
               TestGetClr, Tested, WriteCfg
    <2>3. CASE diskInit
        BY <2>3 DEF diskInit, Check, CheckRead, Clear, WithoutCard, CardFlags, Identify,
               SetInit, SetType, WriteCfg
    <2>4. CASE LoadFile \/ Close \/ LockRegs
        BY <2>4 DEF LoadFile, Mount, Open, Fill, Load, Loaded, FailAt, Close, LockRegs
    <2>5. CASE usbListener
        BY <2>5 DEF usbListener, Other, WriteRom, Upload, Start, Command, WriteCfg
    <2>6. CASE Around
        BY <2>6 DEF Around, HostSends, Runs, Reset, PowerCycle, TypeOK
    <2> QED
        BY <2>1, <2>2, <2>3, <2>4, <2>5, <2>6 DEF Next, MainLoadOS
<1> QED
    BY <1>1, InvHolds, PTL DEF Spec, KeepsFlags
=============================================================================
