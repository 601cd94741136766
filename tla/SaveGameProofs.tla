--------------------------- MODULE SaveGameProofs ---------------------------
(***************************************************************************)
(* Proofs about SaveGame for every size of the RAM, every length of play   *)
(* and any number of power cycles and failing calls.                       *)
(*                                                                         *)
(* A store is followed from its first cell to the close of the file        *)
(* (Copying), what a finished one left on the card through power cycles    *)
(* (OnCard), and the clock from the chip through registers, file and load  *)
(* (ClockTrue).                                                            *)
(***************************************************************************)
EXTENDS SaveGame, SequenceTheorems, TLAPS

RtcParts == {NoRtc} \cup [regs : Nat, halt : BOOLEAN, stamp : Int]
Refs == [truth : Int, at : Int, offset : Int, smooth : BOOLEAN]
Idle == {"off", "waitHigh", "waitLow", "open"}
Storing == {"ram", "time", "regs", "rtc", "close"}

MachineTypes ==
  /\ power \in {"off", "boot", "loaded", "run"} /\ hasRtc \in BOOLEAN
  /\ now \in 0..MaxNow /\ clock \in Int /\ osc \in BOOLEAN
  /\ c1 \in Idle \cup Storing
  /\ c1 # "off" <=> power = "run"

\* Instant::now counts from power-on.
UpSincePowerOn ==
  /\ bootAt \in 0..now
  /\ up = IF power = "off" THEN 0 ELSE now - bootAt

GameTypes ==
  /\ ram \in [1..NCells -> Values] /\ writes \in 0..MaxWrites
  /\ rtc \in Nat /\ halt \in BOOLEAN /\ oldHalt \in BOOLEAN /\ done \in 0..up
  /\ truth \in Int /\ smooth \in BOOLEAN /\ ref \in Refs /\ savedRef \in Refs

FileTypes ==
  /\ stamp \in Int /\ regs \in [regs : Nat, halt : BOOLEAN]
  /\ file \in [exists : BOOLEAN, ram : Seq(Values), rtc : RtcParts]
  /\ Len(file.ram) <= NCells

\* While core 1 stores, the file holds the RAM up to the cell it has come to,
\* and no earlier save exists any more.
Copying ==
  /\ c1 \in {"time", "regs", "rtc"} => hasRtc
  /\ c1 \in Storing => save = NoSave /\ file.exists
  /\ c1 = "ram" => Len(file.ram) < NCells
  /\ c1 \in Storing \ {"ram"} => Len(file.ram) = NCells
  /\ c1 \in Storing \cup {"open"} /\ quiet => snap = ram
  /\ c1 \in Storing /\ quiet => \A i \in 1..Len(file.ram) : file.ram[i] = ram[i]
  /\ c1 = "close" /\ hasRtc => file.rtc # NoRtc

\* What is saved is what the file holds.
OnCard ==
  save # NoSave =>
    /\ save \in [1..NCells -> Values] /\ file.exists /\ Len(file.ram) = NCells
    /\ \A i \in 1..NCells : file.ram[i] = save[i]
    /\ hasRtc => file.rtc # NoRtc

\* The stamp is the chip's time at the store, and registers stored when process had
\* caught up show the true count; so do the registers of the running game.
ClockTrue ==
  /\ c1 \in {"regs", "rtc"} => stamp = savedRef.at + savedRef.offset
  /\ c1 = "rtc" /\ savedRef.smooth => regs.regs = savedRef.truth
  /\ file.rtc # NoRtc => /\ file.rtc.stamp = ref.at + ref.offset
                         /\ ref.smooth => file.rtc.regs = ref.truth
  /\ power \in {"off", "boot"} => rtc = 0 /\ ~halt /\ truth = up
  /\ power # "run" => done = 0 /\ ~oldHalt
  /\ power \in {"loaded", "run"} /\ hasRtc /\ smooth => rtc + Pending = truth

IInv ==
  /\ MachineTypes /\ UpSincePowerOn /\ GameTypes /\ FileTypes
  /\ Copying /\ OnCard /\ ClockTrue /\ SaveComesBack

-----------------------------------------------------------------------------
LEMMA Constants ==
  /\ NCells \in Nat \ {0} /\ MaxWrites \in Nat /\ MaxNow \in Nat
  /\ GARBAGE \in Values /\ 0 \in Values
  /\ \A v \in {0, GARBAGE} : Filled(v) \in [1..NCells -> Values]
BY BoundsAssumption DEF Values, Filled

\* The steps of core 1 on the file, and what a power cut leaves of it.
LEMMA CellCopied ==
  ASSUME GameTypes, FileTypes, Copying, StoreRam
  PROVE  /\ file' = [exists |-> file.exists, ram |-> file'.ram, rtc |-> file.rtc]
         /\ file'.ram \in Seq(Values) /\ Len(file'.ram) = Len(file.ram) + 1
         /\ Len(file.ram) \in Nat /\ Len(file.ram) < NCells
         /\ \A i \in 1..Len(file.ram) : file'.ram[i] = file.ram[i]
         /\ file'.ram[Len(file.ram) + 1] = ram[Len(file.ram) + 1]
<1>. DEFINE cell == ram[Len(file.ram) + 1]
            copy == Append(file.ram, cell)
<1>1. /\ file \in [exists : BOOLEAN, ram : Seq(Values), rtc : RtcParts]
      /\ file.ram \in Seq(Values)
  BY DEF FileTypes
<1>2. Len(file.ram) \in Nat /\ Len(file.ram) < NCells
  BY <1>1, LenProperties DEF StoreRam, Copying
<1>3. cell \in Values
  BY <1>2, Constants DEF GameTypes
<1>4. file' = [file EXCEPT !.ram = copy]
  BY DEF StoreRam
<1>. HIDE DEF copy, cell
<1>5. file' = [exists |-> file.exists, ram |-> copy, rtc |-> file.rtc]
  BY <1>1, <1>4
<1>6. /\ copy \in Seq(Values) /\ Len(copy) = Len(file.ram) + 1
      /\ \A i \in 1..Len(file.ram) : copy[i] = file.ram[i]
      /\ copy[Len(file.ram) + 1] = cell
  BY <1>1, <1>3, AppendProperties DEF copy
<1>7. file'.ram = copy
  BY <1>5
<1>. QED
  BY <1>2, <1>5, <1>6, <1>7 DEF cell

LEMMA FileCut ==
  ASSUME FileTypes, PowerOff
  PROVE  \/ UNCHANGED file /\ c1 \in Idle \cup {"close"}
         \/ /\ c1 \in Storing
            /\ file' \in [exists : BOOLEAN, ram : Seq(Values), rtc : RtcParts]
            /\ Len(file'.ram) <= NCells /\ file'.rtc = NoRtc
<1>1. /\ file \in [exists : BOOLEAN, ram : Seq(Values), rtc : RtcParts]
      /\ file.ram \in Seq(Values) /\ Len(file.ram) \in Nat /\ Len(file.ram) <= NCells
  BY LenProperties DEF FileTypes
<1>2. CASE c1 \in Idle \cup {"close"} /\ UNCHANGED file
  BY <1>2
<1>3. ASSUME c1 \in Storing, NEW n \in 0..Len(file.ram),
             file' = [file EXCEPT !.ram = SubSeq(@, 1, n), !.rtc = NoRtc]
      PROVE  /\ file' \in [exists : BOOLEAN, ram : Seq(Values), rtc : RtcParts]
             /\ Len(file'.ram) <= NCells /\ file'.rtc = NoRtc
  <2>. DEFINE part == SubSeq(file.ram, 1, n)
  <2>1. n \in Nat /\ n <= Len(file.ram) /\ n \in Int /\ 1 \in Int
    BY <1>1
  <2>2. \A i \in 1..n : file.ram[i] \in Values
    BY <1>1, <2>1, ElementOfSeq
  <2>3. part \in Seq(Values) /\ Len(part) = IF 1 <= n THEN n - 1 + 1 ELSE 0
    BY <2>1, <2>2, SubSeqProperties
  <2>4. Len(part) <= NCells
    BY <1>1, <2>1, <2>3, Constants
  <2>5. file' = [file EXCEPT !.ram = part, !.rtc = NoRtc]
    BY <1>3
  <2>. HIDE DEF part
  <2>6. file' = [exists |-> file.exists, ram |-> part, rtc |-> NoRtc]
    BY <1>1, <2>5
  <2>. QED
    BY <1>1, <2>3, <2>4, <2>6 DEF RtcParts
<1>. QED
  BY <1>2, <1>3 DEF PowerOff, Idle, Storing

LEMMA RtcStored ==
  ASSUME FileTypes, StoreRtc
  PROVE  /\ file' = [exists |-> file.exists, ram |-> file.ram, rtc |-> file'.rtc]
         /\ file'.rtc = [regs |-> regs.regs, halt |-> regs.halt, stamp |-> stamp]
         /\ file'.rtc \in RtcParts /\ file'.rtc # NoRtc
<1>. DEFINE part == [regs |-> regs.regs, halt |-> regs.halt, stamp |-> stamp]
<1>1. file' = [file EXCEPT !.rtc = part]
  BY DEF StoreRtc
<1>2. part \in [regs : Nat, halt : BOOLEAN, stamp : Int] /\ part.regs \in Nat
  BY DEF FileTypes
<1>. HIDE DEF part
<1>3. part # NoRtc
  <2>. SUFFICES ASSUME part = NoRtc PROVE FALSE
    OBVIOUS
  <2>1. part.regs = -1
    BY DEF NoRtc
  <2>. QED
    BY <1>2, <2>1
<1>4. file' = [exists |-> file.exists, ram |-> file.ram, rtc |-> part]
  BY <1>1 DEF FileTypes
<1>5. file'.rtc = part
  BY <1>4
<1>. QED
  BY <1>2, <1>3, <1>4, <1>5 DEF part, RtcParts

-----------------------------------------------------------------------------
LEMMA InitInv == Init => IInv
<1>. SUFFICES ASSUME Init PROVE IInv
  OBVIOUS
<1>1. MachineTypes /\ UpSincePowerOn
  BY KindsAssumption, Constants DEF Init, MachineTypes, UpSincePowerOn, BUILD_TIME, Idle
<1>2. GameTypes
  <2>1. ram \in [1..NCells -> Values] /\ writes \in 0..MaxWrites
    BY Constants DEF Init
  <2>2. rtc = 0 /\ done = 0 /\ up = 0 /\ truth = 0 /\ ref = NoRef /\ savedRef = NoRef
    BY Zenon DEF Init
  <2>3. halt \in BOOLEAN /\ oldHalt \in BOOLEAN /\ smooth \in BOOLEAN
    BY Zenon DEF Init
  <2>4. ref \in Refs /\ savedRef \in Refs
    BY <2>2 DEF NoRef, Refs
  <2>. QED
    BY <2>1, <2>2, <2>3, <2>4 DEF GameTypes
<1>3. FileTypes
  <2>1. <<>> \in Seq(Values) /\ Len(<<>>) = 0
    BY EmptySeq
  <2>2. file = [exists |-> FALSE, ram |-> <<>>, rtc |-> NoRtc]
    BY DEF Init, NoFile
  <2>. QED
    BY <2>1, <2>2, Constants DEF Init, FileTypes, NoRegs, RtcParts
<1>4. Copying /\ OnCard /\ SaveComesBack
  BY DEF Init, Copying, OnCard, SaveComesBack, Storing
<1>5. ClockTrue
  BY DEF Init, ClockTrue, NoFile
<1>. QED
  BY <1>1, <1>2, <1>3, <1>4, <1>5 DEF IInv

-----------------------------------------------------------------------------
LEMMA MachineKept ==
  ASSUME MachineTypes, UpSincePowerOn, [Next]_vars
  PROVE  MachineTypes' /\ UpSincePowerOn'
<1>1. CASE Tick
  BY <1>1, Constants
     DEF Tick, MachineTypes, UpSincePowerOn, coreVars, saveGhost
<1>2. CASE LoseBattery
  BY <1>2 DEF LoseBattery, MachineTypes, UpSincePowerOn, CHIP_RESET, coreVars
<1>3. CASE PowerOn
  BY <1>3, Constants DEF PowerOn, MachineTypes, UpSincePowerOn, BUILD_TIME, MINUTE, coreVars
<1>4. CASE PowerOff
  BY <1>4 DEF PowerOff, Reset, MachineTypes, UpSincePowerOn, Idle
<1>5. ASSUME NEW t \in SetTimes, SetClock(t) PROVE MachineTypes' /\ UpSincePowerOn'
  BY <1>5, KindsAssumption DEF SetClock, MachineTypes, UpSincePowerOn, coreVars
<1>6. CASE Load
  <2>1. /\ power = "boot" /\ power' = "loaded"
        /\ UNCHANGED <<hasRtc, now, clock, osc, up, c1, bootAt>>
    BY <1>6 DEF Load, LoadNoFile, LoadReadError, LoadRamOnly, LoadTimeError, LoadFromFuture,
                LoadRtc, LoadStep, coreVars
  <2>. QED
    BY <2>1 DEF MachineTypes, UpSincePowerOn
<1>7. CASE StartMbc
  BY <1>7 DEF StartMbc, MachineTypes, UpSincePowerOn, Idle, saveGhost
<1>8. CASE UNCHANGED <<power, hasRtc, now, clock, osc, up, bootAt, c1>>
  BY <1>8 DEF MachineTypes, UpSincePowerOn
<1>9. CASE Core1
  <2>1. c1 # "off"
    BY <1>9 DEF Core1, WaitForHigh, WaitForLow, StoreOpen, StoreRam, StoreTime, StoreRegs,
                StoreRtc, StoreClose, StoreError
  <2>2. c1' \in {"waitHigh", "waitLow", "open"} \cup Storing
    BY <1>9 DEF Core1, WaitForHigh, WaitForLow, StoreOpen, StoreRam, StoreTime, StoreRegs,
                StoreRtc, StoreClose, StoreError, Storing
  <2>3. UNCHANGED <<power, hasRtc, now, clock, osc, up, bootAt>>
    BY <1>9 DEF Core1, WaitForHigh, WaitForLow, StoreOpen, StoreRam, StoreTime, StoreRegs,
                StoreRtc, StoreClose, StoreError, machineVars, saveGhost
  <2>. QED
    BY <2>1, <2>2, <2>3 DEF MachineTypes, UpSincePowerOn, Idle, Storing
<1>10. UNCHANGED vars => UNCHANGED <<power, hasRtc, now, clock, osc, up, bootAt, c1>>
  BY DEF vars, machineVars, coreVars, saveGhost
<1>11. (\E i \in 1..NCells : GameWrite(i)) \/ GameSetRtc \/ GameHalt \/ Process
         => UNCHANGED <<power, hasRtc, now, clock, osc, up, bootAt, c1>>
  BY DEF GameWrite, GameSetRtc, GameHalt, Process, machineVars, coreVars, saveGhost
<1>. QED
  BY <1>1, <1>2, <1>3, <1>4, <1>5, <1>6, <1>7, <1>8, <1>9, <1>10, <1>11 DEF Next

\* What the load makes of the RAM and the registers.
LEMMA RamRead ==
  ASSUME GameTypes, FileTypes
  PROVE  /\ ReadRam \in [1..NCells -> Values]
         /\ \A i \in 1..NCells : i <= Len(file.ram) => ReadRam[i] = file.ram[i]
<1>1. Len(file.ram) \in Nat /\ \A i \in 1..Len(file.ram) : file.ram[i] \in Values
  BY LenProperties, ElementOfSeq DEF FileTypes
<1>2. \A i \in 1..NCells : i <= Len(file.ram) => file.ram[i] \in Values
  BY <1>1, Constants
<1>3. \A i \in 1..NCells : (IF i <= Len(file.ram) THEN file.ram[i] ELSE ram[i]) \in Values
  BY <1>2 DEF GameTypes
<1>. QED
  BY <1>3 DEF ReadRam

LEMMA PartRead ==
  ASSUME FileTypes, file.rtc # NoRtc
  PROVE  file.rtc.regs \in Nat /\ file.rtc.halt \in BOOLEAN /\ file.rtc.stamp \in Int
BY DEF FileTypes, RtcParts

\* GbRtc::process counts at most one of the seconds that are due.
LEMMA Counting ==
  ASSUME GameTypes, up \in Nat, Count
  PROVE  /\ rtc' \in Nat /\ oldHalt' = halt /\ done' \in 0..up
         /\ rtc' + (IF halt THEN 0 ELSE up - done') = rtc + Pending
<1>1. /\ rtc \in Nat /\ halt \in BOOLEAN /\ oldHalt \in BOOLEAN /\ done \in 0..up
  BY DEF GameTypes
<1>2. CASE halt
  <2>1. oldHalt' = halt /\ done' = done /\ rtc' = rtc
    BY <1>2 DEF Count
  <2>. QED
    BY <1>1, <1>2, <2>1 DEF Pending
<1>3. CASE ~halt /\ oldHalt
  <2>1. oldHalt' = halt /\ done' = up /\ rtc' = rtc
    BY <1>3 DEF Count
  <2>. QED
    BY <1>1, <1>3, <2>1 DEF Pending
<1>4. CASE ~halt /\ ~oldHalt /\ up > done
  <2>1. oldHalt' = halt /\ done' = done + 1 /\ rtc' = rtc + 1
    BY <1>4 DEF Count
  <2>. QED
    BY <1>1, <1>4, <2>1 DEF Pending
<1>5. CASE ~halt /\ ~oldHalt /\ ~(up > done)
  <2>1. oldHalt' = halt /\ done' = done /\ rtc' = rtc
    BY <1>5 DEF Count
  <2>. QED
    BY <1>1, <1>5, <2>1 DEF Pending
<1>. QED
  BY <1>1, <1>2, <1>3, <1>4, <1>5

LEMMA UpTime ==
  ASSUME MachineTypes, UpSincePowerOn
  PROVE  up \in Nat /\ now \in Nat /\ bootAt \in Nat /\ (power # "off" => now = bootAt + up)
BY Constants DEF MachineTypes, UpSincePowerOn

-----------------------------------------------------------------------------
LEMMA GameKept ==
  ASSUME MachineTypes, UpSincePowerOn, GameTypes, FileTypes, ClockTrue, [Next]_vars
  PROVE  GameTypes'
<1>. USE Constants
<1>1. up \in Nat /\ now \in Nat
  BY UpTime
<1>2. CASE Tick
  <2>1. /\ up' \in Nat /\ up <= up' /\ truth' \in Int
        /\ UNCHANGED <<ram, rtc, halt, done, oldHalt, writes, smooth, ref, savedRef>>
    BY <1>1, <1>2 DEF Tick, gameVars, GameTypes
  <2>2. done' \in 0..up'
    BY <1>1, <2>1 DEF GameTypes
  <2>. QED
    BY <2>1, <2>2 DEF GameTypes
<1>3. CASE UNCHANGED <<gameVars, clockGhost>> /\ up' = up
  BY <1>3 DEF GameTypes, gameVars, clockGhost
<1>4. CASE PowerOff
  <2>1. /\ ram' = Filled(GARBAGE) /\ rtc' = 0 /\ halt' = FALSE /\ done' = 0 /\ oldHalt' = FALSE
        /\ up' = 0 /\ writes' = writes /\ truth' = 0 /\ smooth' = FALSE /\ savedRef' = NoRef
        /\ ref' = ref
    BY <1>4 DEF PowerOff, Reset
  <2>2. NoRef \in Refs
    BY DEF NoRef, Refs
  <2>3. halt' \in BOOLEAN /\ oldHalt' \in BOOLEAN /\ smooth' \in BOOLEAN
    BY <2>1, Zenon
  <2>4. ram' \in [1..NCells -> Values]
    BY <2>1
  <2>5. rtc' \in Nat /\ done' \in 0..up' /\ truth' \in Int
    BY <2>1
  <2>. QED
    BY <2>1, <2>2, <2>3, <2>4, <2>5 DEF GameTypes
<1>5. CASE Load
  <2>1. UNCHANGED <<done, oldHalt, writes, up, savedRef, ref>>
    BY <1>5 DEF Load, LoadNoFile, LoadReadError, LoadRamOnly, LoadTimeError, LoadFromFuture,
                LoadRtc, LoadStep, ClockFromZero
  <2>2. ram' \in [1..NCells -> Values]
    BY <1>5, RamRead DEF Load, LoadNoFile, LoadReadError, LoadRamOnly, LoadTimeError,
                         LoadFromFuture, LoadRtc
  <2>3. rtc' \in Nat /\ halt' \in BOOLEAN /\ truth' \in Int /\ smooth' \in BOOLEAN
    <3>1. CASE LoadNoFile \/ LoadReadError \/ LoadRamOnly
      <4>1. UNCHANGED <<rtc, halt>> /\ truth' = up /\ smooth' = TRUE
        BY <3>1 DEF LoadNoFile, LoadReadError, LoadRamOnly, ClockFromZero
      <4>. QED
        BY <1>1, <4>1 DEF GameTypes
    <3>2. CASE LoadTimeError \/ LoadFromFuture
      <4>1. /\ file.rtc # NoRtc /\ rtc' = file.rtc.regs /\ halt' = file.rtc.halt
            /\ smooth' = FALSE /\ truth' = truth
        BY <3>2 DEF LoadTimeError, LoadFromFuture, RestoreRegs
      <4>. QED
        BY <4>1, PartRead DEF GameTypes
    <3>3. CASE LoadRtc
      <4>1. /\ file.rtc # NoRtc /\ TimeNow > file.rtc.stamp /\ halt' = file.rtc.halt
            /\ rtc' = IF file.rtc.halt THEN file.rtc.regs
                      ELSE file.rtc.regs + (TimeNow - file.rtc.stamp)
        BY <3>3 DEF LoadRtc
      <4>2. TimeNow \in Int
        BY <1>1 DEF TimeNow, MachineTypes
      <4>3. rtc' \in Nat /\ halt' \in BOOLEAN
        BY <4>1, <4>2, PartRead
      <4>4. /\ truth' = IF file.rtc.halt THEN ref.truth ELSE ref.truth + (now - ref.at)
            /\ smooth' = (ref.smooth /\ clock - now = ref.offset)
        BY <3>3 DEF LoadRtc
      <4>5. ref.truth \in Int /\ ref.at \in Int /\ ref.smooth \in BOOLEAN
        BY DEF GameTypes, Refs
      <4>6. truth' \in Int
        BY <1>1, <4>4, <4>5
      <4>7. smooth' \in BOOLEAN
        BY <4>4
      <4>. QED
        BY <4>3, <4>6, <4>7
    <3>. QED
      BY <1>5, <3>1, <3>2, <3>3 DEF Load
  <2>. QED
    BY <2>1, <2>2, <2>3 DEF GameTypes
<1>6. CASE StartMbc
  <2>1. UNCHANGED <<up, ram, halt, writes, truth, smooth, ref, savedRef>>
    BY <1>6 DEF StartMbc, clockGhost
  <2>2. rtc' \in Nat /\ oldHalt' \in BOOLEAN /\ done' \in 0..up
    <3>1. CASE hasRtc
      BY <1>1, <1>6, <3>1, Counting DEF StartMbc, GameTypes
    <3>2. CASE ~hasRtc
      BY <1>6, <3>2 DEF StartMbc, GameTypes
    <3>. QED
      BY <3>1, <3>2
  <2>. QED
    BY <2>1, <2>2 DEF GameTypes
<1>7. ASSUME NEW i \in 1..NCells, GameWrite(i) PROVE GameTypes'
  <2>1. /\ ram' = [ram EXCEPT ![i] = writes + 1] /\ writes < MaxWrites /\ writes' = writes + 1
        /\ UNCHANGED <<up, rtc, halt, done, oldHalt, truth, smooth, ref, savedRef>>
    BY <1>7 DEF GameWrite, machineVars, clockGhost
  <2>2. writes + 1 \in 0..MaxWrites /\ writes + 1 \in Values
    BY <2>1 DEF GameTypes, Values
  <2>3. ram' \in [1..NCells -> Values]
    BY <2>1, <2>2 DEF GameTypes
  <2>. QED
    BY <2>1, <2>2, <2>3 DEF GameTypes
<1>8. CASE GameSetRtc
  <2>1. /\ rtc' = 0 /\ truth' = Pending /\ writes < MaxWrites /\ writes' = writes + 1
        /\ UNCHANGED <<up, ram, halt, done, oldHalt, smooth, ref, savedRef>>
    BY <1>8 DEF GameSetRtc, machineVars
  <2>2. Pending \in Int /\ writes' \in 0..MaxWrites
    BY <1>1, <2>1 DEF Pending, GameTypes
  <2>. QED
    BY <2>1, <2>2 DEF GameTypes
<1>9. CASE GameHalt
  <2>1. /\ halt' = ~halt /\ writes < MaxWrites /\ writes' = writes + 1
        /\ smooth' = (smooth /\ (up = done \/ oldHalt))
        /\ UNCHANGED <<up, ram, rtc, done, oldHalt, truth, ref, savedRef>>
    BY <1>9 DEF GameHalt, machineVars
  <2>2. writes' \in 0..MaxWrites
    BY <2>1 DEF GameTypes
  <2>3. smooth' \in BOOLEAN
    BY <2>1
  <2>. QED
    BY <2>1, <2>2, <2>3 DEF GameTypes
<1>10. CASE Process
  <2>1. UNCHANGED <<up, ram, halt, writes, truth, smooth, ref, savedRef>>
    BY <1>10 DEF Process, machineVars, clockGhost
  <2>2. rtc' \in Nat /\ oldHalt' \in BOOLEAN /\ done' \in 0..up
    BY <1>1, <1>10, Counting DEF Process, GameTypes
  <2>. QED
    BY <2>1, <2>2 DEF GameTypes
<1>11. CASE Core1
  <2>1. UNCHANGED <<up, ram, rtc, halt, done, oldHalt, writes, truth, smooth>>
    BY <1>11 DEF Core1, WaitForHigh, WaitForLow, StoreOpen, StoreRam, StoreTime, StoreRegs,
                 StoreRtc, StoreClose, StoreError, machineVars, gameVars, clockGhost
  <2>2. ref' \in Refs /\ savedRef' \in Refs
    <3>1. NoRef \in Refs /\ ref \in Refs /\ savedRef \in Refs
      BY DEF NoRef, Refs, GameTypes
    <3>2. [truth |-> truth, at |-> now, offset |-> clock - now, smooth |-> smooth] \in Refs
      BY <1>1 DEF Refs, GameTypes, MachineTypes
    <3>3. CASE StoreRegs
      <4>. DEFINE sm == smooth /\ Pending = 0 /\ savedRef.at = now
      <4>1. savedRef' = [truth |-> truth, at |-> savedRef.at, offset |-> savedRef.offset,
                         smooth |-> sm] /\ ref' = ref
        BY <3>3 DEF StoreRegs
      <4>2. sm \in BOOLEAN /\ truth \in Int /\ savedRef.at \in Int /\ savedRef.offset \in Int
        BY <3>1 DEF Refs, GameTypes
      <4>. HIDE DEF sm
      <4>. QED
        BY <3>1, <4>1, <4>2 DEF Refs
    <3>. QED
      BY <1>11, <3>1, <3>2, <3>3 DEF Core1, WaitForHigh, WaitForLow, StoreOpen, StoreRam,
         StoreTime, StoreRtc, StoreClose, StoreError, clockGhost
  <2>. QED
    BY <2>1, <2>2 DEF GameTypes
<1>. QED
  BY <1>2, <1>3, <1>4, <1>5, <1>6, <1>7, <1>8, <1>9, <1>10, <1>11
     DEF Next, LoseBattery, PowerOn, SetClock, vars, machineVars

-----------------------------------------------------------------------------
\* Steps that leave core 1 and the card alone.
Aside ==
  \/ Tick \/ LoseBattery \/ PowerOn \/ (\E t \in SetTimes : SetClock(t)) \/ Load \/ GameSetRtc
  \/ GameHalt \/ Process \/ UNCHANGED vars

LEMMA StepAside ==
  ASSUME Aside
  PROVE  UNCHANGED <<hasRtc, c1, stamp, regs, file, snap, quiet, save, savedRef, ref>>
<1>1. CASE Load
  BY <1>1 DEF Load, LoadNoFile, LoadReadError, LoadRamOnly, LoadTimeError, LoadFromFuture,
              LoadRtc, LoadStep, ClockFromZero, coreVars
<1>. QED
  BY <1>1 DEF Aside, Tick, LoseBattery, PowerOn, SetClock, GameSetRtc, GameHalt, Process, vars,
              machineVars, coreVars, saveGhost, clockGhost

LEMMA Steps ==
  ASSUME [Next]_vars
  PROVE  Aside \/ PowerOff \/ StartMbc \/ (\E i \in 1..NCells : GameWrite(i)) \/ Core1
BY DEF Next, Aside

LEMMA FileKept ==
  ASSUME MachineTypes, UpSincePowerOn, GameTypes, FileTypes, Copying, [Next]_vars
  PROVE  FileTypes'
<1>1. CASE UNCHANGED <<stamp, regs, file>>
  BY <1>1 DEF FileTypes
<1>2. CASE PowerOff
  <2>1. stamp' \in Int /\ regs' \in [regs : Nat, halt : BOOLEAN]
    <3>1. stamp' = 0 /\ regs' = NoRegs
      BY <1>2 DEF PowerOff, Reset
    <3>. QED
      BY <3>1 DEF NoRegs
  <2>2. UNCHANGED file \/ (/\ file' \in [exists : BOOLEAN, ram : Seq(Values), rtc : RtcParts]
                           /\ Len(file'.ram) <= NCells)
    BY <1>2, FileCut
  <2>. QED
    BY <2>1, <2>2 DEF FileTypes
<1>3. CASE StoreOpen
  <2>1. <<>> \in Seq(Values) /\ Len(<<>>) = 0
    BY EmptySeq
  <2>2. /\ file' = [exists |-> TRUE, ram |-> <<>>, rtc |-> NoRtc]
        /\ UNCHANGED <<stamp, regs>>
    BY <1>3 DEF StoreOpen
  <2>. QED
    BY <2>1, <2>2, Constants DEF FileTypes, RtcParts
<1>4. CASE StoreRam
  <2>1. /\ file' = [exists |-> file.exists, ram |-> file'.ram, rtc |-> file.rtc]
        /\ file'.ram \in Seq(Values) /\ Len(file'.ram) = Len(file.ram) + 1
        /\ Len(file.ram) \in Nat /\ Len(file.ram) < NCells
    BY <1>4, CellCopied
  <2>2. file.exists \in BOOLEAN /\ file.rtc \in RtcParts /\ UNCHANGED <<stamp, regs>>
    BY <1>4 DEF StoreRam, FileTypes
  <2>3. Len(file'.ram) <= NCells
    BY <2>1, Constants
  <2>4. file' \in [exists : BOOLEAN, ram : Seq(Values), rtc : RtcParts]
    BY <2>1, <2>2
  <2>. QED
    BY <2>2, <2>3, <2>4 DEF FileTypes
<1>5. CASE StoreTime
  BY <1>5 DEF StoreTime, FileTypes, MachineTypes
<1>6. CASE StoreRegs
  BY <1>6 DEF StoreRegs, FileTypes, GameTypes
<1>7. CASE StoreRtc
  <2>1. /\ file' = [exists |-> file.exists, ram |-> file.ram, rtc |-> file'.rtc]
        /\ file'.rtc \in RtcParts
    BY <1>7, RtcStored
  <2>2. file.exists \in BOOLEAN /\ file.ram \in Seq(Values) /\ Len(file.ram) <= NCells
    BY DEF FileTypes
  <2>3. file' \in [exists : BOOLEAN, ram : Seq(Values), rtc : RtcParts] /\ file'.ram = file.ram
    BY <2>1, <2>2
  <2>4. stamp' \in Int /\ regs' \in [regs : Nat, halt : BOOLEAN]
    BY <1>7 DEF StoreRtc, NoRegs
  <2>. QED
    BY <2>2, <2>3, <2>4 DEF FileTypes
<1>8. CASE StoreError
  <2>1. stamp' \in Int /\ regs' \in [regs : Nat, halt : BOOLEAN] /\ UNCHANGED file
    BY <1>8 DEF StoreError, NoRegs
  <2>. QED
    BY <2>1 DEF FileTypes
<1>. QED
  BY <1>1, <1>2, <1>3, <1>4, <1>5, <1>6, <1>7, <1>8, Steps, StepAside
     DEF StartMbc, GameWrite, coreVars, Core1, WaitForHigh, WaitForLow, StoreClose

\* The RAM changes while no store runs, or the game writes it.
LEMMA RamQuiet ==
  ASSUME MachineTypes, Aside
  PROVE  c1 = "off" \/ UNCHANGED ram
<1>1. CASE Load
  BY <1>1 DEF Load, LoadNoFile, LoadReadError, LoadRamOnly, LoadTimeError, LoadFromFuture,
              LoadRtc, LoadStep, MachineTypes
<1>. QED
  BY <1>1 DEF Aside, Tick, LoseBattery, PowerOn, SetClock, GameSetRtc, GameHalt, Process, vars,
              gameVars

LEMMA CopyingKept ==
  ASSUME MachineTypes, UpSincePowerOn, GameTypes, FileTypes, Copying, [Next]_vars
  PROVE  Copying'
<1>1. Len(file.ram) \in Nat /\ Len(file.ram) <= NCells
  BY LenProperties DEF FileTypes
<1>2. CASE Aside
  BY <1>2, StepAside, RamQuiet DEF Copying, Storing
<1>3. CASE PowerOff
  BY <1>3 DEF PowerOff, Copying, Storing
<1>4. CASE StartMbc
  BY <1>4 DEF StartMbc, Copying, Storing, saveGhost
<1>5. ASSUME NEW i \in 1..NCells, GameWrite(i) PROVE Copying'
  BY <1>5 DEF GameWrite, Copying, Storing, machineVars, coreVars
<1>6. CASE WaitForHigh
  BY <1>6 DEF WaitForHigh, Copying, Storing
<1>7. CASE WaitForLow
  BY <1>7 DEF WaitForLow, Copying, Storing, gameVars
<1>8. CASE StoreOpen
  <2>1. /\ c1 = "open" /\ c1' = "ram" /\ save' = NoSave
        /\ file' = [exists |-> TRUE, ram |-> <<>>, rtc |-> NoRtc]
        /\ UNCHANGED <<ram, snap, quiet, hasRtc>>
    BY <1>8 DEF StoreOpen, gameVars, machineVars
  <2>2. file'.exists /\ Len(file'.ram) = 0
    BY <2>1, EmptySeq
  <2>. QED
    BY <2>1, <2>2, Constants DEF Copying, Storing
<1>9. CASE StoreRam
  <2>1. /\ c1 = "ram" /\ UNCHANGED <<ram, snap, quiet, hasRtc, save>>
        /\ c1' = IF Len(file.ram) + 1 < NCells THEN "ram"
                 ELSE IF hasRtc THEN "time" ELSE "close"
    BY <1>9 DEF StoreRam, gameVars, machineVars, saveGhost
  <2>2. /\ file' = [exists |-> file.exists, ram |-> file'.ram, rtc |-> file.rtc]
        /\ Len(file'.ram) = Len(file.ram) + 1 /\ Len(file.ram) < NCells
        /\ \A i \in 1..Len(file.ram) : file'.ram[i] = file.ram[i]
        /\ file'.ram[Len(file.ram) + 1] = ram[Len(file.ram) + 1]
    BY <1>9, CellCopied
  <2>3. file'.exists = file.exists
    BY <2>2
  <2>4. quiet => \A i \in 1..Len(file'.ram) : file'.ram[i] = ram[i]
    <3>. SUFFICES ASSUME quiet, NEW i \in 1..Len(file'.ram)
                  PROVE  file'.ram[i] = ram[i]
      OBVIOUS
    <3>1. CASE i = Len(file.ram) + 1
      BY <2>2, <3>1
    <3>2. CASE i # Len(file.ram) + 1
      <4>1. i \in 1..Len(file.ram)
        BY <1>1, <2>2, <3>2
      <4>. QED
        BY <2>1, <2>2, <4>1 DEF Copying, Storing
    <3>. QED
      BY <3>1, <3>2
  <2>5. CASE Len(file.ram) + 1 < NCells
    <3>1. c1' = "ram" /\ Len(file'.ram) < NCells
      BY <2>1, <2>2, <2>5
    <3>. QED
      BY <2>1, <2>3, <2>4, <3>1 DEF Copying, Storing
  <2>6. CASE ~(Len(file.ram) + 1 < NCells)
    <3>1. Len(file'.ram) = NCells
      BY <1>1, <2>2, <2>6, Constants
    <3>2. c1' = (IF hasRtc THEN "time" ELSE "close")
      BY <2>1, <2>6
    <3>. QED
      BY <2>1, <2>3, <2>4, <3>1, <3>2 DEF Copying, Storing
  <2>. QED
    BY <2>5, <2>6
<1>10. CASE StoreTime \/ StoreRegs
  <2>1. /\ c1 \in {"time", "regs"} /\ c1' \in {"regs", "rtc"}
        /\ UNCHANGED <<file, ram, snap, quiet, hasRtc, save>>
    BY <1>10 DEF StoreTime, StoreRegs, gameVars, machineVars, saveGhost
  <2>. QED
    BY <2>1 DEF Copying, Storing
<1>11. CASE StoreRtc
  <2>1. /\ file' = [exists |-> file.exists, ram |-> file.ram, rtc |-> file'.rtc]
        /\ file'.rtc # NoRtc
    BY <1>11, RtcStored
  <2>2. file'.exists = file.exists /\ file'.ram = file.ram
    BY <2>1
  <2>3. c1 = "rtc" /\ c1' = "close" /\ UNCHANGED <<ram, snap, quiet, hasRtc, save>>
    BY <1>11 DEF StoreRtc, gameVars, machineVars, saveGhost
  <2>. QED
    BY <2>1, <2>2, <2>3 DEF Copying, Storing
<1>12. CASE StoreClose \/ StoreError
  <2>1. c1' = "waitHigh"
    BY <1>12 DEF StoreClose, StoreError
  <2>. QED
    BY <2>1 DEF Copying, Storing
<1>. QED
  BY <1>2, <1>3, <1>4, <1>5, <1>6, <1>7, <1>8, <1>9, <1>10, <1>11, <1>12, Steps DEF Core1

\* What is saved stays on the card until the next store opens the file.
LEMMA OnCardKept ==
  ASSUME MachineTypes, GameTypes, FileTypes, Copying, OnCard, [Next]_vars
  PROVE  OnCard'
<1>1. CASE UNCHANGED <<save, file, hasRtc>>
  BY <1>1 DEF OnCard
<1>2. CASE PowerOff
  <2>1. UNCHANGED <<save, hasRtc>>
    BY <1>2 DEF PowerOff
  <2>2. c1 \in Storing => save = NoSave
    BY DEF Copying
  <2>. QED
    BY <1>1, <1>2, <2>1, <2>2, FileCut DEF OnCard
<1>3. CASE StoreOpen
  BY <1>3 DEF StoreOpen, OnCard
<1>4. CASE StoreRam \/ StoreTime \/ StoreRegs \/ StoreRtc
  <2>1. c1 \in Storing /\ UNCHANGED save
    BY <1>4 DEF StoreRam, StoreTime, StoreRegs, StoreRtc, Storing, saveGhost
  <2>. QED
    BY <2>1 DEF Copying, OnCard
<1>5. CASE StoreClose
  <2>1. /\ c1 = "close" /\ save' = (IF quiet THEN snap ELSE NoSave)
        /\ UNCHANGED <<file, hasRtc>>
    BY <1>5 DEF StoreClose, machineVars
  <2>2. CASE ~quiet
    BY <2>1, <2>2 DEF OnCard
  <2>3. CASE quiet
    <3>1. save' = ram /\ file.exists /\ Len(file.ram) = NCells /\ (hasRtc => file.rtc # NoRtc)
      BY <2>1, <2>3 DEF Copying, Storing
    <3>2. \A i \in 1..NCells : file.ram[i] = ram[i]
      BY <2>1, <2>3, <3>1 DEF Copying, Storing
    <3>. QED
      BY <2>1, <3>1, <3>2 DEF OnCard, GameTypes
  <2>. QED
    BY <2>2, <2>3
<1>. QED
  BY <1>1, <1>2, <1>3, <1>4, <1>5, Steps, StepAside
     DEF StartMbc, GameWrite, Core1, WaitForHigh, WaitForLow, StoreError, machineVars, coreVars,
         saveGhost

-----------------------------------------------------------------------------
\* A load leaves the clock at zero or takes the registers of the file on by the time
\* the chip has counted since the stamp.
LEMMA LoadTrue ==
  ASSUME MachineTypes, UpSincePowerOn, GameTypes, FileTypes, ClockTrue, Load
  PROVE  ClockTrue'
<1>1. /\ power = "boot" /\ power' = "loaded"
      /\ UNCHANGED <<hasRtc, c1, up, done, oldHalt, stamp, regs, file, ref, savedRef>>
  BY DEF Load, LoadNoFile, LoadReadError, LoadRamOnly, LoadTimeError, LoadFromFuture,
         LoadRtc, LoadStep, ClockFromZero, coreVars
<1>2. /\ rtc = 0 /\ ~halt /\ truth = up /\ done = 0 /\ ~oldHalt
      /\ up \in Nat /\ now \in Nat /\ clock \in Int
  BY <1>1, UpTime DEF ClockTrue, MachineTypes
<1>3. Pending' = IF halt' THEN 0 ELSE up
  BY <1>1, <1>2 DEF Pending
<1>4. hasRtc /\ smooth' => rtc' + Pending' = truth'
  <2>1. CASE LoadNoFile \/ LoadReadError \/ LoadRamOnly
    <3>1. UNCHANGED <<rtc, halt>> /\ truth' = up
      BY <2>1 DEF LoadNoFile, LoadReadError, LoadRamOnly, ClockFromZero
    <3>. QED
      BY <1>2, <1>3, <3>1
  <2>2. CASE LoadTimeError \/ LoadFromFuture
    BY <2>2 DEF LoadTimeError, LoadFromFuture
  <2>3. CASE LoadRtc
    <3>1. /\ file.rtc # NoRtc /\ halt' = file.rtc.halt
          /\ rtc' = IF file.rtc.halt THEN file.rtc.regs
                    ELSE file.rtc.regs + (TimeNow - file.rtc.stamp)
          /\ truth' = IF file.rtc.halt THEN ref.truth ELSE ref.truth + (now - ref.at)
          /\ smooth' = (ref.smooth /\ clock - now = ref.offset)
      BY <2>3 DEF LoadRtc
    <3>. SUFFICES ASSUME smooth'
                  PROVE  rtc' + Pending' = truth'
      OBVIOUS
    <3>2. ref.smooth /\ clock - now = ref.offset
      BY <3>1
    <3>3. /\ file.rtc.regs \in Nat /\ file.rtc.stamp \in Int
          /\ ref.truth \in Int /\ ref.at \in Int /\ ref.offset \in Int
      BY <3>1, PartRead DEF GameTypes, Refs
    <3>4. file.rtc.stamp = ref.at + ref.offset /\ file.rtc.regs = ref.truth
      BY <3>1, <3>2 DEF ClockTrue
    <3>5. CASE file.rtc.halt
      <4>1. rtc' = file.rtc.regs /\ truth' = ref.truth /\ Pending' = 0
        BY <1>3, <3>1, <3>5
      <4>. QED
        BY <3>3, <3>4, <4>1
    <3>6. CASE ~file.rtc.halt
      <4>1. /\ rtc' = file.rtc.regs + ((clock - up) - file.rtc.stamp)
            /\ truth' = ref.truth + (now - ref.at) /\ Pending' = up
        BY <1>3, <3>1, <3>6 DEF TimeNow
      <4>. QED
        BY <1>2, <3>2, <3>3, <3>4, <4>1
    <3>. QED
      BY <3>5, <3>6
  <2>. QED
    BY <2>1, <2>2, <2>3 DEF Load
<1>. QED
  BY <1>1, <1>4 DEF ClockTrue

\* Every second of a running clock is counted or pending.
LEMMA ClockKept ==
  ASSUME MachineTypes, UpSincePowerOn, GameTypes, FileTypes, Copying, ClockTrue, [Next]_vars
  PROVE  ClockTrue'
<1>1. /\ up \in Nat /\ now \in Nat /\ clock \in Int /\ done \in 0..up
      /\ rtc \in Nat /\ truth \in Int
      /\ halt \in BOOLEAN /\ oldHalt \in BOOLEAN /\ smooth \in BOOLEAN
  BY UpTime DEF MachineTypes, GameTypes
<1>2. CASE Tick
  <2>1. /\ UNCHANGED <<power, hasRtc, c1, stamp, savedRef, regs, file, ref, rtc, halt,
                       done, oldHalt, smooth>>
        /\ up' = (IF power = "off" THEN up ELSE up + 1)
        /\ truth' = (IF power = "off" \/ halt THEN truth ELSE truth + 1)
        /\ (power = "run" /\ hasRtc => oldHalt = halt)
    BY <1>2 DEF Tick, gameVars, coreVars
  <2>2. power \in {"loaded", "run"} /\ hasRtc /\ smooth => rtc' + Pending' = truth'
    <3>. SUFFICES ASSUME power \in {"loaded", "run"}, hasRtc, smooth
                  PROVE  rtc' + Pending' = truth'
      OBVIOUS
    <3>1. rtc + Pending = truth
      BY DEF ClockTrue
    <3>2. oldHalt => halt
      BY <2>1 DEF ClockTrue
    <3>3. CASE halt
      <4>1. Pending = 0 /\ Pending' = 0 /\ truth' = truth /\ rtc' = rtc
        BY <2>1, <3>3 DEF Pending
      <4>. QED
        BY <3>1, <4>1
    <3>4. CASE ~halt
      <4>1. Pending = up - done /\ Pending' = up' - done /\ truth' = truth + 1 /\ rtc' = rtc
            /\ up' = up + 1
        BY <2>1, <3>2, <3>4 DEF Pending
      <4>. QED
        BY <1>1, <3>1, <4>1
    <3>. QED
      BY <3>3, <3>4
  <2>3. power \in {"off", "boot"} => rtc' = 0 /\ ~halt' /\ truth' = up'
    BY <1>1, <2>1 DEF ClockTrue
  <2>. QED
    BY <2>1, <2>2, <2>3 DEF ClockTrue
<1>3. CASE UNCHANGED <<power, hasRtc, c1, stamp, savedRef, regs, file, ref, rtc, halt,
                       done, oldHalt, smooth, up, truth>>
  BY <1>3 DEF ClockTrue, Pending
<1>4. CASE PowerOn
  <2>1. /\ power = "off" /\ power' = "boot"
        /\ UNCHANGED <<hasRtc, c1, stamp, savedRef, regs, file, ref, rtc, halt,
                       done, oldHalt, smooth, up, truth>>
    BY <1>4 DEF PowerOn, gameVars, coreVars, clockGhost
  <2>. QED
    BY <2>1 DEF ClockTrue
<1>5. CASE PowerOff
  <2>1. /\ power' = "off" /\ c1' = "off" /\ up' = 0 /\ done' = 0 /\ rtc' = 0 /\ ~halt'
        /\ ~oldHalt' /\ truth' = 0 /\ ~smooth' /\ ref' = ref
    BY <1>5 DEF PowerOff, Reset
  <2>2. UNCHANGED file \/ file'.rtc = NoRtc
    BY <1>5, FileCut
  <2>. QED
    BY <2>1, <2>2 DEF ClockTrue
<1>6. CASE Load
  BY <1>6, LoadTrue
<1>7. CASE StartMbc
  <2>1. /\ power = "loaded" /\ power' = "run" /\ c1' = "waitHigh"
        /\ UNCHANGED <<hasRtc, stamp, savedRef, regs, file, ref, halt, smooth, up, truth>>
    BY <1>7 DEF StartMbc, clockGhost
  <2>2. hasRtc => rtc' + Pending' = rtc + Pending
    BY <1>1, <1>7, <2>1, Counting DEF StartMbc, Pending
  <2>. QED
    BY <2>1, <2>2 DEF ClockTrue
<1>8. ASSUME NEW i \in 1..NCells, GameWrite(i) PROVE ClockTrue'
  BY <1>3, <1>8 DEF GameWrite, machineVars, coreVars, clockGhost
<1>9. CASE GameSetRtc
  <2>1. /\ power = "run" /\ rtc' = 0 /\ truth' = Pending
        /\ UNCHANGED <<power, hasRtc, c1, stamp, savedRef, regs, file, ref, halt,
                       done, oldHalt, smooth, up>>
    BY <1>9 DEF GameSetRtc, machineVars, coreVars
  <2>2. Pending' = Pending /\ Pending \in Int
    BY <1>1, <2>1 DEF Pending
  <2>. QED
    BY <2>1, <2>2 DEF ClockTrue
<1>10. CASE GameHalt
  <2>1. /\ power = "run" /\ halt' = ~halt /\ smooth' = (smooth /\ (up = done \/ oldHalt))
        /\ UNCHANGED <<power, hasRtc, c1, stamp, savedRef, regs, file, ref, rtc,
                       done, oldHalt, up, truth>>
    BY <1>10 DEF GameHalt, machineVars, coreVars
  <2>2. smooth' => smooth /\ Pending' = Pending
    <3>. SUFFICES ASSUME smooth' PROVE smooth /\ Pending' = Pending
      OBVIOUS
    <3>1. smooth /\ (up = done \/ oldHalt)
      BY <2>1
    <3>2. Pending = 0 /\ Pending' = 0
      BY <1>1, <2>1, <3>1 DEF Pending
    <3>. QED
      BY <3>1, <3>2
  <2>. QED
    BY <2>1, <2>2 DEF ClockTrue
<1>11. CASE Process
  <2>1. /\ power = "run"
        /\ UNCHANGED <<power, hasRtc, c1, stamp, savedRef, regs, file, ref, halt, smooth, up,
                       truth>>
    BY <1>11 DEF Process, machineVars, coreVars, clockGhost
  <2>2. rtc' + Pending' = rtc + Pending
    BY <1>1, <1>11, <2>1, Counting DEF Process, Pending
  <2>. QED
    BY <2>1, <2>2 DEF ClockTrue
<1>12. CASE Core1
  <2>1. /\ UNCHANGED <<power, hasRtc, rtc, halt, done, oldHalt, smooth, up, truth>>
        /\ Pending' = Pending
    BY <1>12 DEF Core1, WaitForHigh, WaitForLow, StoreOpen, StoreRam, StoreTime, StoreRegs,
                 StoreRtc, StoreClose, StoreError, machineVars, gameVars, clockGhost, Pending
  <2>. DEFINE Now == /\ power \in {"off", "boot"} => rtc = 0 /\ ~halt /\ truth = up
                     /\ power # "run" => done = 0 /\ ~oldHalt
                     /\ power \in {"loaded", "run"} /\ hasRtc /\ smooth => rtc + Pending = truth
              Stored == file.rtc # NoRtc =>
                          /\ file.rtc.stamp = ref.at + ref.offset
                          /\ ref.smooth => file.rtc.regs = ref.truth
              Under == /\ c1 \in {"regs", "rtc"} => stamp = savedRef.at + savedRef.offset
                       /\ c1 = "rtc" /\ savedRef.smooth => regs.regs = savedRef.truth
  <2>2. Now'
    BY <2>1 DEF ClockTrue
  <2>3. CASE WaitForHigh \/ WaitForLow \/ StoreClose \/ StoreError
    <3>1. UNCHANGED <<file, ref>> /\ c1' \notin {"regs", "rtc"}
      BY <2>3 DEF WaitForHigh, WaitForLow, StoreClose, StoreError, clockGhost
    <3>. QED
      BY <2>2, <3>1 DEF ClockTrue
  <2>4. CASE StoreOpen
    <3>1. file' = [exists |-> TRUE, ram |-> <<>>, rtc |-> NoRtc] /\ c1' = "ram"
      BY <2>4 DEF StoreOpen
    <3>2. file'.rtc = NoRtc
      BY <3>1
    <3>. QED
      BY <2>2, <3>1, <3>2 DEF ClockTrue
  <2>5. CASE StoreRam
    <3>1. file' = [exists |-> file.exists, ram |-> file'.ram, rtc |-> file.rtc]
      BY <2>5, CellCopied
    <3>2. file'.rtc = file.rtc
      BY <3>1
    <3>3. UNCHANGED ref /\ c1' \in {"ram", "time", "close"}
      BY <2>5 DEF StoreRam, clockGhost
    <3>. QED
      BY <2>2, <3>2, <3>3 DEF ClockTrue
  <2>6. CASE StoreTime
    <3>1. /\ UNCHANGED <<file, ref>> /\ c1' = "regs" /\ stamp' = clock
          /\ savedRef' = [truth |-> truth, at |-> now, offset |-> clock - now, smooth |-> smooth]
      BY <2>6 DEF StoreTime
    <3>2. stamp' = savedRef'.at + savedRef'.offset
      BY <1>1, <3>1
    <3>. QED
      BY <2>2, <3>1, <3>2 DEF ClockTrue
  <2>7. CASE StoreRegs
    <3>. DEFINE sm == smooth /\ Pending = 0 /\ savedRef.at = now
    <3>1. /\ UNCHANGED <<file, ref, stamp>> /\ c1 = "regs" /\ c1' = "rtc"
          /\ regs' = [regs |-> rtc, halt |-> halt]
          /\ savedRef' = [truth |-> truth, at |-> savedRef.at, offset |-> savedRef.offset,
                          smooth |-> sm]
      BY <2>7 DEF StoreRegs
    <3>2. power = "run" /\ hasRtc
      BY <3>1 DEF MachineTypes, Copying
    <3>3. sm => rtc = truth
      BY <1>1, <3>2 DEF ClockTrue
    <3>. HIDE DEF sm
    <3>4. /\ savedRef'.at = savedRef.at /\ savedRef'.offset = savedRef.offset
          /\ savedRef'.smooth = sm /\ savedRef'.truth = truth /\ regs'.regs = rtc
      BY <3>1
    <3>5. stamp' = savedRef'.at + savedRef'.offset
      BY <3>1, <3>4 DEF ClockTrue
    <3>6. savedRef'.smooth => regs'.regs = savedRef'.truth
      BY <3>3, <3>4
    <3>. QED
      BY <2>2, <3>1, <3>5, <3>6 DEF ClockTrue
  <2>8. CASE StoreRtc
    <3>1. c1 = "rtc" /\ c1' = "close" /\ ref' = savedRef
      BY <2>8 DEF StoreRtc
    <3>2. file'.rtc = [regs |-> regs.regs, halt |-> regs.halt, stamp |-> stamp]
      BY <2>8, RtcStored
    <3>3. file'.rtc.stamp = stamp /\ file'.rtc.regs = regs.regs
      BY <3>2
    <3>. QED
      BY <2>2, <3>1, <3>3 DEF ClockTrue
  <2>. QED
    BY <1>12, <2>3, <2>4, <2>5, <2>6, <2>7, <2>8 DEF Core1
<1>. QED
  BY <1>2, <1>3, <1>4, <1>5, <1>6, <1>7, <1>8, <1>9, <1>10, <1>11, <1>12
     DEF Next, LoseBattery, SetClock, vars, machineVars, gameVars, coreVars, clockGhost


-----------------------------------------------------------------------------
\* A load that does not fail finds the saved RAM: it is complete on the card, and
\* the chip is ahead of the stamp.
LEMMA LoadBringsBack ==
  ASSUME MachineTypes, UpSincePowerOn, GameTypes, FileTypes, OnCard, ClockTrue, Load
  PROVE  SaveComesBack'
<1>. SUFFICES ASSUME ~loadFault', save # NoSave,
                     hasRtc => ref.at < bootAt /\ clock - now >= ref.offset
              PROVE  ram' = save
  <2>1. UNCHANGED <<save, hasRtc, ref, bootAt, clock, now>>
    BY DEF Load, LoadNoFile, LoadReadError, LoadRamOnly, LoadTimeError, LoadFromFuture,
           LoadRtc, LoadStep, ClockFromZero
  <2>. QED
    BY <2>1 DEF SaveComesBack
<1>1. /\ save \in [1..NCells -> Values] /\ file.exists /\ Len(file.ram) = NCells
      /\ \A i \in 1..NCells : file.ram[i] = save[i]
      /\ hasRtc => file.rtc # NoRtc
  BY DEF OnCard
<1>2. CASE LoadNoFile \/ LoadReadError \/ LoadTimeError
  BY <1>1, <1>2 DEF LoadNoFile, LoadReadError, LoadTimeError
<1>3. CASE LoadFromFuture
  <2>1. power = "boot" /\ hasRtc /\ file.rtc # NoRtc /\ ~(clock - up > file.rtc.stamp)
    BY <1>3 DEF LoadFromFuture, LoadStep, TimeNow
  <2>2. file.rtc.stamp = ref.at + ref.offset
    BY <2>1 DEF ClockTrue
  <2>3. ref.at \in Int /\ ref.offset \in Int /\ clock \in Int
    BY DEF GameTypes, Refs, MachineTypes
  <2>4. /\ up \in Nat /\ now \in Nat /\ bootAt \in Nat /\ now = bootAt + up
        /\ ref.at < bootAt /\ clock - now >= ref.offset
    BY <2>1, UpTime
  <2>5. ~(clock - up > ref.at + ref.offset)
    BY <2>1, <2>2
  <2>. QED
    BY <2>3, <2>4, <2>5
<1>4. CASE LoadRamOnly \/ LoadRtc
  <2>1. ram' = ReadRam
    BY <1>4 DEF LoadRamOnly, LoadRtc
  <2>2. \A i \in 1..NCells : ReadRam[i] = save[i]
    <3>1. \A i \in 1..NCells : i <= Len(file.ram)
      BY <1>1, Constants
    <3>. QED
      BY <1>1, <3>1, RamRead
  <2>. QED
    BY <1>1, <2>1, <2>2, RamRead
<1>. QED
  BY <1>2, <1>3, <1>4 DEF Load

LEMMA SaveComesBackKept ==
  ASSUME MachineTypes, UpSincePowerOn, GameTypes, FileTypes, Copying, OnCard, ClockTrue,
         SaveComesBack, [Next]_vars
  PROVE  SaveComesBack'
<1>1. /\ now \in Int /\ clock \in Int /\ (hasRtc => ref.offset \in Int)
  BY UpTime DEF MachineTypes, GameTypes, Refs
<1>2. ASSUME power' \in {"loaded", "run"} => power \in {"loaded", "run"},
             UNCHANGED <<fresh, loadFault, save, hasRtc, ref, bootAt, ram>>,
             UNCHANGED <<now, clock>> \/ (now' = now + 1 /\ clock' \in {clock, clock + 1})
      PROVE  SaveComesBack'
  <2>1. hasRtc /\ clock' - now' >= ref.offset => clock - now >= ref.offset
    <3>1. CASE UNCHANGED <<now, clock>>
      BY <3>1
    <3>2. CASE now' = now + 1 /\ clock' \in {clock, clock + 1}
      BY <1>1, <3>2
    <3>. QED
      BY <1>2, <3>1, <3>2
  <2>2. hasRtc' /\ clock' - now' >= ref'.offset => clock - now >= ref.offset
    BY <1>2, <2>1
  <2>. QED
    BY <1>2, <2>2 DEF SaveComesBack
<1>3. CASE Tick
  <2>1. /\ now' = now + 1 /\ clock' \in {clock, clock + 1}
        /\ UNCHANGED <<power, fresh, loadFault, save, hasRtc, ref, bootAt, ram>>
    BY <1>3 DEF Tick, saveGhost, gameVars
  <2>. QED
    BY <1>2, <2>1
<1>4. CASE LoseBattery \/ PowerOn \/ PowerOff \/ \E t \in SetTimes : SetClock(t)
  <2>1. power' \in {"off", "boot"}
    BY <1>4 DEF LoseBattery, PowerOn, PowerOff, SetClock
  <2>. QED
    BY <2>1 DEF SaveComesBack
<1>5. CASE StartMbc
  <2>1. /\ power = "loaded"
        /\ UNCHANGED <<now, clock, fresh, loadFault, save, hasRtc, ref, bootAt, ram>>
    BY <1>5 DEF StartMbc, saveGhost, clockGhost
  <2>. QED
    BY <1>2, <2>1
<1>6. CASE \E i \in 1..NCells : GameWrite(i)
  BY <1>6 DEF GameWrite, SaveComesBack
<1>7. CASE GameSetRtc \/ GameHalt \/ Process \/ UNCHANGED vars
  <2>1. UNCHANGED <<power, now, clock, fresh, loadFault, save, hasRtc, ref, bootAt, ram>>
    BY <1>7 DEF GameSetRtc, GameHalt, Process, vars, machineVars, gameVars, saveGhost, clockGhost
  <2>. QED
    BY <1>2, <2>1
<1>8. CASE WaitForHigh \/ WaitForLow \/ StoreRam \/ StoreTime \/ StoreRegs \/ StoreError
  <2>1. UNCHANGED <<power, now, clock, fresh, loadFault, save, hasRtc, ref, bootAt, ram>>
    BY <1>8 DEF WaitForHigh, WaitForLow, StoreRam, StoreTime, StoreRegs, StoreError, machineVars,
                gameVars, saveGhost, clockGhost
  <2>. QED
    BY <1>2, <2>1
<1>9. CASE StoreOpen \/ StoreRtc
  <2>1. c1 = "rtc" => save = NoSave
    BY DEF Copying, Storing
  <2>2. save' = NoSave
    BY <1>9, <2>1 DEF StoreOpen, StoreRtc, saveGhost
  <2>. QED
    BY <2>2 DEF SaveComesBack
<1>10. CASE StoreClose
  <2>1. /\ c1 = "close" /\ save' = (IF quiet THEN snap ELSE NoSave) /\ ram' = ram
    BY <1>10 DEF StoreClose, gameVars
  <2>2. quiet => snap = ram
    BY <2>1 DEF Copying, Storing
  <2>. QED
    BY <2>1, <2>2 DEF SaveComesBack
<1>11. CASE Load
  BY <1>11, LoadBringsBack
<1>. QED
  BY <1>3, <1>4, <1>5, <1>6, <1>7, <1>8, <1>9, <1>10, <1>11 DEF Next, Core1

-----------------------------------------------------------------------------
\* The invariant holds in every state: what core 1 has stored so far is the RAM as
\* it was at the press, what it finished stays on the card, and what the file says
\* of the clock is what the chip and the game's clock showed (core1_task,
\* GbSavefile::store and load, GbRtc::process).
THEOREM Invariance == Spec => []IInv
<1>1. IInv /\ [Next]_vars => IInv'
  BY MachineKept, GameKept, FileKept, CopyingKept, OnCardKept, ClockKept, SaveComesBackKept
     DEF IInv
<1>. QED
  BY InitInv, <1>1, PTL DEF Spec

\* Type correctness: the clock never counts a second that is not over, core 1 works
\* only while the game runs, and the file never holds more cells than the RAM has.
THEOREM TypeCorrect == Spec => []TypeOK
<1>1. IInv => TypeOK
  <2>. SUFFICES ASSUME IInv PROVE TypeOK
    OBVIOUS
  <2>1. up \in 0..MaxNow
    BY Constants DEF IInv, MachineTypes, UpSincePowerOn
  <2>2. \A i \in 1..Len(file.ram) : file.ram[i] \in Values
    BY ElementOfSeq DEF IInv, FileTypes
  <2>3. c1 \in {"off", "waitHigh", "waitLow", "open", "ram", "time", "regs", "rtc", "close"}
    BY DEF IInv, MachineTypes, Idle, Storing
  <2>4. c1 # "off" <=> power = "run"
    BY DEF IInv, MachineTypes
  <2>5. rtc \in Int
    BY DEF IInv, GameTypes
  <2>. QED
    BY <2>1, <2>2, <2>3, <2>4, <2>5 DEF IInv, MachineTypes, GameTypes, FileTypes, TypeOK
<1>. QED
  BY Invariance, <1>1, PTL

\* A save that a store finished while the game wrote nothing is what the next start of
\* the game finds in RAM, through any number of power cycles, if no call failed during
\* the load and the clock chip was not set back (GbSavefile::store and load).
THEOREM SavesComeBack == Spec => []SaveComesBack
<1>1. IInv => SaveComesBack
  BY DEF IInv
<1>. QED
  BY Invariance, <1>1, PTL

\* The cartridge clock goes on over stores, power cycles and loads: what it shows and
\* has yet to count is the real time since it was set, less the time it was halted
\* (GbRtc::process and advance_by_seconds, GbSavefile::load).
THEOREM ClockGoesOn == Spec => []ClockContinues
<1>1. IInv => ClockContinues
  BY DEF IInv, ClockTrue, ClockContinues
<1>. QED
  BY Invariance, <1>1, PTL
=============================================================================
