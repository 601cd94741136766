------------------------------ MODULE SaveGame ------------------------------
(***************************************************************************)
(* A savegame across power cycles: the cartridge RAM the game writes, the  *)
(* cartridge clock the game reads (gb_rtc.rs), the button task of core 1   *)
(* (core1_task of main.rs), the save file on the SD card                   *)
(* (gb_savefile.rs), the battery-backed clock chip the file is stamped     *)
(* with, and the load at game start (gb_bootloader.rs).                    *)
(*                                                                         *)
(* The RAM is a few cells, each holding the number of the write that put   *)
(* its value there.  Time is counted in whole seconds and the cartridge    *)
(* clock is the number of seconds it shows, so the second count of the     *)
(* five registers, their wrap and the rounding of two clocks against each  *)
(* other are not told apart here.                                          *)
(***************************************************************************)
EXTENDS Integers, Sequences

CONSTANTS
  NCells,          \* cells of cartridge RAM
  Kinds,           \* values of RomInfo.has_rtc that are played
  SetTimes,        \* times the player may set the clock chip to (full minutes)
  MaxWrites,       \* bound: writes of the game (to RAM or to the clock)
  MaxNow,          \* bound: seconds of real time
  MaxBoots,        \* bound: power cycles
  MaxFaults        \* bound: failing calls of the SD card or the clock chip, and
                   \*   losses of the chip's battery

ASSUME BoundsAssumption ==
  /\ NCells \in Nat \ {0} /\ MaxWrites \in Nat /\ MaxNow \in Nat
  /\ MaxBoots \in Nat /\ MaxFaults \in Nat
ASSUME KindsAssumption ==
  Kinds \subseteq BOOLEAN /\ \A t \in SetTimes : t \in Nat /\ t % 60 = 0

VARIABLES
  power,           \* "off", "boot" (bootloader), "loaded" or "run" (game)
  hasRtc,          \* the game has a clock
  now,             \* real time
  clock, osc,      \* what the clock chip shows, and whether its oscillator runs
  up,              \* seconds since power-on (Instant::now)
  ram,             \* cartridge RAM
  rtc, halt,       \* clock registers: seconds, halt bit of the status register
  done, oldHalt,   \* GbRtc: last_milli in seconds, old_halt
  c1,              \* where core1_task stands
  stamp, regs,     \* locals of store: time of the chip, register state
  file,            \* the save file on the card
  writes, boots, faults,
  snap, quiet, save, fresh, bootAt, loadFault, moved,  \* history, see the properties
  truth, smooth, ref, savedRef

machineVars == <<power, hasRtc, now, clock, osc, up, boots, faults>>
gameVars == <<ram, rtc, halt, done, oldHalt, writes>>
coreVars == <<c1, stamp, regs, file>>
saveGhost == <<snap, quiet, save, fresh, bootAt, loadFault, moved>>
clockGhost == <<truth, smooth, ref, savedRef>>
vars == <<machineVars, gameVars, coreVars, saveGhost, clockGhost>>

GARBAGE == -1      \* what RAM holds at power-on: no section loads it
BUILD_TIME == 0    \* built_info::BUILT_TIME_UTC, taken at the start of a minute
MINUTE == 60
CHIP_RESET == -1   \* the chip's time after it lost all power

NoRtc == [regs |-> -1, halt |-> FALSE, stamp |-> -1]
NoRegs == [regs |-> 0, halt |-> FALSE]
NoFile == [exists |-> FALSE, ram |-> <<>>, rtc |-> NoRtc]
NoSave == <<>>
NoRef == [truth |-> 0, at |-> 0, offset |-> 0, smooth |-> FALSE]

Filled(v) == [i \in 1..NCells |-> v]

\* Seconds GbRtc::process has not counted yet: it starts at Instant 0 and
\* catches up one millisecond per call.
Pending == IF halt \/ oldHalt THEN 0 ELSE up - done

Init ==
  /\ power = "off" /\ hasRtc \in Kinds
  /\ now = 0 /\ clock = BUILD_TIME /\ osc = TRUE /\ up = 0 /\ boots = 0 /\ faults = 0
  /\ ram = Filled(GARBAGE) /\ rtc = 0 /\ halt = FALSE /\ done = 0 /\ oldHalt = FALSE
  /\ writes = 0
  /\ c1 = "off" /\ stamp = 0
  /\ regs = NoRegs /\ file = NoFile
  /\ snap = NoSave /\ quiet = FALSE /\ save = NoSave /\ fresh = FALSE
  /\ bootAt = 0 /\ loadFault = FALSE /\ moved = FALSE
  /\ truth = 0 /\ smooth = FALSE /\ ref = NoRef /\ savedRef = NoRef

(***************************************************************************)
(* Surroundings: time and power.                                           *)
(***************************************************************************)

\* A second passes.  The MBC3 loop calls process whenever its FIFO is empty, so
\* it has seen a change of the halt bit long before.
Tick ==
  /\ now < MaxNow
  /\ power = "run" /\ hasRtc => oldHalt = halt
  /\ now' = now + 1
  /\ clock' = IF clock # CHIP_RESET /\ osc THEN clock + 1 ELSE clock
  /\ up' = IF power = "off" THEN up ELSE up + 1
  /\ truth' = IF power = "off" \/ halt THEN truth ELSE truth + 1
  /\ UNCHANGED <<power, hasRtc, osc, boots, faults, gameVars, coreVars, saveGhost,
                 smooth, ref, savedRef>>

\* Without main power and without a battery the chip forgets the time.
\* (A game without a clock never reads the chip, so neither this nor SetClock is
\* followed for one.)
LoseBattery ==
  /\ hasRtc /\ power = "off" /\ clock # CHIP_RESET
  /\ faults < MaxFaults /\ faults' = faults + 1
  /\ clock' = CHIP_RESET
  /\ moved' = (save # NoSave)
  /\ UNCHANGED <<power, hasRtc, now, osc, up, boots, gameVars, coreVars,
                 snap, quiet, save, fresh, bootAt, loadFault, clockGhost>>

\* What a reset finds: the RTC registers start at zero, the RAM is not
\* initialised, no local of a task is alive.
Reset ==
  /\ up' = 0 /\ done' = 0 /\ rtc' = 0 /\ halt' = FALSE /\ oldHalt' = FALSE
  /\ ram' = Filled(GARBAGE)
  /\ stamp' = 0 /\ regs' = NoRegs

\* Reset of the RP2350 up to the bootloader; main sets a clock that is behind the
\* build time and starts an oscillator that stands still, which zeroes the seconds
\* in the same register.
PowerOn ==
  /\ power = "off" /\ boots < MaxBoots
  /\ power' = "boot" /\ boots' = boots + 1
  /\ LET shown == IF BUILD_TIME > clock THEN BUILD_TIME ELSE clock
     IN  clock' = IF osc THEN shown ELSE shown - (shown % MINUTE)
  /\ osc' = TRUE
  /\ bootAt' = now
  /\ UNCHANGED <<hasRtc, now, up, faults, gameVars, coreVars, snap, quiet, save, fresh,
                 loadFault, moved, clockGhost>>

\* The RTC page of the bootloader sets the clock chip.  set_datetime clears the
\* oscillator's start bit and sets it again only if it found the oscillator
\* running; the mask it looks with, 20u8, picks the power-fail bit and a bit of
\* the weekday instead, so either may come out.
SetClock(t) ==
  /\ power = "boot" /\ hasRtc /\ clock # t
  /\ clock' = t
  /\ osc' \in BOOLEAN
  /\ moved' = (save # NoSave)
  /\ UNCHANGED <<power, hasRtc, now, up, boots, faults, gameVars, coreVars,
                 snap, quiet, save, fresh, bootAt, loadFault, clockGhost>>

\* Power is cut.  Of a file that is still open, the card keeps some prefix; what
\* was in the RP2350 is gone.
PowerOff ==
  /\ power # "off"
  /\ power' = "off" /\ c1' = "off"
  /\ \/ c1 \in {"off", "waitHigh", "waitLow", "open"} /\ UNCHANGED file
     \/ /\ c1 \in {"ram", "time", "regs", "rtc", "close"}
        /\ \E n \in 0..Len(file.ram) :
             file' = [file EXCEPT !.ram = SubSeq(@, 1, n), !.rtc = NoRtc]
     \/ c1 = "close" /\ UNCHANGED file
  /\ Reset
  /\ truth' = 0 /\ smooth' = FALSE /\ savedRef' = NoRef
  /\ snap' = NoSave /\ quiet' = FALSE /\ fresh' = FALSE /\ loadFault' = FALSE
  /\ UNCHANGED <<hasRtc, now, clock, osc, boots, faults, writes, save, bootAt, moved, ref>>

(***************************************************************************)
(* GbSavefile::load and its caller: an error of any kind zeroes the RAM.   *)
(***************************************************************************)
LoadStep ==
  /\ power = "boot"
  /\ power' = "loaded"
  /\ fresh' = TRUE
  /\ UNCHANGED <<hasRtc, now, clock, osc, up, boots, done, oldHalt, writes, coreVars,
                 snap, quiet, save, bootAt, moved>>

\* Bytes the file does not have stay as they were.
ReadRam == [i \in 1..NCells |-> IF i <= Len(file.ram) THEN file.ram[i] ELSE ram[i]]

\* Mutant: the registers also count the time since power-on.
TimeNow_IgnoresUptime == clock

\* timestamp_now: what the chip showed when the RP2350 started.
TimeNow == clock - up

RestoreRegs == rtc' = file.rtc.regs /\ halt' = file.rtc.halt

\* History of a load that leaves the clock at its start value.
ClockFromZero == truth' = up /\ smooth' = TRUE /\ UNCHANGED <<ref, savedRef>>

LoadNoFile ==
  /\ LoadStep
  /\ ~file.exists
  /\ ram' = Filled(0)
  /\ loadFault' = FALSE
  /\ ClockFromZero
  /\ UNCHANGED <<rtc, halt, faults>>

\* The card fails while the RAM part is read.
LoadReadError ==
  /\ LoadStep
  /\ file.exists /\ faults < MaxFaults /\ faults' = faults + 1
  /\ ram' = Filled(0)
  /\ loadFault' = TRUE
  /\ ClockFromZero
  /\ UNCHANGED <<rtc, halt>>

\* No clock, or a file without a complete clock part.
LoadRamOnly ==
  /\ LoadStep
  /\ file.exists /\ (hasRtc => file.rtc = NoRtc)
  /\ ram' = ReadRam
  /\ loadFault' = FALSE
  /\ ClockFromZero
  /\ UNCHANGED <<rtc, halt, faults>>

\* The clock chip gives no valid time: the registers are already restored.
LoadTimeError ==
  /\ LoadStep
  /\ hasRtc /\ file.rtc # NoRtc /\ faults < MaxFaults /\ faults' = faults + 1
  /\ RestoreRegs
  /\ ram' = Filled(0)
  /\ loadFault' = TRUE
  /\ smooth' = FALSE
  /\ UNCHANGED <<truth, ref, savedRef>>

\* SaveFileFromFuture: the chip is not ahead of the stamp.
LoadFromFuture ==
  /\ LoadStep
  /\ hasRtc /\ file.rtc # NoRtc
  /\ ~(TimeNow > file.rtc.stamp)
  /\ RestoreRegs
  /\ ram' = Filled(0)
  /\ loadFault' = FALSE
  /\ smooth' = FALSE
  /\ UNCHANGED <<truth, ref, savedRef, faults>>

\* advance_by_seconds by what the chip counted from the stamp to power-on.
LoadRtc ==
  /\ LoadStep
  /\ hasRtc /\ file.rtc # NoRtc
  /\ TimeNow > file.rtc.stamp
  /\ halt' = file.rtc.halt
  /\ rtc' = IF file.rtc.halt THEN file.rtc.regs ELSE file.rtc.regs + (TimeNow - file.rtc.stamp)
  /\ ram' = ReadRam
  /\ loadFault' = FALSE
  /\ truth' = IF file.rtc.halt THEN ref.truth ELSE ref.truth + (now - ref.at)
  /\ smooth' = (ref.smooth /\ clock - now = ref.offset)
  /\ UNCHANGED <<ref, savedRef, faults>>

(***************************************************************************)
(* The running game, and GbRtc::process in the loop of the MBC3.           *)
(***************************************************************************)
GameWrite(i) ==
  /\ power = "run" /\ writes < MaxWrites
  /\ writes' = writes + 1
  /\ ram' = [ram EXCEPT ![i] = writes + 1]
  /\ quiet' = FALSE /\ fresh' = FALSE
  /\ UNCHANGED <<machineVars, rtc, halt, done, oldHalt, coreVars, snap, save, bootAt,
                 loadFault, moved, clockGhost>>

\* The game sets its clock to zero.
GameSetRtc ==
  /\ power = "run" /\ hasRtc /\ writes < MaxWrites
  /\ writes' = writes + 1
  /\ rtc' = 0
  /\ truth' = Pending
  /\ UNCHANGED <<machineVars, ram, halt, done, oldHalt, coreVars, saveGhost,
                 smooth, ref, savedRef>>

\* The game halts or restarts its clock; seconds not counted yet are dropped.
GameHalt ==
  /\ power = "run" /\ hasRtc /\ writes < MaxWrites
  /\ writes' = writes + 1
  /\ halt' = ~halt
  /\ smooth' = (smooth /\ (up = done \/ oldHalt))
  /\ UNCHANGED <<machineVars, ram, rtc, done, oldHalt, coreVars, saveGhost,
                 truth, ref, savedRef>>

\* Mutant: a second is counted before it is over.
Count_OneEarly ==
  LET from == IF oldHalt /\ ~halt THEN up ELSE done
      counts == ~halt /\ up >= from
  IN  /\ oldHalt' = halt
      /\ done' = IF counts THEN from + 1 ELSE from
      /\ rtc' = IF counts THEN rtc + 1 ELSE rtc

\* GbRtc::process: one more second is counted if one is due.
Count ==
  LET from == IF oldHalt /\ ~halt THEN up ELSE done
      counts == ~halt /\ up > from
  IN  /\ oldHalt' = halt
      /\ done' = IF counts THEN from + 1 ELSE from
      /\ rtc' = IF counts THEN rtc + 1 ELSE rtc

Process ==
  /\ power = "run" /\ hasRtc
  /\ Count
  /\ UNCHANGED <<machineVars, ram, halt, writes, coreVars, saveGhost, clockGhost>>

\* The mapper is created (Mbc3::new processes the clock once), core 1 is started
\* and the Game Boy leaves reset.
StartMbc ==
  /\ power = "loaded"
  /\ power' = "run" /\ c1' = "waitHigh"
  /\ IF hasRtc THEN Count ELSE UNCHANGED <<oldHalt, done, rtc>>
  /\ UNCHANGED <<hasRtc, now, clock, osc, up, boots, faults, ram, halt, writes,
                 stamp, regs, file, saveGhost, clockGhost>>

(***************************************************************************)
(* core1_task: wait for a press, then GbSavefile::store, while the game    *)
(* goes on.                                                                *)
(***************************************************************************)
\* The level of the button pin is the player's choice: wait_for_high and
\* wait_for_low return when they see theirs.
WaitForHigh ==
  /\ c1 = "waitHigh"
  /\ c1' = "waitLow"
  /\ UNCHANGED <<machineVars, gameVars, stamp, regs, file, saveGhost, clockGhost>>

WaitForLow ==
  /\ c1 = "waitLow"
  /\ c1' = "open"
  /\ snap' = ram /\ quiet' = TRUE
  /\ UNCHANGED <<machineVars, gameVars, stamp, regs, file, save, fresh, bootAt,
                 loadFault, moved, clockGhost>>

\* ReadWriteCreateOrTruncate: the old save is gone.
StoreOpen ==
  /\ c1 = "open"
  /\ c1' = "ram"
  /\ file' = [exists |-> TRUE, ram |-> <<>>, rtc |-> NoRtc]
  /\ save' = NoSave /\ moved' = FALSE
  /\ UNCHANGED <<machineVars, gameVars, stamp, regs, snap, quiet, fresh, bootAt,
                 loadFault, clockGhost>>

\* Cells are copied one after the other from the RAM the game writes.
StoreRam ==
  /\ c1 = "ram"
  /\ file' = [file EXCEPT !.ram = Append(@, ram[Len(@) + 1])]
  /\ c1' = IF Len(file.ram) + 1 < NCells THEN "ram"
           ELSE IF hasRtc THEN "time" ELSE "close"
  /\ UNCHANGED <<machineVars, gameVars, stamp, regs, saveGhost, clockGhost>>

\* Mutant: the time since power-on is added to the stamp.
StoreTime_AddsUptime ==
  /\ c1 = "time"
  /\ stamp' = clock + up
  /\ c1' = "regs"
  /\ savedRef' = [truth |-> truth, at |-> now, offset |-> clock - now, smooth |-> smooth]
  /\ UNCHANGED <<machineVars, gameVars, regs, file, saveGhost, truth, smooth, ref>>

StoreTime ==
  /\ c1 = "time"
  /\ stamp' = clock
  /\ c1' = "regs"
  /\ savedRef' = [truth |-> truth, at |-> now, offset |-> clock - now, smooth |-> smooth]
  /\ UNCHANGED <<machineVars, gameVars, regs, file, saveGhost, truth, smooth, ref>>

\* retrieve_register_state under the mutex process takes too.
StoreRegs ==
  /\ c1 = "regs"
  /\ regs' = [regs |-> rtc, halt |-> halt]
  /\ c1' = "rtc"
  /\ savedRef' = [truth |-> truth, at |-> savedRef.at, offset |-> savedRef.offset,
                  smooth |-> smooth /\ Pending = 0 /\ savedRef.at = now]
  /\ UNCHANGED <<machineVars, gameVars, stamp, file, saveGhost, truth, smooth, ref>>

StoreRtc ==
  /\ c1 = "rtc"
  /\ file' = [file EXCEPT !.rtc = [regs |-> regs.regs, halt |-> regs.halt, stamp |-> stamp]]
  /\ c1' = "close"
  /\ stamp' = 0 /\ regs' = NoRegs
  /\ ref' = savedRef /\ savedRef' = NoRef
  /\ UNCHANGED <<machineVars, gameVars, saveGhost, truth, smooth>>

StoreClose ==
  /\ c1 = "close"
  /\ c1' = "waitHigh"
  /\ save' = IF quiet THEN snap ELSE NoSave
  /\ snap' = NoSave /\ quiet' = FALSE
  /\ UNCHANGED <<machineVars, gameVars, stamp, regs, file, fresh, bootAt,
                 loadFault, moved, clockGhost>>

\* A call of the card or the chip fails: store returns the error, the task logs
\* it and waits again.  The file is closed when it is dropped.
StoreError ==
  /\ c1 \in {"open", "ram", "time", "rtc", "close"}
  /\ faults < MaxFaults /\ faults' = faults + 1
  /\ c1' = "waitHigh"
  /\ stamp' = 0 /\ regs' = NoRegs
  /\ snap' = NoSave /\ quiet' = FALSE /\ savedRef' = NoRef
  /\ UNCHANGED <<power, hasRtc, now, clock, osc, up, boots, gameVars, file, save,
                 fresh, bootAt, loadFault, moved, truth, smooth, ref>>

Core1 ==
  \/ WaitForHigh \/ WaitForLow \/ StoreOpen \/ StoreRam \/ StoreTime
  \/ StoreRegs \/ StoreRtc \/ StoreClose \/ StoreError

Load ==
  \/ LoadNoFile \/ LoadReadError \/ LoadRamOnly \/ LoadTimeError
  \/ LoadFromFuture \/ LoadRtc

Next ==
  \/ Tick \/ LoseBattery \/ PowerOn \/ PowerOff
  \/ \E t \in SetTimes : SetClock(t)
  \/ Load \/ StartMbc
  \/ \E i \in 1..NCells : GameWrite(i)
  \/ GameSetRtc \/ GameHalt \/ Process
  \/ Core1

Spec == Init /\ [][Next]_vars

(***************************************************************************)
(* Properties.                                                             *)
(***************************************************************************)
Values == {GARBAGE} \cup 0..MaxWrites

\* Every variable keeps its type: the clock never counts a second that is not
\* over, core 1 works only while the game runs, and the file never holds more
\* than the RAM has.
TypeOK ==
  /\ power \in {"off", "boot", "loaded", "run"}
  /\ now \in 0..MaxNow /\ up \in 0..MaxNow /\ clock \in Int
  /\ ram \in [1..NCells -> Values]
  /\ rtc \in Int /\ done \in 0..up
  /\ c1 \in {"off", "waitHigh", "waitLow", "open", "ram", "time", "regs", "rtc", "close"}
  /\ c1 # "off" <=> power = "run"
  /\ Len(file.ram) <= NCells
  /\ \A i \in 1..Len(file.ram) : file.ram[i] \in Values

\* A save comes back: after a store that finished while the game wrote nothing,
\* the next game start finds the RAM as it was when the button was pressed,
\* through any number of power cycles, unless a card or chip call failed during
\* the load.  For a game with a clock this takes a clock chip that was not set
\* back, and a new second between the store and the next power-on
\* (GbSavefile::store, load and the fill(0) of the bootloader).
SaveComesBack ==
  /\ power \in {"loaded", "run"} /\ fresh /\ ~loadFault
  /\ save # NoSave
  /\ hasRtc => ref.at < bootAt /\ clock - now >= ref.offset
  => ram = save

\* The same for a clock chip that kept its battery and was not set since the
\* store: a save belongs to "a battery driven RTC on the cartridge which advances
\* the clock while the Gameboy is off", as the README says.
SaveComesBackByTheClock ==
  /\ power \in {"loaded", "run"} /\ fresh /\ ~loadFault
  /\ save # NoSave
  /\ hasRtc => ref.at < bootAt /\ ~moved
  => ram = save

\* The same without a condition on the clock chip: what the README says of saves
\* on the SD card ("the savegame is lost if the battery dies" is a con of the
\* original cartridges that this one does not have).
SaveOutlivesBattery ==
  /\ power \in {"loaded", "run"} /\ fresh /\ ~loadFault
  /\ save # NoSave
  /\ hasRtc => ref.at < bootAt
  => ram = save

\* The game's clock goes on as if it had never been off: what it shows, with the
\* seconds process has yet to count, is what it showed at the store plus the real
\* time since, minus the time halted, as long as no store or halt came before
\* process had caught up and the chip's clock was not moved in between.
ClockContinues ==
  power = "run" /\ hasRtc /\ smooth => rtc + Pending = truth

=============================================================================
