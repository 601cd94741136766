------------------------------ MODULE BootMenu ------------------------------
(***************************************************************************)
(* From power-on to a running game: main (main.rs), detect_boot_mode       *)
(* (stealth.rs), the integrity check (boot_integrity.rs), the clock chip   *)
(* (ClockChip), GbBootloader::run (gb_bootloader.rs) and the menu the Game *)
(* Boy executes meanwhile (gb-bootloader/bootloader.c).                    *)
(*                                                                         *)
(* The RP2350 and the Game Boy take turns at single steps.  They share the *)
(* reset line, the 16 KiB of ROM the bus answers from, the FIFO of writes  *)
(* to ROM addresses and cartridge RAM: two message numbers, the list of    *)
(* names and the area at 0xB000 that holds a name or a time.               *)
(***************************************************************************)
EXTENDS ClockChip, Sequences, SequencesExt

CONSTANTS
  Starts,         \* at power-on: the SD card [volume, entries], the clock chip's registers,
                  \* and how many of MaxPresses the player does not use
  BuiltTime,      \* BUILT_TIME_UTC
  Hashes,         \* outcomes of verify_firmware_integrity in builds of interest
  PageRows,       \* MAX_GAMES_RENDER_NUM (16)
  IdMod,          \* values of a message number (256)
  MaxPresses,     \* bound on the changes of a time field
  MaxFaults       \* bound on failing calls of the card and the chip

NONE == "none"
MENU == <<"menu", 0>>
WALLET == <<"wallet", 0>>

\* Entries of a card. A file system names no two files alike; no ROM file is empty, and
\* none has the name of what else the areas of ROM may hold.
Entries == [name : STRING \ {NONE, MENU[1], WALLET[1]}, isRom : BOOLEAN, banks : Nat,
            mbc : Byte, ram : Byte]
IsCard(c) ==
  /\ c.volume \in BOOLEAN /\ c.entries \in Seq(Entries)
  /\ \A e \in Range(c.entries) : e.isRom => e.banks > 0
  /\ \A d, e \in Range(c.entries) : d.name = e.name => d = e

ASSUME BootMenuAssumption ==
  /\ Settable(BuiltTime) /\ IsDateTime(BuiltTime)
  /\ \A s \in Starts : IsCard(s.card) /\ s.chip \in Chips /\ s.unused \in 0..MaxPresses
  /\ Hashes \subseteq {"Valid", "Invalid", "NotConfigured"}
  /\ PageRows \in Nat \ {0} /\ IdMod \in Nat \ {0, 1, 2} /\ {MaxPresses, MaxFaults} \subseteq Nat

VARIABLES
  card, hash,                 \* what is inserted (never changes); the status of the integrity check
  rp, panic,                  \* step the RP2350 is at; what it panicked for
  line,                       \* reset line: "high" holds the Game Boy
  served, rom,                \* area bank0_base_addr_ptr points to; contents of the areas
  hyper, loaded,              \* banks in HyperRAM; shared_data.loaded_banks
  fifo,                       \* rx_fifo: writes to ROM addresses
  idGb, idRp, list, area,     \* cartridge RAM in the menu's layout
  saveRam,                    \* cartridge RAM as the game finds it
  chip, faults,
  mapper, core1,              \* chosen controller; whether the save task runs
  gb,                         \* what the Game Boy executes
  cursor, page,               \* gLastSelectedGame, gLastSelectedGamePage
  real_rtc, presses,          \* time on the screen; changes made to it
  wanted, lastSet             \* history: the game the player saw selected, the last time set

rpVars == <<rp, panic>>
memVars == <<served, rom, hyper, loaded, saveRam, mapper, core1>>
msgVars == <<idGb, idRp, area, fifo>>
gbVars == <<gb, cursor, page, real_rtc, presses, wanted, lastSet>>
fixed == <<card, hash>>
vars == <<fixed, rpVars, line, memVars, msgVars, list, chip, faults, gbVars>>

EMPTY == <<NONE, 0>>
ZEROS == <<"zeros", 0>>
Areas == 0..2                       \* of gb_rom_memory: bank 0, the menu, the bank being copied
CMD == 24576                        \* 0x6000
START == 42
RTC_READ == 12
RTC_WRITE == 13

(***************************************************************************)
(* Times as the two sides exchange them: years from 1970, months and days  *)
(* from zero, each in a byte.                                              *)
(***************************************************************************)
TimePoints == [year : 0..255, month : 0..255, day : 0..255, hour : 0..255, minute : 0..255]
NoTime == [year |-> 0, month |-> 0, day |-> 0, hour |-> 0, minute |-> 0]
Unset == [NoTime EXCEPT !.year = 256]
Fields == DOMAIN NoTime

\* What the area at 0xB000 holds: a name or a time, one over the other.
Timed(tp) == [name |-> NONE, time |-> tp]
Text(name) == [name |-> name, time |-> NoTime]
Blank == Text(NONE)

toTimePoint(t) == [year |-> (t.year - 1970) % 256, month |-> t.month - 1, day |-> t.date - 1,
                   hour |-> t.hour, minute |-> t.minute]
fromTimePoint(tp) == [year |-> tp.year + 1970, month |-> tp.month + 1, date |-> tp.day + 1,
                      hour |-> tp.hour, minute |-> tp.minute]

LowerOf(a, b) == IF a < b THEN a ELSE b

\* Mutant: February has 29 days.
maxDay_NoLeapRule(tp) ==
  IF tp.month = 1 THEN 28
  ELSE IF (tp.month < 7 /\ tp.month % 2 = 1) \/ (tp.month >= 7 /\ tp.month % 2 = 0)
       THEN 29 ELSE 30

\* sanitizeRTCReal counts the days of a month for itself.
maxDay(tp) ==
  LET year == 1970 + tp.year
  IN  IF tp.month = 1
      THEN IF year % 4 = 0 /\ (year % 100 # 0 \/ year % 400 = 0) THEN 28 ELSE 27
      ELSE IF (tp.month < 7 /\ tp.month % 2 = 1) \/ (tp.month >= 7 /\ tp.month % 2 = 0)
           THEN 29 ELSE 30

sanitizeRTCReal(tp) ==
  LET month == LowerOf(tp.month, 11)
  IN  [tp EXCEPT !.month = month, !.day = LowerOf(@, maxDay([tp EXCEPT !.month = month])),
                 !.hour = LowerOf(@, 23), !.minute = LowerOf(@, 59)]

\* A field that sanitizing holds at its largest value starts over.
FieldUp(tp, field) ==
  LET oldval == (tp[field] + 1) % 256
      new == sanitizeRTCReal([tp EXCEPT ![field] = oldval])
  IN  IF new[field] = oldval - 1 THEN [new EXCEPT ![field] = 0] ELSE new
FieldDown(tp, field) == sanitizeRTCReal([tp EXCEPT ![field] = (@ - 1) % 256])

(***************************************************************************)
(* Files.  An entry of the card has a name, whether its extension is GB or *)
(* GBC, its length in banks and three bytes of its header.                 *)
(***************************************************************************)
Named(name) == CHOOSE e \in Range(card.entries) : e.name = name

\* What iterate_dir puts in the list, the n-th game at n; num_roms counts the same entries.
Roms == {i \in DOMAIN card.entries : card.entries[i].isRom}
RomsUpTo(i) == {j \in Roms : j <= i}
RomNames == [n \in 1..Cardinality(Roms) |->
               card.entries[CHOOSE i \in Roms : Cardinality(RomsUpTo(i)) = n].name]

MbcOf(code) == CASE code = 0 -> "None"
                 [] code \in 1..3 -> "Mbc1"
                 [] code \in 5..7 -> "Mbc2"
                 [] code \in 15..19 -> "Mbc3"
                 [] code \in 25..30 -> "Mbc5"
                 [] OTHER -> NONE
RamBanks(value) == <<0, 0, 1, 4, 16, 8>>[value + 1]

\* RomInfo::from_rom_bytes; None and an index out of bounds both panic.
BadHeader(e) == MbcOf(e.mbc) = NONE \/ e.ram > 5
RomInfo(e) == [mbc |-> MbcOf(e.mbc), has_rtc |-> e.mbc \in {15, 16}, ram_bank_count |-> RamBanks(e.ram)]

\* Rows the menu shows, and the one highlighted: row gCursor - gPageCursor.
Shown == SubSeq(RomNames, page + 1, LowerOf(page + PageRows, Len(RomNames)))
Highlighted == IF (cursor - page) + 1 \in DOMAIN Shown THEN Shown[(cursor - page) + 1] ELSE NONE

-----------------------------------------------------------------------------
Init ==
  /\ \E s \in Starts : card = s.card /\ chip = s.chip /\ presses = s.unused
  /\ hash = NONE
  /\ rp = "detect" /\ panic = NONE /\ line = "high"
  /\ served = 0 /\ rom = [a \in Areas |-> EMPTY] /\ hyper = <<>> /\ loaded = 0
  /\ fifo = <<>> /\ idGb = 0 /\ idRp = 0 /\ list = <<>> /\ area = Blank
  /\ saveRam = EMPTY /\ faults = 0 /\ mapper = NONE /\ core1 = "off"
  /\ gb = "held" /\ cursor = 0 /\ page = 0 /\ real_rtc = NoTime
  /\ wanted = NONE /\ lastSet = Unset

Goto(from, to) == rp = from /\ rp' = to /\ UNCHANGED panic
Panic(why) == rp' = "panic" /\ panic' = why
MayFail == faults < MaxFaults /\ faults' = faults + 1

(***************************************************************************)
(* Power-on.                                                               *)
(***************************************************************************)

\* The button is sampled twice, two seconds apart.
Detect ==
  /\ \E first, second \in BOOLEAN :
       Goto("detect", IF first /\ second THEN "integrity" ELSE "clock")
  /\ UNCHANGED <<fixed, line, memVars, msgVars, list, chip, faults, gbVars>>

\* Each outcome of the check is logged; each goes on to the wallet.
Integrity ==
  /\ Goto("integrity", "load wallet") /\ hash' \in Hashes
  /\ UNCHANGED <<card, line, memVars, msgVars, list, chip, faults, gbVars>>

LoadWallet ==
  /\ Goto("load wallet", "wallet")
  /\ rom' = [a \in Areas |-> IF a \in {0, 1} THEN WALLET ELSE EMPTY]
  /\ UNCHANGED <<fixed, line, served, hyper, loaded, saveRam, mapper, core1, msgVars, list,
                 chip, faults, gbVars>>

\* A failed call of the chip is unwrapped.
StartClock ==
  /\ rp = "clock"
  /\ \/ Goto("clock", "list") /\ chip' = StartUp(chip, BuiltTime) /\ UNCHANGED faults
     \/ MayFail /\ Panic("chip") /\ UNCHANGED chip
  /\ UNCHANGED <<fixed, line, memVars, msgVars, list, gbVars>>

(***************************************************************************)
(* GbBootloader::run.                                                      *)
(***************************************************************************)

\* The menu goes to its area, RAM is cleared, the names are listed (none
\* without a volume) and the Game Boy is let go.
ListGames ==
  /\ Goto("list", "serve")
  /\ rom' = [rom EXCEPT ![1] = MENU] /\ served' = 1
  /\ idGb' = 0 /\ idRp' = 0 /\ area' = Blank
  /\ list' = IF card.volume THEN RomNames ELSE <<>>
  /\ line' = "low"
  /\ UNCHANGED <<fixed, hyper, loaded, saveRam, mapper, core1, fifo, chip, faults, gbVars>>

Command(data) == fifo # <<>> /\ Head(fifo) = <<CMD, data>> /\ fifo' = Tail(fifo)

\* 0x0c: the answer is written, then acknowledged.  A failed call reads as the epoch.
ReadTime ==
  /\ Goto("serve", "acknowledge") /\ Command(RTC_READ)
  /\ \/ area' = Timed(toTimePoint(datetimeOrDefault(chip))) /\ UNCHANGED faults
     \/ MayFail /\ area' = Timed(toTimePoint(Epoch))
  /\ UNCHANGED <<fixed, line, memVars, idGb, idRp, list, chip, gbVars>>

\* 0x0d: a date that does not exist is acknowledged like one that is set; a
\* year the chip cannot hold, and a failed call, are unwrapped.
WriteTime ==
  LET t == fromTimePoint(area.time)
  IN  /\ rp = "serve" /\ Command(RTC_WRITE)
      /\ \/ ~IsDateTime(t) /\ Goto("serve", "acknowledge") /\ UNCHANGED <<chip, faults>>
         \/ /\ IsDateTime(t) /\ Settable(t)
            /\ Goto("serve", "acknowledge") /\ chip' = set_datetime(chip, t) /\ UNCHANGED faults
         \/ IsDateTime(t) /\ ~Settable(t) /\ Panic("year") /\ UNCHANGED <<chip, faults>>
         \/ IsDateTime(t) /\ Settable(t) /\ MayFail /\ Panic("chip") /\ UNCHANGED chip
      /\ UNCHANGED <<fixed, line, memVars, idGb, idRp, area, list, gbVars>>

\* Mutant: the RP2350 counts for itself.
Acknowledge_Counts ==
  /\ Goto("acknowledge", "serve") /\ idRp' = (idRp + 1) % IdMod
  /\ UNCHANGED <<fixed, line, memVars, idGb, area, fifo, list, chip, faults, gbVars>>

Acknowledge ==
  /\ Goto("acknowledge", "serve") /\ idRp' = idGb
  /\ UNCHANGED <<fixed, line, memVars, idGb, area, fifo, list, chip, faults, gbVars>>

\* Writes to other ROM addresses are taken from the FIFO and forgotten.
IgnoreWrite ==
  /\ rp = "serve" /\ fifo # <<>> /\ Head(fifo)[1] # CMD /\ fifo' = Tail(fifo)
  /\ UNCHANGED <<fixed, rpVars, line, memVars, idGb, idRp, area, list, chip, faults, gbVars>>

\* 42: leave the loop, open the file the name in RAM says and read bank 0;
\* everything that fails is unwrapped.
OpenGame ==
  /\ rp = "serve" /\ Command(START)
  /\ \/ /\ card.volume /\ ~BadHeader(Named(area.name)) /\ Goto("serve", "load")
        /\ rom' = [rom EXCEPT ![0] = <<area.name, 0>>] /\ loaded' = 1 /\ UNCHANGED faults
     \/ /\ card.volume /\ BadHeader(Named(area.name)) /\ Panic("header")
        /\ rom' = [rom EXCEPT ![0] = <<area.name, 0>>] /\ UNCHANGED <<loaded, faults>>
     \/ MayFail /\ Panic("card") /\ UNCHANGED <<rom, loaded>>
  /\ UNCHANGED <<fixed, line, served, hyper, saveRam, mapper, core1, idGb, idRp, area, list,
                 chip, gbVars>>

\* Mutant: the last bank stays behind.
MoreBanks_OneShort == loaded + 1 < Named(area.name).banks

\* addr < rom_length, in banks
MoreBanks == loaded < Named(area.name).banks

\* A bank passes through the third area into HyperRAM.
LoadBank ==
  /\ rp = "load" /\ MoreBanks
  /\ \/ /\ rom' = [rom EXCEPT ![2] = <<area.name, loaded>>]
        /\ hyper' = Append(hyper, <<area.name, loaded>>) /\ loaded' = loaded + 1
        /\ UNCHANGED <<rpVars, faults>>
     \/ MayFail /\ Panic("card") /\ UNCHANGED <<rom, hyper, loaded>>
  /\ UNCHANGED <<fixed, line, served, saveRam, mapper, core1, msgVars, list, chip, gbVars>>

\* Mutant: the Game Boy is not held.
HoldGameBoy_Late ==
  /\ Goto("load", "switch") /\ ~MoreBanks
  /\ UNCHANGED <<fixed, line, memVars, msgVars, list, chip, faults, gbVars>>

HoldGameBoy ==
  /\ Goto("load", "switch") /\ ~MoreBanks /\ line' = "high" /\ gb' = "held"
  /\ UNCHANGED <<fixed, memVars, msgVars, list, chip, faults, cursor, page, real_rtc, presses,
                 wanted, lastSet>>

SwitchBank0 ==
  /\ Goto("switch", "restore") /\ served' = 0
  /\ UNCHANGED <<fixed, line, rom, hyper, loaded, saveRam, mapper, core1, msgVars, list, chip,
                 faults, gbVars>>

\* Saved RAM, or zeros where load fails; nothing where the game has none.
RestoreSave ==
  /\ Goto("restore", "mapper")
  /\ IF RomInfo(Named(area.name)).ram_bank_count = 0 THEN UNCHANGED saveRam
     ELSE saveRam' \in {<<area.name, 0>>, ZEROS}
  /\ UNCHANGED <<fixed, line, served, rom, hyper, loaded, mapper, core1, msgVars, list, chip,
                 faults, gbVars>>

(***************************************************************************)
(* main again: RAM is disabled and the controller chosen, the save task    *)
(* started for games that have something to save, HyperRAM put on the bus, *)
(* and the Game Boy let go.                                                *)
(***************************************************************************)
ChooseMapper ==
  LET info == RomInfo(Named(area.name))
  IN  /\ rp = "mapper"
      /\ \/ /\ info.mbc # "Mbc2" /\ Goto("mapper", "release") /\ mapper' = info.mbc
            /\ core1' = IF info.ram_bank_count > 0 \/ info.has_rtc THEN "saving" ELSE "off"
         \/ info.mbc = "Mbc2" /\ Panic("unimplemented") /\ UNCHANGED <<mapper, core1>>
      /\ UNCHANGED <<fixed, line, served, rom, hyper, loaded, saveRam, msgVars, list, chip,
                     faults, gbVars>>

ReleaseGame ==
  /\ Goto("release", "game") /\ line' = "low"
  /\ UNCHANGED <<fixed, memVars, msgVars, list, chip, faults, gbVars>>

RpStep == \/ Detect \/ Integrity \/ LoadWallet \/ StartClock \/ ListGames
          \/ ReadTime \/ WriteTime \/ Acknowledge \/ IgnoreWrite \/ OpenGame
          \/ LoadBank \/ HoldGameBoy \/ SwitchBank0 \/ RestoreSave \/ ChooseMapper \/ ReleaseGame

-----------------------------------------------------------------------------
(***************************************************************************)
(* The menu (bootloader.c).  Of the screens the games, the settings and    *)
(* the time are modelled; the other two change nothing.  The cursor of the *)
(* settings is a free choice.                                              *)
(***************************************************************************)
Screen(from, to) == line = "low" /\ gb = from /\ gb' = to
ToRp(addr, data) == fifo' = Append(fifo, <<addr, data>>)
cursorVars == <<cursor, page>>
timeVars == <<real_rtc, presses, lastSet>>
others == <<fixed, rpVars, line, memVars, idRp, list, chip, faults>>

\* Out of reset, the Game Boy runs what bank 0 holds; the menu enables RAM
\* (a write to a ROM address) and sets its message number.
GbStart ==
  /\ line = "low" /\ gb = "held"
  /\ IF rom[served] = MENU
     THEN gb' = "games" /\ ToRp(0, 10) /\ idGb' = 1 /\ area' = Blank
     ELSE gb' = "game" /\ UNCHANGED <<fifo, idGb, area>>
  /\ UNCHANGED <<others, cursorVars, timeVars, wanted>>

\* moveCursor(limit): one row, or PageRows of them where there are more than a page.
CursorUp ==
  /\ cursor > 0 /\ cursor' = cursor - 1
  /\ page' = IF cursor - 1 < page THEN page - 1 ELSE page
\* Mutant: one entry too far.
CursorDown_NoEnd(limit) ==
  /\ cursor < limit /\ cursor' = cursor + 1
  /\ page' = IF cursor + 1 > page + PageRows - 1 THEN page + 1 ELSE page

CursorDown(limit) ==
  /\ cursor < limit - 1 /\ cursor' = cursor + 1
  /\ page' = IF cursor + 1 > page + PageRows - 1 THEN page + 1 ELSE page
PageUp(limit) ==
  /\ limit > PageRows /\ cursor > 0
  /\ cursor' = IF cursor >= PageRows THEN cursor - PageRows ELSE 0
  /\ page' = IF page >= PageRows THEN page - PageRows ELSE 0
PageDown(limit) ==
  /\ limit > PageRows /\ cursor < limit - 1
  /\ cursor' = IF cursor + PageRows < limit THEN cursor + PageRows ELSE limit - 1
  /\ page' = IF page + 2 * PageRows < limit THEN page + PageRows ELSE limit - PageRows

MoveCursor ==
  /\ Screen("games", "games")
  /\ CursorUp \/ CursorDown(Len(list)) \/ PageUp(Len(list)) \/ PageDown(Len(list))
  /\ UNCHANGED <<others, msgVars, timeVars, wanted>>

\* startGame: the name under the cursor goes to 0xB000, no answer is awaited.
StartGame ==
  /\ Screen("games", "loading") /\ list # <<>>
  /\ area' = Text(list[cursor + 1]) /\ wanted' = Highlighted /\ ToRp(CMD, START)
  /\ UNCHANGED <<others, idGb, cursorVars, timeVars>>

OpenSettings ==
  /\ Screen("games", "settings")
  /\ UNCHANGED <<others, msgVars, cursorVars, timeVars, wanted>>
CloseSettings ==
  /\ Screen("settings", "games")
  /\ UNCHANGED <<others, msgVars, cursorVars, timeVars, wanted>>

\* runCommandAndWait counts the message, then writes the command ...
OpenTime ==
  /\ Screen("settings", "ask read") /\ idGb' = (idGb + 1) % IdMod
  /\ UNCHANGED <<others, area, fifo, cursorVars, timeVars, wanted>>
SetTime ==
  /\ Screen("time", "ask write") /\ idGb' = (idGb + 1) % IdMod
  /\ area' = Timed(real_rtc) /\ lastSet' = real_rtc
  /\ UNCHANGED <<others, fifo, cursorVars, real_rtc, presses, wanted>>
SendCommand ==
  /\ \/ Screen("ask read", "wait read") /\ ToRp(CMD, RTC_READ)
     \/ Screen("ask write", "wait write") /\ ToRp(CMD, RTC_WRITE)
  /\ UNCHANGED <<others, idGb, area, cursorVars, timeVars, wanted>>
\* ... and waits for its number to come back.
TimeRead ==
  /\ Screen("wait read", "time") /\ idGb = idRp
  /\ real_rtc' = area.time
  /\ UNCHANGED <<others, msgVars, cursorVars, presses, lastSet, wanted>>
TimeWritten ==
  /\ Screen("wait write", "settings") /\ idGb = idRp
  /\ UNCHANGED <<others, msgVars, cursorVars, timeVars, wanted>>

ChangeTime ==
  /\ Screen("time", "time") /\ presses < MaxPresses /\ presses' = presses + 1
  /\ \E field \in Fields : \/ real_rtc' = FieldUp(real_rtc, field)
                          \/ real_rtc' = FieldDown(real_rtc, field)
  /\ UNCHANGED <<others, msgVars, cursorVars, lastSet, wanted>>
LeaveTime ==
  /\ Screen("time", "settings")
  /\ UNCHANGED <<others, msgVars, cursorVars, timeVars, wanted>>

Player == \/ MoveCursor \/ StartGame \/ OpenSettings \/ CloseSettings
          \/ OpenTime \/ SetTime \/ ChangeTime \/ LeaveTime
GbStep == GbStart \/ SendCommand \/ TimeRead \/ TimeWritten

Next == RpStep \/ GbStep \/ Player
Spec == Init /\ [][Next]_vars

\* The executor runs the loop and the Game Boy its code; the player need do nothing.
Fairness == WF_vars(RpStep) /\ WF_vars(GbStep)
FairSpec == Spec /\ Fairness

-----------------------------------------------------------------------------
(***************************************************************************)
(* Properties.                                                             *)
(***************************************************************************)
Contents == {EMPTY, MENU, WALLET} \cup {<<e.name, b>> : e \in Range(card.entries), b \in 0..loaded}
AreaTypeOK == /\ area.name \in {NONE} \cup Range(list)
              /\ area.time \in TimePoints

\* Types; the cursor stands on an entry of the list and on the page shown.
TypeOK ==
  /\ hash \in Hashes \cup {NONE}
  /\ rp \in {"detect", "integrity", "load wallet", "wallet", "clock", "list", "serve",
             "acknowledge", "load", "switch", "restore", "mapper", "release", "game", "panic"}
  /\ panic \in {NONE, "chip", "year", "card", "header", "unimplemented"}
  /\ line \in {"high", "low"} /\ served \in Areas
  /\ \A a \in Areas : rom[a] \in Contents
  /\ chip \in Chips /\ faults \in 0..MaxFaults
  /\ {idGb, idRp} \subseteq 0..IdMod - 1 /\ AreaTypeOK
  /\ gb \in {"held", "games", "settings", "time", "ask read", "wait read", "ask write",
             "wait write", "loading", "game"}
  /\ list = <<>> \/ cursor \in 0..Len(list) - 1
  /\ cursor - page \in 0..PageRows - 1
  /\ real_rtc \in TimePoints /\ presses \in 0..MaxPresses

\* A running game is the one the player saw highlighted when starting it,
\* with every bank of its file in place, RAM holding its own save or zeros,
\* and its controller listening: the list, the name left in RAM, the copy
\* loop and the switch while the Game Boy is held fit together.
GameRunsWhole ==
  gb = "game" =>
    LET e == Named(wanted)
    IN  /\ rom[served] = <<wanted, 0>> /\ loaded = e.banks
        /\ \A b \in 1..e.banks - 1 : hyper[b] = <<wanted, b>>
        /\ mapper = RomInfo(e).mbc
        /\ RomInfo(e).ram_bank_count > 0 => saveRam \in {<<wanted, 0>>, ZEROS}

\* What the Game Boy executes never changes under it: while the reset line is
\* low, neither the pointer to bank 0 nor the area it points to is written,
\* however long a game loads and whatever fails meanwhile.
RunningCodeIsStill ==
  [][line = "low" /\ line' = "low" => served' = served /\ rom'[served] = rom[served]]_vars

\* A time set in the menu is the time the menu reads back (time that passes in
\* between left out): leap years, months of thirty days and the limits of the
\* fields agree between the menu, chrono and the chip.  Only a failed call of
\* the chip shows 1970 instead.
TimeComesBack ==
  [][TimeRead /\ lastSet # Unset =>
       real_rtc' = lastSet \/ (faults > 0 /\ real_rtc' = toTimePoint(Epoch))]_vars

\* A menu that waits for its message number gets it, unless setting a year
\* outside 2000..2099 or a failing chip has made the RP2350 panic.
MenuAnswers ==
  gb \in {"wait read", "wait write"} ~>
    (gb \notin {"wait read", "wait write"} \/ panic \in {"year", "chip"})

\* "if it was running before enable it again" (mcp795xx.rs:326): main has
\* started the clock, and setting the time leaves it running.
ClockKeepsRunning == rp = "serve" => chip.st

\* "If the hash mismatches, the wallet mode is disabled" (boot_integrity.rs:4).
IntegrityGuardsWallet == rp = "wallet" => hash # "Invalid"
=============================================================================
