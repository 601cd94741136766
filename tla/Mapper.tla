------------------------------- MODULE Mapper -------------------------------
(***************************************************************************)
(* The memory bank controllers of gb_mbc.rs.  A write of the game below    *)
(* 0x8000 is pushed by the PIO program gameboy_mbc_commands as two words,  *)
(* address and data; core 0 pulls them and changes the pointers the DMA    *)
(* channels fetch banks and command lists through.  A game access may come *)
(* between any two of those pointer writes.                                *)
(*                                                                         *)
(* Addresses are their top nibble, banks and registers their numbers, and  *)
(* a pointer is the bank, command list or register it selects.             *)
(***************************************************************************)
EXTENDS Integers, Sequences

CONSTANTS
  Mappers,         \* mappers played: a subset of AllMappers
  Writes,          \* writes of the game: pairs of address nibble and byte
  MaxWrites        \* bound: writes of the game

AllMappers == {"Mbc1", "Mbc3", "Mbc5"}

ASSUME InputAssumption ==
  /\ Mappers \subseteq AllMappers /\ MaxWrites \in Nat
  /\ Writes \subseteq (0..7) \X (0..255)

VARIABLES
  mbc,             \* RomInfo.mbc
  fifo,            \* RX FIFO of the state machine: words not pulled yet
  addr,            \* run: the address word, or NoAddr while it waits for one
  loc,             \* run: the other locals
  todo,            \* run: pointer writes of the current command still to be made
  rom, ram,        \* current_rom_bank_pointer, current_ram_bank_pointer, as banks
  readCmd, writeCmd,   \* current_ram_read_command, current_ram_write_commands
  rtcReg,          \* latch_ptr and real_ptr of GbRtc, as a register number
  latches,         \* calls of trigger_latch
  sel,             \* history: the last byte written for each selection
  sent             \* writes made by the game

vars == <<mbc, fifo, addr, loc, todo, rom, ram, readCmd, writeCmd, rtcReg, latches, sel, sent>>

NoAddr == -1
NoReg == -1
FIFO_WORDS == 4

\* rom_bank, rom_bank_new, rom_bank_low, rom_bank_high, mode, ram_bank,
\* ram_enabled and rtc_latch; a mapper uses those it declares.
InitLoc == [bank |-> 1, new |-> 1, low |-> 1, high |-> 0, mode |-> 0,
            ram |-> 1, enabled |-> FALSE, latch |-> FALSE]

NoSel == [en |-> 0, low |-> 1, high |-> 0, mode |-> 0, ram |-> 0, page |-> 0,
          other |-> FALSE, rtc |-> NoReg, odd |-> FALSE, latch |-> 0, edges |-> 0]

\* main: banks as loaded, disable_ram_access, then Mbc*::run.
Init ==
  /\ mbc \in Mappers
  /\ fifo = <<>> /\ addr = NoAddr /\ loc = InitLoc /\ todo = <<>>
  /\ rom = 1 /\ ram = 0 /\ readCmd = "none" /\ writeCmd = "none"
  /\ rtcReg = NoReg /\ latches = 0
  /\ sel = NoSel /\ sent = 0

(***************************************************************************)
(* The game writes; the FIFO has room for it (a full one would make the    *)
(* PIO program sample the data late).                                      *)
(***************************************************************************)
GbWrite(w) ==
  /\ sent < MaxWrites
  /\ Len(fifo) + 2 <= FIFO_WORDS
  /\ fifo' = fifo \o <<w[1], w[2]>>
  /\ sent' = sent + 1
  /\ UNCHANGED <<mbc, addr, loc, todo, rom, ram, readCmd, writeCmd, rtcReg, latches, sel>>

PullAddr ==
  /\ addr = NoAddr /\ todo = <<>> /\ fifo # <<>>
  /\ addr' = Head(fifo) /\ fifo' = Tail(fifo)
  /\ UNCHANGED <<mbc, loc, todo, rom, ram, readCmd, writeCmd, rtcReg, latches, sel, sent>>

(***************************************************************************)
(* The handlers: new locals, and the pointer writes in program order.      *)
(***************************************************************************)
Set(ptr, value) == <<[ptr |-> ptr, value |-> value]>>
Access(kind) == Set("read", kind) \o Set("write", kind)
Nothing == <<>>

IsEnable(d) == d % 16 = 10
NotZero(n) == IF n = 0 THEN 1 ELSE n
IsRtc(d) == (d \div 8) % 2 = 1

\* The ROM pointer is written when the bank differs from the one cached.
RomSwitch(new) == IF loc.bank # new THEN Set("rom", new) ELSE Nothing

Mbc1Command(r, d) ==
  LET mode == IF r = 6 THEN d % 2 ELSE loc.mode
      low == IF r = 2 THEN NotZero(d % 32) ELSE loc.low
      high == IF r = 4 /\ loc.mode = 0 THEN d % 4 ELSE loc.high
      new == (IF mode = 0 THEN high * 32 + low ELSE low) % 64
  IN  /\ loc' = [loc EXCEPT !.mode = mode, !.low = low, !.high = high, !.bank = new]
      /\ todo' = (CASE r = 0 -> Access(IF IsEnable(d) THEN "ram" ELSE "none")
                    [] r = 4 /\ loc.mode # 0 -> Set("ram", d % 4)
                    [] OTHER -> Nothing)
                 \o RomSwitch(new)
      /\ UNCHANGED latches

\* Mutant: any three-bit number is taken for a register.
Activate_AnyNumber(n) == Set("rtcReg", n)

\* activate_register does nothing for a number that is no register.
Activate(n) == IF n < 5 THEN Set("rtcReg", n) ELSE Nothing

\* Mutant: access is switched before the pointer behind it.
Mbc3Select_AccessFirst(d) ==
  IF IsRtc(d)
    THEN (IF loc.enabled THEN Access("rtc") ELSE Nothing) \o Activate(d % 8)
    ELSE (IF loc.enabled THEN Access("ram") ELSE Nothing) \o Set("ram", d % 8)

\* Mutant: the RAM bank is masked to four banks.
Mbc3Select_FourBanks(d) ==
  IF IsRtc(d)
    THEN Activate(d % 8) \o (IF loc.enabled THEN Access("rtc") ELSE Nothing)
    ELSE Set("ram", d % 4) \o (IF loc.enabled THEN Access("ram") ELSE Nothing)

Mbc3Select(d) ==
  IF IsRtc(d)
    THEN Activate(d % 8) \o (IF loc.enabled THEN Access("rtc") ELSE Nothing)
    ELSE Set("ram", d % 8) \o (IF loc.enabled THEN Access("ram") ELSE Nothing)

\* Mutant: enabling always opens the RAM, whatever is selected.
Mbc3Enable_ForgetsRtc(d) == Access(IF IsEnable(d) THEN "ram" ELSE "none")

Mbc3Enable(d) ==
  Access(IF ~IsEnable(d) THEN "none" ELSE IF IsRtc(loc.ram) THEN "rtc" ELSE "ram")

\* Mutant: every write of a non-zero byte latches.
LatchDue_Always(d) == d # 0

\* trigger_latch on the first non-zero byte after a zero.
LatchDue(d) == d # 0 /\ ~loc.latch

Mbc3Command(r, d) ==
  LET new == IF r = 2 THEN NotZero(d % 128) ELSE loc.new
  IN  /\ loc' = [loc EXCEPT !.new = new, !.bank = new,
                            !.enabled = IF r = 0 THEN IsEnable(d) ELSE @,
                            !.ram = IF r = 4 THEN d ELSE @,
                            !.latch = IF r = 6 THEN d # 0 ELSE @]
      /\ todo' = (CASE r = 0 -> Mbc3Enable(d)
                    [] r = 4 -> Mbc3Select(d)
                    [] OTHER -> Nothing)
                 \o RomSwitch(new)
      /\ latches' = IF r = 6 /\ LatchDue(d) THEN latches + 1 ELSE latches

\* Mutant: the ninth bit of the bank is lost with the next write of the low byte.
Mbc5Bank_DropsHigh(a, d) ==
  CASE a = 2 -> d
    [] a = 3 -> ((d % 2) * 256) + (loc.bank % 256)
    [] OTHER -> loc.new

Mbc5Bank(a, d) ==
  CASE a = 2 -> (loc.bank \div 256) * 256 + d
    [] a = 3 -> ((d % 2) * 256) + (loc.bank % 256)
    [] OTHER -> loc.new

\* The RAM pointer is masked to four banks and written when the number differs
\* from the one cached, which starts at 1.
Mbc5Command(a, d) ==
  LET new == Mbc5Bank(a, d)
      bank == IF a = 4 THEN d % 16 ELSE loc.ram
  IN  /\ loc' = [loc EXCEPT !.new = new, !.bank = new, !.ram = bank]
      /\ todo' = (IF a \in {0, 1} THEN Access(IF IsEnable(d) THEN "ram" ELSE "none")
                                  ELSE Nothing)
                 \o RomSwitch(new)
                 \o (IF loc.ram # bank THEN Set("ram", bank % 4) ELSE Nothing)
      /\ UNCHANGED latches

(***************************************************************************)
(* History of the selections: what the game last wrote, whatever the       *)
(* mapper made of it.                                                      *)
(***************************************************************************)
Note(a, r, d) ==
  sel' = [sel EXCEPT
    !.en = IF r = 0 THEN d ELSE @,
    !.low = IF r = 2 /\ (mbc = "Mbc5" => a = 2) THEN d ELSE @,
    !.high = IF \/ mbc = "Mbc5" /\ a = 3
                \/ mbc = "Mbc1" /\ r = 4 /\ sel.mode % 2 = 0 THEN d ELSE @,
    !.mode = IF r = 6 THEN d ELSE @,
    !.ram = IF \/ mbc = "Mbc1" /\ r = 4 /\ sel.mode % 2 = 1
               \/ mbc = "Mbc3" /\ r = 4 /\ ~IsRtc(d)
               \/ mbc = "Mbc5" /\ a = 4 THEN d ELSE @,
    !.page = IF r = 4 THEN d ELSE @,
    !.other = @ \/ (a = 4 /\ d % 16 # 1),
    !.rtc = IF r = 4 /\ IsRtc(d) THEN d % 8 ELSE @,
    !.odd = @ \/ (r = 4 /\ IsRtc(d) /\ d % 8 >= 5),
    !.latch = IF r = 6 THEN d ELSE @,
    !.edges = IF r = 6 /\ d # 0 /\ sel.latch = 0 THEN @ + 1 ELSE @]

PullData ==
  /\ addr # NoAddr /\ todo = <<>> /\ fifo # <<>>
  /\ LET d == Head(fifo)
         r == addr - (addr % 2)      \* addr & 0xE000
     IN  /\ \/ mbc = "Mbc1" /\ Mbc1Command(r, d)
            \/ mbc = "Mbc3" /\ Mbc3Command(r, d)
            \/ mbc = "Mbc5" /\ Mbc5Command(addr, d)
         /\ Note(addr, r, d)
  /\ fifo' = Tail(fifo) /\ addr' = NoAddr
  /\ UNCHANGED <<mbc, rom, ram, readCmd, writeCmd, rtcReg, sent>>

\* One volatile write.
WritePointer ==
  /\ todo # <<>>
  /\ LET w == Head(todo)
     IN  /\ rom' = IF w.ptr = "rom" THEN w.value ELSE rom
         /\ ram' = IF w.ptr = "ram" THEN w.value ELSE ram
         /\ readCmd' = IF w.ptr = "read" THEN w.value ELSE readCmd
         /\ writeCmd' = IF w.ptr = "write" THEN w.value ELSE writeCmd
         /\ rtcReg' = IF w.ptr = "rtcReg" THEN w.value ELSE rtcReg
  /\ todo' = Tail(todo)
  /\ UNCHANGED <<mbc, fifo, addr, loc, latches, sel, sent>>

Next ==
  \/ \E w \in Writes : GbWrite(w)
  \/ PullAddr \/ PullData \/ WritePointer

Spec == Init /\ [][Next]_vars

(***************************************************************************)
(* Properties.                                                             *)
(***************************************************************************)
Kinds == {"none", "ram", "rtc"}
Pointers == {"rom", "ram", "read", "write", "rtcReg"}

\* Every variable keeps its type: run and the PIO program agree on which words of
\* the FIFO are addresses, and no pointer leaves ROM, RAM or the clock registers.
TypeOK ==
  /\ mbc \in Mappers
  /\ fifo \in Seq(0..255) /\ Len(fifo) <= FIFO_WORDS
  /\ addr \in {NoAddr} \cup 0..7
  /\ Len(fifo) % 2 = (IF addr = NoAddr THEN 0 ELSE 1)
  /\ rom \in 0..511 /\ ram \in 0..7
  /\ readCmd \in Kinds /\ writeCmd \in Kinds
  /\ rtcReg \in {NoReg} \cup 0..4
  /\ \A i \in 1..Len(todo) : todo[i].ptr \in Pointers
  /\ mbc # "Mbc3" => readCmd # "rtc" /\ writeCmd # "rtc"

\* run waits for the next command: every pointer write of the last one is done.
Settled == addr = NoAddr /\ todo = <<>>

\* MBC1 among the first 64 banks, one bit of the high register: run masks the bank to
\* six bits (rom_bank_mask) although that register has two.
RomSelected ==
  CASE mbc = "Mbc1" -> (IF sel.mode % 2 = 0 THEN (sel.high % 2) * 32 ELSE 0)
                         + NotZero(sel.low % 32)
    [] mbc = "Mbc3" -> NotZero(sel.low % 128)
    [] mbc = "Mbc5" -> (sel.high % 2) * 256 + sel.low

\* The ROM bank the game sees is the one its last writes select, whatever order
\* the registers were written in and although run only writes the pointer when
\* the bank differs from its cached one.
RomBankFollowsWrites == Settled => rom = RomSelected

AccessSelected ==
  IF ~IsEnable(sel.en) THEN "none"
  ELSE IF mbc = "Mbc3" /\ IsRtc(sel.page) THEN "rtc" ELSE "ram"

\* Between two commands reads and writes of the game go to the same place, and
\* it is what enable and bank register select: the RAM stays shut until it is
\* enabled, and a clock register selected while it was shut is still selected.
AccessFollowsWrites ==
  Settled => readCmd = AccessSelected /\ writeCmd = AccessSelected

\* The RAM bank the game sees is the one it selected last.  MBC5: among the first
\* four banks, once a bank other than 1 has been selected.
RamBankFollowsWrites ==
  Settled => CASE mbc = "Mbc1" -> ram = sel.ram % 4
               [] mbc = "Mbc3" -> ram = sel.ram % 8
               [] mbc = "Mbc5" -> sel.other => ram = sel.ram % 4

\* The same for MBC5 over all sixteen banks of a 128 KiB RAM.
RamBankOf128k == Settled /\ mbc = "Mbc5" => ram = sel.ram % 16

\* When a bank register write moves the game's window from RAM to clock or back,
\* the pointer behind the window is already the new one: no access in between
\* reaches a RAM bank or a clock register the game did not select
\* (the order of writes in Mbc3::run).  Not once the game has selected a register that
\* does not exist: run opens the clock's window then too, on the register before it or,
\* if there was none, on no register at all.
WindowOpensOnSelection ==
  [][/\ readCmd' # readCmd \/ writeCmd' # writeCmd
     /\ mbc = "Mbc3" /\ ~sel.odd
     => /\ "rtc" \in {readCmd', writeCmd'} /\ IsRtc(sel.page) => rtcReg' = sel.rtc
        /\ "ram" \in {readCmd', writeCmd'} /\ ~IsRtc(sel.page) => ram' = sel.ram % 8]_vars

\* The clock is latched once for every write of a non-zero byte that follows a
\* zero: repeated ones do not disturb a latched time the game is reading.
LatchesOncePerEdge == mbc = "Mbc3" => latches = sel.edges

=============================================================================
