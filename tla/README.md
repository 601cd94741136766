# Verification of the RP2350 Game Boy cartridge firmware

TLA+ models of the firmware of an RP2350 based Game Boy cartridge, TLC
configurations that check them on small instances, and TLAPS proofs of what
matters most for every instance.  Source references are relative to `src/`
(the repository's root), so `src/comm/gb_channel.rs` is
`src/src/comm/gb_channel.rs` from here.

* [The system](#the-system)
* [Modules and how they correspond to the code](#modules-and-how-they-correspond-to-the-code)
* [Runs](#runs)
* [Proofs](#proofs)
* [Disagreements between the code and its documentation](#disagreements-between-the-code-and-its-documentation)
* [What is not modelled](#what-is-not-modelled)
* [Plan](#plan)

## The system

A cartridge that plays Game Boy ROMs from an SD card.  PIO state machines and
DMA channels of the RP2350 answer the Game Boy's bus; core 0 runs the
bootloader's menu and then the emulated memory bank controller, core 1 runs
the button and save task.  A second personality, the stealth mode, turns the
same board into a Bitcoin hardware wallet whose user interface is a ROM on the
Game Boy and which also speaks to a host by USB.

| Component | State it keeps | Operations | Hard behaviour |
|---|---|---|---|
| **Wallet channel** `src/comm/gb_channel.rs`, `src/stealth.rs`, `gb-wallet/sram_comm.c` | command and response regions, the extended buffer and the status byte, all in cartridge RAM; the position of each side in its access sequence | `GbChannel::init`, `read_command`, `write_response`, dispatch; `sram_comm_init`, `send_cmd`, `wait_response` | two processors, one memory, no lock: read-modify-write of one status byte by both, a buffer shared by both directions, frames that cross three cell borders, no timeout |
| **Savegame and cartridge clock** `src/gb_savefile.rs`, `src/gb_rtc.rs`, `src/mcp795xx.rs`, `src/main.rs`, `src/gb_bootloader.rs` | cartridge RAM, five clock registers and their shadow, the file, the battery-backed chip | load at game start, store by the button task, `GbRtc::process`, setting the clock | a store races the game it saves; power may go at any step; a stamp taken from one clock is compared with another; calls of the card and the chip fail |
| **Memory bank controllers** `src/gb_mbc.rs`, `src/gb_rtc.rs` | bank registers, cached locals, volatile pointers read by DMA | one per register write | cached values that differ from the hardware's, several pointer writes per command while the game goes on |
| **RAM and clock DMA** `src/gb_dma.rs`, `pio/gameboy_bus.pio` | five channels, six command lists, FIFOs, two current lists | one list per access; core 0 swaps lists | a chain of transfers that re-arms itself, or-ed address words, data later than its address |
| **ROM read path** `src/gb_pio.rs`, `src/hyperram.rs`, `src/gb_dma.rs` | PIO programs, HyperRAM bus state | one read per bus cycle | cycle timing |
| **USB wallet protocol** `src/comm/usb_protocol.rs` | frame buffer, pending and signed PSBT | frame reader, command handlers | a byte stream in chunks, a signing conversation across commands |
| **Wallet state, PIN and seed storage** `src/wallet/state.rs`, `encrypt.rs`, `storage.rs`, `keys.rs` | status and secrets, failed attempts, the encrypted seed, the seed file | generate, encrypt, store, load, unlock, lock, wipe | a single copy of the seed on a card that fails, secrets set one after the other, a counter that saturates |
| **Bitcoin cryptography** `src/wallet/psbt.rs`, `bip32.rs`, `bip39.rs`, `address.rs` | a parser's position and sums, keys along a path, digits and bits being shifted | preview and sign a transaction, derive keys, encode | fixed capacities, entries in any order, aliases of an index, bits across byte borders |
| **Bootloader menu** `src/gb_bootloader.rs`, `gb-bootloader/bootloader.c` | list of names, message numbers, cursor and page, time fields | list games, start a game, read and set the time | a second shared-memory conversation without a timeout, two calendars, code exchanged under the processor that runs it |
| **Boot mode and integrity** `src/main.rs:240-340`, `src/stealth.rs`, `src/boot_integrity.rs` | button state, hash | choose game or wallet | a failed check that only logs |
| **ROM header** `src/rom_info.rs` | none | parse | an unknown byte panics |
| **Wallet ROM** `gb-wallet/main.c`, `ui.c` | screen, cursor, PIN digits | keys and responses per screen | screens without an exit when an answer is missing |
| **Secure memory** `src/wallet/secure_memory.rs` | buffers | overwrite on drop | - |
| **Board support** | peripherals | - | - |

### How they interact

```
            bus                 PIO FIFOs              lists, pointers
 Game Boy <------> PIO programs <--------> DMA machine <-------------- Memory bank
    |                                          |                       controller (core 0)
    | reads and writes                         v                            |
    +-------------------------------> cartridge RAM, clock registers <------+ GbRtc
                                               ^   ^
                    channel (wallet mode) -----+   +---- load (core 0), store (core 1)
                                                              |
                                                      SD card, clock chip
```

The bank controller tells the DMA machine what the RAM window shows by two
list pointers and one bank or register pointer.  `Mapper` models the
controller up to these pointers, `GbDma` models the machine from them on, and
`RamBankFollowsWrites`, `AccessFollowsWrites` (for the first) and
`ReadsAreServed`, `WritesLand` (for the second) meet there.  Load, store and
the wallet channel see cartridge RAM as memory.

### What makes each component correct

* **Channel.** An update of the status byte by one side never undoes an update
  of the other; the shared regions have one user at a time; the response a call
  returns is the one to its own command, complete and undamaged; seen from
  outside, the channel is a synchronous call; a command is eventually answered.
* **Savegame.** What was saved while the game was quiet is what the game finds
  after the next load; a running cartridge clock continues as if power had never
  been off.
* **Bank controllers.** Once the writes of the game are digested, ROM bank, RAM
  bank, RAM or clock access are those the history of writes selects; the window
  never opens on something not selected; a clock is latched once per edge.
* **USB wallet.** A transaction delivered signed is one the user approved on the
  screen, and is delivered once; no request is answered twice or out of order.
* **Vault.** Secrets are in memory only while the wallet is unlocked; the card
  holds the last seed stored or none; wrong PINs are tried slowly.
* **Transactions.** The fee shown is the inputs' values less all outputs, for
  whatever a message holds, or the message is refused.
* **Keys and codecs.** A path names one key; a watching wallet sees the same tree;
  an encoding can be read back.
* **Boot.** The game that runs is the one chosen and is complete; nothing changes
  under a running processor; a time set is the time read; the menu answers; a
  wallet does not run on firmware found wrong.
* **DMA machine.** Every transfer goes somewhere; a read delivers the byte of a
  selected location; a write changes exactly a selected location; every access
  ends and leaves the machine ready for the next one.

## Modules and how they correspond to the code

| Module | Models | Extended by |
|---|---|---|
| `SyncChannel` | what the channel promises: a call and its return, nothing else | instanced by `GbChannel` |
| `GbChannel` | both ends of the wallet channel, one shared access per action | `MCGbChannel`, `GbChannelProofs` |
| `SaveGame` | savegame and clock across power cycles | `SaveGameProofs` |
| `Mapper` | MBC1, MBC3, MBC5 up to their volatile pointers | `MCMapper`, `MapperProofs` |
| `GbDma` | the DMA machine from these pointers on | `GbDmaProofs` |
| `FrameReader` | the reader that cuts the USB byte stream into frames | `UsbWallet` |
| `UsbWallet` | signing a transaction for a USB host: requests, reader, handler, user | `UsbWalletProofs` |
| `Vault` | wallet status and secrets, PIN limiter, encrypted seed and its file | `MCVault`, `VaultProofs` |
| `Digits` | numbers read digit by digit, and sums, as operators | `Psbt`, `Codecs` |
| `Psbt` | parsing a transaction message into a preview, and signing | `MCBitcoin`, `BitcoinProofs` |
| `HdKeys` | deriving keys along a path, and public keys | `MCBitcoin`, `BitcoinProofs` |
| `Codecs` | Base58Check and mnemonic words | `MCBitcoin`, `BitcoinProofs` |
| `ClockChip` | registers and dates of the MCP795xx, as operators | `BootMenu` |
| `BootMenu` | power-on, the menu on both processors, start of a game | `MCBootMenu`, `BootMenuProofs` |

Definitions keep the source's names where they have one.  A definition called
`X_Something` is a slip a programmer could make in `X`; the specification
never uses it, it is there to show that the properties notice.

### GbChannel

The Game Boy side is `sram_comm.c` (actions `Gb...`), the RP2350 side
`gb_channel.rs` and the loop of `run_stealth_mode` in `stealth.rs` (`Rp...`).  A frame is a record
`[dir, seq, byte, len]` and memory is five cells, each holding the piece of
the frame last written to it: the header and the body of either region and the
extended buffer.  Which cells a frame occupies is computed from the constants of
the code (`REGION_SIZE`, `EXT_PAYLOAD_SIZE`, ...), separately for the two
sides, because the two sides compute it separately.  A status update is a read
(`GbSetRead`, `RpClearRead`, ...) and a write (`GbSetWrite`, ...) of its own.
The checksum is ideal: it is right exactly if all pieces belong to one
undamaged frame and it is looked for where it was put.  `Damage` stands for
bus noise on the cell being transferred.

That loop starts only in wallet mode, in
which this commit keeps the Game Boy's reset line high (`main.rs:283`) and
never starts the bus DMA: the model is the conversation both files are written
for.  `dispatch_wallet_command` answers every known command with an empty error
payload; the model takes this and any response length a configuration gives it.

### SaveGame

RAM is a few cells holding the number of the write that put a value there;
time is whole seconds; the five clock registers are one number of seconds.
`core1_task` is the variable `c1`: waiting for the button (`WaitForHigh`,
`WaitForLow`), then the steps of `GbSaveFile::store` between each of which the
game may write, time may pass, power may go and the call may fail
(`StoreOpen` ... `StoreClose`, `StoreError`).  `load` runs before the game and
is one action per way it can end.  `Count` and `Process` are `GbRtc::process`
catching up with the time that passed.  `PowerOn` includes what `main` does to
the chip.  The variables after `faults` are history variables: they record what
the player was promised and no action's guard reads them.

### Mapper

A write of the game enters the FIFO as two words; `PullAddr` and `PullData` are
one turn of the controller's loop; `PullData` computes the list of pointer
writes this command causes (`Mbc1Command`, `Mbc3Command`, `Mbc5Command`) and
`WritePointer` performs them one by one, so that the game's accesses fall in
between.  `loc` holds the locals of the loop.  `sel` is the history: what the
writes so far select by the rules of the cartridge.

### GbDma

A word is the set of the parts it was or-ed together from, so an address made
of a bank and an offset, and a wrong address made of two offsets, are visible as
such.  One action is one transfer of one channel (`ReadRequestor`,
`WriteRequestor`, `Loader`, `Executor`, `Accessor`), one FIFO push of a PIO
program (`GbRead`, `GbWrite`, `PushData`) or one store of core 0 (`SetRead`,
`SetWrite`, `SetBank`, `SetRegister`).  Lists are read through `curRead` and
`curWrite` at the moment the requestor fires, as in the code.

The clock's two pointers have no register at first (`reg = NoReg`): `latch_ptr` is
null and `real_ptr` points to a copy of the registers that is gone (`gb_rtc.rs:128-147`,
where `get_latch_ptr` assigns `real_ptr`).  `activate_register` gives both one.  A null
word written to a trigger alias starts nothing (`Executor`).  A byte the accessor moves to
an address that is no place of the model may land anywhere (`Landing`): on any RAM
cell or register, outside of them, or on no memory at all, where the bus error halts the
channel.  What such a byte does to memory outside the model, the lists and pointers
themselves included, is left out.

A swap of both lists is two stores of core 0 with DMA transfers in between
(`SetRead`, then `SetWrite`); core 0 does nothing else in the middle of one.

### FrameReader, UsbWallet

A byte is a record: the frame it belongs to (number, command, payload length) and
its position there; noise belongs to no frame and has a value only where a
length is read.  The checksum is ideal.  `FeedFrame` and `FeedNothing` are
the two outcomes of `feed`; `Parse` is its chain of early returns.
`UsbWallet` puts a host in front of the reader (one request at a time, giving up
when nothing is on its way) and `handle_usb_command` behind it, one action per
outcome of a handler: every one first goes through `CheckRate`.  The user at the
Game Boy looks at the preview (`ShowPreview`) and answers later (`Confirm`,
`ConfirmFails`, `Reject`), and the wallet may be locked at any time.  The task
that joins reader and handler is not in this commit: `ReadChunk` and `Drain`
use the reader as `test_frame_reader_multiple_frames` does.

### Vault

`WalletState`, `PinRateLimiter`, `EncryptedSeed`, `StoredKey` and `SeedStorage`
have no caller in this commit (the dispatch of `stealth.rs` answers with an
error).  The model is the caller they are written for: it may call any method at
any time, and asks `is_locked_out` before it tries a PIN, as the comments of the
limiter ask of it.  A seed is a name and a length; encryption is ideal.
`to_seed` is a placeholder that returns 64 zero bytes, so there is one generated
seed.  A store is `StoreOpens` (which empties the file) and `StoreWrites`, a
wipe `WipeOpens`, `WipePasses`, `WipeDeletes`; power may be cut
(`PowerCut`) and the card may fail at each.  `Locked` is reached only by
`generate_seed` and `lock`: nothing in `state.rs` loads the file at power-on.

`SeedNameFits` says whether the card's library takes the file's name.  It does
not: `PKMN_BLUE` (`storage.rs:31`) has nine characters where a name on the card
has eight, and the test at `storage.rs:244` says so.  With `FALSE`, `store`
always fails (`MCVaultName.cfg`); `TRUE` checks the code for the name it was
meant to have.

### Digits, Psbt, HdKeys, Codecs, MCBitcoin

`Psbt` is `parse_preview` one loop turn per action over a message the host wrote
before.  An entry is its key type and what its value says; unsigned transactions
are well-formed, with scripts of at most 64 bytes.  `preview` is what the user is
shown: the fee, the largest output's amount, and the first output's address
(`psbt.rs:316-340` takes them so).  Sums are taken modulo `U64`, as a release build
takes them (`Total`).  `Sign` is `sign_psbt_raw`: `parse_full_psbt`
returns no inputs in this commit, so the message goes back as it came if it fits
the buffer.

`HdKeys` derives one component of a path per action.  The group is the
integers modulo a small prime, HMAC-SHA512 a random oracle whose left half may
be out of range, indices have `2 * HARDENED` values.  `Codecs` does one digit or one
word per action; one pass of the division by 58 is `Carries` and `Quotient`, and
`FULL` and `CHARS` are the sizes of its buffers (82 and 112).  `Digits` has the loops
that read bits or add up amounts, one number at a time.  `read_rosc_bit` is constant, `from_phrase` always fails and
`address.rs` returns fixed strings: placeholders, not modelled.

The three share no state; `MCBitcoin` lets each behaviour do one job.

### ClockChip, BootMenu

`ClockChip` has `datetime` and `set_datetime` with the chip's BCD registers and
bits and `main`'s set-up at power-on (`StartUp`).  `BootMenu` interleaves the
RP2350 (`main` and `GbBootloader::run`; `rp` is its position) with the menu
program of the Game Boy (`bootloader.c`; `gb`), one action per access that the
other can see: the reset line, the pointer to bank 0 and the three areas it may
point to, the FIFO of ROM writes, the message numbers, the list, and the area
at `0xB000`.  Unwrapped errors and `panic!` stop the RP2350 (`panic`).

The cursor of the settings, the screens for information and for the LED, drawing,
seconds and the passing of time in the menu are left out; a time the player sets
and reads back is compared in minutes.

## Runs

`tlc -workers 2 -config X.cfg M`.

| Run | Config | Shows |
|---|---|---|
| `channel` | `MCGbChannel.cfg` | two commands, every interleaving, damaged cells: the safety properties, that the channel implements `SyncChannel`, and that a command that fits and arrives undamaged is answered |
| `channel_long` | `MCGbChannelLong.cfg` | a command of 59 bytes is never answered (violation) |
| `savegame` | `MCSaveGame.cfg` | two power cycles, two writes, one fault: saves come back, the clock continues |
| `savegame_clock` | `MCSaveGameClock.cfg` | setting the clock can make a save unreadable (violation) |
| `mapper` | `MCMapper.cfg` | all three mappers, five register writes, every interleaving with the pointer writes |
| `dma` | `MCGbDma.cfg` | two accesses at any position of core 0's stores, with no writes to disabled RAM and no clock opened without a register |
| `dma_disabled` | `MCGbDmaDisabled.cfg` | a write to disabled RAM goes to an or-ed address (violation) |
| `usb` | `MCUsbWallet.cfg` | four requests in any chunks, one byte of noise, the user and the lock at any time: only what was approved is delivered, once; requests are answered in order; only what exceeds the limit is refused; waiting in vain needs noise |
| `vault` | `MCVault.cfg` | seeds, PINs, a failing card and power cuts in any order: secrets only while unlocked, the card holds the last store, guesses are slow |
| `bitcoin` | `MCBitcoin.cfg` | every short message, path, payload and one-bit entropy against reference definitions |
| `boot` | `MCBootMenu.cfg` | five cards and clocks, every key, one failing call: the right game runs whole, code is still, times come back, the menu answers |
| `integrity` | `MCBootMenuIntegrity.cfg` | wallet mode on firmware found wrong (violation) |

The other configurations in this directory reproduce further disagreements
(below); TLC finds each violated.

**Bounds, and why they are enough.**

* Channel: `MaxCmds = 2`, since a flag, a cell or a sequence number can only be
  stale with respect to the previous call; `MaxFaults = 1`.  Payload lengths are
  the edges of the layout: 58 is the longest whose frame fits a region, 59 and
  60 push one and two checksum bytes out, 170 is the longest that fits region and
  buffer.
* SaveGame: two cells (a torn save needs two), two writes, two seconds, two
  power cycles, one fault.  The clock can be set to the past (`SetTimes = {0}`),
  and games with and without a clock are played.
* Mapper: register writes at the bytes at which a mask, the zero rule, the
  ninth bank bit or the RAM and clock ranges change the result; five of them
  reach every pair of selections with the window opened, closed and reopened.
  The FIFO has its four words.
* GbDma: two banks, two offsets, two clock registers, two accesses; memory holds 0
  and the game writes 1.  Everything an access can inherit comes from the one before.  `Quiet`: the game
  starts an access when the last chain has ended, which is the timing the lists
  were designed for (a bus cycle is about a microsecond); core 0 is not held to
  it.  `DisabledWrites = FALSE` and `UnsetClock = FALSE` in `dma`, since `dma_disabled`
  and the two `MCGbDmaClock*.cfg` show what happens otherwise.
* UsbWallet: four requests are the fewest in which a second transaction can be
  signed.  `MAX_CMDS_PER_SEC = 2` (10 in the code) with seconds of two ticks: a window
  can be filled, exceeded, and left for the next one within a second, and four requests
  are the fewest that do all of it.  A payload of one byte against none tells frame lengths
  apart; a damaged length says 0 or 2, the second more than the buffer can hold.
* Vault: two PINs (right and wrong), every class of bad PIN, a seed of full length
  and one too short for a master key.  Time counts in units of thirty seconds
  up to `LONGEST = 2`, the longest wait.  `U8_MAX = 12` lies above both
  thresholds of the limiter (3 and 10), which is all that 255 does.
* Bitcoin: `CAPACITY = 2` for 16, with one output more in a transaction;
  `MaxItems = 7` entries and separators, one more than the complete message of
  the first transaction needs; `MAX_SIGNED = 5` so that a message may be too long to
  sign.  `ORDER = 5`, `HARDENED = 2` and left halves 0, 1, 4: no key, and sums
  that wrap to zero.  `MaxQuestions = 4` allows two paths of two.  `U64 = 8` with amounts
  0, 3 and 5: two inputs fit, or wrap to zero.  Payloads of up to three bytes with
  zeros anywhere, in buffers just long enough (`FULL = 3`, `CHARS = 5`); entropies with a single bit set, since each
  bit of a word is copied from one place.
* Boot: lists of no, two and five games on pages of two (`PageRows`, 16 in the
  code), so that both ends of a page and of the list are met; `IdMod = 3` message
  numbers (256), enough to wrap; `MaxPresses = 2` changes of a field from times next
  to the ends of months, leap years and the century; `MaxFaults = 1`.  `Starts`
  pairs cards with chips, since the list and the time do not influence each
  other.

`CHECK_DEADLOCK FALSE` is stated because bounded runs end: all commands sent,
all accesses made, the card off for good.

**Fairness.**  `GbChannel`: weak fairness of each processor's next step, since
both run loops without an end; the user is not obliged to send.  `GbDma`: weak
fairness of the DMA channels and of the PIO program's second push, which run by
themselves; neither the game nor core 0 is obliged to act.  `BootMenu`:
weak fairness of the RP2350's executor and of the Game Boy's program; the player
need not press anything.  `SaveGame`, `Mapper`, `UsbWallet`, `Vault` and
`MCBitcoin` state safety only; `TimeoutNeedsNoise` says of
`UsbWallet` that it never stops short of an answer on a quiet line.

**Conditions some properties carry.**

* `FittingCommandAnswered` speaks of commands that fit the region, were not
  damaged, and were sent after the RP2350 had initialised the channel
  (`channel_long` and `MCGbChannelDamaged.cfg` show the first two are needed; the third is
  the race of `GbChannel::init` with the first command).
* `SaveComesBack` speaks of stores during which the game wrote nothing and of
  loads in which no call failed; `savegame_clock` and `MCSaveGameBattery.cfg` show
  that the chip has to be left alone as well.  It says nothing of a torn save, one
  during which the game wrote.
* `TransfersHaveTargets` needs both conditions of `dma`.  `WritesLand` speaks of writes
  that have RAM or clock open all the time (a write to disabled RAM may land anywhere) and
  needs `UnsetClock = FALSE`; the access before it may have been a disabled write.
  `AccessesEnd` needs both, since a byte that lands on no memory or a null pointer halts
  the chain.  `ReadsAreServed` needs neither.
* `RomBankFollowsWrites` takes for MBC1 the six bits `rom_bank_mask` (`gb_mbc.rs:82`)
  leaves of the bank; the upper of the two bits of its high register (`:116`) selects
  nothing.
* `RamBankFollowsWrites` speaks of MBC5 only once another bank has been selected:
  the cached bank starts at 1 while the pointer is still on bank 0, so a first
  selection of bank 1 is ignored.  `WindowOpensOnSelection` leaves out register
  numbers from 5: `activate_register` ignores them, but `gb_mbc.rs:216-220` and
  `:199-200` open the clock's window all the same, on the register selected before or, if
  there was none, on pointers that were never set (`MCGbDmaClock.cfg`, `MCGbDmaClockRead.cfg`).
* `FeeIsInputsMinusOutputs` leaves out messages whose outputs carry a witness
  script, messages cut inside an entry, and amounts that add up to more than a `u64`
  holds.
* `ChildrenShareLineage` compares everything of a public child but its point.
* `GuessesAreSlow` speaks of one power-on and of a caller that asks
  `is_locked_out`: the limiter lives in RAM, and `unlock` does not ask it.
* `TimeComesBack` and `MenuAnswers` except failed calls of the chip; the second
  also years outside 2000 to 2099, which the chip cannot hold and the code
  unwraps.
* `TimeoutNeedsNoise` speaks of a quiet line.
* `OnlyExcessRefused` says that nothing below the limit is refused; that
  nothing above it passes is `MaxPerSecond`, which the code violates (`MCUsbWalletRate.cfg`): the
  windows do not slide, so that the last commands of one and the first of the next may
  fall into one second.  Twice the limit is what it does keep (`RateIsBounded`).

## Proofs

`GbChannelProofs` proves, for any sets of commands and lengths, any buffer size
and any number of commands and faults:

| Theorem | States |
|---|---|
| `TypeCorrect` | `Spec => []TypeOK` |
| `Invariance` | `Spec => []IInv` |
| `StatusUpdatesSurvive` | `Spec => []NoLostStatusUpdate` |
| `RegionsHaveOneUser` | `Spec => []RegionsNotShared` |
| `CallsAreAnsweredByTheirOwnResponse` | `Spec => []CallReturnsItsResponse` |
| `Refinement` | `Spec => Abs!Spec`: the channel is a synchronous call |

All but the first assume `RspFits`: responses fit region and buffer.  The code
does not check this (`Frame::new` allows 176 payload bytes, the cells hold 170);
every handler of this commit answers with an empty payload.

**The argument.**  None of the safety properties is inductive: that the status
byte is not lost depends on the other side not being at its own update, which
depends on the flags, which depend on what either side last did.  `IInv` says
this in parts:

* `HandOff`: for each pair of positions of the two sides, what the status byte
  can be; the sides' updates exclude each other because one waits for the flag
  the other sets last.
* `ServedInOrder`: the sequence numbers of the command being served and of the
  response being read are those of the current call.
* `CmdCells`, `RspCells`: while a frame is being written or awaits its reader,
  its cells hold its pieces (or noise).
* `RspRead`: what the Game Boy has copied so far is a piece of that response, so
  a checksum that comes out right is the checksum of the whole response.

`IInv` was checked by TLC before it was proved.  The proof has one step per
action and below it one per conjunct the action can disturb.

`VaultProofs` proves, for any seeds and PINs, a card that fails or not, and any
limit of the counter from three on (`VaultAssumption`):

| Theorem | States |
|---|---|
| `TypeCorrect` | `Spec => []TypeOK` |
| `SecretsAreGuarded` | `Spec => []SecretsOnlyUnlocked` |
| `LastStoreStays` | `Spec => []CardHoldsLastStore` |
| `Invariance` | `Spec => []IInv` |
| `WrongPinsAreSlow` | `Spec => []GuessesAreSlow` |

**The argument.**  `SecretsOnlyUnlocked` is inductive.  `CardHoldsLastStore` needs
to know what a step in the middle relies on: a store that writes has found its
directory, and a wipe that overwrites has emptied the file (`CardInv`).
`GuessesAreSlow` follows from `LimiterInv`: no recorded failure is younger than
the last one, below the threshold all of them are counted, so that a fourth one
can only come after the wait, when the other three have aged.

`MapperProofs` proves, for any set of registers and bytes, any number of writes
and any length of the FIFO:

| Theorem | States |
|---|---|
| `Invariance` | `Spec => []IInv` |
| `TypeCorrect` | `Spec => []TypeOK` |
| `RomBankFollows` | `Spec => []RomBankFollowsWrites` |
| `AccessFollows` | `Spec => []AccessFollowsWrites` |
| `RamBankFollows` | `Spec => []RamBankFollowsWrites` |
| `LatchesFollow` | `Spec => []LatchesOncePerEdge` |
| `WindowIsSafe` | `Spec => WindowOpensOnSelection` |

**The argument.**  The properties speak of the moments at which all writes are
digested; between them the pointers lag behind the locals, the locals behind the
FIFO, and several pointer writes of one command are outstanding.  `IInv` follows
the delay: `WordsInTurn` says which words of the history's writes are in the FIFO
and which one the loop waits for; `LocalsFollow`, that the locals hold what the
digested writes selected, including the selections the code caches
differently from the hardware; `PointersFollow`, that a pointer already has
its selected value or a pointer write still to come (`todo`) gives it that value.
`WindowLast` is what the action property rests on: the write that opens the
window is the last one of its command, so what lies behind it is there.

`GbDmaProofs` proves, for any number of banks, offsets, registers, values and
accesses:

| Theorem | States |
|---|---|
| `Invariance` | `Spec => []IInv` |
| `TypeCorrect` | `Spec => []TypeOK` |
| `EveryReadServed` | `Spec => []ReadsAreServed` |
| `EveryWriteLands` | `UnsetClock = FALSE` implies `Spec => []WritesLand` |
| `TargetsProgrammed` | `DisabledWrites = FALSE` and `UnsetClock = FALSE` imply `Spec => []TransfersHaveTargets` |

**The argument.**  An access is a chain of transfers, each of which programs the
next channel; core 0 may change what it finds at any link.  `IInv` has one case
per position in that chain: `ReadStarts` (the requestor has chosen its
list), `ReadFollows` (the loader walks it), `ReadMoves` (the accessor has its
address), `Served`, and their counterparts of a write.  Each says which channel
is armed and with which words, and that whatever bank or register the chain
picked up was the selected one at some time since the access began (`Selected`).
Between two accesses (`Unasked`) the channels are back to where the first one
found them, which is what makes the argument go round.  Where a null pointer or a bus
error ends a chain early, `ReadHalts` and `WriteHalts` say what is left: the requestor
is never armed again, and no later access of its kind ends.  `dma_disabled`,
`MCGbDmaClock.cfg` and `MCGbDmaClockRead.cfg` show what the assumptions of the last two theorems
exclude; `TypeCorrect` and `EveryReadServed` have none.  `EveryWriteLands` claims nothing of
a write to disabled RAM, which on the chip may land anywhere.

`UsbWalletProofs` proves, for any payload lengths, buffer, number of requests
and amount of noise:

| Theorem | States |
|---|---|
| `Invariance` | `Spec => []IInv` |
| `TypeCorrect` | `Spec => []TypeOK` |
| `ExcessOnly` | `Spec => []OnlyExcessRefused` |
| `RateIsBounded` | `Spec => [](Len(recent) <= 2 * MAX_CMDS_PER_SEC)` |
| `QuietLineAnswers` | `Spec => []TimeoutNeedsNoise` |
| `RepliesInOrder` | `Spec => AnsweredInOrder` |
| `DeliveriesApproved` | `Spec => OnlyApprovedDelivered` |

The limit of commands per second is assumed to be from 1 to 254 (`UsbAssumption`;
it is 10 in `usb_protocol.rs`): the counter is a byte that saturates, and a limit
of 255 would never be exceeded.

**The argument.**  `OneTransaction`: what is signed was approved, and the
transaction on the user's screen is the one that would be signed.  `FramesInOrder`:
request numbers rise from the one handled last through the reader's frame and its
buffer to the line, so that no frame is found twice or late, whatever noise does.
`OneRequest`: on a quiet line the request without an answer is in one place, being
sent (buffer and line together are the whole frame, or its rest), in the handler, or
on its way back, so that the host cannot wait in vain.  `TwoWindows` splits the
commands of the last second into those of the limiter's previous window, at most
the limit of them, and those of its current one, which the counter counts
(`WindowCounted`): a command the counter refuses has the whole limit before it in its own
window.

`SaveGameProofs` proves, for any cells, any number of writes, faults and power
cycles, and any span of time:

| Theorem | States |
|---|---|
| `Invariance` | `Spec => []IInv` |
| `TypeCorrect` | `Spec => []TypeOK` |
| `SavesComeBack` | `Spec => []SaveComesBack` |
| `ClockGoesOn` | `Spec => []ClockContinues` |

**The argument.**  `Copying` follows a store cell by cell: as long as the game has
not written since the button, the part of the file written so far is the RAM
the player was promised.  `OnCard`: as long as a save is promised, the file
holds it whole, and the clock's registers where the game has a clock.
`ClockTrue` relates the registers and the count not yet processed to the time the
game's clock should show, and the registers and stamp in the file to the same at
the time of the store, through power-off and load.  The rest are types of the parts (`MachineTypes`, `GameTypes`,
`FileTypes`).

`BootMenuProofs` proves, for any card, chip, page size, number of changes in the
menu and number of failing calls:

| Theorem | States |
|---|---|
| `Invariance` | `Spec => []IInv` |
| `TypeCorrect` | `Spec => []TypeOK` |
| `GamesRunWhole` | `Spec => []GameRunsWhole` |
| `TimesComeBack` | `Spec => TimeComesBack` |
| `CodeIsStill` | `Spec => RunningCodeIsStill` |

`BootMenuAssumption` says what the code takes for granted: a card (`IsCard`) names no
two files alike, its ROM files are not empty (`open_file_in_dir` and `read`,
`gb_bootloader.rs:339-355`, would leave the last contents in place of bank 0), the
chip's registers hold bytes and the time of the build is one the chip can hold.
That no file has the name of the model's markers for the menu, the wallet ROM and
an empty name is an assumption about the model, not about the code.

**The argument.**  The two processors share a FIFO, a number and a piece of RAM
and are never at the same time where both change them.  `Conversation`
lists which of their steps can meet and what is in the FIFO then: nothing or the
menu's first write while the player chooses, one command behind it while the menu
waits, and the numbers differ exactly until the answer is there.  With it a command
that is taken is the one that was asked for.  `GameChosen` keeps the name in the shared RAM
the one the player saw, and a file of the card; `GameInPlace` says at each step of
the start what is already there: bank 0, the copies made so far, the controller, the
save.  `TimeKept` follows a time from the screen through the shared RAM into the
chip, `TimeAnswered` back.  `HeldWhileWritten` is inductive by itself: the line is
high at every step that writes the pointer or the area a held Game Boy will start
from, and while the menu serves or copies a game the bus answers from area 1.

Below these are lemmas about the code's operators: the menu's length of a month is
chrono's (`MonthsAgree`); whatever key is pressed, the time on the screen is one
chrono accepts (`KeysKeepTime`), so the RP2350 does not reject it; two digits in a
byte and back (`BcdThereAndBack`), so the chip returns what `set_datetime` wrote
(`SetIsRead`); counting the ROM files up to each entry meets every number
(`NthRomExists`), so every row of the list is a file (`NamesOnCard`) and the
highlighted row the entry at the cursor (`HighlightedIsEntry`).

`BitcoinProofs` proves of the three parts that `MCBitcoin` runs: of the keys, for any
order of the group, any half of the indices, any answers of the oracle and paths of
any length; of the codecs, for byte strings of any length and entropies of both; of the
preview, for any transactions, capacity, width of a sum and message of any length.

| Theorem | States |
|---|---|
| `Invariance`, `CodecsKeep`, `PreviewsKeep` | `Spec => []IInv`, `Spec => []CodecInv`, `Spec => []PsbtInv` |
| `PathsAreNames` | `Spec => []PathsNameKeys` |
| `LineageIsShared` | `Spec => []ChildrenShareLineage` |
| `KeysAreScalars` | `Spec => []KeysTypeOK` |
| `Base58IsTheNumber` | `Spec => []Base58KeepsValue` |
| `Base58Fits` | `Spec => []DigitsFit`, a part of `TypeOK` |
| `WordsAreTheEntropy` | `Spec => []WordsSpellEntropy` |
| `FeeIsHonest` | `Spec => []FeeIsInputsMinusOutputs` |
| `TypesAreKept` | `Spec => []TypeOK` |

What is assumed of HMAC-SHA512 is in `Ask`: the right half of an answer never comes
twice, as 256 bits in practice do not.  `KeysAssumption` has the rest: its left
halves are at most `ORDER`, and a component of a path is a number or `INVALID`.

**The argument for the keys.**  Every answer has a chain code of its own (`Oracle`), so a chain
code names the question it answered, and with it the parent's chain code and the
index.  `Along` is the sequence of keys on the way from the master key over given
indices; `FoundAlong` says that every key found lies at the end of the way its caller
spelled, `WalkAlong` that `derive_path` is somewhere on it.  Then the same indices
lead to the same key (`SameIndices`); each component is one level deeper (`Depths`),
so one key has paths of one length, and going back from it chain code by chain code
gives the same index at each level (`SameKey`).  Both arguments look at the first,
or last, place where two ways differ.  `ChildrenShareLineage` rests on
`PublicTypes`: until its first child a public key is the one it was exported from.

**The argument for codecs and sums.**  What these loops compute is a matter of
induction over their data.  The library's induction theorems take an operator as a
parameter, which the provers cannot instantiate; `NatInSet` and `SeqInSet` take a set
instead, the set of the numbers or sequences that have the property.  `Recursion` gives
a recursive function its existence, and with it `ReadingsAre` and `CarriesAre` turn
the definitions of `Digits` and `Codecs` into the equation of one step.  Then:

* `ValueAppend`, `ContinueSame`: a digit more multiplies by the radix, whatever the
  digits before it are, as long as they are the same number.  `ValueBelow`,
  `ValueNotBelow`: `n` digits hold the numbers below the `n`-th power of the radix, and
  a number with a first digit other than zero needs them all.
* Base 58: `LongDivision` says that one pass leaves `58 * quotient + carry` of the
  number, its quotients bytes and its carries below 58 (so that the two casts to `u8`
  lose nothing); `TrimKeepsValue` that the trimmed zeros counted for nothing.  `Base58Inv`
  is the property's equation together with what makes the bound: the last digit
  pushed is not zero once nothing is left to divide.  While something is left, the
  digits are those of a smaller number; `DigitsFit` follows by `ValueNotBelow` against
  the bytes' `ValueBelow`.  `CodecAssumption` demands `256^FULL <= 58^CHARS` and
  `RealSizesFit` proves it for 82 and 112.
* Words: `WordsInv` says that each word is the number its eleven bits of the stream
  read (`WordAt`).  `BitsOfWord`, `BitsOfByte` and `BitsOfNibble` give a number's bits
  back, so a byte read from the words is the byte the stream took its bits from,
  although bytes and words share no border.
* Preview: `Maps` counts the separators before an entry, `AmountUpTo` is what the
  entries read so far say a map holds.  `Counting` is the invariant of the loop: the
  sum of the inputs is that of the maps that are over, `input_value` that of the map
  being read.  An entry changes the amount of its own map only (`AmountNext`), a
  separator adds one map to the sum (`CountingSeparator`), and maps beyond the inputs'
  add zeros (`AllGiven`).  The property's conditions that the sums fit `U64` are used
  once, at the end.

**Only model-checked.**  `FittingCommandAnswered`, `AccessesEnd` and
`MenuAnswers`: liveness is beyond the prover.  Every invariant and every other
property of a passing run is a theorem.

## Disagreements between the code and its documentation

Runs of this project:

1. A command longer than 58 payload bytes always fails its checksum, because those
   of its checksum bytes that lie in the extended buffer (one at 59, both from 60 on)
   are not copied from there (`channel_long`).
2. `set_datetime` looks for the oscillator with a decimal mask, `20u8` for
   `0x20`, and may leave it stopped; the next load then rejects the save
   (`savegame_clock`).  `ClockKeepsRunning` of `BootMenu` is the same fault seen
   from the menu.
3. The list for writes to disabled RAM or-s its address into what the last
   access left (`dma_disabled`).
4. A failed integrity check does not disable wallet mode (`integrity`).

Reproduced by a configuration here:

5. Until the game has selected a clock register, `latch_ptr` is null and `real_ptr`
   points to a copy that is gone: `get_latch_ptr` assigns the other pointer, and both
   getters take the address of a temporary (`gb_rtc.rs:128-147`).  A selection of 0x0D
   to 0x0F opens the window on them (`gb_mbc.rs:216-220`): a write goes to no register
   (`MCGbDmaClock.cfg`), although `gb_dma.rs:670` says that its list loads the "current
   rtc register addr", and a read stops all later reads, of RAM too
   (`MCGbDmaClockRead.cfg`).
6. Up to twice the promised commands per second pass across the border of a window
   (`MCUsbWalletRate.cfg`): `usb_protocol.rs:215` and `:317` and the threat model promise
   ten, and `ERR_BUSY` for the excess; the windows of `check_rate_limit` (`:281`) begin
   anew with the first command after the last one's end.
7. A command whose checksum fails is neither answered nor cleared; PROTOCOL.md
   promises `CHECKSUM_ERROR` (`MCGbChannelDamaged.cfg`).
8. A save does not survive the chip's battery (`MCSaveGameBattery.cfg`).
9. MBC5 RAM banks 4 to 15 are masked to two bits (`MCMapper128k.cfg`).
10. The frame reader does not return a complete frame that follows noise in the
    same chunk (`MCUsbWalletNoise.cfg`).  A damaged length above the maximum even makes
    it wait for more bytes than its buffer holds.
11. The seed file's name is too long for the card, so that a seed can never be
    stored (`MCVaultName.cfg`).

Reproduced by adding the definition to the configuration of the run:

12. `add_tweak_to_pubkey` (`bip32.rs:95`) multiplies the point by the tweak instead
    of adding the tweak's point: `PublicChildOfPrivateChild` (`bitcoin`).
13. The maps of the outputs are read as if they were inputs', so the witness script
    of an output counts as an amount (`psbt.rs:416-449`): `FeeOfEveryMessage`
    (`bitcoin`).
14. `base58check_encode` pushes a `1` per leading zero byte to a string it then
    does not return (`bip32.rs:546`): `LeadingZerosKept` (`bitcoin`).

Seen while modelling:

15. Wallet mode never releases the Game Boy's reset line and never starts the bus
    (`main.rs:283`, `:314-341`, `stealth.rs:121-123`), so that the wallet ROM does
    not run.
16. A year outside 2000 to 2099 set in the menu makes the RP2350 panic
    (`gb_bootloader.rs:311`, `mcp795xx.rs:297`), and the menu waits for ever.
17. The preview's destination is the first output's, its amount the largest one's
    (`psbt.rs:316-340`).
18. Inputs and outputs are added up in a `u64` that wraps in a release build
    (`psbt.rs:399`, `:464`): amounts that add up to more are shown with a fee of the
    remainders.  `FeeIsInputsMinusOutputs` speaks of sums that fit.
19. MBC1's high register has two bits (`gb_mbc.rs:116`), but the bank is masked to six
    (`:82`), so that only the first 64 of an MBC1's 128 banks can be selected.

## What is not modelled

* ROM read path: whether a byte arrives in time is a matter of clock cycles.
* Secure memory, board support: I/O and compiler matters without state.
* Hashes, ciphers and curve arithmetic: ideal in `Vault`, `HdKeys`, `Codecs`.
  `address.rs`, `crypto_rng.rs`, `from_phrase`, `to_seed` and
  `parse_full_psbt` are placeholders in this commit.
* The registers of the cartridge clock byte by byte (masks, calendar carry,
  latched copy): `SaveGame` counts seconds, `Mapper` counts latches.
* The wallet ROM's screens: they wait for answers to `GbChannel`'s commands, and
  every command is answered with an error by this commit's dispatch.  (The
  generating screen, `gb-wallet/main.c:189`, takes no input meanwhile.)
* The sizes of the bootloader's list (`gb_bootloader.rs:199`, 4 KiB, and `:212`, a
  count in a byte): lists are short in `BootMenu`.
* Where the three passes of a wipe land on the card: the file is truncated first,
  so they may be written elsewhere than the seed was.
* What a byte moved to a wrong address does outside RAM and clock registers (`GbDma`).
* A damaged response that names a wrong length: `sram_comm.c:145-151` copies that many
  bytes into a buffer of 176 before it looks at the checksum.
* Lengths of 32 and 64 bits in a transaction message: `psbt.rs` casts them to a `usize`
  of 32 bits and adds them to offsets, which may wrap or panic.
* The depth of a key is a byte (`bip32.rs:190`), which overflows at 256 levels.
* The threat model's exponential backoff (the limiter has fixed waits) and guesses at a
  `StoredKey`, which nothing limits.

## Plan

In this order, the behaviour of the system that matters most first:

1. *(done)* `SyncChannel`, `GbChannel`, `GbChannelProofs`.
2. *(done)* `SaveGame`.
3. *(done)* `Mapper`, `GbDma`.
4. *(done)* `FrameReader`, `UsbWallet`.
5. *(done)* `Vault`.
6. *(done)* `Digits`, `Psbt`, `HdKeys`, `Codecs`.
7. *(done)* `ClockChip`, `BootMenu`.
8. *(done)* `VaultProofs`.
9. *(done)* `MapperProofs`, `GbDmaProofs`, `UsbWalletProofs`, `SaveGameProofs`,
   `BootMenuProofs`, `BitcoinProofs`.
10. *(open)* `RtcRegisters`: masks, carry and latch of the clock registers as functions,
    against a reference count of seconds.
