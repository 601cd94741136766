-------------------------------- MODULE GbDma --------------------------------
(***************************************************************************)
(* The DMA channels that serve the game's accesses to cartridge RAM and    *)
(* clock registers without a processor (GbDmaCommandMachine of gb_dma.rs). *)
(* A requestor channel, started by the FIFO of its PIO program, points the *)
(* loader at a command list; the loader feeds the commands one by one to   *)
(* the executor, whose copies program the memory accessor and start it;    *)
(* the accessor moves the byte and re-arms the requestor.  Core 0 swaps    *)
(* lists and bank pointers meanwhile, whenever the mapper decides to.      *)
(*                                                                         *)
(* A word is the set of the parts it was or-ed together from: an address   *)
(* is {bank, offset}, a pointer the singleton of its target, null is {}.   *)
(*                                                                         *)
(* The clock's two pointers start without a register: latch_ptr null, for  *)
(* get_latch_ptr assigns the other one, and real_ptr at a copy of the      *)
(* registers that is gone when the getter returns.                         *)
(***************************************************************************)
EXTENDS Integers, Sequences

CONSTANTS
  Banks, Offsets,  \* RAM banks and addresses within a bank
  Registers,       \* clock registers
  Bytes,           \* data the game writes; memory holds 0 before
  DisabledWrites,  \* TRUE: the game also writes while the RAM is disabled
  UnsetClock,      \* TRUE: it also opens the clock's window before it has selected
                   \* a register that exists
  MaxAccesses      \* bound: accesses of the game

ASSUME SetsAssumption ==
  /\ Banks \subseteq Nat /\ Offsets \subseteq Nat /\ Registers \subseteq Nat
  /\ Bytes \subseteq Nat /\ 0 \in Banks
  /\ DisabledWrites \in BOOLEAN /\ UnsetClock \in BOOLEAN /\ MaxAccesses \in Nat

VARIABLES
  rdFifo, wrFifo, tx,          \* FIFOs of saveram_read, saveram_write, data out
  lateData,                    \* data word the write program has yet to push
  curRead, curWrite,           \* current_ram_read_command, current_ram_write_commands
  bank, reg,                   \* what gb_ram_ptr and the RTC pointers select
  busy,                        \* channels that are triggered
  list, next,                  \* CMD_LOADER: list and command it reads next
  exec,                        \* CMD_EXECUTOR: read and write address
  acc,                         \* MEMORY_ACCESSOR: read, write address, control
  mem,                         \* RAM, clock registers, DEV_NULL
  ask,                         \* history: the access in progress
  before,                      \* history: mem when it began
  accesses

fifos == <<rdFifo, wrFifo, tx, lateData>>
pointers == <<curRead, curWrite, bank, reg>>
dma == <<busy, list, next, exec, acc>>
vars == <<fifos, pointers, dma, mem, ask, before, accesses>>

Kinds == {"none", "ram", "rtc"}
Values == Bytes \cup {0}

(***************************************************************************)
(* Words.                                                                  *)
(***************************************************************************)
At(name) == {<<name, 0>>}
Null == {}
RamAt(b, a) == {<<"bank", b>>, <<"off", a>>}
Real(r) == {<<"real", r>>}
Latch(r) == {<<"latch", r>>}

\* The clock pointers before the first activate_register.
NoReg == -1
latch_ptr(r) == IF r = NoReg THEN Null ELSE Latch(r)
real_ptr(r) == IF r = NoReg THEN At("temporary") ELSE Real(r)

Locations ==
  {RamAt(b, a) : b \in Banks, a \in Offsets}
    \cup {Real(r) : r \in Registers} \cup {Latch(r) : r \in Registers} \cup {At("devNull")}

(***************************************************************************)
(* Command lists.  "Set" is the bit-set alias of a register, "Trig" the    *)
(* alias that starts the channel.                                          *)
(***************************************************************************)
Cmd(from, to) == [from |-> At(from), to |-> to]
End == [from |-> Null, to |-> "null"]

\* Mutant: the bank replaces the offset instead of joining it.
ram_read_commands_DropsOffset ==
  <<Cmd("ramReadCtrl", "ctrl"), Cmd("writeTargetAddr", "write"),
    Cmd("rdFifo", "read"), Cmd("bankPtr", "readTrig"), End>>

ram_read_commands ==
  <<Cmd("ramReadCtrl", "ctrl"), Cmd("writeTargetAddr", "write"),
    Cmd("rdFifo", "read"), Cmd("bankPtr", "readSetTrig"), End>>
ram_disabled_read_commands ==
  <<Cmd("ramReadCtrl", "ctrl"), Cmd("devNullPtr", "write"),
    Cmd("rdFifo", "read"), Cmd("bankPtr", "readSetTrig"), End>>

\* Mutant: the dummy read of the address is left out.
rtc_read_commands_KeepsAddress ==
  <<Cmd("ramReadCtrl", "ctrl"), Cmd("writeTargetAddr", "write"),
    Cmd("latchPtr", "readTrig"), End>>

rtc_read_commands ==
  <<Cmd("ramReadCtrl", "ctrl"), Cmd("writeTargetAddr", "write"),
    Cmd("rdFifo", "devNull"), Cmd("latchPtr", "readTrig"), End>>

\* Mutant: the offset is not cleared out of the write address first.
ram_write_commands_OrsOffset ==
  <<Cmd("ramWriteCtrl", "ctrl"), Cmd("wrFifo", "writeSet"),
    Cmd("bankPtr", "writeSet"), Cmd("saveramWriteAddr", "readTrig"), End>>

ram_write_commands ==
  <<Cmd("ramWriteCtrl", "ctrl"), Cmd("wrFifo", "write"),
    Cmd("bankPtr", "writeSet"), Cmd("saveramWriteAddr", "readTrig"), End>>
ram_disabled_write_commands ==
  <<Cmd("ramWriteCtrl", "ctrl"), Cmd("wrFifo", "devNull"),
    Cmd("devNullPtr", "writeSet"), Cmd("saveramWriteAddr", "readTrig"), End>>

\* Mutant: the register's address is or-ed into a leftover write address.
rtc_write_commands_OrsAddress ==
  <<Cmd("ramWriteCtrl", "ctrl"), Cmd("wrFifo", "devNull"),
    Cmd("realPtr", "writeSet"), Cmd("saveramWriteAddr", "readTrig"), End>>

rtc_write_commands ==
  <<Cmd("ramWriteCtrl", "ctrl"), Cmd("wrFifo", "devNull"),
    Cmd("realPtr", "write"), Cmd("saveramWriteAddr", "readTrig"), End>>

ReadList(kind) ==
  CASE kind = "ram" -> ram_read_commands
    [] kind = "none" -> ram_disabled_read_commands
    [] kind = "rtc" -> rtc_read_commands
WriteList(kind) ==
  CASE kind = "ram" -> ram_write_commands
    [] kind = "none" -> ram_disabled_write_commands
    [] kind = "rtc" -> rtc_write_commands

\* What a command reads.
Word(from) ==
  CASE from = At("ramReadCtrl") -> At("chainRead")
    [] from = At("ramWriteCtrl") -> At("chainWrite")
    [] from = At("writeTargetAddr") -> At("tx")
    [] from = At("saveramWriteAddr") -> At("wrFifo")
    [] from = At("devNullPtr") -> At("devNull")
    [] from = At("bankPtr") -> {<<"bank", bank>>}
    [] from = At("latchPtr") -> latch_ptr(reg)
    [] from = At("realPtr") -> real_ptr(reg)
    [] from = At("rdFifo") -> Head(rdFifo)
    [] from = At("wrFifo") -> Head(wrFifo)

NoAsk == [op |-> "none", off |-> 0, data |-> 0, kinds |-> {}, banks |-> {}, regs |-> {}]

\* GbDmaCommandMachine::init, then disable_ram_access of main.
Init ==
  /\ rdFifo = <<>> /\ wrFifo = <<>> /\ tx = <<>> /\ lateData = <<>>
  /\ curRead = "none" /\ curWrite = "none" /\ bank = 0 /\ reg = NoReg
  /\ busy = {"rdReq", "wrReq"}
  /\ list = <<>> /\ next = 1
  /\ exec = End
  /\ acc = [read |-> Null, write |-> Null, ctrl |-> Null]
  /\ mem = [l \in Locations |-> 0]
  /\ ask = NoAsk /\ before = mem /\ accesses = 0

(***************************************************************************)
(* The game.  A bus cycle lasts longer than the chain one access sets off. *)
(***************************************************************************)
Quiet == busy = {"rdReq", "wrReq"} /\ rdFifo = <<>> /\ wrFifo = <<>> /\ lateData = <<>>

Asked(op, a, v, kind) ==
  [op |-> op, off |-> a, data |-> v, kinds |-> {kind}, banks |-> {bank},
   regs |-> {reg} \cap Registers]

GbRead(a) ==
  /\ Quiet /\ accesses < MaxAccesses /\ accesses' = accesses + 1
  /\ rdFifo' = <<{<<"off", a>>}>> /\ tx' = <<>>
  /\ ask' = Asked("read", a, 0, curRead) /\ before' = mem
  /\ UNCHANGED <<wrFifo, lateData, pointers, dma, mem>>

\* gameboy_saveram_write pushes the address, and the data half a cycle later.
GbWrite(a, v) ==
  /\ Quiet /\ accesses < MaxAccesses /\ accesses' = accesses + 1
  /\ curWrite = "none" => DisabledWrites
  /\ wrFifo' = <<{<<"off", a>>}>> /\ lateData' = <<{<<"byte", v>>}>> /\ tx' = <<>>
  /\ ask' = Asked("write", a, v, curWrite) /\ before' = mem
  /\ UNCHANGED <<rdFifo, pointers, dma, mem>>

PushData ==
  /\ lateData # <<>>
  /\ wrFifo' = wrFifo \o lateData /\ lateData' = <<>>
  /\ UNCHANGED <<rdFifo, tx, pointers, dma, mem, ask, before, accesses>>

(***************************************************************************)
(* Core 0: the pointer writes of the mapper, at any time.  A swap of the   *)
(* lists is two stores, and core 0 does nothing else in between.           *)
(***************************************************************************)
Swapped == curRead = curWrite

SetRead(kind) ==
  /\ Swapped /\ kind # curRead
  /\ kind = "rtc" /\ reg = NoReg => UnsetClock
  /\ curRead' = kind
  /\ ask' = IF Quiet \/ ask.op # "read" THEN ask ELSE [ask EXCEPT !.kinds = @ \cup {kind}]
  /\ UNCHANGED <<fifos, curWrite, bank, reg, dma, mem, before, accesses>>

SetWrite ==
  /\ ~Swapped
  /\ curRead = "none" /\ ask.op = "write" => Quiet \/ DisabledWrites
  /\ curWrite' = curRead
  /\ ask' = IF Quiet \/ ask.op # "write" THEN ask ELSE [ask EXCEPT !.kinds = @ \cup {curRead}]
  /\ UNCHANGED <<fifos, curRead, bank, reg, dma, mem, before, accesses>>

SetBank(b) ==
  /\ Swapped /\ b # bank
  /\ bank' = b
  /\ ask' = IF Quiet THEN ask ELSE [ask EXCEPT !.banks = @ \cup {b}]
  /\ UNCHANGED <<fifos, curRead, curWrite, reg, dma, mem, before, accesses>>

SetRegister(r) ==
  /\ Swapped /\ r # reg
  /\ reg' = r
  /\ ask' = IF Quiet THEN ask ELSE [ask EXCEPT !.regs = @ \cup {r}]
  /\ UNCHANGED <<fifos, curRead, curWrite, bank, dma, mem, before, accesses>>

(***************************************************************************)
(* The channels.                                                           *)
(***************************************************************************)
\* A requestor sees its FIFO's request and starts the loader on a list.
ReadRequestor ==
  /\ "rdReq" \in busy /\ rdFifo # <<>>
  /\ list' = ReadList(curRead) /\ next' = 1
  /\ busy' = (busy \ {"rdReq"}) \cup {"loader"}
  /\ UNCHANGED <<fifos, pointers, exec, acc, mem, ask, before, accesses>>

WriteRequestor ==
  /\ "wrReq" \in busy /\ wrFifo # <<>>
  /\ list' = WriteList(curWrite) /\ next' = 1
  /\ busy' = (busy \ {"wrReq"}) \cup {"loader"}
  /\ UNCHANGED <<fifos, pointers, exec, acc, mem, ask, before, accesses>>

\* CMD_LOADER copies one command; a null write address does not trigger.
Loader ==
  /\ "loader" \in busy
  /\ exec' = list[next]
  /\ IF list[next] = End
       THEN busy' = busy \ {"loader"} /\ list' = <<>> /\ next' = 1
       ELSE busy' = (busy \ {"loader"}) \cup {"executor"} /\ next' = next + 1 /\ UNCHANGED list
  /\ UNCHANGED <<fifos, pointers, acc, mem, ask, before, accesses>>

\* CMD_EXECUTOR copies one word and triggers the loader again.  A null word written to
\* a trigger alias starts nothing.
Executor ==
  /\ "executor" \in busy
  /\ LET w == Word(exec.from)
     IN  /\ acc' = CASE exec.to = "ctrl" -> [acc EXCEPT !.ctrl = w]
                     [] exec.to = "write" -> [acc EXCEPT !.write = w]
                     [] exec.to = "writeSet" -> [acc EXCEPT !.write = @ \cup w]
                     [] exec.to = "read" -> [acc EXCEPT !.read = w]
                     [] exec.to = "readTrig" -> [acc EXCEPT !.read = w]
                     [] exec.to = "readSetTrig" -> [acc EXCEPT !.read = @ \cup w]
                     [] exec.to = "devNull" -> acc
         /\ busy' = (busy \ {"executor"}) \cup {"loader"}
                    \cup (IF exec.to \in {"readTrig", "readSetTrig"} /\ w # Null
                          THEN {"accessor"} ELSE {})
  /\ rdFifo' = IF exec.from = At("rdFifo") THEN Tail(rdFifo) ELSE rdFifo
  /\ wrFifo' = IF exec.from = At("wrFifo") THEN Tail(wrFifo) ELSE wrFifo
  /\ UNCHANGED <<tx, lateData, pointers, list, next, exec, mem, ask, before, accesses>>

\* Mutant: a write re-arms the requestor of the reads.
Rearm_Read(ctrl) == "rdReq"

\* The chain_to of the control word.
Rearm(ctrl) == IF ctrl = At("chainRead") THEN "rdReq" ELSE "wrReq"

\* The bytes the accessor may read: what its source holds, any byte where the source
\* is no place of this model.
Moved ==
  {v \in Values :
     /\ acc.read \in Locations => v = mem[acc.read]
     /\ acc.read = At("wrFifo") /\ (\E b \in Values : Head(wrFifo) = {<<"byte", b>>})
          => Head(wrFifo) = {<<"byte", v>>}}

\* Where it may write: an address or-ed together out of two, or a pointer to what is
\* gone, is any place, some memory outside this model, or no memory at all.
Landing ==
  IF acc.write \in Locations \cup {At("tx")} THEN {acc.write}
  ELSE Locations \cup {At("elsewhere"), At("unmapped")}

\* MEMORY_ACCESSOR moves one byte; for a write it waits for the data word.  A bus error
\* halts the channel, and a halted channel re-arms nothing.
Accessor ==
  /\ "accessor" \in busy
  /\ acc.ctrl = At("chainWrite") => wrFifo # <<>>
  /\ \E v \in Moved, l \in Landing :
       /\ tx' = IF l = At("tx") THEN Append(tx, {<<"byte", v>>}) ELSE tx
       /\ mem' = IF l \in Locations THEN [mem EXCEPT ![l] = v] ELSE mem
       /\ busy' = (busy \ {"accessor"})
                  \cup (IF l = At("unmapped") THEN {} ELSE {Rearm(acc.ctrl)})
  /\ wrFifo' = IF acc.read = At("wrFifo") THEN Tail(wrFifo) ELSE wrFifo
  /\ UNCHANGED <<rdFifo, lateData, pointers, list, next, exec, acc, ask, before, accesses>>

Dma == ReadRequestor \/ WriteRequestor \/ Loader \/ Executor \/ Accessor

Core0 ==
  \/ \E kind \in Kinds : SetRead(kind)
  \/ SetWrite
  \/ \E b \in Banks : SetBank(b)
  \/ \E r \in Registers : SetRegister(r)

Next ==
  \/ \E a \in Offsets : GbRead(a) \/ \E v \in Bytes : GbWrite(a, v)
  \/ PushData \/ Core0 \/ Dma

Spec == Init /\ [][Next]_vars

\* The channels and the PIO programs run by themselves.
FairSpec == Spec /\ WF_vars(Dma) /\ WF_vars(PushData)

(***************************************************************************)
(* Properties.                                                             *)
(***************************************************************************)
Channels == {"rdReq", "wrReq", "loader", "executor", "accessor"}

\* Every variable keeps its type: the FIFOs hold no more than one access pushes,
\* and one channel at a time works on the command list.
TypeOK ==
  /\ busy \subseteq Channels
  /\ Len(rdFifo) <= 1 /\ Len(wrFifo) <= 2 /\ Len(tx) <= 1
  /\ curRead \in Kinds /\ curWrite \in Kinds /\ bank \in Banks
  /\ reg \in Registers \cup {NoReg}
  /\ next \in 1..5
  /\ mem \in [Locations -> Values]
  /\ "loader" \notin busy \/ "executor" \notin busy

\* The accessor only ever moves between a FIFO and a RAM cell, a clock register
\* or DEV_NULL: "load the addr of _devNull into write addr of MEMORY_ACCESSOR_DMA"
\* says the list for writes to disabled RAM, "load the current rtc register addr" the
\* list for writes to the clock.
TransfersHaveTargets ==
  "accessor" \in busy =>
    /\ acc.read \in Locations \cup {At("wrFifo")}
    /\ acc.write \in Locations \cup {At("tx")}

\* Where the access in progress may go: a list, bank and register that were
\* selected at some time since it began.
Targets ==
  (IF "ram" \in ask.kinds THEN {RamAt(b, ask.off) : b \in ask.banks} ELSE {})
    \cup (IF "rtc" \in ask.kinds
            THEN {IF ask.op = "read" THEN Latch(r) ELSE Real(r) : r \in ask.regs} ELSE {})

\* When a read is over, the bus got exactly one byte, out of a place selected
\* while it ran, or none if the RAM was disabled; a swap of lists or banks in
\* the middle never mixes two places.
ReadsAreServed ==
  Quiet /\ ask.op = "read" =>
    \/ \E l \in Targets : tx = <<{<<"byte", before[l]>>}>>
    \/ tx = <<>> /\ "none" \in ask.kinds

\* When a write that had the RAM or the clock open all the time is over, its byte is in
\* one place selected while it ran and no other byte of RAM, clock or DEV_NULL has
\* changed, whatever the access before it left in the accessor.
WritesLand ==
  Quiet /\ ask.op = "write" /\ "none" \notin ask.kinds =>
    \E l \in Targets : mem = [before EXCEPT ![l] = ask.data]

\* Every access comes to an end with both requestors armed for the next one.
AccessesEnd == (rdFifo # <<>> \/ wrFifo # <<>>) ~> Quiet

=============================================================================
