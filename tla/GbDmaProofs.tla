---------------------------- MODULE GbDmaProofs ----------------------------
(***************************************************************************)
(* Proofs about GbDma for every set of banks, addresses, registers and     *)
(* bytes and any number of accesses.                                       *)
(*                                                                         *)
(* One access is followed command by command: which list the loader works  *)
(* through and how far it has come decide what is left in the FIFOs and    *)
(* what the accessor is programmed with; which list, bank and register     *)
(* they came from, the pointers core 0 has selected since the access       *)
(* began.                                                                  *)
(***************************************************************************)
EXTENDS GbDma, SequenceTheorems, TLAPS

Off == {<<"off", ask.off>>}
Data == {<<"byte", ask.data>>}
Armed == {"rdReq", "wrReq"}

Asks == [op : {"none", "read", "write"}, off : Nat, data : Values,
         kinds : SUBSET Kinds, banks : SUBSET Banks, regs : SUBSET Registers]

Types ==
  /\ curRead \in Kinds /\ curWrite \in Kinds /\ bank \in Banks
  /\ reg \in Registers \cup {NoReg}
  /\ mem \in [Locations -> Values] /\ before \in [Locations -> Values]
  /\ acc = [read |-> acc.read, write |-> acc.write, ctrl |-> acc.ctrl]
  /\ ask \in Asks /\ (ask.op # "none" => ask.off \in Offsets)

\* What core 0 has selected is among the choices of the access in progress, and the
\* clock is not open before a register is selected if the game sees to it.
Selected ==
  /\ ~Quiet => bank \in ask.banks /\ (reg # NoReg => reg \in ask.regs)
  /\ ~Quiet /\ ask.op = "read" => curRead \in ask.kinds
  /\ ~Quiet /\ ask.op = "write" => curWrite \in ask.kinds
  /\ ask.op = "write" /\ "none" \in ask.kinds => DisabledWrites
  /\ reg = NoReg /\ ~UnsetClock => "rtc" \notin ask.kinds \cup {curRead, curWrite}

\* n commands of list l are carried out; beside the two channels that work on the
\* list, those in rest are busy.
Chain(l, n, rest) ==
  /\ list = l
  /\ \/ busy = rest \cup {"loader"} /\ next = n + 1
     \/ busy = rest \cup {"executor"} /\ next = n + 2 /\ exec = l[n + 1]

\* All commands are carried out, and the loader comes or has come to the end.
Ended(rest) ==
  \/ busy = rest \cup {"loader"} /\ next = 5 /\ list[5] = End
  \/ busy = rest /\ next = 1 /\ list = <<>>

(***************************************************************************)
(* A read.                                                                 *)
(***************************************************************************)
ReadSink(kind) == IF kind = "none" THEN At("devNull") ELSE At("tx")

ReadSources(kind) ==
  IF kind = "rtc" THEN {Latch(r) : r \in ask.regs} ELSE {RamAt(b, ask.off) : b \in ask.banks}

ReadStarts == busy = Armed /\ next = 1 /\ list = <<>> /\ rdFifo = <<Off>>

ReadFollows ==
  \E kind \in ask.kinds, n \in 0..3 :
    /\ Chain(ReadList(kind), n, {"wrReq"})
    /\ rdFifo = IF n < 3 THEN <<Off>> ELSE <<>>
    /\ n >= 1 => acc.ctrl = At("chainRead")
    /\ n >= 2 => acc.write = ReadSink(kind)
    /\ n = 3 /\ kind # "rtc" => acc.read = Off

ReadMoves ==
  \E kind \in ask.kinds :
    /\ Ended({"wrReq", "accessor"}) /\ rdFifo = <<>>
    /\ acc.ctrl = At("chainRead") /\ acc.write = ReadSink(kind)
    /\ acc.read \in ReadSources(kind)

\* The null pointer has not started the accessor, and nothing else will.
ReadHalts == Ended({"wrReq"}) /\ rdFifo = <<>>

Served ==
  \/ \E l \in Targets : tx = <<{<<"byte", before[l]>>}>>
  \/ tx = <<>> /\ "none" \in ask.kinds

Reads ==
  /\ ask.op = "read" /\ wrFifo = <<>> /\ lateData = <<>>
  /\ \/ /\ ReadStarts \/ ReadFollows \/ ReadMoves \/ ReadHalts
        /\ tx = <<>> /\ mem = before
     \/ Ended(Armed) /\ rdFifo = <<>> /\ Served

(***************************************************************************)
(* A write, the data of which comes when it comes.                         *)
(***************************************************************************)
WholeFifo ==
  \/ wrFifo = <<Off>> /\ lateData = <<Data>>
  \/ wrFifo = <<Off, Data>> /\ lateData = <<>>
DataFifo ==
  \/ wrFifo = <<>> /\ lateData = <<Data>>
  \/ wrFifo = <<Data>> /\ lateData = <<>>

\* Where the access is to go, or into no place that holds anything.
WriteSink(kind) ==
  CASE kind = "ram" -> \E b \in ask.banks : acc.write = RamAt(b, ask.off)
    [] kind = "rtc" -> \/ \E r \in ask.regs : acc.write = Real(r)
                       \/ UnsetClock /\ acc.write = At("temporary")
    [] kind = "none" -> <<"devNull", 0>> \in acc.write

WriteStarts == busy = Armed /\ next = 1 /\ list = <<>> /\ WholeFifo

WriteFollows ==
  \E kind \in ask.kinds, n \in 0..3 :
    /\ Chain(WriteList(kind), n, {"rdReq"})
    /\ IF n < 2 THEN WholeFifo ELSE DataFifo
    /\ n >= 1 => acc.ctrl = At("chainWrite")
    /\ n = 2 /\ kind = "ram" => acc.write = Off
    /\ n = 3 => WriteSink(kind)

WriteMoves ==
  \E kind \in ask.kinds :
    /\ Ended({"rdReq", "accessor"}) /\ DataFifo
    /\ acc.ctrl = At("chainWrite") /\ acc.read = At("wrFifo") /\ WriteSink(kind)

\* A bus error has halted the accessor.
WriteHalts == Ended({"rdReq"}) /\ wrFifo = <<>> /\ lateData = <<>>

Landed ==
  \/ \E l \in Targets : mem = [before EXCEPT ![l] = ask.data]
  \/ "none" \in ask.kinds \/ UnsetClock

Writes ==
  /\ ask.op = "write" /\ rdFifo = <<>> /\ tx = <<>>
  /\ \/ /\ WriteStarts \/ WriteFollows \/ WriteMoves
        /\ mem = before
     \/ Ended(Armed) /\ wrFifo = <<>> /\ lateData = <<>> /\ Landed
     \/ WriteHalts

Unasked ==
  /\ ask.op = "none" /\ rdFifo = <<>> /\ wrFifo = <<>> /\ lateData = <<>> /\ tx = <<>>
  /\ busy = Armed /\ next = 1 /\ list = <<>>

IInv == Types /\ Selected /\ (Unasked \/ Reads \/ Writes)

-----------------------------------------------------------------------------
\* FIFOs of at most two words.
LEMMA Fifos ==
  ASSUME NEW v, NEW w
  PROVE  /\ <<v>> # <<>> /\ <<v, w>> # <<>> /\ <<v>> # <<v, w>>
         /\ Head(<<v>>) = v /\ Tail(<<v>>) = <<>>
         /\ Head(<<v, w>>) = v /\ Tail(<<v, w>>) = <<w>>
         /\ <<>> \o <<w>> = <<w>> /\ <<v>> \o <<w>> = <<v, w>>
         /\ Append(<<>>, w) = <<w>>
         /\ Len(<<>>) = 0 /\ Len(<<v>>) = 1 /\ Len(<<v, w>>) = 2
<1>1. <<v>> # <<>> /\ <<v, w>> # <<>> /\ <<v>> # <<v, w>>
  OBVIOUS
<1>2. Head(<<v>>) = v /\ Tail(<<v>>) = <<>>
  OBVIOUS
<1>3. Head(<<v, w>>) = v /\ Tail(<<v, w>>) = <<w>>
  OBVIOUS
<1>4. <<>> \o <<w>> = <<w>> /\ <<v>> \o <<w>> = <<v, w>>
  <2>. DEFINE S == {v, w}
  <2>1. <<>> \in Seq(S) /\ <<v>> \in Seq(S) /\ <<w>> \in Seq(S)
    OBVIOUS
  <2>2. <<>> \o <<w>> = <<w>>
    BY <2>1, ConcatEmptySeq
  <2>3. <<v>> \o <<w>> = Append(<<v>>, w)
    BY <2>1, AppendIsConcat
  <2>4. <<v, w>> \in Seq(S) /\ Append(<<v>>, w) \in Seq(S) /\ Len(Append(<<v>>, w)) = 2
    OBVIOUS
  <2>5. \A i \in 1..2 : Append(<<v>>, w)[i] = <<v, w>>[i]
    OBVIOUS
  <2>6. Append(<<v>>, w) = <<v, w>>
    BY <2>4, <2>5, SeqEqual
  <2>. QED
    BY <2>2, <2>3, <2>6
<1>5. Append(<<>>, w) = <<w>>
  OBVIOUS
<1>6. Len(<<>>) = 0 /\ Len(<<v>>) = 1 /\ Len(<<v, w>>) = 2
  OBVIOUS
<1>. QED
  BY <1>1, <1>2, <1>3, <1>4, <1>5, <1>6

LEMMA Singles == \A x, y : {x} = {y} => x = y
<1>. SUFFICES ASSUME NEW x, NEW y, {x} = {y} PROVE x = y
  OBVIOUS
<1>1. x \in {x}
  OBVIOUS
<1>2. x \in {y}
  BY <1>1
<1>. QED
  BY <1>2

\* Words with different names are different words.
LEMMA Words ==
  /\ At("wrFifo") # At("tx") /\ At("chainRead") # At("chainWrite")
  /\ At("devNull") # At("tx") /\ At("devNull") # At("wrFifo")
  /\ At("devNull") \in Locations /\ At("temporary") # At("tx")
  /\ At("unmapped") \notin Locations \cup {At("tx")}
  /\ At("wrFifo") \notin Locations /\ At("tx") \notin Locations
  /\ \A l \in Locations : <<"devNull", 0>> \in l => l = At("devNull")
  /\ <<"devNull", 0>> \notin At("tx") /\ <<"devNull", 0>> \in At("devNull")
<1>1. \A m, n : At(m) = At(n) => m = n
  BY Singles DEF At
<1>2. \A b, a, n : RamAt(b, a) # At(n) /\ <<"devNull", 0>> \notin RamAt(b, a)
  <2>1. \A b, a : <<"bank", b>> \in RamAt(b, a) /\ <<"off", a>> \in RamAt(b, a)
    BY DEF RamAt
  <2>2. \A n, x : x \in At(n) => x = <<n, 0>>
    BY DEF At
  <2>3. \A b, a, n : <<"bank", b>> = <<n, 0>> => <<"off", a>> # <<n, 0>>
    OBVIOUS
  <2>4. \A b, a : <<"devNull", 0>> \notin RamAt(b, a)
    BY DEF RamAt
  <2>. QED
    BY <2>1, <2>2, <2>3, <2>4
<1>3. \A r : <<"devNull", 0>> \notin Real(r) /\ <<"devNull", 0>> \notin Latch(r)
  BY DEF Real, Latch
<1>4. \A r : /\ Real(r) # At("wrFifo") /\ Real(r) # At("tx") /\ Real(r) # At("unmapped")
             /\ Latch(r) # At("wrFifo") /\ Latch(r) # At("tx") /\ Latch(r) # At("unmapped")
  BY Singles DEF Real, Latch, At
<1>5. <<"devNull", 0>> \notin At("tx") /\ <<"devNull", 0>> \in At("devNull")
  BY DEF At
<1>6. At("devNull") \in Locations
  BY DEF Locations
<1>7. /\ At("wrFifo") # At("tx") /\ At("chainRead") # At("chainWrite")
      /\ At("devNull") # At("tx") /\ At("devNull") # At("wrFifo")
      /\ At("temporary") # At("tx") /\ At("unmapped") # At("tx") /\ At("unmapped") # At("devNull")
  BY <1>1
<1>8. \A l \in Locations : \/ l = At("devNull") \/ \E b, a : l = RamAt(b, a)
                            \/ \E r : l = Real(r) \/ l = Latch(r)
  BY DEF Locations
<1>9. \A l \in Locations : <<"devNull", 0>> \in l => l = At("devNull")
  BY <1>2, <1>3, <1>8
<1>10. /\ At("wrFifo") \notin Locations /\ At("tx") \notin Locations
       /\ At("unmapped") \notin Locations
  BY <1>2, <1>4, <1>7, <1>8
<1>. QED
  BY <1>5, <1>6, <1>7, <1>9, <1>10

LEMMA Places ==
  /\ \A b \in Banks, a \in Offsets : RamAt(b, a) \in Locations
  /\ \A r \in Registers : Real(r) \in Locations /\ Latch(r) \in Locations
BY DEF Locations

LEMMA Bytewise == \A b, c : {<<"byte", b>>} = {<<"byte", c>>} => b = c
BY Singles

LEMMA ReadLists ==
  ASSUME NEW kind \in Kinds
  PROVE  /\ ReadList(kind)[1] = Cmd("ramReadCtrl", "ctrl")
         /\ ReadList(kind)[2] = IF kind = "none" THEN Cmd("devNullPtr", "write")
                                ELSE Cmd("writeTargetAddr", "write")
         /\ ReadList(kind)[3] = IF kind = "rtc" THEN Cmd("rdFifo", "devNull")
                                ELSE Cmd("rdFifo", "read")
         /\ ReadList(kind)[4] = IF kind = "rtc" THEN Cmd("latchPtr", "readTrig")
                                ELSE Cmd("bankPtr", "readSetTrig")
         /\ ReadList(kind)[5] = End
BY DEF Kinds, ReadList, ram_read_commands, ram_disabled_read_commands, rtc_read_commands

LEMMA WriteLists ==
  ASSUME NEW kind \in Kinds
  PROVE  /\ WriteList(kind)[1] = Cmd("ramWriteCtrl", "ctrl")
         /\ WriteList(kind)[2] = IF kind = "ram" THEN Cmd("wrFifo", "write")
                                 ELSE Cmd("wrFifo", "devNull")
         /\ kind = "ram" => WriteList(kind)[3] = Cmd("bankPtr", "writeSet")
         /\ kind = "rtc" => WriteList(kind)[3] = Cmd("realPtr", "write")
         /\ kind = "none" => WriteList(kind)[3] = Cmd("devNullPtr", "writeSet")
         /\ WriteList(kind)[4] = Cmd("saveramWriteAddr", "readTrig")
         /\ WriteList(kind)[5] = End
BY DEF Kinds, WriteList, ram_write_commands, ram_disabled_write_commands, rtc_write_commands

\* The mark of the end is no command.
LEMMA Commands ==
  ASSUME NEW from, NEW to
  PROVE  Cmd(from, to) # End /\ Cmd(from, to).from = At(from) /\ Cmd(from, to).to = to
BY DEF Cmd, End, At, Null

LEMMA Sources ==
  /\ Word(At("ramReadCtrl")) = At("chainRead")
  /\ Word(At("ramWriteCtrl")) = At("chainWrite")
  /\ Word(At("writeTargetAddr")) = At("tx")
  /\ Word(At("saveramWriteAddr")) = At("wrFifo")
  /\ Word(At("devNullPtr")) = At("devNull")
  /\ Word(At("bankPtr")) = {<<"bank", bank>>}
  /\ Word(At("latchPtr")) = latch_ptr(reg)
  /\ Word(At("realPtr")) = real_ptr(reg)
  /\ Word(At("rdFifo")) = Head(rdFifo)
  /\ Word(At("wrFifo")) = Head(wrFifo)
<1>1. \A m, n : At(m) = At(n) => m = n
  BY Singles DEF At
<1>. QED
  BY <1>1 DEF Word

-----------------------------------------------------------------------------
\* What the channels do to the position in the list.
LEMMA LoaderSteps ==
  ASSUME Loader, NEW l, NEW n \in 0..3, NEW rest,
         "loader" \notin rest, "executor" \notin rest, Chain(l, n, rest), l[n + 1] # End
  PROVE  /\ Chain(l, n, rest)'
         /\ UNCHANGED <<fifos, pointers, acc, mem, ask, before, accesses>>
<1>1. busy = rest \cup {"loader"} /\ next = n + 1 /\ list = l
  BY DEF Loader, Chain
<1>2. exec' = l[n + 1] /\ list' = l /\ next' = (n + 1) + 1
      /\ busy' = (busy \ {"loader"}) \cup {"executor"}
  BY <1>1 DEF Loader
<1>3. busy' = rest \cup {"executor"} /\ next' = n + 2
  BY <1>1, <1>2
<1>. QED
  BY <1>2, <1>3 DEF Chain, Loader

LEMMA LoaderEnds ==
  ASSUME Loader, NEW rest, "loader" \notin rest, Ended(rest)
  PROVE  /\ Ended(rest)'
         /\ UNCHANGED <<fifos, pointers, acc, mem, ask, before, accesses>>
<1>1. busy = rest \cup {"loader"} /\ next = 5 /\ list[5] = End
  BY DEF Loader, Ended
<1>2. busy' = busy \ {"loader"} /\ list' = <<>> /\ next' = 1
  BY <1>1 DEF Loader
<1>3. busy' = rest
  BY <1>1, <1>2
<1>. QED
  BY <1>2, <1>3 DEF Ended, Loader

Triggers == {"readTrig", "readSetTrig"}

LEMMA ExecutorSteps ==
  ASSUME Executor, NEW l, NEW n \in 0..3, NEW rest,
         "loader" \notin rest, "executor" \notin rest, Chain(l, n, rest)
  PROVE  /\ exec = l[n + 1]
         /\ n < 3 /\ l[n + 1].to \notin Triggers => Chain(l, n + 1, rest)'
         /\ n = 3 /\ l[n + 1].to \in Triggers /\ l[5] = End
              => IF Word(l[n + 1].from) # Null THEN Ended(rest \cup {"accessor"})'
                 ELSE Ended(rest)'
         /\ UNCHANGED <<tx, lateData, pointers, mem, ask, before, accesses>>
<1>1. busy = rest \cup {"executor"} /\ next = n + 2 /\ exec = l[n + 1] /\ list = l
  BY DEF Executor, Chain
<1>2. /\ list' = l /\ next' = n + 2
      /\ busy' = (busy \ {"executor"}) \cup {"loader"}
                 \cup (IF exec.to \in Triggers /\ Word(exec.from) # Null
                       THEN {"accessor"} ELSE {})
  BY <1>1 DEF Executor, Triggers
<1>3. ASSUME n < 3, l[n + 1].to \notin Triggers
      PROVE  Chain(l, n + 1, rest)'
  <2>1. busy' = rest \cup {"loader"} /\ next' = (n + 1) + 1
    BY <1>1, <1>2, <1>3
  <2>. QED
    BY <1>2, <2>1 DEF Chain
<1>4. ASSUME n = 3, l[n + 1].to \in Triggers, l[5] = End, Word(l[n + 1].from) # Null
      PROVE  Ended(rest \cup {"accessor"})'
  <2>1. busy' = (rest \cup {"accessor"}) \cup {"loader"} /\ next' = 5
    BY <1>1, <1>2, <1>4
  <2>. QED
    BY <1>2, <1>4, <2>1 DEF Ended
<1>5. ASSUME n = 3, l[n + 1].to \in Triggers, l[5] = End, Word(l[n + 1].from) = Null
      PROVE  Ended(rest)'
  <2>1. busy' = rest \cup {"loader"} /\ next' = 5
    BY <1>1, <1>2, <1>5
  <2>. QED
    BY <1>2, <1>5, <2>1 DEF Ended
<1>. QED
  BY <1>1, <1>3, <1>4, <1>5 DEF Executor

LEMMA AccessorSteps ==
  ASSUME Accessor, NEW rest, "loader" \notin rest, "accessor" \notin rest,
         Ended(rest \cup {"accessor"}), NEW arm, arm = Rearm(acc.ctrl)
  PROVE  /\ Ended(rest \cup {arm})' \/ (At("unmapped") \in Landing /\ Ended(rest)')
         /\ UNCHANGED <<rdFifo, lateData, pointers, acc, ask, before, accesses>>
<1>1. /\ UNCHANGED <<list, next>>
      /\ \/ busy' = (busy \ {"accessor"}) \cup {arm}
         \/ At("unmapped") \in Landing /\ busy' = (busy \ {"accessor"}) \cup {}
  <2>1. PICK l \in Landing : busy' = (busy \ {"accessor"})
                                    \cup (IF l = At("unmapped") THEN {} ELSE {Rearm(acc.ctrl)})
    BY DEF Accessor
  <2>. QED
    BY <2>1 DEF Accessor
<1>2. arm \in {"rdReq", "wrReq"}
  BY DEF Rearm
<1>3. ASSUME NEW armed \in SUBSET {"rdReq", "wrReq"}, busy' = (busy \ {"accessor"}) \cup armed
      PROVE  Ended(rest \cup armed)'
  <2>1. CASE busy = (rest \cup {"accessor"}) \cup {"loader"} /\ next = 5 /\ list[5] = End
    <3>1. busy' = (rest \cup armed) \cup {"loader"}
      BY <1>3, <2>1
    <3>. QED
      BY <1>1, <2>1, <3>1 DEF Ended
  <2>2. CASE busy = rest \cup {"accessor"} /\ next = 1 /\ list = <<>>
    <3>1. busy' = rest \cup armed
      BY <1>3, <2>2
    <3>. QED
      BY <1>1, <2>2, <3>1 DEF Ended
  <2>. QED
    BY <2>1, <2>2 DEF Ended
<1>4. rest \cup {} = rest
  OBVIOUS
<1>5. Ended(rest \cup {arm})' \/ (At("unmapped") \in Landing /\ Ended(rest)')
  <2>1. CASE busy' = (busy \ {"accessor"}) \cup {arm}
    <3>1. {arm} \in SUBSET {"rdReq", "wrReq"}
      BY <1>2
    <3>2. \A armed \in SUBSET {"rdReq", "wrReq"} :
            busy' = (busy \ {"accessor"}) \cup armed => Ended(rest \cup armed)'
      BY <1>3
    <3>. QED
      BY <2>1, <3>1, <3>2 DEF Ended
  <2>2. CASE At("unmapped") \in Landing /\ busy' = (busy \ {"accessor"}) \cup {}
    <3>1. Ended(rest \cup {})'
      BY <1>3, <2>2
    <3>. QED
      BY <1>4, <2>2, <3>1 DEF Ended
  <2>. QED
    BY <1>1, <2>1, <2>2
<1>. QED
  BY <1>5 DEF Accessor

\* What one command does to the programming of the accessor.
LEMMA Executes ==
  ASSUME Executor, NEW from, NEW to, exec = Cmd(from, to),
         acc = [read |-> acc.read, write |-> acc.write, ctrl |-> acc.ctrl]
  PROVE  /\ to = "ctrl" =>
              acc' = [read |-> acc.read, write |-> acc.write, ctrl |-> Word(At(from))]
         /\ to = "write" =>
              acc' = [read |-> acc.read, write |-> Word(At(from)), ctrl |-> acc.ctrl]
         /\ to = "writeSet" =>
              acc' = [read |-> acc.read, write |-> acc.write \cup Word(At(from)), ctrl |-> acc.ctrl]
         /\ to \in {"read", "readTrig"} =>
              acc' = [read |-> Word(At(from)), write |-> acc.write, ctrl |-> acc.ctrl]
         /\ to = "readSetTrig" =>
              acc' = [read |-> acc.read \cup Word(At(from)), write |-> acc.write, ctrl |-> acc.ctrl]
         /\ to = "devNull" => acc' = acc
         /\ rdFifo' = IF from = "rdFifo" THEN Tail(rdFifo) ELSE rdFifo
         /\ wrFifo' = IF from = "wrFifo" THEN Tail(wrFifo) ELSE wrFifo
<1>. DEFINE w == Word(At(from))
<1>1. exec.from = At(from) /\ exec.to = to
  BY Commands
<1>2. acc' = CASE to = "ctrl" -> [acc EXCEPT !.ctrl = w]
               [] to = "write" -> [acc EXCEPT !.write = w]
               [] to = "writeSet" -> [acc EXCEPT !.write = @ \cup w]
               [] to = "read" -> [acc EXCEPT !.read = w]
               [] to = "readTrig" -> [acc EXCEPT !.read = w]
               [] to = "readSetTrig" -> [acc EXCEPT !.read = @ \cup w]
               [] to = "devNull" -> acc
  BY <1>1 DEF Executor
<1>3. /\ rdFifo' = IF At(from) = At("rdFifo") THEN Tail(rdFifo) ELSE rdFifo
      /\ wrFifo' = IF At(from) = At("wrFifo") THEN Tail(wrFifo) ELSE wrFifo
  BY <1>1 DEF Executor
<1>4. \A m, n : At(m) = At(n) => m = n
  BY Singles DEF At
<1>. HIDE DEF w
<1>5. to = "ctrl" => acc' = [read |-> acc.read, write |-> acc.write, ctrl |-> w]
  BY <1>2
<1>6. to = "write" => acc' = [read |-> acc.read, write |-> w, ctrl |-> acc.ctrl]
  BY <1>2
<1>7. to = "writeSet" => acc' = [read |-> acc.read, write |-> acc.write \cup w, ctrl |-> acc.ctrl]
  BY <1>2
<1>8. to \in {"read", "readTrig"} => acc' = [read |-> w, write |-> acc.write, ctrl |-> acc.ctrl]
  BY <1>2
<1>9. to = "readSetTrig" => acc' = [read |-> acc.read \cup w, write |-> acc.write, ctrl |-> acc.ctrl]
  BY <1>2
<1>10. to = "devNull" => acc' = acc
  BY <1>2
<1>. QED
  BY <1>3, <1>4, <1>5, <1>6, <1>7, <1>8, <1>9, <1>10 DEF w

-----------------------------------------------------------------------------
\* Core 0 moves pointers; what it selects while an access runs joins the choices of
\* the access.
LEMMA Selections ==
  ASSUME Types, Core0
  PROVE  /\ UNCHANGED <<fifos, dma, mem, before, accesses>>
         /\ ask' = [op |-> ask.op, off |-> ask.off, data |-> ask.data,
                    kinds |-> ask'.kinds, banks |-> ask'.banks, regs |-> ask'.regs]
         /\ ask.kinds \subseteq ask'.kinds /\ ask'.kinds \subseteq Kinds
         /\ ask.banks \subseteq ask'.banks /\ ask'.banks \subseteq Banks
         /\ ask.regs \subseteq ask'.regs /\ ask'.regs \subseteq Registers
         /\ Quiet => ask' = ask
         /\ curRead' \in Kinds /\ curWrite' \in Kinds /\ bank' \in Banks
         /\ reg' \in Registers \cup {NoReg}
         /\ Selected => Selected'
<1>1. /\ ask = [op |-> ask.op, off |-> ask.off, data |-> ask.data,
                kinds |-> ask.kinds, banks |-> ask.banks, regs |-> ask.regs]
      /\ ask.kinds \subseteq Kinds /\ ask.banks \subseteq Banks /\ ask.regs \subseteq Registers
      /\ curRead \in Kinds /\ curWrite \in Kinds /\ bank \in Banks
      /\ reg \in Registers \cup {NoReg}
  BY DEF Types, Asks
<1>2. ASSUME NEW kind \in Kinds, SetRead(kind)
      PROVE  /\ UNCHANGED <<fifos, dma, mem, before, accesses, curWrite, bank, reg>>
             /\ curRead' = kind /\ (kind = "rtc" /\ reg = NoReg => UnsetClock)
             /\ ask' = [op |-> ask.op, off |-> ask.off, data |-> ask.data,
                        kinds |-> ask'.kinds, banks |-> ask.banks, regs |-> ask.regs]
             /\ ask'.kinds = IF Quiet \/ ask.op # "read" THEN ask.kinds ELSE ask.kinds \cup {kind}
  <2>. DEFINE more == ask.kinds \cup {kind}
  <2>1. ask' = IF Quiet \/ ask.op # "read" THEN ask ELSE [ask EXCEPT !.kinds = more]
    BY <1>2 DEF SetRead
  <2>. HIDE DEF more
  <2>2. CASE Quiet \/ ask.op # "read"
    BY <1>1, <1>2, <2>1, <2>2 DEF SetRead
  <2>3. CASE ~(Quiet \/ ask.op # "read")
    <3>1. ask' = [op |-> ask.op, off |-> ask.off, data |-> ask.data,
                  kinds |-> more, banks |-> ask.banks, regs |-> ask.regs]
      BY <1>1, <2>1, <2>3
    <3>2. ask'.kinds = more
      BY <3>1
    <3>. QED
      BY <1>2, <2>3, <3>1, <3>2 DEF SetRead, more
  <2>. QED
    BY <2>2, <2>3
<1>3. ASSUME SetWrite
      PROVE  /\ UNCHANGED <<fifos, dma, mem, before, accesses, curRead, bank, reg>>
             /\ curWrite' = curRead
             /\ curRead = "none" /\ ask.op = "write" => Quiet \/ DisabledWrites
             /\ ask' = [op |-> ask.op, off |-> ask.off, data |-> ask.data,
                        kinds |-> ask'.kinds, banks |-> ask.banks, regs |-> ask.regs]
             /\ ask'.kinds = IF Quiet \/ ask.op # "write" THEN ask.kinds
                             ELSE ask.kinds \cup {curRead}
  <2>. DEFINE more == ask.kinds \cup {curRead}
  <2>1. ask' = IF Quiet \/ ask.op # "write" THEN ask ELSE [ask EXCEPT !.kinds = more]
    BY <1>3 DEF SetWrite
  <2>. HIDE DEF more
  <2>2. CASE Quiet \/ ask.op # "write"
    BY <1>1, <1>3, <2>1, <2>2 DEF SetWrite
  <2>3. CASE ~(Quiet \/ ask.op # "write")
    <3>1. ask' = [op |-> ask.op, off |-> ask.off, data |-> ask.data,
                  kinds |-> more, banks |-> ask.banks, regs |-> ask.regs]
      BY <1>1, <2>1, <2>3
    <3>2. ask'.kinds = more
      BY <3>1
    <3>. QED
      BY <1>3, <2>3, <3>1, <3>2 DEF SetWrite, more
  <2>. QED
    BY <2>2, <2>3
<1>4. ASSUME NEW b \in Banks, SetBank(b)
      PROVE  /\ UNCHANGED <<fifos, dma, mem, before, accesses, curRead, curWrite, reg>>
             /\ bank' = b
             /\ ask' = [op |-> ask.op, off |-> ask.off, data |-> ask.data,
                        kinds |-> ask.kinds, banks |-> ask'.banks, regs |-> ask.regs]
             /\ ask'.banks = IF Quiet THEN ask.banks ELSE ask.banks \cup {b}
  <2>. DEFINE more == ask.banks \cup {b}
  <2>1. ask' = IF Quiet THEN ask ELSE [ask EXCEPT !.banks = more]
    BY <1>4 DEF SetBank
  <2>. HIDE DEF more
  <2>2. CASE Quiet
    BY <1>1, <1>4, <2>1, <2>2 DEF SetBank
  <2>3. CASE ~Quiet
    <3>1. ask' = [op |-> ask.op, off |-> ask.off, data |-> ask.data,
                  kinds |-> ask.kinds, banks |-> more, regs |-> ask.regs]
      BY <1>1, <2>1, <2>3
    <3>2. ask'.banks = more
      BY <3>1
    <3>. QED
      BY <1>4, <2>3, <3>1, <3>2 DEF SetBank, more
  <2>. QED
    BY <2>2, <2>3
<1>5. ASSUME NEW r \in Registers, SetRegister(r)
      PROVE  /\ UNCHANGED <<fifos, dma, mem, before, accesses, curRead, curWrite, bank>>
             /\ reg' = r
             /\ ask' = [op |-> ask.op, off |-> ask.off, data |-> ask.data,
                        kinds |-> ask.kinds, banks |-> ask.banks, regs |-> ask'.regs]
             /\ ask'.regs = IF Quiet THEN ask.regs ELSE ask.regs \cup {r}
  <2>. DEFINE more == ask.regs \cup {r}
  <2>1. ask' = IF Quiet THEN ask ELSE [ask EXCEPT !.regs = more]
    BY <1>5 DEF SetRegister
  <2>. HIDE DEF more
  <2>2. CASE Quiet
    BY <1>1, <1>5, <2>1, <2>2 DEF SetRegister
  <2>3. CASE ~Quiet
    <3>1. ask' = [op |-> ask.op, off |-> ask.off, data |-> ask.data,
                  kinds |-> ask.kinds, banks |-> ask.banks, regs |-> more]
      BY <1>1, <2>1, <2>3
    <3>2. ask'.regs = more
      BY <3>1
    <3>. QED
      BY <1>5, <2>3, <3>1, <3>2 DEF SetRegister, more
  <2>. QED
    BY <2>2, <2>3
<1>6. CASE \E kind \in Kinds : SetRead(kind)
  <2>1. PICK kind \in Kinds : SetRead(kind)
    BY <1>6
  <2>2. /\ UNCHANGED <<fifos, dma, mem, before, accesses, curWrite, bank, reg>>
        /\ curRead' = kind /\ (kind = "rtc" /\ reg = NoReg => UnsetClock)
        /\ ask' = [op |-> ask.op, off |-> ask.off, data |-> ask.data,
                   kinds |-> ask'.kinds, banks |-> ask.banks, regs |-> ask.regs]
        /\ ask'.kinds = IF Quiet \/ ask.op # "read" THEN ask.kinds ELSE ask.kinds \cup {kind}
    BY <1>2, <2>1
  <2>3. Quiet' = Quiet
    BY <2>2 DEF Quiet, fifos, dma
  <2>4. ask'.op = ask.op /\ ask'.banks = ask.banks /\ ask'.regs = ask.regs
    BY <2>2
  <2>5. Selected => Selected'
    BY <2>2, <2>3, <2>4 DEF Selected
  <2>6. Quiet => ask' = ask
    BY <1>1, <2>2
  <2>. QED
    BY <1>1, <2>2, <2>4, <2>5, <2>6
<1>7. CASE SetWrite
  <2>3. Quiet' = Quiet
    BY <1>3, <1>7 DEF Quiet, fifos, dma
  <2>4. ask'.op = ask.op /\ ask'.banks = ask.banks /\ ask'.regs = ask.regs
    BY <1>3, <1>7
  <2>5. Selected => Selected'
    BY <1>3, <1>7, <2>3, <2>4 DEF Selected
  <2>6. Quiet => ask' = ask
    BY <1>1, <1>3, <1>7
  <2>. QED
    BY <1>1, <1>3, <1>7, <2>4, <2>5, <2>6
<1>8. CASE \E b \in Banks : SetBank(b)
  <2>1. PICK b \in Banks : SetBank(b)
    BY <1>8
  <2>2. /\ UNCHANGED <<fifos, dma, mem, before, accesses, curRead, curWrite, reg>>
        /\ bank' = b
        /\ ask' = [op |-> ask.op, off |-> ask.off, data |-> ask.data,
                   kinds |-> ask.kinds, banks |-> ask'.banks, regs |-> ask.regs]
        /\ ask'.banks = IF Quiet THEN ask.banks ELSE ask.banks \cup {b}
    BY <1>4, <2>1
  <2>3. Quiet' = Quiet
    BY <2>2 DEF Quiet, fifos, dma
  <2>4. ask'.op = ask.op /\ ask'.kinds = ask.kinds /\ ask'.regs = ask.regs
    BY <2>2
  <2>5. Selected => Selected'
    BY <2>2, <2>3, <2>4 DEF Selected
  <2>6. Quiet => ask' = ask
    BY <1>1, <2>2
  <2>. QED
    BY <1>1, <2>2, <2>4, <2>5, <2>6
<1>9. CASE \E r \in Registers : SetRegister(r)
  <2>1. PICK r \in Registers : SetRegister(r)
    BY <1>9
  <2>2. /\ UNCHANGED <<fifos, dma, mem, before, accesses, curRead, curWrite, bank>>
        /\ reg' = r
        /\ ask' = [op |-> ask.op, off |-> ask.off, data |-> ask.data,
                   kinds |-> ask.kinds, banks |-> ask.banks, regs |-> ask'.regs]
        /\ ask'.regs = IF Quiet THEN ask.regs ELSE ask.regs \cup {r}
    BY <1>5, <2>1
  <2>3. Quiet' = Quiet
    BY <2>2 DEF Quiet, fifos, dma
  <2>4. ask'.op = ask.op /\ ask'.kinds = ask.kinds /\ ask'.banks = ask.banks
    BY <2>2
  <2>5. reg' # NoReg
    BY <2>2, SetsAssumption DEF NoReg
  <2>6. Selected => Selected'
    BY <2>2, <2>3, <2>4, <2>5 DEF Selected
  <2>7. Quiet => ask' = ask
    BY <1>1, <2>2
  <2>. QED
    BY <1>1, <2>2, <2>4, <2>6, <2>7
<1>. QED
  BY <1>6, <1>7, <1>8, <1>9 DEF Core0

\* The channels have something to do only while an access runs.
LEMMA Unquiet ==
  ASSUME Dma \/ PushData
  PROVE  ~Quiet /\ UNCHANGED <<pointers, ask, before, accesses>>
BY DEF Dma, ReadRequestor, WriteRequestor, Loader, Executor, Accessor, PushData, Quiet

LEMMA SelectedKept ==
  ASSUME Types, Selected, [Next]_vars
  PROVE  Selected'
<1>1. CASE Core0
  BY <1>1, Selections
<1>2. CASE Dma \/ PushData
  BY <1>2, Unquiet DEF Selected, pointers
<1>3. ASSUME NEW a \in Offsets, GbRead(a)
      PROVE  Selected'
  <2>1. ask' = Asked("read", a, 0, curRead) /\ UNCHANGED pointers
    BY <1>3 DEF GbRead
  <2>2. /\ ask'.op = "read" /\ ask'.kinds = {curRead} /\ ask'.banks = {bank}
        /\ ask'.regs = {reg} \cap Registers /\ (reg # NoReg => reg \in Registers)
    BY <2>1 DEF Asked, Types
  <2>. QED
    BY <2>1, <2>2 DEF Selected, pointers
<1>4. ASSUME NEW a \in Offsets, NEW v \in Bytes, GbWrite(a, v)
      PROVE  Selected'
  <2>1. /\ ask' = Asked("write", a, v, curWrite) /\ UNCHANGED pointers
        /\ curWrite = "none" => DisabledWrites
    BY <1>4 DEF GbWrite
  <2>2. /\ ask'.op = "write" /\ ask'.kinds = {curWrite} /\ ask'.banks = {bank}
        /\ ask'.regs = {reg} \cap Registers /\ (reg # NoReg => reg \in Registers)
    BY <2>1 DEF Asked, Types
  <2>. QED
    BY <2>1, <2>2 DEF Selected, pointers
<1>5. CASE UNCHANGED vars
  BY <1>5 DEF Selected, Quiet, vars, fifos, pointers, dma
<1>. QED
  BY <1>1, <1>2, <1>3, <1>4, <1>5 DEF Next

-----------------------------------------------------------------------------
(***************************************************************************)
(* A read, step by step.                                                   *)
(***************************************************************************)
LEMMA ReadsSelect ==
  ASSUME Types, Reads, Core0
  PROVE  Reads'
<1>1. /\ UNCHANGED <<rdFifo, wrFifo, tx, lateData, busy, list, next, exec, acc, mem, before>>
      /\ ask.kinds \subseteq ask'.kinds /\ ask.banks \subseteq ask'.banks
      /\ ask.regs \subseteq ask'.regs
  BY Selections DEF fifos, dma
<1>2. ask'.op = ask.op /\ ask'.off = ask.off /\ ask'.data = ask.data
  <2>1. ask' = [op |-> ask.op, off |-> ask.off, data |-> ask.data,
                kinds |-> ask'.kinds, banks |-> ask'.banks, regs |-> ask'.regs]
    BY Selections
  <2>. QED
    BY <2>1
<1>3. Off' = Off
  BY <1>2 DEF Off
<1>4. ReadStarts => ReadStarts'
  BY <1>1, <1>3 DEF ReadStarts
<1>5. ReadFollows => ReadFollows'
  BY <1>1, <1>3 DEF ReadFollows, Chain
<1>6. \A kind : ReadSources(kind) \subseteq ReadSources(kind)'
  BY <1>1, <1>2 DEF ReadSources
<1>7. ReadMoves => ReadMoves'
  <2>. SUFFICES ASSUME NEW kind \in ask.kinds,
                       Ended({"wrReq", "accessor"}) /\ rdFifo = <<>>,
                       acc.ctrl = At("chainRead") /\ acc.write = ReadSink(kind),
                       acc.read \in ReadSources(kind)
                PROVE  ReadMoves'
    BY DEF ReadMoves
  <2>1. Ended({"wrReq", "accessor"})'
    BY <1>1 DEF Ended
  <2>2. (acc.read \in ReadSources(kind))'
    BY <1>1, <1>6
  <2>. QED
    BY <1>1, <2>1, <2>2 DEF ReadMoves
<1>8. Targets \subseteq Targets'
  BY <1>1, <1>2 DEF Targets
<1>9. Served => Served'
  BY <1>1, <1>8 DEF Served
<1>10. Ended(Armed) => Ended(Armed)'
  BY <1>1 DEF Ended
<1>11. ReadHalts => ReadHalts'
  BY <1>1 DEF ReadHalts, Ended
<1>. QED
  BY <1>1, <1>2, <1>4, <1>5, <1>7, <1>9, <1>10, <1>11 DEF Reads

LEMMA ReadsLoad ==
  ASSUME Types, Reads, Loader
  PROVE  Reads'
<1>1. UNCHANGED <<rdFifo, wrFifo, tx, lateData, acc, mem, ask, before>>
  BY DEF Loader, fifos
<1>2. "loader" \in busy
  BY DEF Loader
<1>3. ASSUME ReadFollows PROVE ReadFollows'
  <2>1. PICK kind \in ask.kinds, n \in 0..3 :
          /\ Chain(ReadList(kind), n, {"wrReq"})
          /\ rdFifo = IF n < 3 THEN <<Off>> ELSE <<>>
          /\ n >= 1 => acc.ctrl = At("chainRead")
          /\ n >= 2 => acc.write = ReadSink(kind)
          /\ n = 3 /\ kind # "rtc" => acc.read = Off
    BY <1>3 DEF ReadFollows
  <2>2. kind \in Kinds
    BY DEF Types, Asks
  <2>3. ReadList(kind)[n + 1] # End
    <3>1. n + 1 \in {1, 2, 3, 4}
      OBVIOUS
    <3>. QED
      BY <2>2, <3>1, ReadLists, Commands
  <2>4. Chain(ReadList(kind), n, {"wrReq"})'
    BY <2>1, <2>3, LoaderSteps
  <2>. QED
    BY <1>1, <2>1, <2>4 DEF ReadFollows, Off
<1>4. ASSUME ReadMoves PROVE ReadMoves'
  <2>1. Ended({"wrReq", "accessor"})
    BY <1>4 DEF ReadMoves
  <2>2. Ended({"wrReq", "accessor"})'
    BY <2>1, LoaderEnds
  <2>. QED
    BY <1>1, <1>4, <2>2 DEF ReadMoves, ReadSources
<1>5. ASSUME Ended(Armed) PROVE Ended(Armed)'
  BY <1>5, LoaderEnds DEF Armed
<1>6. Served => Served'
  BY <1>1 DEF Served, Targets
<1>7. ~ReadStarts
  BY <1>2 DEF ReadStarts, Armed
<1>8. ReadHalts => ReadHalts'
  BY <1>1, LoaderEnds DEF ReadHalts
<1>. QED
  BY <1>1, <1>3, <1>4, <1>5, <1>6, <1>7, <1>8 DEF Reads

LEMMA ReadsRequest ==
  ASSUME Types, Selected, Reads, ReadRequestor
  PROVE  Reads'
<1>1. /\ UNCHANGED <<rdFifo, wrFifo, tx, lateData, acc, mem, ask, before>>
      /\ "rdReq" \in busy /\ rdFifo # <<>>
      /\ list' = ReadList(curRead) /\ next' = 1 /\ busy' = (busy \ {"rdReq"}) \cup {"loader"}
  BY DEF ReadRequestor, fifos
<1>2. PICK kind : kind = curRead
  OBVIOUS
<1>3. kind \in ask.kinds
  <2>1. ~Quiet
    BY <1>1 DEF Quiet
  <2>. QED
    BY <1>2, <2>1 DEF Selected, Reads
<1>4. ~ReadFollows
  <2>1. ASSUME NEW k, NEW n, Chain(ReadList(k), n, {"wrReq"}) PROVE FALSE
    BY <1>1, <2>1 DEF Chain
  <2>. QED
    BY <2>1 DEF ReadFollows
<1>5. ReadStarts
  BY <1>1, <1>4 DEF Reads, ReadMoves, ReadHalts
<1>6. Chain(ReadList(kind), 0, {"wrReq"})'
  <2>1. busy' = {"wrReq"} \cup {"loader"} /\ next' = 0 + 1 /\ list' = ReadList(kind)
    BY <1>1, <1>2, <1>5 DEF ReadStarts, Armed
  <2>. QED
    BY <2>1 DEF Chain
<1>7. ReadFollows'
  <2>1. (rdFifo = IF 0 < 3 THEN <<Off>> ELSE <<>>)'
    BY <1>1, <1>5 DEF ReadStarts, Off
  <2>2. /\ ~(0 >= 1) /\ ~(0 >= 2) /\ 0 # 3 /\ 0 \in 0..3
    OBVIOUS
  <2>. QED
    BY <1>1, <1>3, <1>6, <2>1, <2>2 DEF ReadFollows
<1>8. tx' = <<>> /\ mem' = before'
  BY <1>1, <1>4, <1>5, Fifos DEF Reads, ReadStarts
<1>. QED
  BY <1>1, <1>7, <1>8 DEF Reads


LEMMA ReadsExecute ==
  ASSUME Types, Selected, Reads, Executor
  PROVE  Reads' /\ acc' = [read |-> acc'.read, write |-> acc'.write, ctrl |-> acc'.ctrl]
<1>1. "executor" \in busy
  BY DEF Executor
<1>2. ReadFollows /\ tx = <<>> /\ mem = before
  BY <1>1 DEF Reads, ReadStarts, ReadMoves, ReadHalts, Ended, Armed
<1>3. PICK kind \in ask.kinds, n \in 0..3 :
        /\ Chain(ReadList(kind), n, {"wrReq"})
        /\ rdFifo = IF n < 3 THEN <<Off>> ELSE <<>>
        /\ n >= 1 => acc.ctrl = At("chainRead")
        /\ n >= 2 => acc.write = ReadSink(kind)
        /\ n = 3 /\ kind # "rtc" => acc.read = Off
  BY <1>2 DEF ReadFollows
<1>4. /\ kind \in Kinds
      /\ acc = [read |-> acc.read, write |-> acc.write, ctrl |-> acc.ctrl]
  BY DEF Types, Asks
<1>5. bank \in ask.banks /\ (reg # NoReg => reg \in ask.regs)
  BY <1>1 DEF Selected, Quiet
<1>6. /\ exec = ReadList(kind)[n + 1]
      /\ n < 3 /\ ReadList(kind)[n + 1].to \notin Triggers
           => Chain(ReadList(kind), n + 1, {"wrReq"})'
      /\ n = 3 /\ ReadList(kind)[n + 1].to \in Triggers /\ ReadList(kind)[5] = End
           => IF Word(ReadList(kind)[n + 1].from) # Null THEN Ended({"wrReq"} \cup {"accessor"})'
              ELSE Ended({"wrReq"})'
      /\ UNCHANGED <<tx, lateData, pointers, mem, ask, before, accesses>>
  BY <1>3, ExecutorSteps
<1>7. /\ Head(<<Off>>) = Off /\ Tail(<<Off>>) = <<>> /\ Off' = Off
      /\ ReadSink(kind) = ReadSink(kind)' /\ ReadSources(kind) = ReadSources(kind)'
  BY <1>6, Fifos DEF Off, ReadSink, ReadSources
<1>8. ASSUME n < 3,
             ReadList(kind)[n + 1].to \notin Triggers,
             rdFifo' = IF n + 1 < 3 THEN <<Off>> ELSE <<>>,
             wrFifo' = wrFifo,
             acc'.ctrl = At("chainRead"),
             n + 1 >= 2 => acc'.write = ReadSink(kind),
             n + 1 = 3 /\ kind # "rtc" => acc'.read = Off
      PROVE  Reads'
  <2>1. n + 1 \in 0..3 /\ Chain(ReadList(kind), n + 1, {"wrReq"})'
    BY <1>6, <1>8
  <2>2. (rdFifo = IF n + 1 < 3 THEN <<Off>> ELSE <<>>)'
    BY <1>7, <1>8
  <2>3. ReadFollows'
    BY <1>6, <1>7, <1>8, <2>1, <2>2 DEF ReadFollows
  <2>. QED
    BY <1>2, <1>6, <1>8, <2>3 DEF Reads
<1>9. CASE n = 0
  <2>1. exec = Cmd("ramReadCtrl", "ctrl")
    BY <1>4, <1>6, <1>9, ReadLists
  <2>2. /\ acc' = [read |-> acc.read, write |-> acc.write, ctrl |-> At("chainRead")]
        /\ rdFifo' = rdFifo /\ wrFifo' = wrFifo
    BY <1>4, <2>1, Executes, Sources
  <2>3. ReadList(kind)[n + 1].to \notin Triggers
    BY <1>6, <2>1, Commands DEF Triggers
  <2>4. acc'.ctrl = At("chainRead") /\ acc' = [read |-> acc'.read, write |-> acc'.write, ctrl |-> acc'.ctrl]
    BY <2>2
  <2>. QED
    BY <1>3, <1>8, <1>9, <2>2, <2>3, <2>4
<1>10. CASE n = 1
  <2>1. exec = IF kind = "none" THEN Cmd("devNullPtr", "write") ELSE Cmd("writeTargetAddr", "write")
    BY <1>4, <1>6, <1>10, ReadLists
  <2>2. /\ acc' = [read |-> acc.read, write |-> ReadSink(kind), ctrl |-> acc.ctrl]
        /\ rdFifo' = rdFifo /\ wrFifo' = wrFifo
    BY <1>4, <2>1, Executes, Sources DEF ReadSink
  <2>3. ReadList(kind)[n + 1].to \notin Triggers
    BY <1>6, <2>1, Commands DEF Triggers
  <2>4. /\ acc'.ctrl = At("chainRead") /\ acc'.write = ReadSink(kind)
        /\ acc' = [read |-> acc'.read, write |-> acc'.write, ctrl |-> acc'.ctrl]
    BY <1>3, <1>10, <2>2
  <2>. QED
    BY <1>3, <1>8, <1>10, <2>2, <2>3, <2>4
<1>11. CASE n = 2
  <2>1. exec = IF kind = "rtc" THEN Cmd("rdFifo", "devNull") ELSE Cmd("rdFifo", "read")
    BY <1>4, <1>6, <1>11, ReadLists
  <2>2. Word(At("rdFifo")) = Off /\ Tail(rdFifo) = <<>>
    BY <1>3, <1>7, <1>11, Sources
  <2>3. /\ acc' = IF kind = "rtc" THEN acc ELSE [read |-> Off, write |-> acc.write, ctrl |-> acc.ctrl]
        /\ rdFifo' = <<>> /\ wrFifo' = wrFifo
    BY <1>4, <2>1, <2>2, Executes
  <2>4. ReadList(kind)[n + 1].to \notin Triggers
    BY <1>6, <2>1, Commands DEF Triggers
  <2>5. /\ acc'.ctrl = At("chainRead") /\ acc'.write = ReadSink(kind)
        /\ kind # "rtc" => acc'.read = Off
        /\ acc' = [read |-> acc'.read, write |-> acc'.write, ctrl |-> acc'.ctrl]
    BY <1>3, <1>4, <1>11, <2>3
  <2>. QED
    BY <1>3, <1>8, <1>11, <2>3, <2>4, <2>5
<1>12. CASE n = 3
  <2>1. exec = IF kind = "rtc" THEN Cmd("latchPtr", "readTrig") ELSE Cmd("bankPtr", "readSetTrig")
    BY <1>4, <1>6, <1>12, ReadLists
  <2>2. /\ acc' = [read |-> IF kind = "rtc" THEN latch_ptr(reg) ELSE acc.read \cup {<<"bank", bank>>},
                   write |-> acc.write, ctrl |-> acc.ctrl]
        /\ rdFifo' = rdFifo /\ wrFifo' = wrFifo
    BY <1>4, <2>1, Executes, Sources
  <2>3. /\ acc'.ctrl = At("chainRead") /\ acc'.write = ReadSink(kind)
        /\ acc'.read = IF kind = "rtc" THEN latch_ptr(reg) ELSE acc.read \cup {<<"bank", bank>>}
        /\ acc' = [read |-> acc'.read, write |-> acc'.write, ctrl |-> acc'.ctrl]
    BY <1>3, <1>12, <2>2
  <2>4. /\ ReadList(kind)[n + 1].to \in Triggers
        /\ Word(ReadList(kind)[n + 1].from) = IF kind = "rtc" THEN latch_ptr(reg) ELSE {<<"bank", bank>>}
        /\ ReadList(kind)[5] = End
    <3>1. CASE kind = "rtc"
      <4>1. exec.from = At("latchPtr") /\ exec.to = "readTrig"
        BY <2>1, <3>1, Commands
      <4>. QED
        BY <1>4, <1>6, <3>1, <4>1, ReadLists, Sources DEF Triggers
    <3>2. CASE kind # "rtc"
      <4>1. exec.from = At("bankPtr") /\ exec.to = "readSetTrig"
        BY <2>1, <3>2, Commands
      <4>. QED
        BY <1>4, <1>6, <3>2, <4>1, ReadLists, Sources DEF Triggers
    <3>. QED
      BY <3>1, <3>2
  <2>5. CASE kind = "rtc" /\ reg = NoReg
    <3>1. Ended({"wrReq"})'
      BY <1>6, <1>12, <2>4, <2>5 DEF latch_ptr
    <3>2. ReadHalts'
      BY <1>3, <1>12, <2>2, <3>1 DEF ReadHalts
    <3>. QED
      BY <1>2, <1>6, <2>2, <2>3, <3>2 DEF Reads
  <2>6. CASE ~(kind = "rtc" /\ reg = NoReg)
    <3>1. acc'.read \in ReadSources(kind)
      <4>1. CASE kind = "rtc"
        BY <1>5, <2>3, <2>6, <4>1 DEF ReadSources, latch_ptr
      <4>2. CASE kind # "rtc"
        <5>1. acc'.read = RamAt(bank, ask.off)
          BY <1>3, <1>12, <2>3, <4>2 DEF RamAt, Off
        <5>. QED
          BY <1>5, <4>2, <5>1 DEF ReadSources
      <4>. QED
        BY <4>1, <4>2
    <3>2. Ended({"wrReq", "accessor"})'
      <4>1. Word(ReadList(kind)[n + 1].from) # Null
        BY <2>4, <2>6 DEF latch_ptr, Latch, Null
      <4>2. Ended({"wrReq"} \cup {"accessor"})'
        BY <1>6, <1>12, <2>4, <4>1
      <4>3. {"wrReq"} \cup {"accessor"} = {"wrReq", "accessor"}
        OBVIOUS
      <4>. QED
        BY <4>2, <4>3 DEF Ended
    <3>3. (acc.write = ReadSink(kind))' /\ (acc.read \in ReadSources(kind))' /\ rdFifo' = <<>>
      BY <1>3, <1>7, <1>12, <2>2, <2>3, <3>1
    <3>4. ReadMoves'
      BY <1>6, <2>3, <3>2, <3>3 DEF ReadMoves
    <3>. QED
      BY <1>2, <1>6, <2>2, <2>3, <3>4 DEF Reads
  <2>. QED
    BY <2>5, <2>6
<1>. QED
  BY <1>9, <1>10, <1>11, <1>12

LEMMA ReadsAccess ==
  ASSUME Types, Reads, Accessor
  PROVE  Reads'
<1>1. "accessor" \in busy
  BY DEF Accessor
<1>2. ReadMoves /\ tx = <<>> /\ mem = before
  <2>1. ~ReadFollows
    BY <1>1 DEF ReadFollows, Chain
  <2>. QED
    BY <1>1, <2>1 DEF Reads, ReadStarts, ReadHalts, Ended, Armed
<1>3. PICK kind \in ask.kinds :
        /\ Ended({"wrReq", "accessor"}) /\ rdFifo = <<>>
        /\ acc.ctrl = At("chainRead") /\ acc.write = ReadSink(kind)
        /\ acc.read \in ReadSources(kind)
  BY <1>2 DEF ReadMoves
<1>4. /\ kind \in Kinds /\ ask.banks \subseteq Banks /\ ask.regs \subseteq Registers
      /\ ask.off \in Offsets
  BY DEF Types, Asks, Reads
<1>5. acc.read \in Locations
  BY <1>3, <1>4, Places DEF ReadSources
<1>0. Landing = {acc.write} /\ At("unmapped") \notin Landing
  BY <1>3, Words DEF ReadSink, Landing
<1>6. /\ Ended(Armed)'
      /\ UNCHANGED <<rdFifo, lateData, pointers, acc, ask, before, accesses>>
  <2>1. Rearm(acc.ctrl) = "rdReq"
    BY <1>3 DEF Rearm
  <2>2. {"wrReq", "accessor"} = {"wrReq"} \cup {"accessor"} /\ {"wrReq"} \cup {"rdReq"} = Armed
    BY DEF Armed
  <2>3. Ended({"wrReq"} \cup {"accessor"})
    BY <1>3, <2>2
  <2>4. /\ Ended({"wrReq"} \cup {"rdReq"})'
        /\ UNCHANGED <<rdFifo, lateData, pointers, acc, ask, before, accesses>>
    BY <1>0, <2>1, <2>3, AccessorSteps
  <2>. QED
    BY <2>2, <2>4 DEF Ended, Armed
<1>7. wrFifo' = wrFifo /\ tx' = IF acc.write = At("tx") THEN <<{<<"byte", mem[acc.read]>>}>> ELSE <<>>
  <2>1. acc.read # At("wrFifo")
    BY <1>5, Words
  <2>2. \A v \in Moved : v = mem[acc.read]
    BY <1>5 DEF Moved
  <2>3. PICK v \in Moved, l \in Landing :
          tx' = IF l = At("tx") THEN Append(tx, {<<"byte", v>>}) ELSE tx
    BY DEF Accessor
  <2>4. /\ tx' = IF acc.write = At("tx") THEN Append(tx, {<<"byte", mem[acc.read]>>}) ELSE tx
        /\ wrFifo' = wrFifo
    BY <1>0, <2>1, <2>2, <2>3 DEF Accessor
  <2>. QED
    BY <1>2, <2>4, Fifos
<1>8. Served'
  <2>1. CASE kind = "none"
    <3>1. tx' = <<>>
      BY <1>3, <1>7, <2>1, Words DEF ReadSink
    <3>. QED
      BY <1>6, <2>1, <3>1 DEF Served
  <2>2. CASE kind # "none"
    <3>1. tx' = <<{<<"byte", before[acc.read]>>}>>
      BY <1>2, <1>3, <1>7, <2>2 DEF ReadSink
    <3>2. acc.read \in Targets
      BY <1>3, <1>4, <2>2 DEF Targets, ReadSources, Kinds, Reads
    <3>3. Targets' = Targets
      BY <1>6 DEF Targets
    <3>. QED
      BY <1>6, <3>1, <3>2, <3>3 DEF Served
  <2>. QED
    BY <2>1, <2>2
<1>. QED
  BY <1>3, <1>6, <1>7, <1>8 DEF Reads


-----------------------------------------------------------------------------
(***************************************************************************)
(* A write, step by step.                                                  *)
(***************************************************************************)
LEMMA WritesSelect ==
  ASSUME Types, Writes, Core0
  PROVE  Writes'
<1>1. /\ UNCHANGED <<rdFifo, wrFifo, tx, lateData, busy, list, next, exec, acc, mem, before>>
      /\ ask.kinds \subseteq ask'.kinds /\ ask.banks \subseteq ask'.banks
      /\ ask.regs \subseteq ask'.regs
  BY Selections DEF fifos, dma
<1>2. ask'.op = ask.op /\ ask'.off = ask.off /\ ask'.data = ask.data
  <2>1. ask' = [op |-> ask.op, off |-> ask.off, data |-> ask.data,
                kinds |-> ask'.kinds, banks |-> ask'.banks, regs |-> ask'.regs]
    BY Selections
  <2>. QED
    BY <2>1
<1>3. Off' = Off /\ Data' = Data /\ WholeFifo' = WholeFifo /\ DataFifo' = DataFifo
  BY <1>1, <1>2 DEF Off, Data, WholeFifo, DataFifo
<1>4. ASSUME NEW kind \in ask.kinds, WriteSink(kind) PROVE WriteSink(kind)'
  <2>1. kind \in Kinds
    BY DEF Types, Asks
  <2>2. CASE kind = "ram"
    BY <1>1, <1>2, <1>4, <2>2 DEF WriteSink
  <2>3. CASE kind = "rtc"
    BY <1>1, <1>2, <1>4, <2>3 DEF WriteSink
  <2>4. CASE kind = "none"
    BY <1>1, <1>4, <2>4 DEF WriteSink
  <2>. QED
    BY <2>1, <2>2, <2>3, <2>4 DEF Kinds
<1>5. WriteStarts => WriteStarts'
  BY <1>1, <1>3 DEF WriteStarts
<1>6. WriteFollows => WriteFollows'
  <2>. SUFFICES ASSUME NEW kind \in ask.kinds, NEW n \in 0..3,
                       Chain(WriteList(kind), n, {"rdReq"}),
                       IF n < 2 THEN WholeFifo ELSE DataFifo,
                       n >= 1 => acc.ctrl = At("chainWrite"),
                       n = 2 /\ kind = "ram" => acc.write = Off,
                       n = 3 => WriteSink(kind)
                PROVE  WriteFollows'
    BY DEF WriteFollows
  <2>1. Chain(WriteList(kind), n, {"rdReq"})'
    BY <1>1 DEF Chain
  <2>2. (IF n < 2 THEN WholeFifo ELSE DataFifo)' /\ (n = 3 => WriteSink(kind)')
    BY <1>3, <1>4
  <2>3. kind \in ask'.kinds
    BY <1>1
  <2>. QED
    BY <1>1, <1>3, <2>1, <2>2, <2>3 DEF WriteFollows
<1>7. WriteMoves => WriteMoves'
  <2>. SUFFICES ASSUME NEW kind \in ask.kinds,
                       Ended({"rdReq", "accessor"}) /\ DataFifo,
                       acc.ctrl = At("chainWrite") /\ acc.read = At("wrFifo") /\ WriteSink(kind)
                PROVE  WriteMoves'
    BY DEF WriteMoves
  <2>1. Ended({"rdReq", "accessor"})'
    BY <1>1 DEF Ended
  <2>. QED
    BY <1>1, <1>3, <1>4, <2>1 DEF WriteMoves
<1>8. Targets \subseteq Targets'
  BY <1>1, <1>2 DEF Targets
<1>9. Landed => Landed'
  BY <1>1, <1>2, <1>8 DEF Landed
<1>10. Ended(Armed) => Ended(Armed)'
  BY <1>1 DEF Ended
<1>11. WriteHalts => WriteHalts'
  BY <1>1 DEF WriteHalts, Ended
<1>. QED
  BY <1>1, <1>2, <1>5, <1>6, <1>7, <1>9, <1>10, <1>11 DEF Writes

LEMMA WritesLoad ==
  ASSUME Types, Writes, Loader
  PROVE  Writes'
<1>1. UNCHANGED <<rdFifo, wrFifo, tx, lateData, acc, mem, ask, before>>
  BY DEF Loader, fifos
<1>2. "loader" \in busy
  BY DEF Loader
<1>3. /\ UNCHANGED <<Off, Data, WholeFifo, DataFifo, Landed>>
      /\ \A kind : WriteSink(kind)' = WriteSink(kind)
  BY <1>1 DEF Off, Data, WholeFifo, DataFifo, Landed, Targets, WriteSink
<1>4. ASSUME WriteFollows PROVE WriteFollows'
  <2>1. PICK kind \in ask.kinds, n \in 0..3 :
          /\ Chain(WriteList(kind), n, {"rdReq"})
          /\ IF n < 2 THEN WholeFifo ELSE DataFifo
          /\ n >= 1 => acc.ctrl = At("chainWrite")
          /\ n = 2 /\ kind = "ram" => acc.write = Off
          /\ n = 3 => WriteSink(kind)
    BY <1>4 DEF WriteFollows
  <2>2. kind \in Kinds
    BY DEF Types, Asks
  <2>3. WriteList(kind)[n + 1] # End
    <3>1. n + 1 \in {1, 2, 3, 4}
      OBVIOUS
    <3>2. kind \in {"none", "ram", "rtc"}
      BY <2>2 DEF Kinds
    <3>. QED
      BY <2>2, <3>1, <3>2, WriteLists, Commands
  <2>4. Chain(WriteList(kind), n, {"rdReq"})'
    BY <2>1, <2>3, LoaderSteps
  <2>5. (IF n < 2 THEN WholeFifo ELSE DataFifo)' /\ (n = 3 => WriteSink(kind)')
    BY <1>3, <2>1
  <2>. QED
    BY <1>1, <1>3, <2>1, <2>4, <2>5 DEF WriteFollows
<1>5. ASSUME WriteMoves PROVE WriteMoves'
  <2>1. PICK kind \in ask.kinds :
          /\ Ended({"rdReq", "accessor"}) /\ DataFifo
          /\ acc.ctrl = At("chainWrite") /\ acc.read = At("wrFifo") /\ WriteSink(kind)
    BY <1>5 DEF WriteMoves
  <2>2. Ended({"rdReq", "accessor"})'
    BY <2>1, LoaderEnds
  <2>. QED
    BY <1>1, <1>3, <2>1, <2>2 DEF WriteMoves
<1>6. ASSUME Ended(Armed) PROVE Ended(Armed)'
  BY <1>6, LoaderEnds DEF Armed
<1>7. ~WriteStarts
  BY <1>2 DEF WriteStarts, Armed
<1>8. WriteHalts => WriteHalts'
  BY <1>1, LoaderEnds DEF WriteHalts
<1>. QED
  BY <1>1, <1>3, <1>4, <1>5, <1>6, <1>7, <1>8 DEF Writes

LEMMA WritesRequest ==
  ASSUME Types, Selected, Writes, WriteRequestor
  PROVE  Writes'
<1>1. /\ UNCHANGED <<rdFifo, wrFifo, tx, lateData, acc, mem, ask, before>>
      /\ "wrReq" \in busy /\ wrFifo # <<>>
      /\ list' = WriteList(curWrite) /\ next' = 1 /\ busy' = (busy \ {"wrReq"}) \cup {"loader"}
  BY DEF WriteRequestor, fifos
<1>2. PICK kind : kind = curWrite
  OBVIOUS
<1>3. kind \in ask.kinds
  <2>1. ~Quiet
    BY <1>1 DEF Quiet
  <2>. QED
    BY <1>2, <2>1 DEF Selected, Writes
<1>4. ~WriteFollows /\ ~WriteMoves
  <2>1. ASSUME NEW k, NEW n, Chain(WriteList(k), n, {"rdReq"}) PROVE FALSE
    BY <1>1, <2>1 DEF Chain
  <2>2. ~Ended({"rdReq", "accessor"})
    BY <1>1 DEF Ended
  <2>. QED
    BY <2>1, <2>2 DEF WriteFollows, WriteMoves
<1>5. WriteStarts /\ mem = before
  BY <1>1, <1>4 DEF Writes, WriteHalts
<1>6. Chain(WriteList(kind), 0, {"rdReq"})'
  <2>1. busy' = {"rdReq"} \cup {"loader"} /\ next' = 0 + 1 /\ list' = WriteList(kind)
    BY <1>1, <1>2, <1>5 DEF WriteStarts, Armed
  <2>. QED
    BY <2>1 DEF Chain
<1>7. WriteFollows'
  <2>1. (IF 0 < 2 THEN WholeFifo ELSE DataFifo)'
    BY <1>1, <1>5 DEF WriteStarts, WholeFifo, Off, Data
  <2>2. /\ ~(0 >= 1) /\ 0 # 2 /\ 0 # 3 /\ 0 \in 0..3
    OBVIOUS
  <2>. QED
    BY <1>1, <1>3, <1>6, <2>1, <2>2 DEF WriteFollows
<1>. QED
  BY <1>1, <1>5, <1>7 DEF Writes

LEMMA WritesPush ==
  ASSUME Types, Writes, PushData
  PROVE  Writes'
<1>1. /\ UNCHANGED <<rdFifo, tx, busy, list, next, exec, acc, mem, ask, before>>
      /\ lateData # <<>> /\ wrFifo' = wrFifo \o lateData /\ lateData' = <<>>
  BY DEF PushData, dma
<1>2. /\ UNCHANGED <<Off, Data>>
      /\ \A kind : WriteSink(kind)' = WriteSink(kind)
  BY <1>1 DEF Off, Data, WriteSink
<1>3. /\ <<>> \o <<Data>> = <<Data>> /\ <<Off>> \o <<Data>> = <<Off, Data>>
  BY Fifos
<1>4. WholeFifo => WholeFifo'
  BY <1>1, <1>2, <1>3 DEF WholeFifo
<1>5. DataFifo => DataFifo'
  BY <1>1, <1>2, <1>3 DEF DataFifo
<1>6. WriteStarts => WriteStarts'
  BY <1>1, <1>4 DEF WriteStarts
<1>7. WriteFollows => WriteFollows'
  <2>. SUFFICES ASSUME NEW kind \in ask.kinds, NEW n \in 0..3,
                       Chain(WriteList(kind), n, {"rdReq"}),
                       IF n < 2 THEN WholeFifo ELSE DataFifo,
                       n >= 1 => acc.ctrl = At("chainWrite"),
                       n = 2 /\ kind = "ram" => acc.write = Off,
                       n = 3 => WriteSink(kind)
                PROVE  WriteFollows'
    BY DEF WriteFollows
  <2>1. Chain(WriteList(kind), n, {"rdReq"})'
    BY <1>1 DEF Chain
  <2>2. (IF n < 2 THEN WholeFifo ELSE DataFifo)' /\ (n = 3 => WriteSink(kind)')
    BY <1>2, <1>4, <1>5
  <2>. QED
    BY <1>1, <1>2, <2>1, <2>2 DEF WriteFollows
<1>8. WriteMoves => WriteMoves'
  <2>. SUFFICES ASSUME NEW kind \in ask.kinds,
                       Ended({"rdReq", "accessor"}) /\ DataFifo,
                       acc.ctrl = At("chainWrite") /\ acc.read = At("wrFifo") /\ WriteSink(kind)
                PROVE  WriteMoves'
    BY DEF WriteMoves
  <2>1. Ended({"rdReq", "accessor"})'
    BY <1>1 DEF Ended
  <2>. QED
    BY <1>1, <1>2, <1>5, <2>1 DEF WriteMoves
<1>. QED
  BY <1>1, <1>6, <1>7, <1>8 DEF Writes, WriteHalts


LEMMA WritesExecute ==
  ASSUME Types, Selected, Writes, Executor
  PROVE  Writes' /\ acc' = [read |-> acc'.read, write |-> acc'.write, ctrl |-> acc'.ctrl]
<1>1. "executor" \in busy
  BY DEF Executor
<1>2. WriteFollows /\ mem = before
  BY <1>1 DEF Writes, WriteStarts, WriteMoves, WriteHalts, Ended, Armed
<1>3. PICK kind \in ask.kinds, n \in 0..3 :
        /\ Chain(WriteList(kind), n, {"rdReq"})
        /\ IF n < 2 THEN WholeFifo ELSE DataFifo
        /\ n >= 1 => acc.ctrl = At("chainWrite")
        /\ n = 2 /\ kind = "ram" => acc.write = Off
        /\ n = 3 => WriteSink(kind)
  BY <1>2 DEF WriteFollows
<1>4. /\ kind \in {"none", "ram", "rtc"} /\ kind \in Kinds
      /\ acc = [read |-> acc.read, write |-> acc.write, ctrl |-> acc.ctrl]
  BY DEF Types, Asks, Kinds
<1>5. bank \in ask.banks /\ (reg # NoReg => reg \in ask.regs)
  BY <1>1 DEF Selected, Quiet
<1>6. /\ exec = WriteList(kind)[n + 1]
      /\ n < 3 /\ WriteList(kind)[n + 1].to \notin Triggers
           => Chain(WriteList(kind), n + 1, {"rdReq"})'
      /\ n = 3 /\ WriteList(kind)[n + 1].to \in Triggers /\ WriteList(kind)[5] = End
           => IF Word(WriteList(kind)[n + 1].from) # Null THEN Ended({"rdReq"} \cup {"accessor"})'
              ELSE Ended({"rdReq"})'
      /\ UNCHANGED <<tx, lateData, pointers, mem, ask, before, accesses>>
  BY <1>3, ExecutorSteps
<1>7. UNCHANGED <<Off, Data>>
  BY <1>6 DEF Off, Data
<1>8. ASSUME n < 3,
             WriteList(kind)[n + 1].to \notin Triggers,
             rdFifo' = rdFifo,
             (IF n + 1 < 2 THEN WholeFifo ELSE DataFifo)',
             acc'.ctrl = At("chainWrite"),
             n + 1 = 2 /\ kind = "ram" => acc'.write = Off,
             n + 1 = 3 => WriteSink(kind)'
      PROVE  Writes'
  <2>1. n + 1 \in 0..3 /\ Chain(WriteList(kind), n + 1, {"rdReq"})'
    BY <1>6, <1>8
  <2>2. WriteFollows'
    BY <1>6, <1>7, <1>8, <2>1 DEF WriteFollows
  <2>. QED
    BY <1>2, <1>6, <1>8, <2>2 DEF Writes
<1>9. CASE n = 0
  <2>1. exec = Cmd("ramWriteCtrl", "ctrl")
    BY <1>4, <1>6, <1>9, WriteLists
  <2>2. /\ acc' = [read |-> acc.read, write |-> acc.write, ctrl |-> At("chainWrite")]
        /\ rdFifo' = rdFifo /\ wrFifo' = wrFifo
    BY <1>4, <2>1, Executes, Sources
  <2>3. WriteList(kind)[n + 1].to \notin Triggers
    BY <1>6, <2>1, Commands DEF Triggers
  <2>4. /\ acc'.ctrl = At("chainWrite")
        /\ acc' = [read |-> acc'.read, write |-> acc'.write, ctrl |-> acc'.ctrl]
    BY <2>2
  <2>5. (IF n + 1 < 2 THEN WholeFifo ELSE DataFifo)'
    BY <1>3, <1>6, <1>7, <1>9, <2>2 DEF WholeFifo
  <2>. QED
    BY <1>8, <1>9, <2>2, <2>3, <2>4, <2>5
<1>10. CASE n = 1
  <2>1. exec = IF kind = "ram" THEN Cmd("wrFifo", "write") ELSE Cmd("wrFifo", "devNull")
    BY <1>4, <1>6, <1>10, WriteLists
  <2>2. /\ Word(At("wrFifo")) = Off
        /\ \/ wrFifo = <<Off>> /\ lateData = <<Data>> /\ Tail(wrFifo) = <<>>
           \/ wrFifo = <<Off, Data>> /\ lateData = <<>> /\ Tail(wrFifo) = <<Data>>
    <3>1. WholeFifo
      BY <1>3, <1>10
    <3>2. /\ Head(<<Off>>) = Off /\ Tail(<<Off>>) = <<>>
          /\ Head(<<Off, Data>>) = Off /\ Tail(<<Off, Data>>) = <<Data>>
      BY Fifos
    <3>. QED
      BY <3>1, <3>2, Sources DEF WholeFifo
  <2>3. /\ acc' = IF kind = "ram" THEN [read |-> acc.read, write |-> Off, ctrl |-> acc.ctrl] ELSE acc
        /\ rdFifo' = rdFifo /\ wrFifo' = Tail(wrFifo)
    BY <1>4, <2>1, <2>2, Executes
  <2>4. WriteList(kind)[n + 1].to \notin Triggers
    BY <1>6, <2>1, Commands DEF Triggers
  <2>5. /\ acc'.ctrl = At("chainWrite") /\ (kind = "ram" => acc'.write = Off)
        /\ acc' = [read |-> acc'.read, write |-> acc'.write, ctrl |-> acc'.ctrl]
    BY <1>3, <1>4, <1>10, <2>3
  <2>6. (IF n + 1 < 2 THEN WholeFifo ELSE DataFifo)'
    BY <1>6, <1>7, <1>10, <2>2, <2>3 DEF DataFifo
  <2>. QED
    BY <1>8, <1>10, <2>3, <2>4, <2>5, <2>6
<1>11. CASE n = 2
  <2>1. /\ kind = "ram" => exec = Cmd("bankPtr", "writeSet")
        /\ kind = "rtc" => exec = Cmd("realPtr", "write")
        /\ kind = "none" => exec = Cmd("devNullPtr", "writeSet")
    BY <1>4, <1>6, <1>11, WriteLists
  <2>2. /\ acc' = [read |-> acc.read,
                   write |-> IF kind = "ram" THEN acc.write \cup {<<"bank", bank>>}
                             ELSE IF kind = "rtc" THEN real_ptr(reg)
                             ELSE acc.write \cup At("devNull"),
                   ctrl |-> acc.ctrl]
        /\ rdFifo' = rdFifo /\ wrFifo' = wrFifo
    BY <1>4, <2>1, Executes, Sources
  <2>3. WriteList(kind)[n + 1].to \notin Triggers
    BY <1>4, <1>6, <2>1, Commands DEF Triggers
  <2>4. /\ acc'.ctrl = At("chainWrite")
        /\ acc'.write = IF kind = "ram" THEN acc.write \cup {<<"bank", bank>>}
                        ELSE IF kind = "rtc" THEN real_ptr(reg)
                        ELSE acc.write \cup At("devNull")
        /\ acc' = [read |-> acc'.read, write |-> acc'.write, ctrl |-> acc'.ctrl]
    BY <1>3, <1>11, <2>2
  <2>5. WriteSink(kind)'
    <3>1. CASE kind = "ram"
      <4>1. acc'.write = RamAt(bank, ask.off)
        BY <1>3, <1>11, <2>4, <3>1 DEF RamAt, Off
      <4>. QED
        BY <1>5, <1>6, <3>1, <4>1 DEF WriteSink
    <3>2. CASE kind = "rtc"
      <4>1. CASE reg # NoReg
        BY <1>5, <1>6, <2>4, <3>2, <4>1 DEF WriteSink, real_ptr
      <4>2. CASE reg = NoReg
        <5>1. UnsetClock
          BY <3>2, <4>2 DEF Selected
        <5>. QED
          BY <1>6, <2>4, <3>2, <4>2, <5>1 DEF WriteSink, real_ptr
      <4>. QED
        BY <4>1, <4>2
    <3>3. CASE kind = "none"
      BY <2>4, <3>3, Words DEF WriteSink
    <3>. QED
      BY <1>4, <3>1, <3>2, <3>3
  <2>6. (IF n + 1 < 2 THEN WholeFifo ELSE DataFifo)'
    BY <1>3, <1>6, <1>7, <1>11, <2>2 DEF DataFifo
  <2>. QED
    BY <1>8, <1>11, <2>2, <2>3, <2>4, <2>5, <2>6
<1>12. CASE n = 3
  <2>1. exec = Cmd("saveramWriteAddr", "readTrig")
    BY <1>4, <1>6, <1>12, WriteLists
  <2>2. /\ acc' = [read |-> At("wrFifo"), write |-> acc.write, ctrl |-> acc.ctrl]
        /\ rdFifo' = rdFifo /\ wrFifo' = wrFifo
    BY <1>4, <2>1, Executes, Sources
  <2>3. /\ acc'.ctrl = At("chainWrite") /\ acc'.read = At("wrFifo") /\ acc'.write = acc.write
        /\ acc' = [read |-> acc'.read, write |-> acc'.write, ctrl |-> acc'.ctrl]
    BY <1>3, <1>12, <2>2
  <2>4. WriteSink(kind)'
    BY <1>3, <1>6, <1>12, <2>3 DEF WriteSink
  <2>5. Ended({"rdReq", "accessor"})'
    <3>1. WriteList(kind)[n + 1].to \in Triggers
      BY <1>6, <2>1, Commands DEF Triggers
    <3>0. Word(WriteList(kind)[n + 1].from) # Null
      <4>1. exec.from = At("saveramWriteAddr")
        BY <2>1, Commands
      <4>2. Word(exec.from) = At("wrFifo")
        BY <4>1, Sources
      <4>. QED
        BY <1>6, <4>2 DEF At, Null
    <3>2. Ended({"rdReq"} \cup {"accessor"})'
      BY <1>4, <1>6, <1>12, <3>0, <3>1, WriteLists
    <3>3. {"rdReq"} \cup {"accessor"} = {"rdReq", "accessor"}
      OBVIOUS
    <3>. QED
      BY <3>2, <3>3 DEF Ended
  <2>6. DataFifo'
    BY <1>3, <1>6, <1>7, <1>12, <2>2 DEF DataFifo
  <2>7. WriteMoves'
    BY <1>6, <2>3, <2>4, <2>5, <2>6 DEF WriteMoves
  <2>. QED
    BY <1>2, <1>6, <2>2, <2>3, <2>7 DEF Writes
<1>. QED
  BY <1>9, <1>10, <1>11, <1>12

LEMMA WritesAccess ==
  ASSUME Types, Writes, Accessor
  PROVE  Writes'
<1>1. "accessor" \in busy
  BY DEF Accessor
<1>2. WriteMoves /\ mem = before
  <2>1. ~WriteFollows
    BY <1>1 DEF WriteFollows, Chain
  <2>. QED
    BY <1>1, <2>1 DEF Writes, WriteStarts, WriteHalts, Ended, Armed
<1>3. PICK kind \in ask.kinds :
        /\ Ended({"rdReq", "accessor"}) /\ DataFifo
        /\ acc.ctrl = At("chainWrite") /\ acc.read = At("wrFifo") /\ WriteSink(kind)
  BY <1>2 DEF WriteMoves
<1>4. /\ kind \in {"none", "ram", "rtc"} /\ ask.banks \subseteq Banks /\ ask.regs \subseteq Registers
      /\ ask.off \in Offsets /\ ask.data \in Values
      /\ mem \in [Locations -> Values]
  BY DEF Types, Asks, Writes, Kinds
<1>5. /\ Ended(Armed)' \/ (At("unmapped") \in Landing /\ Ended({"rdReq"})')
      /\ UNCHANGED <<rdFifo, lateData, pointers, acc, ask, before, accesses>>
  <2>1. Rearm(acc.ctrl) = "wrReq"
    BY <1>3, Words DEF Rearm
  <2>2. {"rdReq", "accessor"} = {"rdReq"} \cup {"accessor"} /\ {"rdReq"} \cup {"wrReq"} = Armed
    BY DEF Armed
  <2>3. Ended({"rdReq"} \cup {"accessor"})
    BY <1>3, <2>2
  <2>4. /\ Ended({"rdReq"} \cup {"wrReq"})' \/ (At("unmapped") \in Landing /\ Ended({"rdReq"})')
        /\ UNCHANGED <<rdFifo, lateData, pointers, acc, ask, before, accesses>>
    BY <2>1, <2>3, AccessorSteps
  <2>. QED
    BY <2>2, <2>4 DEF Ended, Armed
<1>6. wrFifo = <<Data>> /\ lateData = <<>>
  BY <1>3 DEF DataFifo, Accessor
<1>7. acc.write # At("tx")
  <2>1. CASE kind = "none"
    BY <1>3, <2>1, Words DEF WriteSink
  <2>2. CASE kind = "ram"
    BY <1>3, <1>4, <2>2, Words, Places DEF WriteSink
  <2>3. CASE kind = "rtc"
    BY <1>3, <1>4, <2>3, Words, Places DEF WriteSink
  <2>. QED
    BY <1>4, <2>1, <2>2, <2>3
<1>8. /\ wrFifo' = <<>> /\ tx' = tx
      /\ acc.write \in Locations => mem' = [mem EXCEPT ![acc.write] = ask.data]
  <2>1. Head(wrFifo) = Data /\ Tail(wrFifo) = <<>>
    BY <1>6, Fifos
  <2>2. \A v \in Moved : v = ask.data
    <3>1. Data = {<<"byte", ask.data>>}
      BY DEF Data
    <3>2. \A v \in Moved : Data = {<<"byte", v>>}
      BY <1>3, <1>4, <2>1, <3>1 DEF Moved
    <3>. QED
      BY <3>1, <3>2, Bytewise
  <2>3. PICK v \in Moved, l \in Landing :
          /\ tx' = IF l = At("tx") THEN Append(tx, {<<"byte", v>>}) ELSE tx
          /\ mem' = IF l \in Locations THEN [mem EXCEPT ![l] = v] ELSE mem
    BY DEF Accessor
  <2>4. l # At("tx")
    <3>1. At("elsewhere") # At("tx")
      BY Singles DEF At
    <3>. QED
      BY <1>7, <3>1, Words DEF Landing
  <2>5. acc.write \in Locations => l = acc.write
    BY DEF Landing
  <2>6. wrFifo' = Tail(wrFifo)
    BY <1>3 DEF Accessor
  <2>. QED
    BY <2>1, <2>2, <2>3, <2>4, <2>5, <2>6
<1>9. Landed'
  <2>1. CASE kind = "none" \/ UnsetClock
    BY <1>5, <2>1 DEF Landed
  <2>2. CASE kind # "none" /\ ~UnsetClock
    <3>1. acc.write \in Locations /\ acc.write \in Targets
      BY <1>3, <1>4, <2>2, Places DEF Targets, WriteSink, Writes
    <3>2. mem' = [before EXCEPT ![acc.write] = ask.data]
      BY <1>2, <1>8, <3>1
    <3>3. Targets' = Targets /\ ask' = ask /\ before' = before
      BY <1>5 DEF Targets
    <3>. QED
      BY <3>1, <3>2, <3>3 DEF Landed
  <2>. QED
    BY <2>1, <2>2
<1>. QED
  BY <1>5, <1>6, <1>8, <1>9 DEF Writes, WriteHalts

-----------------------------------------------------------------------------
(***************************************************************************)
(* The invariant.                                                          *)
(***************************************************************************)
LEMMA InitInv == Init => IInv
<1>. SUFFICES ASSUME Init PROVE IInv
  OBVIOUS
<1>1. mem \in [Locations -> Values] /\ before \in [Locations -> Values]
  BY DEF Init, Values
<1>2. ask \in Asks /\ ask.op = "none"
  BY DEF Init, NoAsk, Asks, Values
<1>3. acc = [read |-> acc.read, write |-> acc.write, ctrl |-> acc.ctrl]
  BY DEF Init
<1>4. /\ curRead \in Kinds /\ curWrite \in Kinds /\ bank \in Banks
      /\ reg \in Registers \cup {NoReg}
  BY SetsAssumption DEF Init, Kinds
<1>6. "rtc" \notin ask.kinds \cup {curRead, curWrite}
  BY DEF Init, NoAsk
<1>5. Quiet /\ Unasked
  BY <1>2 DEF Init, Quiet, Unasked, Armed
<1>. QED
  BY <1>1, <1>2, <1>3, <1>4, <1>5, <1>6 DEF IInv, Types, Selected

\* A new access finds everything at rest.
LEMMA Rested ==
  ASSUME IInv, Quiet
  PROVE  /\ busy = Armed /\ next = 1 /\ list = <<>>
         /\ rdFifo = <<>> /\ wrFifo = <<>> /\ lateData = <<>>
<1>1. /\ busy = Armed /\ rdFifo = <<>> /\ wrFifo = <<>> /\ lateData = <<>>
      /\ "loader" \notin busy /\ "executor" \notin busy /\ "accessor" \notin busy
  BY DEF Quiet, Armed
<1>2. ~ReadStarts /\ ~WriteStarts /\ ~ReadFollows /\ ~ReadMoves /\ ~WriteFollows /\ ~WriteMoves
  BY <1>1, Fifos DEF ReadStarts, WriteStarts, ReadFollows, ReadMoves, WriteFollows, WriteMoves,
                     WholeFifo, Chain, Ended
<1>3. Unasked \/ Ended(Armed)
  BY <1>1, <1>2 DEF IInv, Reads, Writes, ReadHalts, WriteHalts, Ended, Armed
<1>. QED
  BY <1>1, <1>3 DEF Unasked, Ended

LEMMA ReadBegins ==
  ASSUME IInv, NEW a \in Offsets, GbRead(a)
  PROVE  Reads' /\ ask' \in Asks /\ ask'.op # "none" /\ ask'.off \in Offsets
<1>1. /\ Quiet /\ rdFifo' = <<{<<"off", a>>}>> /\ tx' = <<>>
      /\ ask' = Asked("read", a, 0, curRead) /\ before' = mem
      /\ UNCHANGED <<wrFifo, lateData, mem, busy, list, next>>
  BY DEF GbRead, dma
<1>2. ask' = [op |-> "read", off |-> a, data |-> 0, kinds |-> {curRead}, banks |-> {bank},
              regs |-> {reg} \cap Registers]
  BY <1>1 DEF Asked
<1>3. ask'.op = "read" /\ ask'.off = a
  BY <1>2
<1>4. ask' \in Asks
  BY <1>2, SetsAssumption DEF IInv, Types, Asks, Values
<1>5. ReadStarts'
  BY <1>1, <1>3, Rested DEF ReadStarts, Off
<1>. QED
  BY <1>1, <1>3, <1>4, <1>5, Rested DEF Reads

LEMMA WriteBegins ==
  ASSUME IInv, NEW a \in Offsets, NEW v \in Bytes, GbWrite(a, v)
  PROVE  Writes' /\ ask' \in Asks /\ ask'.op # "none" /\ ask'.off \in Offsets
<1>1. /\ Quiet /\ wrFifo' = <<{<<"off", a>>}>> /\ lateData' = <<{<<"byte", v>>}>> /\ tx' = <<>>
      /\ ask' = Asked("write", a, v, curWrite) /\ before' = mem
      /\ UNCHANGED <<rdFifo, mem, busy, list, next>>
  BY DEF GbWrite, dma
<1>2. ask' = [op |-> "write", off |-> a, data |-> v, kinds |-> {curWrite}, banks |-> {bank},
              regs |-> {reg} \cap Registers]
  BY <1>1 DEF Asked
<1>3. ask'.op = "write" /\ ask'.off = a /\ ask'.data = v
  BY <1>2
<1>4. ask' \in Asks
  BY <1>2, SetsAssumption DEF IInv, Types, Asks, Values
<1>5. WriteStarts'
  BY <1>1, <1>3, Rested DEF WriteStarts, WholeFifo, Off, Data
<1>. QED
  BY <1>1, <1>3, <1>4, <1>5, Rested DEF Writes

LEMMA PhaseKept ==
  ASSUME IInv, [Next]_vars
  PROVE  (Unasked \/ Reads \/ Writes)'
<1>1. CASE \E a \in Offsets : GbRead(a) \/ \E v \in Bytes : GbWrite(a, v)
  BY <1>1, ReadBegins, WriteBegins
<1>2. CASE Unasked
  <2>1. Quiet
    BY <1>2 DEF Unasked, Quiet, Armed
  <2>2. CASE Core0
    <3>1. UNCHANGED <<ask, fifos, dma>>
      BY <2>1, <2>2, Selections DEF IInv
    <3>. QED
      BY <1>2, <3>1 DEF Unasked, fifos, dma
  <2>3. ~(Dma \/ PushData)
    BY <2>1, Unquiet
  <2>4. CASE UNCHANGED vars
    BY <1>2, <2>4 DEF Unasked, vars, fifos, dma
  <2>. QED
    BY <1>1, <2>2, <2>3, <2>4 DEF Next
<1>3. CASE Reads
  <2>1. ~PushData /\ ~WriteRequestor
    BY <1>3 DEF Reads, PushData, WriteRequestor
  <2>2. CASE UNCHANGED vars
    <3>1. UNCHANGED <<rdFifo, wrFifo, tx, lateData, busy, list, next, exec, acc, mem, ask, before>>
      BY <2>2 DEF vars, fifos, dma
    <3>2. UNCHANGED <<Off, Served, ReadStarts, ReadHalts, Ended(Armed)>>
      BY <3>1 DEF Off, Served, Targets, ReadStarts, ReadHalts, Ended
    <3>3. UNCHANGED ReadFollows
      BY <3>1, <3>2 DEF ReadFollows, Chain
    <3>4. UNCHANGED ReadMoves
      BY <3>1 DEF ReadMoves, ReadSources, Ended
    <3>. QED
      BY <1>3, <3>1, <3>2, <3>3, <3>4 DEF Reads
  <2>. QED
    BY <1>1, <1>3, <2>1, <2>2, ReadsSelect, ReadsLoad, ReadsRequest, ReadsExecute, ReadsAccess
       DEF Next, Dma, IInv
<1>4. CASE Writes
  <2>1. ~ReadRequestor
    BY <1>4 DEF Writes, ReadRequestor
  <2>2. CASE UNCHANGED vars
    <3>1. UNCHANGED <<rdFifo, wrFifo, tx, lateData, busy, list, next, exec, acc, mem, ask, before>>
      BY <2>2 DEF vars, fifos, dma
    <3>2. UNCHANGED <<Off, Data, WholeFifo, DataFifo, Landed, WriteStarts, WriteHalts, Ended(Armed)>>
      BY <3>1 DEF Off, Data, WholeFifo, DataFifo, Landed, Targets, WriteStarts, WriteHalts, Ended
    <3>3. /\ \A kind : WriteSink(kind)' = WriteSink(kind)
          /\ \A l, n, rest : Chain(l, n, rest)' = Chain(l, n, rest)
          /\ \A rest : Ended(rest)' = Ended(rest)
      BY <3>1 DEF WriteSink, Chain, Ended
    <3>4. UNCHANGED <<WriteFollows, WriteMoves>>
      BY <3>1, <3>2, <3>3 DEF WriteFollows, WriteMoves
    <3>. QED
      BY <1>4, <3>1, <3>2, <3>4 DEF Writes
  <2>. QED
    BY <1>1, <1>4, <2>1, <2>2, WritesSelect, WritesLoad, WritesRequest, WritesPush,
       WritesExecute, WritesAccess
       DEF Next, Dma, IInv
<1>. QED
  BY <1>2, <1>3, <1>4 DEF IInv


LEMMA TypesKept ==
  ASSUME IInv, [Next]_vars
  PROVE  Types'
<1>1. Types
  BY DEF IInv
<1>2. CASE Core0
  <2>1. UNCHANGED <<mem, before, acc>>
    BY <1>1, <1>2, Selections DEF dma
  <2>2. /\ ask' = [op |-> ask.op, off |-> ask.off, data |-> ask.data,
                   kinds |-> ask'.kinds, banks |-> ask'.banks, regs |-> ask'.regs]
        /\ ask'.kinds \subseteq Kinds /\ ask'.banks \subseteq Banks /\ ask'.regs \subseteq Registers
        /\ curRead' \in Kinds /\ curWrite' \in Kinds /\ bank' \in Banks
        /\ reg' \in Registers \cup {NoReg}
    BY <1>1, <1>2, Selections
  <2>3. ask.op \in {"none", "read", "write"} /\ ask.off \in Nat /\ ask.data \in Values
    BY <1>1 DEF Types, Asks
  <2>4. ask' \in Asks /\ ask'.op = ask.op /\ ask'.off = ask.off
    BY <2>2, <2>3 DEF Asks
  <2>. QED
    BY <1>1, <2>1, <2>2, <2>4 DEF Types
<1>3. CASE \E a \in Offsets : GbRead(a) \/ \E v \in Bytes : GbWrite(a, v)
  <2>1. UNCHANGED <<curRead, curWrite, bank, reg, acc, mem>> /\ before' = mem
    BY <1>3 DEF GbRead, GbWrite, pointers, dma
  <2>2. ask' \in Asks /\ ask'.off \in Offsets
    BY <1>3, ReadBegins, WriteBegins
  <2>. QED
    BY <1>1, <2>1, <2>2 DEF Types
<1>4. CASE PushData \/ ReadRequestor \/ WriteRequestor \/ Loader \/ UNCHANGED vars
  <2>1. UNCHANGED <<curRead, curWrite, bank, reg, acc, mem, before, ask>>
    BY <1>4 DEF PushData, ReadRequestor, WriteRequestor, Loader, vars, pointers, dma
  <2>. QED
    BY <1>1, <2>1 DEF Types
<1>5. CASE Executor
  <2>1. UNCHANGED <<curRead, curWrite, bank, reg, mem, before, ask>>
    BY <1>5 DEF Executor, pointers
  <2>2. ~Unasked
    BY <1>5 DEF Unasked, Executor, Armed
  <2>3. acc' = [read |-> acc'.read, write |-> acc'.write, ctrl |-> acc'.ctrl]
    BY <1>5, <2>2, ReadsExecute, WritesExecute DEF IInv
  <2>. QED
    BY <1>1, <2>1, <2>3 DEF Types
<1>6. CASE Accessor
  <2>1. UNCHANGED <<curRead, curWrite, bank, reg, acc, before, ask>>
    BY <1>6 DEF Accessor, pointers
  <2>2. PICK v \in Moved, l \in Landing :
          mem' = IF l \in Locations THEN [mem EXCEPT ![l] = v] ELSE mem
    BY <1>6 DEF Accessor
  <2>3. v \in Values /\ mem \in [Locations -> Values]
    BY <1>1 DEF Moved, Types
  <2>4. mem' \in [Locations -> Values]
    BY <2>2, <2>3
  <2>. QED
    BY <1>1, <2>1, <2>4 DEF Types
<1>. QED
  BY <1>2, <1>3, <1>4, <1>5, <1>6 DEF Next, Dma

-----------------------------------------------------------------------------
\* The invariant holds in every state: an access is at one command of one list that
\* was current when its requestor started the loader, and everything the commands
\* before it took from core 0 was selected while the access ran (GbDmaCommandMachine).
THEOREM Invariance == Spec => []IInv
<1>1. IInv /\ [Next]_vars => IInv'
  BY TypesKept, SelectedKept, PhaseKept DEF IInv
<1>. QED
  BY InitInv, <1>1, PTL DEF Spec

\* Where an access stands tells the types.
LEMMA ChannelsTyped ==
  ASSUME IInv
  PROVE  /\ busy \subseteq Channels /\ next \in 1..5
         /\ "loader" \notin busy \/ "executor" \notin busy
<1>1. ASSUME NEW l, NEW n \in 0..3, NEW rest \in {{"wrReq"}, {"rdReq"}}, Chain(l, n, rest)
      PROVE  /\ busy \subseteq Channels /\ next \in 1..5
             /\ "loader" \notin busy \/ "executor" \notin busy
  BY <1>1 DEF Chain, Channels
<1>2. ASSUME NEW rest \in {{"wrReq", "accessor"}, {"rdReq", "accessor"}, {"wrReq"}, {"rdReq"}, Armed},
             Ended(rest)
      PROVE  /\ busy \subseteq Channels /\ next \in 1..5
             /\ "loader" \notin busy \/ "executor" \notin busy
  BY <1>2 DEF Ended, Channels, Armed
<1>3. CASE Unasked \/ ReadStarts \/ WriteStarts
  BY <1>3 DEF Unasked, ReadStarts, WriteStarts, Armed, Channels
<1>4. CASE ReadFollows
  BY <1>1, <1>4 DEF ReadFollows
<1>5. CASE WriteFollows
  BY <1>1, <1>5 DEF WriteFollows
<1>6. CASE ReadMoves \/ WriteMoves \/ ReadHalts \/ WriteHalts \/ Ended(Armed)
  BY <1>2, <1>6 DEF ReadMoves, WriteMoves, ReadHalts, WriteHalts
<1>. QED
  BY <1>3, <1>4, <1>5, <1>6 DEF IInv, Reads, Writes

\* Type correctness: the FIFOs hold no more than one access pushes and one channel at a
\* time works on the list, also after a transfer that went astray.
THEOREM TypeCorrect == Spec => []TypeOK
<1>1. IInv => TypeOK
  <2>. SUFFICES ASSUME IInv PROVE TypeOK
    OBVIOUS
  <2>1. /\ Len(<<>>) = 0 /\ Len(<<Off>>) = 1 /\ Len(<<Data>>) = 1 /\ Len(<<Off, Data>>) = 2
        /\ \A v : Len(<<v>>) = 1
    BY Fifos
  <2>2. Len(rdFifo) <= 1
    <3>1. rdFifo = <<>> \/ rdFifo = <<Off>>
      BY DEF IInv, Unasked, Reads, Writes, ReadStarts, ReadFollows, ReadMoves, ReadHalts
    <3>2. Len(rdFifo) = 0 \/ Len(rdFifo) = 1
      BY <2>1, <3>1
    <3>. QED
      BY <3>2
  <2>3. Len(wrFifo) <= 2
    <3>1. WholeFifo \/ DataFifo => wrFifo \in {<<>>, <<Off>>, <<Data>>, <<Off, Data>>}
      BY DEF WholeFifo, DataFifo
    <3>2. WriteFollows => WholeFifo \/ DataFifo
      BY DEF WriteFollows
    <3>3. wrFifo = <<>> \/ WholeFifo \/ DataFifo
      BY <3>2 DEF IInv, Unasked, Reads, Writes, WriteStarts, WriteMoves, WriteHalts
    <3>4. Len(wrFifo) = 0 \/ Len(wrFifo) = 1 \/ Len(wrFifo) = 2
      BY <2>1, <3>1, <3>3
    <3>5. 0 <= 2 /\ 1 <= 2 /\ 2 <= 2
      OBVIOUS
    <3>. QED
      BY <3>4, <3>5, Zenon
  <2>4. Len(tx) <= 1
    <3>1. tx = <<>> \/ \E v : tx = <<v>>
      BY DEF IInv, Unasked, Reads, Writes, Served
    <3>2. Len(tx) = 0 \/ Len(tx) = 1
      BY <2>1, <3>1
    <3>. QED
      BY <3>2
  <2>5. /\ curRead \in Kinds /\ curWrite \in Kinds /\ bank \in Banks
        /\ reg \in Registers \cup {NoReg}
    BY DEF IInv, Types
  <2>6. mem \in [Locations -> Values]
    BY DEF IInv, Types
  <2>. QED
    BY <2>2, <2>3, <2>4, <2>5, <2>6, ChannelsTyped DEF TypeOK
<1>. QED
  BY Invariance, <1>1, PTL

\* A read that ends gives the bus one byte out of a place that was selected while it
\* ran, or none from disabled RAM: a swap of lists or banks in the middle of the chain
\* never mixes two places, and a null clock pointer never sends a byte (the read lists
\* and MEMORY_ACCESSOR_DMA).
THEOREM EveryReadServed == Spec => []ReadsAreServed
<1>1. IInv => ReadsAreServed
  <2>. SUFFICES ASSUME IInv, Quiet, ask.op = "read" PROVE Served
    BY DEF ReadsAreServed, Served
  <2>1. /\ busy = Armed /\ rdFifo = <<>> /\ "rdReq" \in busy
        /\ "loader" \notin busy /\ "executor" \notin busy /\ "accessor" \notin busy
    BY DEF Quiet, Armed
  <2>2. ~ReadStarts /\ ~ReadFollows /\ ~ReadMoves /\ ~ReadHalts
    BY <2>1, Fifos DEF ReadStarts, ReadFollows, ReadMoves, ReadHalts, Chain, Ended
  <2>. QED
    BY <2>2 DEF IInv, Unasked, Reads, Writes
<1>. QED
  BY Invariance, <1>1, PTL

\* While the game selects a clock register that exists before it opens the clock, a
\* write that has the RAM or the clock open all the time puts its byte into one place
\* that was selected while it ran and changes no other, however late its data comes,
\* whatever core 0 selects meanwhile and wherever a write to disabled RAM before it has
\* gone (the write lists and MEMORY_ACCESSOR_DMA).
THEOREM EveryWriteLands ==
  ASSUME UnsetClock = FALSE
  PROVE  Spec => []WritesLand
<1>1. IInv => WritesLand
  <2>. SUFFICES ASSUME IInv, Quiet, ask.op = "write", "none" \notin ask.kinds
                PROVE  \E l \in Targets : mem = [before EXCEPT ![l] = ask.data]
    BY DEF WritesLand
  <2>1. /\ busy = Armed /\ "wrReq" \in busy
        /\ "loader" \notin busy /\ "executor" \notin busy /\ "accessor" \notin busy
    BY DEF Quiet, Armed
  <2>2. ~WriteStarts /\ ~WriteFollows /\ ~WriteMoves
    BY <2>1, Fifos DEF Quiet, WriteStarts, WholeFifo, WriteFollows, WriteMoves, Chain, Ended
  <2>4. ~WriteHalts
    BY <2>1 DEF WriteHalts, Ended
  <2>3. Landed
    BY <2>2, <2>4 DEF IInv, Unasked, Reads, Writes
  <2>. QED
    BY <2>3 DEF Landed
<1>. QED
  BY Invariance, <1>1, PTL

\* While the game leaves disabled RAM alone and selects a clock register that exists
\* before it opens the clock, the accessor only moves between a FIFO and a RAM cell, a
\* clock register or DEV_NULL (the lists of gb_dma.rs; what happens without either
\* condition are the findings of MCGbDmaDisabled and MCGbDmaClock).
THEOREM TargetsProgrammed ==
  ASSUME DisabledWrites = FALSE, UnsetClock = FALSE
  PROVE  Spec => []TransfersHaveTargets
<1>1. IInv => TransfersHaveTargets
  <2>. SUFFICES ASSUME IInv, "accessor" \in busy
                PROVE  /\ acc.read \in Locations \cup {At("wrFifo")}
                       /\ acc.write \in Locations \cup {At("tx")}
    BY DEF TransfersHaveTargets
  <2>1. ask.banks \subseteq Banks /\ ask.regs \subseteq Registers /\ ask.kinds \subseteq Kinds
    BY DEF IInv, Types, Asks
  <2>2. /\ ~ReadStarts /\ ~WriteStarts /\ ~ReadHalts /\ ~WriteHalts
        /\ ~Ended(Armed) /\ ~Unasked
    BY DEF ReadStarts, WriteStarts, ReadHalts, WriteHalts, Ended, Unasked, Armed
  <2>3. ~ReadFollows /\ ~WriteFollows
    BY DEF ReadFollows, WriteFollows, Chain
  <2>4. CASE Reads
    <3>1. ReadMoves /\ ask.off \in Offsets
      BY <2>2, <2>3, <2>4 DEF Reads, IInv, Types
    <3>2. PICK kind \in ask.kinds : acc.write = ReadSink(kind) /\ acc.read \in ReadSources(kind)
      BY <3>1 DEF ReadMoves
    <3>3. acc.read \in Locations
      BY <2>1, <3>1, <3>2, Places DEF ReadSources
    <3>. QED
      BY <3>2, <3>3, Words DEF ReadSink
  <2>5. CASE Writes
    <3>1. WriteMoves /\ ask.off \in Offsets /\ "none" \notin ask.kinds
      BY <2>2, <2>3, <2>5 DEF Writes, IInv, Types, Selected
    <3>2. PICK kind \in ask.kinds : acc.read = At("wrFifo") /\ WriteSink(kind)
      BY <3>1 DEF WriteMoves
    <3>3. kind \in {"ram", "rtc"}
      BY <2>1, <3>1 DEF Kinds
    <3>4. acc.write \in Locations
      BY <2>1, <3>1, <3>2, <3>3, Places DEF WriteSink
    <3>. QED
      BY <3>2, <3>4
  <2>. QED
    BY <2>2, <2>4, <2>5 DEF IInv
<1>. QED
  BY Invariance, <1>1, PTL
=============================================================================
