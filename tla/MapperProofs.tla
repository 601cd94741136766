---------------------------- MODULE MapperProofs ----------------------------
(***************************************************************************)
(* Proofs about Mapper for every set of writes a game may make, and any    *)
(* number of them.                                                         *)
(*                                                                         *)
(* The properties speak of a mapper that waits for its next command.  IInv *)
(* says what holds before: the locals of run are what the writes so far    *)
(* select, and a pointer is what is selected unless a write still to be    *)
(* made sets it to that.                                                   *)
(***************************************************************************)
EXTENDS Mapper, SequenceTheorems, TLAPS

Byte == 0..255

\* The FIFO holds addresses and data in turn, and run knows which comes next.
WordsInTurn ==
  /\ fifo \in Seq(Byte) /\ Len(fifo) <= FIFO_WORDS
  /\ addr \in {NoAddr} \cup 0..7
  /\ Len(fifo) % 2 = (IF addr = NoAddr THEN 0 ELSE 1)
  /\ \A i \in 1..Len(fifo) : i % 2 = (IF addr = NoAddr THEN 1 ELSE 0) => fifo[i] \in 0..7

HistoryTypes ==
  /\ sel \in [en : Byte, low : Byte, high : Byte, mode : Byte, ram : Byte, page : Byte,
              other : BOOLEAN, rtc : {NoReg} \cup 0..7, odd : BOOLEAN, latch : Byte,
              edges : Nat]
  /\ mbc \in Mappers

Locals == [bank : 0..511, new : 0..511, low : 0..31, high : 0..3, mode : 0..1,
           ram : Byte, enabled : BOOLEAN, latch : BOOLEAN]

\* The locals of run hold what the game selected.
LocalsFollow ==
  /\ loc \in Locals
  /\ loc.bank = RomSelected
  /\ mbc = "Mbc1" => /\ loc.low = NotZero(sel.low % 32) /\ loc.high = sel.high % 4
                     /\ loc.mode = sel.mode % 2
  /\ mbc = "Mbc3" => /\ loc.new = loc.bank /\ loc.enabled = IsEnable(sel.en)
                     /\ IsRtc(loc.ram) = IsRtc(sel.page)
                     /\ loc.latch = (sel.latch # 0) /\ latches = sel.edges
  /\ mbc = "Mbc5" => /\ loc.new = loc.bank
                     /\ loc.ram = IF sel.other THEN sel.ram % 16 ELSE 1

\* The RAM bank a mapper is to point to; MBC5 leaves the pointer alone as long
\* as only bank 1 is selected.
RamSelected ==
  CASE mbc = "Mbc1" -> sel.ram % 4
    [] mbc = "Mbc3" -> sel.ram % 8
    [] mbc = "Mbc5" -> IF sel.other THEN sel.ram % 4 ELSE 0

\* The writes of entries set ptr to target, or ptr is there already.
Heads(entries, ptr, now, target) ==
  /\ \A e \in entries : e.ptr = ptr => e.value = target
  /\ (\E e \in entries : e.ptr = ptr) \/ now = target

PointersFollow ==
  /\ Heads(Range(todo), "rom", rom, loc.bank)
  /\ Heads(Range(todo), "ram", ram, RamSelected)
  /\ Heads(Range(todo), "read", readCmd, AccessSelected)
  /\ Heads(Range(todo), "write", writeCmd, AccessSelected)
  /\ mbc = "Mbc3" /\ ~sel.odd => Heads(Range(todo), "rtcReg", rtcReg, sel.rtc)

\* What a pointer may be set to.
Writable == ([ptr : {"rom"}, value : 0..511] \cup [ptr : {"ram"}, value : 0..7]
             \cup [ptr : {"rtcReg"}, value : 0..4])
            \cup [ptr : {"read", "write"}, value : Kinds]

PointerTypes ==
  /\ todo \in Seq(Writable)
  /\ rom \in 0..511 /\ ram \in 0..7 /\ rtcReg \in {NoReg} \cup 0..4
  /\ readCmd \in Kinds /\ writeCmd \in Kinds
  /\ mbc # "Mbc3" => /\ readCmd # "rtc" /\ writeCmd # "rtc"
                     /\ \A e \in Range(todo) : e.ptr \in {"read", "write"} => e.value # "rtc"

\* The window is written after what is behind it.
WindowLast(s) ==
  \A i, j \in 1..Len(s) :
    i < j /\ s[i].ptr \in {"read", "write"} => s[j].ptr \notin {"ram", "rtcReg"}

IInv ==
  /\ WordsInTurn /\ HistoryTypes /\ LocalsFollow /\ PointerTypes /\ PointersFollow
  /\ mbc = "Mbc3" => WindowLast(todo)

-----------------------------------------------------------------------------
\* What masks and zero rule leave of a byte.
LEMMA Masks ==
  \A d \in Byte :
    /\ d % 2 \in 0..1 /\ d % 4 \in 0..3 /\ d % 8 \in 0..7 /\ d % 16 \in 0..15
    /\ (d % 16) % 4 = d % 4
    /\ NotZero(d % 32) \in 1..31 /\ NotZero(d % 128) \in 1..127
BY DEF Byte, NotZero

\* A sixth bit that is masked away again.
LEMMA SixBits ==
  \A high \in Byte : \A low \in 1..31 :
    ((high % 4) * 32 + low) % 64 = (high % 2) * 32 + low /\ low % 64 = low
<1>. SUFFICES ASSUME NEW high \in Byte, NEW low \in 1..31
              PROVE  ((high % 4) * 32 + low) % 64 = (high % 2) * 32 + low /\ low % 64 = low
  OBVIOUS
<1>1. high % 4 \in 0..3 /\ high % 2 = (IF high % 4 \in {0, 2} THEN 0 ELSE 1)
  BY DEF Byte
<1>. QED
  BY <1>1

\* The ninth bit of a bank and the other eight.
LEMMA NinthBit ==
  \A high, low, d \in Byte :
    LET bank == (high % 2) * 256 + low
    IN  /\ (bank \div 256) * 256 + d = (high % 2) * 256 + d
        /\ (d % 2) * 256 + (bank % 256) = (d % 2) * 256 + low
        /\ bank \in 0..511
<1>. SUFFICES ASSUME NEW high \in Byte, NEW low \in Byte, NEW d \in Byte
              PROVE  LET bank == (high % 2) * 256 + low
                     IN  /\ (bank \div 256) * 256 + d = (high % 2) * 256 + d
                         /\ (d % 2) * 256 + (bank % 256) = (d % 2) * 256 + low
                         /\ bank \in 0..511
  OBVIOUS
<1>1. high % 2 = 0 \/ high % 2 = 1
  BY DEF Byte
<1>. QED
  BY <1>1 DEF Byte

\* The entries of what the handlers put together.
LEMMA Entries ==
  /\ Range(Nothing) = {}
  /\ \A ptr, value : Range(Set(ptr, value)) = {[ptr |-> ptr, value |-> value]}
BY DEF Range, Nothing, Set

LEMMA AccessEntries ==
  ASSUME NEW kind \in Kinds
  PROVE  /\ Access(kind) \in Seq(Writable)
         /\ Range(Access(kind)) = {[ptr |-> "read", value |-> kind], [ptr |-> "write", value |-> kind]}
<1>1. Set("read", kind) \in Seq(Writable) /\ Set("write", kind) \in Seq(Writable)
  BY DEF Set, Writable
<1>. QED
  BY <1>1, Entries, ConcatProperties, RangeConcatenation DEF Access

\* What the next word is.
LEMMA NextWord ==
  ASSUME WordsInTurn, fifo # <<>>
  PROVE  /\ Head(fifo) \in Byte /\ (addr = NoAddr => Head(fifo) \in 0..7)
         /\ Tail(fifo) \in Seq(Byte) /\ Len(Tail(fifo)) = Len(fifo) - 1
         /\ \A i \in 1..Len(Tail(fifo)) : Tail(fifo)[i] = fifo[i + 1]
<1>1. /\ Head(fifo) \in Byte /\ Tail(fifo) \in Seq(Byte) /\ Len(Tail(fifo)) = Len(fifo) - 1
      /\ \A i \in 1..Len(Tail(fifo)) : Tail(fifo)[i] = fifo[i + 1]
  BY HeadTailProperties DEF WordsInTurn
<1>2. Len(fifo) \in Nat \ {0}
  BY EmptySeq DEF WordsInTurn
<1>3. Head(fifo) = fifo[1]
  BY <1>2 DEF WordsInTurn
<1>4. addr = NoAddr => fifo[1] \in 0..7
  BY <1>2 DEF WordsInTurn
<1>. QED
  BY <1>1, <1>3, <1>4

\* Pulling a word turns the FIFO.
LEMMA WordPulled ==
  ASSUME WordsInTurn, fifo # <<>>, fifo' = Tail(fifo),
         IF addr = NoAddr THEN addr' = Head(fifo) ELSE addr' = NoAddr
  PROVE  WordsInTurn'
<1>1. /\ fifo' \in Seq(Byte) /\ Len(fifo') = Len(fifo) - 1 /\ Len(fifo) \in Nat /\ Len(fifo') \in Nat
      /\ \A i \in 1..Len(fifo') : fifo'[i] = fifo[i + 1]
  BY NextWord DEF WordsInTurn
<1>2. addr' \in {NoAddr} \cup 0..7 /\ (addr = NoAddr <=> addr' # NoAddr)
  BY NextWord DEF NoAddr
<1>3. Len(fifo') <= FIFO_WORDS /\ Len(fifo') % 2 = (IF addr' = NoAddr THEN 0 ELSE 1)
  BY <1>1, <1>2 DEF WordsInTurn, FIFO_WORDS
<1>4. \A i \in 1..Len(fifo') : i % 2 = (IF addr' = NoAddr THEN 1 ELSE 0) => fifo'[i] \in 0..7
  <2>. SUFFICES ASSUME NEW i \in 1..Len(fifo'), i % 2 = (IF addr' = NoAddr THEN 1 ELSE 0)
                PROVE  fifo'[i] \in 0..7
    OBVIOUS
  <2>1. i + 1 \in 1..Len(fifo) /\ (i + 1) % 2 = (IF addr = NoAddr THEN 1 ELSE 0)
    BY <1>1, <1>2
  <2>. QED
    BY <2>1, <1>1 DEF WordsInTurn
<1>. QED
  BY <1>1, <1>2, <1>3, <1>4 DEF WordsInTurn

\* A write of the game goes behind what is there.
LEMMA WordsPushed ==
  ASSUME WordsInTurn, NEW w \in Writes, GbWrite(w)
  PROVE  WordsInTurn'
<1>1. w[1] \in 0..7 /\ w[2] \in Byte /\ <<w[1], w[2]>> \in Seq(Byte)
  BY InputAssumption DEF Byte
<1>2. /\ fifo' = fifo \o <<w[1], w[2]>> /\ addr' = addr
      /\ Len(fifo) + 2 <= FIFO_WORDS /\ Len(fifo) \in Nat /\ fifo \in Seq(Byte)
  BY DEF GbWrite, WordsInTurn
<1>3. /\ fifo' \in Seq(Byte) /\ Len(fifo') = Len(fifo) + 2
      /\ \A i \in 1..Len(fifo) + 2 :
           fifo'[i] = IF i <= Len(fifo) THEN fifo[i] ELSE <<w[1], w[2]>>[i - Len(fifo)]
  BY <1>1, <1>2, ConcatProperties
<1>4. Len(fifo') % 2 = (IF addr' = NoAddr THEN 0 ELSE 1)
  BY <1>2, <1>3 DEF WordsInTurn
<1>5. \A i \in 1..Len(fifo') : i % 2 = (IF addr' = NoAddr THEN 1 ELSE 0) => fifo'[i] \in 0..7
  <2>. SUFFICES ASSUME NEW i \in 1..Len(fifo'), i % 2 = (IF addr' = NoAddr THEN 1 ELSE 0)
                PROVE  fifo'[i] \in 0..7
    OBVIOUS
  <2>1. CASE i <= Len(fifo)
    BY <2>1, <1>2, <1>3 DEF WordsInTurn
  <2>2. CASE i > Len(fifo)
    <3>1. i = Len(fifo) + 1 \/ i = Len(fifo) + 2
      BY <2>2, <1>2, <1>3
    <3>2. i # Len(fifo) + 2
      <4>1. \A n \in Nat : (n + 2) % 2 = n % 2
        OBVIOUS
      <4>2. Len(fifo) % 2 # i % 2
        BY <1>2 DEF WordsInTurn
      <4>. QED
        BY <4>1, <4>2, <1>2
    <3>3. i = Len(fifo) + 1 /\ i - Len(fifo) = 1
      BY <3>1, <3>2, <1>2
    <3>. QED
      BY <3>3, <2>2, <1>1, <1>2, <1>3
  <2>. QED
    BY <2>1, <2>2, <1>2, <1>3
<1>. QED
  BY <1>2, <1>3, <1>4, <1>5 DEF WordsInTurn

-----------------------------------------------------------------------------
\* The history field by field.
LEMMA Noted ==
  ASSUME HistoryTypes, mbc' = mbc, NEW a \in 0..7, NEW r \in {0, 2, 4, 6}, NEW d \in Byte,
         Note(a, r, d)
  PROVE  /\ HistoryTypes'
         /\ sel'.en = IF r = 0 THEN d ELSE sel.en
         /\ sel'.low = IF r = 2 /\ (mbc = "Mbc5" => a = 2) THEN d ELSE sel.low
         /\ sel'.high = IF \/ mbc = "Mbc5" /\ a = 3
                           \/ mbc = "Mbc1" /\ r = 4 /\ sel.mode % 2 = 0 THEN d ELSE sel.high
         /\ sel'.mode = IF r = 6 THEN d ELSE sel.mode
         /\ sel'.ram = IF \/ mbc = "Mbc1" /\ r = 4 /\ sel.mode % 2 = 1
                          \/ mbc = "Mbc3" /\ r = 4 /\ ~IsRtc(d)
                          \/ mbc = "Mbc5" /\ a = 4 THEN d ELSE sel.ram
         /\ sel'.page = IF r = 4 THEN d ELSE sel.page
         /\ sel'.other = (sel.other \/ (a = 4 /\ d % 16 # 1))
         /\ sel'.rtc = IF r = 4 /\ IsRtc(d) THEN d % 8 ELSE sel.rtc
         /\ sel'.odd = (sel.odd \/ (r = 4 /\ IsRtc(d) /\ d % 8 >= 5))
         /\ sel'.latch = IF r = 6 THEN d ELSE sel.latch
         /\ sel'.edges = IF r = 6 /\ d # 0 /\ sel.latch = 0 THEN sel.edges + 1 ELSE sel.edges
<1>. DEFINE en == IF r = 0 THEN d ELSE sel.en
            low == IF r = 2 /\ (mbc = "Mbc5" => a = 2) THEN d ELSE sel.low
            high == IF \/ mbc = "Mbc5" /\ a = 3
                       \/ mbc = "Mbc1" /\ r = 4 /\ sel.mode % 2 = 0 THEN d ELSE sel.high
            mode == IF r = 6 THEN d ELSE sel.mode
            ramBank == IF \/ mbc = "Mbc1" /\ r = 4 /\ sel.mode % 2 = 1
                          \/ mbc = "Mbc3" /\ r = 4 /\ ~IsRtc(d)
                          \/ mbc = "Mbc5" /\ a = 4 THEN d ELSE sel.ram
            page == IF r = 4 THEN d ELSE sel.page
            other == sel.other \/ (a = 4 /\ d % 16 # 1)
            rtc == IF r = 4 /\ IsRtc(d) THEN d % 8 ELSE sel.rtc
            odd == sel.odd \/ (r = 4 /\ IsRtc(d) /\ d % 8 >= 5)
            latch == IF r = 6 THEN d ELSE sel.latch
            edges == IF r = 6 /\ d # 0 /\ sel.latch = 0 THEN sel.edges + 1 ELSE sel.edges
<1>1. sel' = [sel EXCEPT !.en = en, !.low = low, !.high = high, !.mode = mode, !.ram = ramBank,
                         !.page = page, !.other = other, !.rtc = rtc, !.odd = odd,
                         !.latch = latch, !.edges = edges]
  BY Zenon DEF Note
<1>2. /\ sel.en \in Byte /\ sel.low \in Byte /\ sel.high \in Byte /\ sel.mode \in Byte
      /\ sel.ram \in Byte /\ sel.page \in Byte /\ sel.rtc \in {NoReg} \cup 0..7
      /\ sel.latch \in Byte /\ sel.edges \in Nat /\ d % 8 \in 0..7
  BY Masks DEF HistoryTypes
<1>3. /\ en \in Byte /\ low \in Byte /\ high \in Byte /\ mode \in Byte /\ ramBank \in Byte
      /\ page \in Byte /\ rtc \in {NoReg} \cup 0..7 /\ latch \in Byte /\ edges \in Nat
  BY <1>2
<1>4. other \in BOOLEAN /\ odd \in BOOLEAN
  OBVIOUS
<1>. HIDE DEF en, low, high, mode, ramBank, page, other, rtc, odd, latch, edges
<1>5. /\ sel' = [en |-> en, low |-> low, high |-> high, mode |-> mode, ram |-> ramBank,
                 page |-> page, other |-> other, rtc |-> rtc, odd |-> odd, latch |-> latch,
                 edges |-> edges]
  BY <1>1 DEF HistoryTypes
<1>6. HistoryTypes'
  BY <1>3, <1>4, <1>5 DEF HistoryTypes
<1>7. /\ sel'.en = en /\ sel'.low = low /\ sel'.high = high /\ sel'.mode = mode
      /\ sel'.ram = ramBank /\ sel'.page = page /\ sel'.other = other /\ sel'.rtc = rtc
      /\ sel'.odd = odd /\ sel'.latch = latch /\ sel'.edges = edges
  BY <1>5
<1>. QED
  BY <1>6, <1>7, Zenon DEF en, low, high, mode, ramBank, page, other, rtc, odd, latch, edges

\* What a command works on.
LEMMA Pulled ==
  ASSUME IInv, PullData
  PROVE  /\ WordsInTurn' /\ addr \in 0..7 /\ Head(fifo) \in Byte /\ todo = <<>>
         /\ addr - (addr % 2) \in {0, 2, 4, 6}
         /\ (addr - (addr % 2) = 0 <=> addr \in {0, 1})
         /\ (addr - (addr % 2) = 2 <=> addr \in {2, 3})
         /\ (addr - (addr % 2) = 4 <=> addr \in {4, 5})
         /\ UNCHANGED <<mbc, rom, ram, readCmd, writeCmd, rtcReg>>
<1>1. addr \in 0..7
  BY DEF IInv, WordsInTurn, PullData
<1>2. WordsInTurn' /\ Head(fifo) \in Byte
  BY NextWord, WordPulled DEF IInv, PullData
<1>3. UNCHANGED <<mbc, rom, ram, readCmd, writeCmd, rtcReg>> /\ todo = <<>>
  BY DEF PullData
<1>. QED
  BY <1>1, <1>2, <1>3

\* With nothing left to do, every pointer is where it is to be.
LEMMA NothingLeft ==
  ASSUME IInv, todo = <<>>
  PROVE  /\ rom = loc.bank /\ ram = RamSelected
         /\ readCmd = AccessSelected /\ writeCmd = AccessSelected
         /\ mbc = "Mbc3" /\ ~sel.odd => rtcReg = sel.rtc
<1>1. Range(todo) = {}
  BY DEF Range
<1>. QED
  BY <1>1 DEF IInv, PointersFollow, Heads


\* The ROM pointer is written if the bank changes.
LEMMA RomSwitched ==
  ASSUME NEW new \in 0..511
  PROVE  /\ RomSwitch(new) \in Seq(Writable)
         /\ Range(RomSwitch(new)) = IF loc.bank # new THEN {[ptr |-> "rom", value |-> new]} ELSE {}
<1>1. Set("rom", new) \in Seq(Writable) /\ Nothing \in Seq(Writable)
  BY DEF Set, Nothing, Writable
<1>. QED
  BY <1>1, Entries DEF RomSwitch

\* Setting one pointer.
LEMMA SetEntries ==
  /\ Nothing \in Seq(Writable)
  /\ \A bank \in 0..7 : Set("ram", bank) \in Seq(Writable)
  /\ \A n \in 0..4 : Set("rtcReg", n) \in Seq(Writable)
BY DEF Set, Nothing, Writable

\* What makes a pointer head for its target.
LEMMA Headed ==
  ASSUME NEW entries, NEW ptr, NEW now, NEW target,
         \A e \in entries : e.ptr = ptr => e.value = target,
         [ptr |-> ptr, value |-> target] \in entries \/ now = target
  PROVE  Heads(entries, ptr, now, target)
<1>1. CASE now = target
  BY <1>1 DEF Heads
<1>2. CASE [ptr |-> ptr, value |-> target] \in entries
  <2>1. \E e \in entries : e.ptr = ptr
    <3>. WITNESS [ptr |-> ptr, value |-> target] \in entries
    <3>. QED
      OBVIOUS
  <2>. QED
    BY <2>1 DEF Heads
<1>. QED
  BY <1>1, <1>2

\* Two parts of what is to do.
LEMMA Joined ==
  ASSUME NEW s \in Seq(Writable), NEW t \in Seq(Writable)
  PROVE  s \o t \in Seq(Writable) /\ Range(s \o t) = Range(s) \cup Range(t)
BY ConcatProperties, RangeConcatenation

-----------------------------------------------------------------------------
\* MBC1.
LEMMA Mbc1Kept ==
  ASSUME IInv, PullData, mbc = "Mbc1"
  PROVE  IInv'
<1>. DEFINE d == Head(fifo)
            r == addr - (addr % 2)
            kind == IF IsEnable(d) THEN "ram" ELSE "none"
            first == CASE r = 0 -> Access(kind)
                       [] r = 4 /\ loc.mode # 0 -> Set("ram", d % 4)
                       [] OTHER -> Nothing
            mode == IF r = 6 THEN d % 2 ELSE loc.mode
            low == IF r = 2 THEN NotZero(d % 32) ELSE loc.low
            high == IF r = 4 /\ loc.mode = 0 THEN d % 4 ELSE loc.high
            new == (IF mode = 0 THEN high * 32 + low ELSE low) % 64
<1>1. /\ addr \in 0..7 /\ d \in Byte /\ r \in {0, 2, 4, 6} /\ todo = <<>> /\ WordsInTurn'
      /\ mbc' = "Mbc1" /\ UNCHANGED <<mbc, rom, ram, readCmd, writeCmd, rtcReg>>
  BY Pulled
<1>2. Mbc1Command(r, d) /\ Note(addr, r, d)
  BY DEF PullData
<1>. HIDE DEF d, r
<1>3. /\ loc' = [loc EXCEPT !.mode = mode, !.low = low, !.high = high, !.bank = new]
      /\ todo' = first \o RomSwitch(new)
  BY <1>2, Zenon DEF Mbc1Command
<1>4. /\ HistoryTypes'
      /\ sel'.en = IF r = 0 THEN d ELSE sel.en
      /\ sel'.low = IF r = 2 THEN d ELSE sel.low
      /\ sel'.high = IF r = 4 /\ sel.mode % 2 = 0 THEN d ELSE sel.high
      /\ sel'.mode = IF r = 6 THEN d ELSE sel.mode
      /\ sel'.ram = IF r = 4 /\ sel.mode % 2 = 1 THEN d ELSE sel.ram
  BY <1>1, <1>2, Noted DEF IInv
<1>5. /\ sel.low \in Byte /\ sel.high \in Byte /\ sel.mode \in Byte /\ sel.ram \in Byte
      /\ loc \in Locals /\ loc.low \in 0..31 /\ loc.high \in 0..3 /\ loc.mode \in 0..1
      /\ loc.low = NotZero(sel.low % 32) /\ loc.high = sel.high % 4 /\ loc.mode = sel.mode % 2
  BY DEF IInv, LocalsFollow, HistoryTypes, Locals
<1>6. /\ mode = sel'.mode % 2 /\ low = NotZero(sel'.low % 32) /\ high = sel'.high % 4
      /\ sel'.mode \in Byte /\ sel'.low \in Byte /\ sel'.high \in Byte
  BY <1>1, <1>4, <1>5
<1>7. mode \in 0..1 /\ low \in 1..31 /\ high \in 0..3
  BY <1>6, Masks
<1>. HIDE DEF mode, low, high
<1>8. new \in 0..511 /\ new = RomSelected'
  <2>1. RomSelected' = (IF mode = 0 THEN (sel'.high % 2) * 32 ELSE 0) + low
    BY <1>1, <1>6 DEF RomSelected
  <2>2. CASE mode = 0
    BY <2>1, <2>2, <1>6, <1>7, SixBits
  <2>3. CASE mode = 1
    BY <2>1, <2>3, <1>6, <1>7, SixBits
  <2>. QED
    BY <2>2, <2>3, <1>7
<1>. HIDE DEF new
<1>9. /\ loc' \in Locals /\ loc'.mode = mode /\ loc'.low = low /\ loc'.high = high
      /\ loc'.bank = new
  <2>1. loc' = [bank |-> new, new |-> loc.new, low |-> low, high |-> high, mode |-> mode,
                ram |-> loc.ram, enabled |-> loc.enabled, latch |-> loc.latch]
    BY <1>3, <1>5 DEF Locals
  <2>2. /\ loc.new \in 0..511 /\ loc.ram \in Byte /\ loc.enabled \in BOOLEAN
        /\ loc.latch \in BOOLEAN
    BY <1>5 DEF Locals
  <2>. QED
    BY <2>1, <2>2, <1>7, <1>8 DEF Locals
<1>10. LocalsFollow'
  BY <1>1, <1>6, <1>8, <1>9 DEF LocalsFollow
<1>11. /\ first \in Seq(Writable)
       /\ Range(first) = IF r = 0 THEN {[ptr |-> "read", value |-> kind],
                                        [ptr |-> "write", value |-> kind]}
                         ELSE IF r = 4 /\ loc.mode # 0 THEN {[ptr |-> "ram", value |-> d % 4]}
                         ELSE {}
  <2>1. CASE r = 0
    <3>1. kind \in Kinds /\ first = Access(kind)
      BY <2>1 DEF Kinds
    <3>. QED
      BY <2>1, <3>1, AccessEntries
  <2>2. CASE r = 4 /\ loc.mode # 0
    <3>1. d % 4 \in 0..7 /\ first = Set("ram", d % 4)
      BY <2>2, <1>1, Masks
    <3>2. first \in Seq(Writable) /\ Range(first) = {[ptr |-> "ram", value |-> d % 4]}
      BY <3>1, Entries, SetEntries
    <3>. QED
      BY <2>2, <3>2
  <2>3. CASE r # 0 /\ ~(r = 4 /\ loc.mode # 0)
    <3>1. first = Nothing
      BY <2>3
    <3>. QED
      BY <2>3, <3>1, Entries, SetEntries
  <2>. QED
    BY <2>1, <2>2, <2>3
<1>. HIDE DEF first, kind
<1>12. /\ todo' \in Seq(Writable)
       /\ Range(todo') = Range(first) \cup
                         (IF loc.bank # new THEN {[ptr |-> "rom", value |-> new]} ELSE {})
  BY <1>3, <1>8, <1>11, RomSwitched, Joined
<1>13. kind = IF IsEnable(d) THEN "ram" ELSE "none"
  BY DEF kind
<1>14. PointerTypes'
  BY <1>1, <1>11, <1>12, <1>13 DEF IInv, PointerTypes
<1>15. /\ rom = loc.bank /\ ram = sel.ram % 4
       /\ readCmd = AccessSelected /\ writeCmd = AccessSelected
  BY <1>1, NothingLeft DEF RamSelected
<1>16. Heads(Range(todo), "rom", rom, loc.bank)'
  <2>1. \A e \in Range(todo') : e.ptr = "rom" => e.value = new
    BY <1>11, <1>12
  <2>2. [ptr |-> "rom", value |-> new] \in Range(todo') \/ rom' = new
    BY <1>1, <1>12, <1>15
  <2>. QED
    BY <2>1, <2>2, <1>9, Headed
<1>17. Heads(Range(todo), "ram", ram, RamSelected)'
  <2>1. RamSelected' = IF r = 4 /\ loc.mode # 0 THEN d % 4 ELSE ram
    BY <1>1, <1>4, <1>5, <1>15 DEF RamSelected
  <2>. DEFINE target == RamSelected'
  <2>2. \A e \in Range(todo') : e.ptr = "ram" => e.value = target
    BY <2>1, <1>11, <1>12
  <2>3. [ptr |-> "ram", value |-> target] \in Range(todo') \/ ram' = target
    BY <1>1, <2>1, <1>11, <1>12
  <2>. QED
    BY <2>2, <2>3, Headed
<1>18. Heads(Range(todo), "read", readCmd, AccessSelected)'
       /\ Heads(Range(todo), "write", writeCmd, AccessSelected)'
  <2>1. AccessSelected' = IF r = 0 THEN kind ELSE readCmd
    BY <1>1, <1>4, <1>13, <1>15 DEF AccessSelected
  <2>. DEFINE target == AccessSelected'
  <2>2. \A e \in Range(todo') : e.ptr \in {"read", "write"} => e.value = target
    BY <2>1, <1>11, <1>12
  <2>3. \/ /\ [ptr |-> "read", value |-> target] \in Range(todo')
           /\ [ptr |-> "write", value |-> target] \in Range(todo')
        \/ readCmd' = target /\ writeCmd' = target
    BY <1>1, <2>1, <1>11, <1>12, <1>15
  <2>. QED
    BY <2>2, <2>3, Headed
<1>. QED
  BY <1>1, <1>4, <1>10, <1>14, <1>16, <1>17, <1>18 DEF IInv, PointersFollow

-----------------------------------------------------------------------------
\* Sequences that keep the window last.
LEMMA WindowAlone ==
  ASSUME NEW s \in Seq(Writable),
         \/ \A e \in Range(s) : e.ptr \notin {"read", "write"}
         \/ \A e \in Range(s) : e.ptr \notin {"ram", "rtcReg"}
  PROVE  WindowLast(s)
<1>1. \A i \in 1..Len(s) : s[i] \in Range(s)
  BY RangeEquality
<1>. QED
  BY <1>1 DEF WindowLast

LEMMA WindowJoined ==
  ASSUME NEW s \in Seq(Writable), NEW t \in Seq(Writable), WindowLast(s),
         \A e \in Range(t) : e.ptr \notin {"ram", "rtcReg"}
  PROVE  WindowLast(s \o t)
<1>1. \A i \in 1..Len(t) : t[i].ptr \notin {"ram", "rtcReg"}
  BY RangeEquality
<1>2. /\ Len(s \o t) = Len(s) + Len(t) /\ Len(s) \in Nat /\ Len(t) \in Nat
      /\ \A i \in 1..Len(s) + Len(t) : (s \o t)[i] = IF i <= Len(s) THEN s[i] ELSE t[i - Len(s)]
  BY ConcatProperties, LenProperties
<1>. SUFFICES ASSUME NEW i \in 1..Len(s \o t), NEW j \in 1..Len(s \o t), i < j,
                     (s \o t)[i].ptr \in {"read", "write"}
              PROVE  (s \o t)[j].ptr \notin {"ram", "rtcReg"}
  BY DEF WindowLast
<1>3. CASE j <= Len(s)
  BY <1>2, <1>3 DEF WindowLast
<1>4. CASE j > Len(s)
  <2>1. (s \o t)[j] = t[j - Len(s)] /\ j - Len(s) \in 1..Len(t)
    BY <1>2, <1>4
  <2>. QED
    BY <1>1, <2>1
<1>. QED
  BY <1>2, <1>3, <1>4

\* What a write to the bank register of MBC3 does.
LEMMA Selected ==
  ASSUME NEW d \in Byte, loc.enabled \in BOOLEAN
  PROVE  LET kind == IF IsRtc(d) THEN "rtc" ELSE "ram"
             behind == IF ~IsRtc(d) THEN {[ptr |-> "ram", value |-> d % 8]}
                       ELSE IF d % 8 < 5 THEN {[ptr |-> "rtcReg", value |-> d % 8]} ELSE {}
             window == IF loc.enabled
                       THEN {[ptr |-> "read", value |-> kind], [ptr |-> "write", value |-> kind]}
                       ELSE {}
         IN  /\ Mbc3Select(d) \in Seq(Writable) /\ WindowLast(Mbc3Select(d))
             /\ Range(Mbc3Select(d)) = behind \cup window
<1>. DEFINE kind == IF IsRtc(d) THEN "rtc" ELSE "ram"
            behind == IF ~IsRtc(d) THEN {[ptr |-> "ram", value |-> d % 8]}
                      ELSE IF d % 8 < 5 THEN {[ptr |-> "rtcReg", value |-> d % 8]} ELSE {}
            window == IF loc.enabled
                      THEN {[ptr |-> "read", value |-> kind], [ptr |-> "write", value |-> kind]}
                      ELSE {}
            s == IF IsRtc(d) THEN Activate(d % 8) ELSE Set("ram", d % 8)
            t == IF loc.enabled THEN Access(kind) ELSE Nothing
<1>1. Mbc3Select(d) = s \o t
  BY DEF Mbc3Select
<1>2. d % 8 \in 0..7 /\ (d % 8 < 5 => d % 8 \in 0..4)
  BY Masks
<1>3. s \in Seq(Writable) /\ Range(s) = behind
  <2>1. CASE ~IsRtc(d)
    BY <2>1, <1>2, Entries, SetEntries
  <2>2. CASE IsRtc(d) /\ d % 8 < 5
    BY <2>2, <1>2, Entries, SetEntries DEF Activate
  <2>3. CASE IsRtc(d) /\ ~(d % 8 < 5)
    BY <2>3, Entries, SetEntries DEF Activate
  <2>. QED
    BY <2>1, <2>2, <2>3
<1>4. t \in Seq(Writable) /\ Range(t) = window
  <2>1. kind \in Kinds
    BY DEF Kinds
  <2>2. CASE loc.enabled
    BY <2>1, <2>2, AccessEntries
  <2>3. CASE ~loc.enabled
    BY <2>3, Entries, SetEntries
  <2>. QED
    BY <2>2, <2>3
<1>5. /\ \A e \in behind : e.ptr \notin {"read", "write"}
      /\ \A e \in window : e.ptr \notin {"ram", "rtcReg"}
  OBVIOUS
<1>. HIDE DEF kind, behind, window, s, t
<1>6. s \o t \in Seq(Writable) /\ WindowLast(s \o t) /\ Range(s \o t) = behind \cup window
  BY <1>3, <1>4, <1>5, Joined, WindowAlone, WindowJoined
<1>. QED
  BY <1>1, <1>6 DEF behind, window, kind

\* MBC3.
LEMMA Mbc3Kept ==
  ASSUME IInv, PullData, mbc = "Mbc3"
  PROVE  IInv'
<1>. DEFINE d == Head(fifo)
            r == addr - (addr % 2)
            opened == IF ~IsEnable(d) THEN "none" ELSE IF IsRtc(loc.ram) THEN "rtc" ELSE "ram"
            first == CASE r = 0 -> Mbc3Enable(d)
                       [] r = 4 -> Mbc3Select(d)
                       [] OTHER -> Nothing
            new == IF r = 2 THEN NotZero(d % 128) ELSE loc.new
            enabled == IF r = 0 THEN IsEnable(d) ELSE loc.enabled
            bank == IF r = 4 THEN d ELSE loc.ram
            latch == IF r = 6 THEN d # 0 ELSE loc.latch
<1>1. /\ addr \in 0..7 /\ d \in Byte /\ r \in {0, 2, 4, 6} /\ todo = <<>> /\ WordsInTurn'
      /\ mbc' = "Mbc3" /\ UNCHANGED <<mbc, rom, ram, readCmd, writeCmd, rtcReg>>
  BY Pulled
<1>2. Mbc3Command(r, d) /\ Note(addr, r, d)
  BY DEF PullData
<1>. HIDE DEF d, r
<1>3. /\ loc' = [loc EXCEPT !.new = new, !.bank = new, !.enabled = enabled, !.ram = bank,
                            !.latch = latch]
      /\ todo' = first \o RomSwitch(new)
      /\ latches' = IF r = 6 /\ LatchDue(d) THEN latches + 1 ELSE latches
  BY <1>2, Zenon DEF Mbc3Command
<1>4. /\ HistoryTypes'
      /\ sel'.en = IF r = 0 THEN d ELSE sel.en
      /\ sel'.low = IF r = 2 THEN d ELSE sel.low
      /\ sel'.ram = IF r = 4 /\ ~IsRtc(d) THEN d ELSE sel.ram
      /\ sel'.page = IF r = 4 THEN d ELSE sel.page
      /\ sel'.rtc = IF r = 4 /\ IsRtc(d) THEN d % 8 ELSE sel.rtc
      /\ sel'.odd = (sel.odd \/ (r = 4 /\ IsRtc(d) /\ d % 8 >= 5))
      /\ sel'.latch = IF r = 6 THEN d ELSE sel.latch
      /\ sel'.edges = IF r = 6 /\ d # 0 /\ sel.latch = 0 THEN sel.edges + 1 ELSE sel.edges
  BY <1>1, <1>2, Noted DEF IInv
<1>5. /\ loc \in Locals /\ loc.ram \in Byte /\ loc.enabled \in BOOLEAN /\ loc.latch \in BOOLEAN
      /\ loc.low \in 0..31 /\ loc.high \in 0..3 /\ loc.mode \in 0..1
      /\ loc.new \in 0..511 /\ loc.new = NotZero(sel.low % 128) /\ loc.bank = loc.new
      /\ loc.enabled = IsEnable(sel.en) /\ IsRtc(loc.ram) = IsRtc(sel.page)
      /\ loc.latch = (sel.latch # 0) /\ latches = sel.edges
  BY DEF IInv, LocalsFollow, HistoryTypes, Locals, RomSelected
<1>6. new \in 0..511 /\ new = NotZero(sel'.low % 128)
  <2>1. NotZero(d % 128) \in 0..511
    <3>1. NotZero(d % 128) \in 1..127
      BY <1>1, Masks
    <3>. QED
      BY <3>1
  <2>. QED
    BY <2>1, <1>1, <1>4, <1>5
<1>7. /\ enabled \in BOOLEAN /\ enabled = IsEnable(sel'.en)
      /\ bank \in Byte /\ IsRtc(bank) = IsRtc(sel'.page)
      /\ latch \in BOOLEAN /\ latch = (sel'.latch # 0)
  BY <1>1, <1>4, <1>5 DEF IsEnable
<1>8. latches' = sel'.edges
  BY <1>3, <1>4, <1>5 DEF LatchDue
<1>. HIDE DEF new, enabled, bank, latch, opened, first
<1>9. /\ loc' \in Locals /\ loc'.bank = new /\ loc'.new = new /\ loc'.enabled = enabled
      /\ loc'.ram = bank /\ loc'.latch = latch
  <2>1. loc' = [bank |-> new, new |-> new, low |-> loc.low, high |-> loc.high,
                mode |-> loc.mode, ram |-> bank, enabled |-> enabled, latch |-> latch]
    BY <1>3, <1>5 DEF Locals
  <2>. QED
    BY <2>1, <1>5, <1>6, <1>7 DEF Locals
<1>10. LocalsFollow'
  BY <1>1, <1>6, <1>7, <1>8, <1>9 DEF LocalsFollow, RomSelected
<1>11. opened \in Kinds /\ opened = IF ~IsEnable(d) THEN "none" ELSE IF IsRtc(loc.ram) THEN "rtc"
                                   ELSE "ram"
  BY DEF opened, Kinds
<1>. DEFINE picked == IF IsRtc(d) THEN "rtc" ELSE "ram"
            behind == IF ~IsRtc(d) THEN {[ptr |-> "ram", value |-> d % 8]}
                      ELSE IF d % 8 < 5 THEN {[ptr |-> "rtcReg", value |-> d % 8]} ELSE {}
            window(kind) == {[ptr |-> "read", value |-> kind], [ptr |-> "write", value |-> kind]}
            entries == CASE r = 0 -> window(opened)
                         [] r = 4 -> behind \cup (IF loc.enabled THEN window(picked) ELSE {})
                         [] OTHER -> {}
<1>12. first \in Seq(Writable) /\ WindowLast(first) /\ Range(first) = entries
  <2>1. CASE r = 0
    <3>1. first = Access(opened)
      BY <2>1 DEF first, opened, Mbc3Enable
    <3>2. first \in Seq(Writable) /\ Range(first) = window(opened)
      BY <3>1, <1>11, AccessEntries
    <3>3. \A e \in Range(first) : e.ptr \notin {"ram", "rtcReg"}
      BY <3>2
    <3>. QED
      BY <2>1, <3>2, <3>3, WindowAlone
  <2>2. CASE r = 4
    <3>1. first = Mbc3Select(d)
      BY <2>2 DEF first
    <3>. QED
      BY <2>2, <3>1, <1>1, <1>5, Selected
  <2>3. CASE r \notin {0, 4}
    <3>1. first \in Seq(Writable) /\ Range(first) = {}
      BY <2>3, Entries, SetEntries DEF first
    <3>2. WindowLast(first)
      BY <3>1, WindowAlone
    <3>. QED
      BY <2>3, <3>1, <3>2
  <2>. QED
    BY <2>1, <2>2, <2>3
<1>13. /\ todo' \in Seq(Writable) /\ WindowLast(todo)'
       /\ Range(todo') = entries \cup
                         (IF loc.bank # new THEN {[ptr |-> "rom", value |-> new]} ELSE {})
  <2>1. /\ RomSwitch(new) \in Seq(Writable)
        /\ Range(RomSwitch(new)) = IF loc.bank # new THEN {[ptr |-> "rom", value |-> new]} ELSE {}
    BY <1>6, RomSwitched
  <2>2. \A e \in Range(RomSwitch(new)) : e.ptr \notin {"ram", "rtcReg"}
    BY <2>1
  <2>. HIDE DEF entries
  <2>3. WindowLast(todo')
    BY <1>3, <1>12, <2>1, <2>2, WindowJoined
  <2>. QED
    BY <1>3, <1>12, <2>1, <2>3, Joined DEF WindowLast
<1>14. PointerTypes'
  BY <1>1, <1>13 DEF IInv, PointerTypes
<1>15. /\ rom = loc.bank /\ ram = sel.ram % 8
       /\ readCmd = AccessSelected /\ writeCmd = AccessSelected
       /\ ~sel.odd => rtcReg = sel.rtc
  BY <1>1, NothingLeft DEF RamSelected
<1>16. Heads(Range(todo), "rom", rom, loc.bank)'
  <2>1. \A e \in Range(todo') : e.ptr = "rom" => e.value = new
    BY <1>13
  <2>2. [ptr |-> "rom", value |-> new] \in Range(todo') \/ rom' = new
    BY <1>1, <1>13, <1>15
  <2>. QED
    BY <2>1, <2>2, <1>9, Headed
<1>17. Heads(Range(todo), "ram", ram, RamSelected)'
  <2>1. RamSelected' = IF r = 4 /\ ~IsRtc(d) THEN d % 8 ELSE ram
    BY <1>1, <1>4, <1>15 DEF RamSelected
  <2>. DEFINE target == RamSelected'
  <2>2. \A e \in Range(todo') : e.ptr = "ram" => e.value = target
    BY <1>1, <2>1, <1>13
  <2>3. [ptr |-> "ram", value |-> target] \in Range(todo') \/ ram' = target
    BY <1>1, <2>1, <1>13
  <2>. QED
    BY <2>2, <2>3, Headed
<1>18. Heads(Range(todo), "read", readCmd, AccessSelected)'
       /\ Heads(Range(todo), "write", writeCmd, AccessSelected)'
  <2>1. AccessSelected' = IF r = 0 THEN opened
                          ELSE IF r = 4 /\ loc.enabled THEN picked ELSE readCmd
    BY <1>1, <1>4, <1>5, <1>11, <1>15 DEF AccessSelected
  <2>. DEFINE target == AccessSelected'
  <2>2. \A e \in Range(todo') : e.ptr \in {"read", "write"} => e.value = target
    BY <1>1, <2>1, <1>13
  <2>3. \/ /\ [ptr |-> "read", value |-> target] \in Range(todo')
           /\ [ptr |-> "write", value |-> target] \in Range(todo')
        \/ readCmd' = target /\ writeCmd' = target
    BY <1>1, <2>1, <1>13, <1>15
  <2>. QED
    BY <2>2, <2>3, Headed
<1>19. ~sel'.odd => Heads(Range(todo), "rtcReg", rtcReg, sel.rtc)'
  <2>. SUFFICES ASSUME ~sel'.odd PROVE Heads(Range(todo'), "rtcReg", rtcReg', sel'.rtc)
    OBVIOUS
  <2>1. \A e \in Range(todo') : e.ptr = "rtcReg" => e.value = sel'.rtc
    BY <1>1, <1>4, <1>13
  <2>2. d % 8 < 5 \/ d % 8 >= 5
    BY <1>1, Masks
  <2>3. [ptr |-> "rtcReg", value |-> sel'.rtc] \in Range(todo') \/ rtcReg' = sel'.rtc
    <3>1. CASE r = 4 /\ IsRtc(d)
      <4>1. d % 8 < 5 /\ sel'.rtc = d % 8
        BY <3>1, <1>4, <2>2
      <4>. QED
        BY <3>1, <4>1, <1>13
    <3>2. CASE ~(r = 4 /\ IsRtc(d))
      BY <3>2, <1>1, <1>4, <1>15
    <3>. QED
      BY <3>1, <3>2
  <2>. QED
    BY <2>1, <2>3, Headed
<1>. QED
  BY <1>1, <1>4, <1>10, <1>13, <1>14, <1>16, <1>17, <1>18, <1>19 DEF IInv, PointersFollow

-----------------------------------------------------------------------------
\* MBC5.
LEMMA Mbc5Kept ==
  ASSUME IInv, PullData, mbc = "Mbc5"
  PROVE  IInv'
<1>. DEFINE d == Head(fifo)
            r == addr - (addr % 2)
            kind == IF IsEnable(d) THEN "ram" ELSE "none"
            new == Mbc5Bank(addr, d)
            bank == IF addr = 4 THEN d % 16 ELSE loc.ram
            access == IF addr \in {0, 1} THEN Access(kind) ELSE Nothing
            page == IF loc.ram # bank THEN Set("ram", bank % 4) ELSE Nothing
<1>1. /\ addr \in 0..7 /\ d \in Byte /\ r \in {0, 2, 4, 6} /\ todo = <<>> /\ WordsInTurn'
      /\ (r = 0 <=> addr \in {0, 1}) /\ (r = 2 <=> addr \in {2, 3})
      /\ mbc' = "Mbc5" /\ UNCHANGED <<mbc, rom, ram, readCmd, writeCmd, rtcReg>>
  BY Pulled
<1>2. Mbc5Command(addr, d) /\ Note(addr, r, d)
  BY DEF PullData
<1>. HIDE DEF d, r
<1>3. /\ loc' = [loc EXCEPT !.new = new, !.bank = new, !.ram = bank]
      /\ todo' = access \o RomSwitch(new) \o page
  BY <1>2, Zenon DEF Mbc5Command
<1>4. /\ HistoryTypes'
      /\ sel'.en = IF r = 0 THEN d ELSE sel.en
      /\ sel'.low = IF addr = 2 THEN d ELSE sel.low
      /\ sel'.high = IF addr = 3 THEN d ELSE sel.high
      /\ sel'.ram = IF addr = 4 THEN d ELSE sel.ram
      /\ sel'.other = (sel.other \/ (addr = 4 /\ d % 16 # 1))
  BY <1>1, <1>2, Noted DEF IInv
<1>5. /\ loc \in Locals /\ loc.ram \in Byte /\ loc.enabled \in BOOLEAN /\ loc.latch \in BOOLEAN
      /\ loc.low \in 0..31 /\ loc.high \in 0..3 /\ loc.mode \in 0..1
      /\ sel.low \in Byte /\ sel.high \in Byte /\ sel.ram \in Byte
      /\ loc.bank = (sel.high % 2) * 256 + sel.low /\ loc.new = loc.bank
      /\ loc.ram = IF sel.other THEN sel.ram % 16 ELSE 1
  BY DEF IInv, LocalsFollow, HistoryTypes, Locals, RomSelected
<1>6. new \in 0..511 /\ new = (sel'.high % 2) * 256 + sel'.low
  <2>1. new = (sel'.high % 2) * 256 + sel'.low
    <3>1. CASE addr = 2
      <4>1. new = (loc.bank \div 256) * 256 + d
        BY <3>1 DEF Mbc5Bank
      <4>. QED
        BY <3>1, <4>1, <1>1, <1>4, <1>5, NinthBit
    <3>2. CASE addr = 3
      <4>1. new = (d % 2) * 256 + (loc.bank % 256)
        BY <3>2 DEF Mbc5Bank
      <4>. QED
        BY <3>2, <4>1, <1>1, <1>4, <1>5, NinthBit
    <3>3. CASE addr \notin {2, 3}
      BY <3>3, <1>4, <1>5 DEF Mbc5Bank
    <3>. QED
      BY <3>1, <3>2, <3>3
  <2>2. sel'.high \in Byte /\ sel'.low \in Byte
    BY <1>1, <1>4, <1>5
  <2>. QED
    BY <2>1, <2>2, NinthBit
<1>7. bank \in Byte /\ bank = (IF sel'.other THEN sel'.ram % 16 ELSE 1)
  <2>1. CASE addr = 4
    <3>1. d % 16 \in Byte
      BY <1>1, Masks DEF Byte
    <3>. QED
      BY <2>1, <3>1, <1>1, <1>4
  <2>2. CASE addr # 4
    BY <2>2, <1>4, <1>5
  <2>. QED
    BY <2>1, <2>2
<1>. HIDE DEF new
<1>8. loc' \in Locals /\ loc'.bank = new /\ loc'.new = new /\ loc'.ram = bank
  <2>. HIDE DEF bank
  <2>1. loc' = [bank |-> new, new |-> new, low |-> loc.low, high |-> loc.high,
                mode |-> loc.mode, ram |-> bank, enabled |-> loc.enabled, latch |-> loc.latch]
    BY <1>3, <1>5 DEF Locals
  <2>. QED
    BY <2>1, <1>5, <1>6, <1>7 DEF Locals
<1>9. LocalsFollow'
  BY <1>1, <1>6, <1>7, <1>8 DEF LocalsFollow, RomSelected
<1>. DEFINE window == {[ptr |-> "read", value |-> kind], [ptr |-> "write", value |-> kind]}
            entries == (IF addr \in {0, 1} THEN window ELSE {})
                       \cup (IF loc.bank # new THEN {[ptr |-> "rom", value |-> new]} ELSE {})
                       \cup (IF loc.ram # bank THEN {[ptr |-> "ram", value |-> bank % 4]} ELSE {})
<1>10. kind \in Kinds /\ kind # "rtc" /\ bank % 4 \in 0..7
  BY <1>7, Masks DEF Kinds
<1>11. todo' \in Seq(Writable) /\ Range(todo') = entries
  <2>1. /\ access \in Seq(Writable)
        /\ Range(access) = IF addr \in {0, 1} THEN window ELSE {}
    BY <1>10, AccessEntries, Entries, SetEntries
  <2>2. /\ page \in Seq(Writable)
        /\ Range(page) = IF loc.ram # bank THEN {[ptr |-> "ram", value |-> bank % 4]} ELSE {}
    BY <1>10, Entries, SetEntries
  <2>. HIDE DEF access, page, window, bank
  <2>. DEFINE switch == RomSwitch(new)
  <2>5. /\ switch \in Seq(Writable)
        /\ Range(switch) = IF loc.bank # new THEN {[ptr |-> "rom", value |-> new]} ELSE {}
    BY <1>6, RomSwitched
  <2>6. todo' = access \o switch \o page
    BY <1>3
  <2>. HIDE DEF switch
  <2>3. /\ access \o switch \in Seq(Writable)
        /\ Range(access \o switch) = Range(access) \cup Range(switch)
    BY <2>1, <2>5, Joined
  <2>4. /\ todo' \in Seq(Writable)
        /\ Range(todo') = Range(access) \cup Range(switch) \cup Range(page)
    BY <2>6, <2>2, <2>3, Joined
  <2>. QED
    BY <2>1, <2>2, <2>4, <2>5
<1>12. PointerTypes'
  <2>. HIDE DEF bank, kind
  <2>. QED
    BY <1>1, <1>10, <1>11 DEF IInv, PointerTypes
<1>13. /\ rom = loc.bank /\ ram = IF sel.other THEN sel.ram % 4 ELSE 0
       /\ readCmd = AccessSelected /\ writeCmd = AccessSelected
  BY <1>1, NothingLeft DEF RamSelected
<1>14. Heads(Range(todo), "rom", rom, loc.bank)'
  <2>1. \A e \in Range(todo') : e.ptr = "rom" => e.value = new
    BY <1>11
  <2>2. [ptr |-> "rom", value |-> new] \in Range(todo') \/ rom' = new
    BY <1>1, <1>11, <1>13
  <2>. QED
    BY <2>1, <2>2, <1>8, Headed
<1>15. Heads(Range(todo), "ram", ram, RamSelected)'
  <2>1. RamSelected' = IF sel'.other THEN sel'.ram % 4 ELSE 0
    BY <1>1 DEF RamSelected
  <2>2. RamSelected' = IF loc.ram # bank THEN bank % 4 ELSE ram
    <3>1. (d % 16) % 4 = d % 4 /\ (sel.ram % 16) % 4 = sel.ram % 4
      BY <1>1, <1>5, Masks
    <3>2. CASE addr = 4
      <4>1. bank = d % 16 /\ sel'.ram = d
        BY <3>2, <1>4
      <4>2. CASE d % 16 = 1 /\ ~sel.other
        BY <2>1, <3>2, <4>1, <4>2, <1>4, <1>5, <1>13
      <4>3. CASE d % 16 # 1 \/ sel.other
        <5>1. RamSelected' = d % 4
          BY <2>1, <3>2, <4>3, <1>4
        <5>2. CASE loc.ram = bank
          BY <3>1, <4>1, <4>3, <5>1, <5>2, <1>5, <1>13
        <5>3. CASE loc.ram # bank
          BY <3>1, <4>1, <5>1, <5>3
        <5>. QED
          BY <5>2, <5>3
      <4>. QED
        BY <4>2, <4>3
    <3>3. CASE addr # 4
      BY <2>1, <3>3, <1>4, <1>13
    <3>. QED
      BY <3>2, <3>3
  <2>. DEFINE target == RamSelected'
  <2>. HIDE DEF bank
  <2>3. \A e \in Range(todo') : e.ptr = "ram" => e.value = target
    BY <2>2, <1>11
  <2>4. [ptr |-> "ram", value |-> target] \in Range(todo') \/ ram' = target
    BY <1>1, <2>2, <1>11
  <2>. QED
    BY <2>3, <2>4, Headed
<1>16. Heads(Range(todo), "read", readCmd, AccessSelected)'
       /\ Heads(Range(todo), "write", writeCmd, AccessSelected)'
  <2>1. AccessSelected' = IF addr \in {0, 1} THEN kind ELSE readCmd
    BY <1>1, <1>4, <1>13 DEF AccessSelected
  <2>. DEFINE target == AccessSelected'
  <2>. HIDE DEF bank, kind
  <2>2. \A e \in Range(todo') : e.ptr \in {"read", "write"} => e.value = target
    BY <2>1, <1>11
  <2>3. \/ /\ [ptr |-> "read", value |-> target] \in Range(todo')
           /\ [ptr |-> "write", value |-> target] \in Range(todo')
        \/ readCmd' = target /\ writeCmd' = target
    BY <1>1, <2>1, <1>11, <1>13
  <2>. QED
    BY <2>2, <2>3, Headed
<1>. QED
  BY <1>1, <1>4, <1>9, <1>12, <1>14, <1>15, <1>16 DEF IInv, PointersFollow

-----------------------------------------------------------------------------
\* The next of the writes and those after it.
LEMMA FirstWrite ==
  ASSUME todo \in Seq(Writable), todo # <<>>
  PROVE  /\ Head(todo) \in Writable /\ Tail(todo) \in Seq(Writable)
         /\ Range(todo) = {Head(todo)} \cup Range(Tail(todo))
         /\ WindowLast(todo) =>
              /\ WindowLast(Tail(todo))
              /\ Head(todo).ptr \in {"read", "write"} =>
                   \A e \in Range(Tail(todo)) : e.ptr \notin {"ram", "rtcReg"}
<1>1. /\ Head(todo) \in Writable /\ Tail(todo) \in Seq(Writable)
      /\ Len(Tail(todo)) = Len(todo) - 1
      /\ \A i \in 1..Len(Tail(todo)) : Tail(todo)[i] = todo[i + 1]
  BY HeadTailProperties
<1>2. Len(todo) \in Nat \ {0} /\ Head(todo) = todo[1]
  BY EmptySeq
<1>3. /\ Range(todo) = {todo[i] : i \in 1..Len(todo)}
      /\ Range(Tail(todo)) = {Tail(todo)[i] : i \in 1..Len(Tail(todo))}
  BY <1>1, RangeEquality
<1>4. Range(todo) = {Head(todo)} \cup Range(Tail(todo))
  <2>1. ASSUME NEW e \in Range(todo)
        PROVE  e \in {Head(todo)} \cup Range(Tail(todo))
    <3>1. PICK i \in 1..Len(todo) : e = todo[i]
      BY <1>3
    <3>2. CASE i = 1
      BY <1>2, <3>1, <3>2
    <3>3. CASE i # 1
      <4>1. i - 1 \in 1..Len(Tail(todo)) /\ (i - 1) + 1 = i
        BY <1>1, <1>2, <3>3
      <4>2. Tail(todo)[i - 1] = e
        BY <1>1, <3>1, <4>1
      <4>. QED
        BY <1>3, <4>1, <4>2
    <3>. QED
      BY <3>2, <3>3
  <2>2. Head(todo) \in Range(todo)
    <3>1. 1 \in 1..Len(todo)
      BY <1>2
    <3>. QED
      BY <1>2, <1>3, <3>1
  <2>3. ASSUME NEW e \in Range(Tail(todo))
        PROVE  e \in Range(todo)
    <3>1. PICK i \in 1..Len(Tail(todo)) : e = Tail(todo)[i]
      BY <1>3
    <3>2. e = todo[i + 1] /\ i + 1 \in 1..Len(todo)
      BY <1>1, <1>2, <3>1
    <3>. QED
      BY <1>3, <3>2
  <2>. QED
    BY <2>1, <2>2, <2>3
<1>5. ASSUME WindowLast(todo)
      PROVE  /\ WindowLast(Tail(todo))
             /\ Head(todo).ptr \in {"read", "write"} =>
                  \A e \in Range(Tail(todo)) : e.ptr \notin {"ram", "rtcReg"}
  <2>1. \A i \in 1..Len(Tail(todo)) : Tail(todo)[i] = todo[i + 1] /\ i + 1 \in 1..Len(todo)
    BY <1>1, <1>2
  <2>2. WindowLast(Tail(todo))
    <3>1. \A i, j \in 1..Len(Tail(todo)) : i < j => i + 1 < j + 1
      BY <1>1, <1>2
    <3>. QED
      BY <1>5, <2>1, <3>1 DEF WindowLast
  <2>3. ASSUME Head(todo).ptr \in {"read", "write"}, NEW e \in Range(Tail(todo))
        PROVE  e.ptr \notin {"ram", "rtcReg"}
    <3>1. PICK i \in 1..Len(Tail(todo)) : e = todo[i + 1] /\ i + 1 \in 1..Len(todo)
      BY <1>3, <2>1
    <3>2. 1 \in 1..Len(todo) /\ 1 < i + 1
      BY <1>2
    <3>. QED
      BY <1>2, <1>5, <2>3, <3>1, <3>2 DEF WindowLast
  <2>. QED
    BY <2>2, <2>3
<1>. QED
  BY <1>1, <1>4, <1>5

\* One write brings its pointer to the target and leaves the others on their way.
LEMMA OneWrite ==
  ASSUME NEW w, NEW rest, NEW ptr, NEW now, NEW later, NEW target,
         Heads({w} \cup rest, ptr, now, target),
         later = IF w.ptr = ptr THEN w.value ELSE now
  PROVE  Heads(rest, ptr, later, target)
BY DEF Heads

LEMMA WriteKept ==
  ASSUME IInv, WritePointer
  PROVE  IInv'
<1>. DEFINE w == Head(todo)
            rest == Range(Tail(todo))
<1>1. /\ w \in Writable /\ todo' \in Seq(Writable) /\ Range(todo) = {w} \cup rest
      /\ Range(todo') = rest
      /\ mbc = "Mbc3" => WindowLast(todo')
  BY FirstWrite DEF IInv, PointerTypes, WritePointer
<1>2. UNCHANGED <<mbc, fifo, addr, loc, latches, sel>>
  BY DEF WritePointer
<1>3. /\ rom' = IF w.ptr = "rom" THEN w.value ELSE rom
      /\ ram' = IF w.ptr = "ram" THEN w.value ELSE ram
      /\ readCmd' = IF w.ptr = "read" THEN w.value ELSE readCmd
      /\ writeCmd' = IF w.ptr = "write" THEN w.value ELSE writeCmd
      /\ rtcReg' = IF w.ptr = "rtcReg" THEN w.value ELSE rtcReg
  BY DEF WritePointer
<1>. HIDE DEF w, rest
<1>4. WordsInTurn' /\ HistoryTypes' /\ LocalsFollow'
  BY <1>2 DEF IInv, WordsInTurn, HistoryTypes, LocalsFollow, RomSelected
<1>5. PointerTypes'
  BY <1>1, <1>2, <1>3 DEF IInv, PointerTypes, Writable
<1>6. RamSelected' = RamSelected /\ AccessSelected' = AccessSelected
  BY <1>2 DEF RamSelected, AccessSelected
<1>7. /\ Heads({w} \cup rest, "rom", rom, loc.bank)
      /\ Heads({w} \cup rest, "ram", ram, RamSelected)
      /\ Heads({w} \cup rest, "read", readCmd, AccessSelected)
      /\ Heads({w} \cup rest, "write", writeCmd, AccessSelected)
      /\ mbc = "Mbc3" /\ ~sel.odd => Heads({w} \cup rest, "rtcReg", rtcReg, sel.rtc)
  BY <1>1 DEF IInv, PointersFollow
<1>10. Heads(rest, "rom", rom', loc.bank)
  BY <1>3, <1>7, OneWrite
<1>11. Heads(rest, "ram", ram', RamSelected)
  BY <1>3, <1>7, OneWrite
<1>12. Heads(rest, "read", readCmd', AccessSelected)
  BY <1>3, <1>7, OneWrite
<1>13. Heads(rest, "write", writeCmd', AccessSelected)
  BY <1>3, <1>7, OneWrite
<1>14. mbc = "Mbc3" /\ ~sel.odd => Heads(rest, "rtcReg", rtcReg', sel.rtc)
  BY <1>3, <1>7, OneWrite
<1>8. PointersFollow'
  BY <1>1, <1>2, <1>6, <1>10, <1>11, <1>12, <1>13, <1>14 DEF PointersFollow
<1>9. mbc' = "Mbc3" => WindowLast(todo)'
  BY <1>1, <1>2 DEF WindowLast
<1>. QED
  BY <1>4, <1>5, <1>8, <1>9 DEF IInv

-----------------------------------------------------------------------------
LEMMA InitInv == Init => IInv
<1>. SUFFICES ASSUME Init PROVE IInv
  OBVIOUS
<1>1. mbc \in {"Mbc1", "Mbc3", "Mbc5"}
  BY InputAssumption DEF Init, AllMappers
<1>2. /\ sel = NoSel /\ loc = InitLoc
      /\ fifo = <<>> /\ addr = NoAddr /\ todo = <<>> /\ latches = 0
      /\ rom = 1 /\ ram = 0 /\ readCmd = "none" /\ writeCmd = "none" /\ rtcReg = NoReg
  BY DEF Init
<1>3. fifo \in Seq(Byte) /\ Len(fifo) = 0 /\ todo \in Seq(Writable) /\ Len(todo) = 0
      /\ Range(todo) = {}
  BY <1>2, EmptySeq DEF Range
<1>4. WordsInTurn
  BY <1>2, <1>3 DEF WordsInTurn, FIFO_WORDS
<1>5. HistoryTypes
  BY <1>2 DEF HistoryTypes, NoSel, Byte, Init
<1>6. LocalsFollow
  <2>1. /\ loc.bank = 1 /\ loc.new = 1 /\ loc.low = 1 /\ loc.high = 0 /\ loc.mode = 0
        /\ loc.ram = 1 /\ loc.enabled = FALSE /\ loc.latch = FALSE /\ loc \in Locals
    BY <1>2 DEF InitLoc, Locals, Byte
  <2>2. /\ sel.en = 0 /\ sel.low = 1 /\ sel.high = 0 /\ sel.mode = 0 /\ sel.page = 0
        /\ sel.other = FALSE /\ sel.latch = 0 /\ sel.edges = 0
    BY <1>2 DEF NoSel
  <2>3. 1 = RomSelected
    BY <1>1, <2>2 DEF RomSelected, NotZero
  <2>4. NotZero(sel.low % 32) = 1 /\ sel.high % 4 = 0 /\ sel.mode % 2 = 0
    BY <2>2 DEF NotZero
  <2>5. IsEnable(sel.en) = FALSE /\ IsRtc(loc.ram) = FALSE /\ IsRtc(sel.page) = FALSE
    BY <2>1, <2>2 DEF IsEnable, IsRtc
  <2>. QED
    BY <1>2, <2>1, <2>2, <2>3, <2>4, <2>5 DEF LocalsFollow
<1>7. PointerTypes /\ (mbc = "Mbc3" => WindowLast(todo))
  BY <1>2, <1>3 DEF PointerTypes, WindowLast, Kinds
<1>8. /\ rom = loc.bank /\ ram = RamSelected
      /\ readCmd = AccessSelected /\ writeCmd = AccessSelected /\ rtcReg = sel.rtc
  BY <1>1, <1>2 DEF RamSelected, AccessSelected, NoSel, InitLoc, IsEnable
<1>9. PointersFollow
  BY <1>3, <1>8, Headed DEF PointersFollow
<1>. QED
  BY <1>4, <1>5, <1>6, <1>7, <1>9 DEF IInv

\* The inductive invariant through every step.
LEMMA StepKept == IInv /\ [Next]_vars => IInv'
<1>. SUFFICES ASSUME IInv, [Next]_vars PROVE IInv'
  OBVIOUS
<1>1. ASSUME WordsInTurn', UNCHANGED <<mbc, loc, todo, rom, ram, readCmd, writeCmd, rtcReg, latches, sel>>
      PROVE  IInv'
  <2>1. HistoryTypes'
    BY <1>1 DEF IInv, HistoryTypes
  <2>2. LocalsFollow'
    BY <1>1 DEF IInv, LocalsFollow, RomSelected
  <2>3. PointerTypes'
    BY <1>1 DEF IInv, PointerTypes
  <2>4. RamSelected' = RamSelected /\ AccessSelected' = AccessSelected
    BY <1>1 DEF RamSelected, AccessSelected
  <2>5. PointersFollow'
    BY <1>1, <2>4 DEF IInv, PointersFollow
  <2>6. (mbc = "Mbc3" => WindowLast(todo))'
    BY <1>1 DEF IInv
  <2>. QED
    BY <1>1, <2>1, <2>2, <2>3, <2>5, <2>6 DEF IInv
<1>2. ASSUME NEW w \in Writes, GbWrite(w) PROVE IInv'
  <2>1. WordsInTurn'
    BY <1>2, WordsPushed DEF IInv
  <2>. QED
    BY <1>1, <1>2, <2>1 DEF GbWrite
<1>3. CASE PullAddr
  <2>1. WordsInTurn'
    BY <1>3, WordPulled DEF IInv, PullAddr
  <2>. QED
    BY <1>1, <1>3, <2>1 DEF PullAddr
<1>4. CASE PullData
  <2>1. mbc \in {"Mbc1", "Mbc3", "Mbc5"}
    BY InputAssumption DEF IInv, HistoryTypes, AllMappers
  <2>. QED
    BY <1>4, <2>1, Mbc1Kept, Mbc3Kept, Mbc5Kept
<1>5. CASE WritePointer
  BY <1>5, WriteKept
<1>6. CASE UNCHANGED vars
  BY <1>1, <1>6 DEF vars, IInv, WordsInTurn
<1>. QED
  BY <1>2, <1>3, <1>4, <1>5, <1>6 DEF Next

\* The inductive invariant.
THEOREM Invariance == Spec => []IInv
BY InitInv, StepKept, PTL DEF Spec

\* Types: addresses and data stay in turn, and no pointer leaves ROM, RAM or the
\* clock registers, for every sequence of writes.
THEOREM TypeCorrect == Spec => []TypeOK
<1>1. IInv => TypeOK
  <2>. SUFFICES ASSUME IInv PROVE TypeOK
    OBVIOUS
  <2>1. \A i \in 1..Len(todo) : todo[i].ptr \in Pointers
    BY DEF IInv, PointerTypes, Writable, Pointers
  <2>. QED
    BY <2>1 DEF IInv, WordsInTurn, Byte, HistoryTypes, PointerTypes, TypeOK
<1>. QED
  BY <1>1, Invariance, PTL

LEMMA SettledSelections ==
  ASSUME IInv
  PROVE  /\ RomBankFollowsWrites /\ AccessFollowsWrites /\ RamBankFollowsWrites
         /\ LatchesOncePerEdge
<1>1. mbc \in {"Mbc1", "Mbc3", "Mbc5"}
  BY InputAssumption DEF IInv, HistoryTypes, AllMappers
<1>2. LatchesOncePerEdge
  BY DEF IInv, LocalsFollow, LatchesOncePerEdge
<1>3. loc.bank = RomSelected
  BY DEF IInv, LocalsFollow
<1>4. todo = <<>> =>
        RomBankFollowsWrites /\ AccessFollowsWrites /\ RamBankFollowsWrites
  BY <1>1, <1>3, NothingLeft
     DEF RomBankFollowsWrites, AccessFollowsWrites, RamBankFollowsWrites, RamSelected
<1>5. todo # <<>> =>
        RomBankFollowsWrites /\ AccessFollowsWrites /\ RamBankFollowsWrites
  BY DEF RomBankFollowsWrites, AccessFollowsWrites, RamBankFollowsWrites, Settled
<1>. QED
  BY <1>2, <1>4, <1>5

\* Between two commands the ROM bank is the one the last writes select, although run
\* only switches when it differs from the bank cached.
THEOREM RomBankFollows == Spec => []RomBankFollowsWrites
<1>1. IInv => RomBankFollowsWrites
  BY SettledSelections
<1>. QED
  BY <1>1, Invariance, PTL

\* Between two commands reads and writes go where enable and bank register point.
THEOREM AccessFollows == Spec => []AccessFollowsWrites
<1>1. IInv => AccessFollowsWrites
  BY SettledSelections
<1>. QED
  BY <1>1, Invariance, PTL

\* Between two commands the RAM bank is the one selected last.
THEOREM RamBankFollows == Spec => []RamBankFollowsWrites
<1>1. IInv => RamBankFollowsWrites
  BY SettledSelections
<1>. QED
  BY <1>1, Invariance, PTL

\* The clock has been latched once for every edge from zero.
THEOREM LatchesFollow == Spec => []LatchesOncePerEdge
<1>1. IInv => LatchesOncePerEdge
  BY SettledSelections
<1>. QED
  BY <1>1, Invariance, PTL

\* Whenever the window opens or moves, what is behind it is already selected.
THEOREM WindowIsSafe == Spec => WindowOpensOnSelection
<1>. DEFINE A == /\ readCmd' # readCmd \/ writeCmd' # writeCmd
                 /\ mbc = "Mbc3" /\ ~sel.odd
                 => /\ "rtc" \in {readCmd', writeCmd'} /\ IsRtc(sel.page) => rtcReg' = sel.rtc
                    /\ "ram" \in {readCmd', writeCmd'} /\ ~IsRtc(sel.page) => ram' = sel.ram % 8
<1>1. IInv /\ [Next]_vars => [A]_vars
  <2>. SUFFICES ASSUME IInv, Next, readCmd' # readCmd \/ writeCmd' # writeCmd,
                       mbc = "Mbc3", ~sel.odd
                PROVE  rtcReg' = sel.rtc /\ ram' = sel.ram % 8
    OBVIOUS
  <2>1. WritePointer
    BY DEF Next, GbWrite, PullAddr, PullData
  <2>2. Head(todo).ptr \in {"read", "write"}
    BY <2>1 DEF WritePointer
  <2>3. \A e \in Range(todo') : e.ptr \notin {"ram", "rtcReg"}
    BY <2>1, <2>2, FirstWrite DEF IInv, PointerTypes, WritePointer
  <2>4. IInv' /\ UNCHANGED <<mbc, sel>>
    BY <2>1, WriteKept DEF WritePointer
  <2>. QED
    BY <2>3, <2>4 DEF IInv, PointersFollow, Heads, RamSelected
<1>. QED
  BY <1>1, Invariance, PTL DEF Spec, WindowOpensOnSelection
=============================================================================
