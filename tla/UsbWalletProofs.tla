-------------------------- MODULE UsbWalletProofs --------------------------
(***************************************************************************)
(* Proofs about UsbWallet for every number of requests and bytes of noise, *)
(* every payload size, rate and length of a second.                        *)
(*                                                                         *)
(* IInv has one part per property: what the signing states say about the   *)
(* buffers and the screen, how many commands either of two windows let     *)
(* through, the order of the frames between host and handler, and, as long *)
(* as the line is quiet, where the one request under way is.               *)
(***************************************************************************)
EXTENDS UsbWallet, SequenceTheorems, NaturalsInduction, WellFoundedInduction, TLAPS

Byte == [req : 0..sent, cmd : Cmds \cup {"none"}, len : Nat, at : Nat]
Message == [kind : Kinds, tx : Ids, req : Ids]

LineTypes ==
  /\ sent \in Ids /\ host \in {"idle", "waiting"} /\ noise \in Nat
  /\ wire \in Seq(Byte) /\ toHost \in Seq(Message)
  /\ buf \in Seq(Byte) /\ Len(buf) <= CAPACITY /\ consumed \in Nat /\ consumed <= Len(buf)
  /\ task \in {"read", "handle", "drain"} /\ handled \in 0..sent
  /\ frame \in [req : 0..sent, cmd : Cmds \cup {"none"}]

SignTypes ==
  /\ state \in {"Idle", "AwaitingConfirmation", "Signed", "Rejected"}
  /\ unsigned \in Ids /\ signed \in Ids /\ preview \in Ids /\ shown \in Ids
  /\ approved \subseteq Ids /\ unlocked \in BOOLEAN

\* What is signed was approved; what is on the screen is what a confirmation signs.
OneTransaction ==
  /\ state = "Signed" => signed \in approved
  /\ state = "AwaitingConfirmation" => unsigned = preview
  /\ shown # 0 => state = "AwaitingConfirmation" /\ shown = preview

\* Of the commands of the last second, those of earlier windows are older than
\* this one, and cmd_count counts the others.
TwoWindows ==
  /\ age \in 0..SECOND /\ count \in 0..U8_MAX
  /\ recent \in Seq(0..(SECOND - 1))
  /\ \E n \in 0..Len(recent) :
       /\ n <= MAX_CMDS_PER_SEC
       /\ \A i \in 1..n : recent[i] >= age
       /\ Len(recent) - n <= count /\ Len(recent) - n <= MAX_CMDS_PER_SEC

\* While the window is open, no command of it has left the last second yet, and
\* cmd_count counts no command that was not let through before the limit.
WindowCounted ==
  age < SECOND =>
    \E n \in 0..Len(recent) :
      /\ \A i \in 1..Len(recent) : i > n => recent[i] <= age
      /\ Len(recent) - n >= count \/ Len(recent) - n >= MAX_CMDS_PER_SEC

\* The frames of s are those of later and later requests, all after low.
Rising(low, s) ==
  \A i \in 1..Len(s) : IsMagic(s[i]) =>
    /\ s[i].req > low
    /\ \A j \in 1..Len(s) : i < j /\ IsMagic(s[j]) => s[i].req < s[j].req

Before(s, t) ==
  \A i \in 1..Len(s), j \in 1..Len(t) :
    IsMagic(s[i]) /\ IsMagic(t[j]) => s[i].req < t[j].req

\* The last request whose frame was returned.
Returned == IF task = "handle" THEN frame.req ELSE handled

FramesInOrder ==
  /\ task = "handle" => frame.req > handled
  /\ Rising(Returned, Compacted) /\ Rising(Returned, wire) /\ Before(Compacted, wire)

\* The last request, partly in the buffer and partly on the line.
Own(c, i) == [req |-> sent, cmd |-> c, len |-> PayloadLen(c), at |-> i]
OnItsWay(c) ==
  /\ Len(Compacted) + Len(wire) = HDR + PayloadLen(c) + CRC_SZ
  /\ \A i \in 1..Len(Compacted) : Compacted[i] = Own(c, i)
  /\ \A i \in 1..Len(wire) : wire[i] = Own(c, Len(Compacted) + i)

Empty == wire = <<>> /\ Compacted = <<>>
Sending == /\ host = "waiting" /\ toHost = <<>> /\ task # "handle"
           /\ \E c \in Cmds : OnItsWay(c)
           /\ wire # <<>> /\ (task = "drain" => Compacted = <<>>)
Handling == host = "waiting" /\ toHost = <<>> /\ task = "handle" /\ Empty
Replying == host = "waiting" /\ Len(toHost) = 1 /\ task # "handle" /\ Empty
Resting == host = "idle" /\ toHost = <<>> /\ task # "handle" /\ Empty

\* Without noise the one request is sent, handled or answered.
OneRequest == noise = 0 => Sending \/ Handling \/ Replying \/ Resting

IInv ==
  /\ LineTypes /\ SignTypes /\ OneTransaction
  /\ TwoWindows /\ WindowCounted /\ FramesInOrder /\ OneRequest

-----------------------------------------------------------------------------
LEMMA Least ==
  ASSUME NEW S, S \subseteq Nat, S # {}
  PROVE  \E n \in S : \A m \in S : n <= m
<1>1. PICK n \in S : \A m \in S : ~(<<m, n>> \in OpToRel(<, Nat))
  BY NatLessThanWellFounded, WFMin
<1>2. \A m \in S : ~(m < n)
  BY <1>1 DEF OpToRel
<1>. QED
  BY <1>2

\* The bytes still to be parsed.
LEMMA Unparsed ==
  ASSUME LineTypes
  PROVE  /\ Compacted \in Seq(Byte) /\ Len(Compacted) = Len(buf) - consumed
         /\ \A i \in 1..Len(Compacted) : Compacted[i] = buf[consumed + i]
<1>1. consumed + 1 \in Int /\ Len(buf) \in Int /\ Len(buf) \in Nat /\ consumed \in Nat
  BY LenProperties DEF LineTypes
<1>2. \A i \in (consumed + 1)..Len(buf) : buf[i] \in Byte
  BY <1>1, ElementOfSeq DEF LineTypes
<1>3. /\ Compacted \in Seq(Byte)
      /\ Len(Compacted) = IF consumed + 1 <= Len(buf) THEN Len(buf) - (consumed + 1) + 1 ELSE 0
      /\ \A i \in 1..(Len(buf) - (consumed + 1) + 1) : Compacted[i] = buf[(consumed + 1) + i - 1]
  BY <1>1, <1>2, SubSeqProperties DEF Compacted
<1>4. Len(Compacted) = Len(buf) - consumed
  BY <1>1, <1>3 DEF LineTypes
<1>5. ASSUME NEW i \in 1..Len(Compacted) PROVE Compacted[i] = buf[consumed + i]
  <2>1. i \in 1..(Len(buf) - (consumed + 1) + 1) /\ (consumed + 1) + i - 1 = consumed + i
    BY <1>1, <1>4
  <2>. QED
    BY <1>3, <2>1
<1>. QED
  BY <1>3, <1>4, <1>5

\* A prefix and the rest of what is on the line.
LEMMA Chunk ==
  ASSUME LineTypes, NEW k \in 0..Len(wire)
  PROVE  /\ SubSeq(wire, 1, k) \in Seq(Byte) /\ Len(SubSeq(wire, 1, k)) = k
         /\ \A i \in 1..k : SubSeq(wire, 1, k)[i] = wire[i]
         /\ SubSeq(wire, k + 1, Len(wire)) \in Seq(Byte)
         /\ Len(SubSeq(wire, k + 1, Len(wire))) = Len(wire) - k
         /\ \A i \in 1..(Len(wire) - k) : SubSeq(wire, k + 1, Len(wire))[i] = wire[k + i]
<1>1. /\ Len(wire) \in Nat /\ k \in Nat /\ k <= Len(wire) /\ Len(wire) \in Int
      /\ k \in Int /\ k + 1 \in Int /\ 1 \in Int
  BY LenProperties DEF LineTypes
<1>2. (\A i \in 1..k : wire[i] \in Byte) /\ (\A i \in (k + 1)..Len(wire) : wire[i] \in Byte)
  BY <1>1, ElementOfSeq DEF LineTypes
<1>3. /\ SubSeq(wire, 1, k) \in Seq(Byte)
      /\ Len(SubSeq(wire, 1, k)) = IF 1 <= k THEN k - 1 + 1 ELSE 0
      /\ \A i \in 1..(k - 1 + 1) : SubSeq(wire, 1, k)[i] = wire[1 + i - 1]
  BY <1>1, <1>2, SubSeqProperties
<1>4. /\ SubSeq(wire, k + 1, Len(wire)) \in Seq(Byte)
      /\ Len(SubSeq(wire, k + 1, Len(wire)))
           = IF k + 1 <= Len(wire) THEN Len(wire) - (k + 1) + 1 ELSE 0
      /\ \A i \in 1..(Len(wire) - (k + 1) + 1) :
           SubSeq(wire, k + 1, Len(wire))[i] = wire[(k + 1) + i - 1]
  BY <1>1, <1>2, SubSeqProperties
<1>5. Len(SubSeq(wire, 1, k)) = k /\ Len(SubSeq(wire, k + 1, Len(wire))) = Len(wire) - k
  BY <1>1, <1>3, <1>4
<1>6. ASSUME NEW i \in 1..k PROVE SubSeq(wire, 1, k)[i] = wire[i]
  <2>1. i \in 1..(k - 1 + 1) /\ 1 + i - 1 = i
    BY <1>1
  <2>. QED
    BY <1>3, <2>1
<1>7. ASSUME NEW i \in 1..(Len(wire) - k)
      PROVE  SubSeq(wire, k + 1, Len(wire))[i] = wire[k + i]
  <2>1. i \in 1..(Len(wire) - (k + 1) + 1) /\ (k + 1) + i - 1 = k + i
    BY <1>1
  <2>. QED
    BY <1>4, <2>1
<1>. QED
  BY <1>3, <1>4, <1>5, <1>6, <1>7

\* The filled buffer: what was left of the old one, then the first bytes of a chunk;
\* all of them if there is room.
LEMMA Filling ==
  ASSUME LineTypes, NEW k \in 0..Len(wire)
  PROVE  LET s == Filled(SubSeq(wire, 1, k))
             n == Len(Compacted)
         IN  /\ s \in Seq(Byte) /\ Len(s) \in Nat /\ Len(s) <= CAPACITY
             /\ n \in Nat /\ n <= Len(s) /\ Len(s) <= n + k
             /\ n + k <= CAPACITY => Len(s) = n + k
             /\ \A i \in 1..n : s[i] = Compacted[i]
             /\ \A i \in (n + 1)..Len(s) : i - n \in 1..k /\ s[i] = wire[i - n]
<1>. DEFINE data == SubSeq(wire, 1, k)
            n == Len(Compacted)
            room == CAPACITY - n
            m == IF k < room THEN k ELSE room
<1>1. /\ Compacted \in Seq(Byte) /\ n \in Nat /\ n <= CAPACITY /\ CAPACITY \in Nat
      /\ k \in Nat
  <2>1. Len(buf) \in Nat /\ Len(Compacted) = Len(buf) - consumed /\ Compacted \in Seq(Byte)
    BY Unparsed, LenProperties DEF LineTypes
  <2>2. CAPACITY \in Nat
    BY PayloadAssumption DEF CAPACITY, HDR, CRC_SZ
  <2>. QED
    BY <2>1, <2>2 DEF LineTypes
<1>2. data \in Seq(Byte) /\ Len(data) = k /\ \A i \in 1..k : data[i] = wire[i]
  BY Chunk
<1>3. m \in Nat /\ m <= k /\ n + m <= CAPACITY /\ (n + k <= CAPACITY => m = k)
  BY <1>1
<1>4. Fitting(data) = SubSeq(data, 1, m)
  BY <1>2 DEF Fitting
<1>. HIDE DEF m, data, room
<1>5. \A i \in 1..m : i \in 1..Len(data) /\ data[i] \in Byte
  BY <1>1, <1>2, <1>3, ElementOfSeq
<1>6. /\ SubSeq(data, 1, m) \in Seq(Byte)
      /\ Len(SubSeq(data, 1, m)) = IF 1 <= m THEN m - 1 + 1 ELSE 0
      /\ \A i \in 1..(m - 1 + 1) : SubSeq(data, 1, m)[i] = data[1 + i - 1]
  BY <1>3, <1>5, SubSeqProperties
<1>7. /\ Fitting(data) \in Seq(Byte) /\ Len(Fitting(data)) = m
      /\ \A i \in 1..m : Fitting(data)[i] = wire[i]
  <2>1. Len(SubSeq(data, 1, m)) = m
    BY <1>3, <1>6
  <2>2. ASSUME NEW i \in 1..m PROVE SubSeq(data, 1, m)[i] = wire[i]
    <3>1. i \in 1..(m - 1 + 1) /\ 1 + i - 1 = i /\ i \in 1..k
      BY <1>1, <1>3
    <3>. QED
      BY <1>2, <1>6, <3>1
  <2>. QED
    BY <1>4, <1>6, <2>1, <2>2
<1>. DEFINE s == Filled(data)
<1>. HIDE DEF n
<1>8. /\ s \in Seq(Byte) /\ Len(s) = n + m
      /\ \A i \in 1..(n + m) : s[i] = IF i <= n THEN Compacted[i] ELSE Fitting(data)[i - n]
  BY <1>1, <1>7, ConcatProperties DEF Filled, n
<1>. HIDE DEF s
<1>9. ASSUME NEW i \in 1..n PROVE s[i] = Compacted[i]
  BY <1>1, <1>3, <1>8
<1>10. ASSUME NEW i \in (n + 1)..Len(s) PROVE i - n \in 1..k /\ s[i] = wire[i - n]
  <2>1. i \in 1..(n + m) /\ ~(i <= n) /\ i - n \in 1..m /\ i - n \in 1..k
    BY <1>1, <1>3, <1>8
  <2>. QED
    BY <1>7, <1>8, <2>1
<1>11. /\ Len(s) \in Nat /\ Len(s) <= CAPACITY /\ n <= Len(s) /\ Len(s) <= n + k
       /\ n + k <= CAPACITY => Len(s) = n + k
  BY <1>1, <1>3, <1>8
<1>. QED
  BY <1>1, <1>8, <1>9, <1>10, <1>11 DEF s, n, data

-----------------------------------------------------------------------------
\* A frame that is returned starts with a magic byte and is in the buffer.
LEMMA Parsed ==
  ASSUME LineTypes, NEW s \in Seq(Byte), Parse(s) = "frame"
  PROVE  /\ Len(s) >= HDR + CRC_SZ /\ IsMagic(s[1]) /\ Total(s) \in Nat
         /\ Total(s) <= Len(s) /\ Total(s) >= HDR + CRC_SZ
<1>1. Len(s) \in Nat
  BY LenProperties
<1>2. ~(Len(s) < HDR + CRC_SZ)
  BY DEF Parse
<1>3. Len(s) >= HDR + CRC_SZ
  BY <1>1, <1>2 DEF HDR, CRC_SZ
<1>4. IsMagic(s[1])
  BY <1>3 DEF Parse
<1>5. s[3] \in Byte /\ s[4] \in Byte
  BY <1>1, <1>3, ElementOfSeq DEF HDR, CRC_SZ
<1>6. LengthField(s) \in Nat
  BY <1>5 DEF LengthField, Byte
<1>7. Total(s) \in Nat /\ Total(s) >= HDR + CRC_SZ
  BY <1>6 DEF Total, HDR, CRC_SZ
<1>8. ~(Len(s) < Total(s))
  BY <1>3, <1>4 DEF Parse
<1>. QED
  BY <1>1, <1>3, <1>4, <1>7, <1>8

LEMMA Shifting ==
  ASSUME LineTypes, NEW s \in Seq(Byte)
  PROVE  \E d \in 0..Len(s) :
           /\ Shifted(s) \in Seq(Byte) /\ Len(Shifted(s)) = Len(s) - d
           /\ \A i \in 1..(Len(s) - d) : Shifted(s)[i] = s[i + d]
<1>. DEFINE found == {i \in 1..Len(s) : IsMagic(s[i])}
            f == CHOOSE i \in found : \A j \in found : i <= j
<1>1. Len(s) \in Nat
  BY LenProperties
<1>2. CASE found = {}
  <2>1. Shifted(s) = <<>>
    BY <1>2 DEF Shifted
  <2>2. Shifted(s) \in Seq(Byte) /\ Len(Shifted(s)) = 0
    BY <2>1, EmptySeq
  <2>. QED
    BY <1>1, <2>2
<1>3. CASE found # {}
  <2>1. f \in found
    <3>1. found \subseteq Nat
      BY <1>1
    <3>2. \E i \in found : \A j \in found : i <= j
      BY <1>3, <3>1, Least
    <3>. QED
      BY <3>2
  <2>2. Shifted(s) = SubSeq(s, f, Len(s))
    BY <1>3 DEF Shifted
  <2>3. f \in 1..Len(s)
    BY <2>1
  <2>. HIDE DEF f, found
  <2>4. \A i \in f..Len(s) : s[i] \in Byte
    BY <1>1, <2>3, ElementOfSeq
  <2>5. f \in Int /\ Len(s) \in Int
    BY <1>1, <2>3
  <2>6. /\ SubSeq(s, f, Len(s)) \in Seq(Byte)
        /\ Len(SubSeq(s, f, Len(s))) = IF f <= Len(s) THEN Len(s) - f + 1 ELSE 0
        /\ \A i \in 1..(Len(s) - f + 1) : SubSeq(s, f, Len(s))[i] = s[f + i - 1]
    BY <2>4, <2>5, SubSeqProperties
  <2>7. f - 1 \in 0..Len(s) /\ Len(SubSeq(s, f, Len(s))) = Len(s) - (f - 1)
    BY <1>1, <2>3, <2>6
  <2>8. ASSUME NEW i \in 1..(Len(s) - (f - 1))
        PROVE  SubSeq(s, f, Len(s))[i] = s[i + (f - 1)]
    <3>1. i \in 1..(Len(s) - f + 1) /\ f + i - 1 = i + (f - 1)
      BY <1>1, <2>3
    <3>. QED
      BY <2>6, <3>1
  <2>. QED
    BY <2>2, <2>6, <2>7, <2>8
<1>. QED
  BY <1>2, <1>3

\* A call of feed with the next k bytes: the bytes still to be parsed are the filled
\* buffer without its first d, among them the magic byte of the frame returned.
LEMMA Feeding ==
  ASSUME LineTypes, NEW k \in 0..Len(wire), Feed(SubSeq(wire, 1, k))
  PROVE  LET s == Filled(SubSeq(wire, 1, k))
         IN  /\ buf' \in Seq(Byte) /\ Len(buf') <= CAPACITY
             /\ consumed' \in Nat /\ consumed' <= Len(buf')
             /\ frame' \in [req : 0..sent, cmd : Cmds \cup {"none"}]
             /\ task' \in {"read", "handle"}
             /\ \E d \in 0..Len(s) :
                  /\ Len(Compacted') = Len(s) - d
                  /\ \A i \in 1..(Len(s) - d) : Compacted'[i] = s[i + d]
                  /\ task' = "handle" => d >= 1 /\ IsMagic(s[1]) /\ frame'.req = s[1].req
<1>. DEFINE s == Filled(SubSeq(wire, 1, k))
<1>1. s \in Seq(Byte) /\ Len(s) \in Nat /\ Len(s) <= CAPACITY
  BY Filling
<1>2. Compacted' = SubSeq(buf', consumed' + 1, Len(buf'))
  BY DEF Compacted
<1>3. CASE /\ FeedFrame(SubSeq(wire, 1, k))
           /\ frame' = [req |-> buf'[1].req, cmd |-> buf'[1].cmd] /\ task' = "handle"
  <2>1. buf' = s /\ consumed' = Total(s) /\ Parse(s) = "frame"
    BY <1>3 DEF FeedFrame
  <2>. HIDE DEF s
  <2>2. /\ Len(s) >= HDR + CRC_SZ /\ IsMagic(s[1]) /\ Total(s) \in Nat
        /\ Total(s) <= Len(s) /\ Total(s) >= HDR + CRC_SZ
    BY <1>1, <2>1, Parsed
  <2>. DEFINE d == Total(s)
  <2>3. d \in Nat /\ d <= Len(s) /\ d >= 1 /\ Len(s) >= 1 /\ d + 1 \in Int /\ Len(s) \in Int
    BY <1>1, <2>2 DEF HDR, CRC_SZ
  <2>4. s[1] \in Byte
    BY <1>1, <2>3, ElementOfSeq
  <2>5. frame' \in [req : 0..sent, cmd : Cmds \cup {"none"}] /\ frame'.req = s[1].req
    BY <1>3, <2>1, <2>4 DEF Byte
  <2>. HIDE DEF d
  <2>6. \A i \in (d + 1)..Len(s) : s[i] \in Byte
    BY <1>1, <2>3, ElementOfSeq
  <2>7. /\ Len(SubSeq(s, d + 1, Len(s))) = IF d + 1 <= Len(s) THEN Len(s) - (d + 1) + 1 ELSE 0
        /\ \A i \in 1..(Len(s) - (d + 1) + 1) : SubSeq(s, d + 1, Len(s))[i] = s[(d + 1) + i - 1]
    BY <2>3, <2>6, SubSeqProperties
  <2>8. Compacted' = SubSeq(s, d + 1, Len(s))
    BY <1>2, <2>1 DEF d
  <2>9. Len(Compacted') = Len(s) - d
    BY <1>1, <2>3, <2>7, <2>8
  <2>10. ASSUME NEW i \in 1..(Len(s) - d) PROVE Compacted'[i] = s[i + d]
    <3>1. i \in 1..(Len(s) - (d + 1) + 1) /\ (d + 1) + i - 1 = i + d
      BY <1>1, <2>3
    <3>. QED
      BY <2>7, <2>8, <3>1
  <2>11. consumed' = d /\ buf' = s
    BY <2>1 DEF d
  <2>. QED
    BY <1>1, <1>3, <2>2, <2>3, <2>5, <2>9, <2>10, <2>11 DEF s
<1>4. CASE FeedNothing(SubSeq(wire, 1, k)) /\ frame' = NoFrame /\ task' = "read"
  <2>1. /\ Parse(s) # "frame" /\ consumed' = 0
        /\ buf' = CASE Parse(s) = "short" -> s
                    [] Parse(s) = "noMagic" -> Shifted(s)
                    [] Parse(s) = "badCrc" -> <<>>
    BY <1>4 DEF FeedNothing
  <2>. HIDE DEF s
  <2>2. Parse(s) \in {"short", "noMagic", "badCrc"}
    BY <2>1 DEF Parse
  <2>3. \E d \in 0..Len(s) :
          /\ buf' \in Seq(Byte) /\ Len(buf') = Len(s) - d
          /\ \A i \in 1..(Len(s) - d) : buf'[i] = s[i + d]
    <3>1. CASE Parse(s) = "short"
      <4>1. buf' = s /\ 0 \in 0..Len(s)
        BY <1>1, <2>1, <3>1
      <4>. QED
        BY <1>1, <4>1
    <3>2. CASE Parse(s) = "noMagic"
      <4>1. buf' = Shifted(s)
        BY <2>1, <3>2
      <4>. QED
        BY <1>1, <4>1, Shifting
    <3>3. CASE Parse(s) = "badCrc"
      <4>1. buf' = <<>> /\ Len(s) \in 0..Len(s)
        BY <1>1, <2>1, <3>3
      <4>2. buf' \in Seq(Byte) /\ Len(buf') = Len(s) - Len(s)
        BY <1>1, <4>1, EmptySeq
      <4>. QED
        BY <1>1, <4>1, <4>2
    <3>. QED
      BY <2>2, <3>1, <3>2, <3>3
  <2>4. buf' \in Seq(Byte) /\ Len(buf') \in Nat /\ Len(buf') <= Len(s)
    BY <1>1, <2>3
  <2>5. Compacted' = buf'
    <3>1. consumed' + 1 = 1
      BY <2>1
    <3>2. SubSeq(buf', 1, Len(buf')) = buf'
      BY <2>4, SubSeqFull
    <3>. QED
      BY <1>2, <3>1, <3>2
  <2>6. frame' \in [req : 0..sent, cmd : Cmds \cup {"none"}]
    BY <1>4 DEF NoFrame, LineTypes, Ids
  <2>7. Len(buf') <= CAPACITY
    <3>1. CAPACITY \in Nat
      BY PayloadAssumption DEF CAPACITY, HDR, CRC_SZ
    <3>. QED
      BY <1>1, <2>4, <3>1
  <2>8. \E d \in 0..Len(s) :
          /\ Len(Compacted') = Len(s) - d
          /\ \A i \in 1..(Len(s) - d) : Compacted'[i] = s[i + d]
    BY <2>3, <2>5
  <2>9. task' = "read" /\ consumed' \in Nat /\ consumed' <= Len(buf')
    BY <1>4, <2>1, <2>4
  <2>. QED
    BY <2>4, <2>6, <2>7, <2>8, <2>9 DEF s
<1>. QED
  BY <1>3, <1>4 DEF Feed

\* ReadChunk and Drain alike.
Chunked(k) ==
  /\ k \in 0..Len(wire) /\ task # "handle"
  /\ Feed(SubSeq(wire, 1, k))
  /\ wire' = SubSeq(wire, k + 1, Len(wire))
  /\ UNCHANGED <<sent, host, toHost, noise, handled>>

LEMMA Chunking ==
  ASSUME LineTypes
  PROVE  /\ \A k \in 1..Len(wire) : ReadChunk(k) => Chunked(k)
         /\ Drain => Chunked(0)
<1>1. Len(wire) \in Nat
  BY LenProperties DEF LineTypes
<1>2. ASSUME NEW k \in 1..Len(wire), ReadChunk(k) PROVE Chunked(k)
  <2>1. k \in 0..Len(wire) /\ task # "handle"
    BY <1>1, <1>2 DEF ReadChunk
  <2>. QED
    BY <1>2, <2>1 DEF ReadChunk, Chunked
<1>3. ASSUME Drain PROVE Chunked(0)
  <2>1. SubSeq(wire, 1, 0) = <<>>
    BY SubSeqEmpty
  <2>2. SubSeq(wire, 0 + 1, Len(wire)) = wire
    BY SubSeqFull DEF LineTypes
  <2>3. 0 \in 0..Len(wire)
    BY <1>1
  <2>. QED
    BY <1>3, <2>1, <2>2, <2>3 DEF Drain, Chunked, lineVars
<1>. QED
  BY <1>2, <1>3

-----------------------------------------------------------------------------
\* Every handler answers the frame with one reply.
LEMMA Answering ==
  ASSUME LineTypes, SignTypes, Handle
  PROVE  /\ task = "handle" /\ task' = "drain" /\ handled' = frame.req /\ frame' = NoFrame
         /\ \E kind \in Kinds, tx \in Ids : toHost' = Append(toHost, Reply(kind, tx))
         /\ UNCHANGED <<sent, host, wire, noise, buf, consumed, shown, unlocked>>
<1>1. 0 \in Ids /\ frame.req \in Ids /\ signed \in Ids
  BY UsbAssumption DEF LineTypes, SignTypes, Ids
<1>. DEFINE Sent(kind, tx) == task = "handle" /\ Answer(Reply(kind, tx))
<1>2. \E kind \in Kinds, tx \in Ids : Sent(kind, tx)
  <2>1. CASE HandleBusy
    <3>1. Sent("BUSY", 0) /\ "BUSY" \in Kinds
      BY <2>1 DEF HandleBusy, Kinds
    <3>. QED
      BY <1>1, <3>1
  <2>2. CASE HandleLocked
    <3>1. Sent("LOCKED", 0) /\ "LOCKED" \in Kinds
      BY <2>2 DEF HandleLocked, Kinds
    <3>. QED
      BY <1>1, <3>1
  <2>3. CASE SendRefused
    <3>1. Sent("BUSY", 0) /\ "BUSY" \in Kinds
      BY <2>3 DEF SendRefused, Accepts, Kinds
    <3>. QED
      BY <1>1, <3>1
  <2>4. CASE SendStored
    <3>1. Sent("NEED_CONFIRM", frame.req) /\ "NEED_CONFIRM" \in Kinds
      BY <2>4 DEF SendStored, Accepts, Kinds
    <3>. QED
      BY <1>1, <3>1
  <2>5. CASE SendUnparsed
    <3>1. Sent("PSBT_PARSE", 0) /\ "PSBT_PARSE" \in Kinds
      BY <2>5 DEF SendUnparsed, Accepts, Kinds
    <3>. QED
      BY <1>1, <3>1
  <2>6. CASE FetchSigned
    <3>1. Sent("CONFIRMED", signed) /\ "CONFIRMED" \in Kinds
      BY <2>6 DEF FetchSigned, Accepts, Kinds
    <3>. QED
      BY <1>1, <3>1
  <2>7. CASE FetchRejected
    <3>1. Sent("REJECTED", 0) /\ "REJECTED" \in Kinds
      BY <2>7 DEF FetchRejected, Accepts, Kinds
    <3>. QED
      BY <1>1, <3>1
  <2>8. CASE FetchNothing
    <3>. DEFINE kind == IF state = "Idle" THEN "NO_PENDING" ELSE "BUSY"
    <3>1. Sent(kind, 0) /\ kind \in Kinds
      BY <2>8 DEF FetchNothing, Accepts, Kinds
    <3>. QED
      BY <1>1, <3>1
  <2>9. CASE HandleOther
    <3>. DEFINE kind == CASE frame.cmd = "GET_FIRMWARE_VER" -> "OK"
                          [] frame.cmd \in {"GET_XPUB", "WIPE_WALLET"} -> "LOCKED"
                          [] frame.cmd = "UNKNOWN" -> "INVALID_FRAME"
    <3>1. frame.cmd \in {"GET_FIRMWARE_VER", "GET_XPUB", "WIPE_WALLET", "UNKNOWN"}
      BY <2>9 DEF HandleOther, Accepts
    <3>2. kind \in Kinds
      BY <3>1 DEF Kinds
    <3>3. Sent(kind, 0)
      BY <2>9 DEF HandleOther, Accepts
    <3>. QED
      BY <1>1, <3>2, <3>3
  <2>. QED
    BY <2>1, <2>2, <2>3, <2>4, <2>5, <2>6, <2>7, <2>8, <2>9 DEF Handle
<1>. QED
  BY <1>2 DEF Answer, readerVars

\* The bytes of a request.
LEMMA Requested ==
  ASSUME NEW r \in Nat, NEW c \in Cmds
  PROVE  LET f == Frame(r, c, PayloadLen(c))
             n == HDR + PayloadLen(c) + CRC_SZ
         IN  /\ n \in Nat /\ n >= HDR + CRC_SZ /\ n <= CAPACITY /\ PayloadLen(c) \in Nat
             /\ f \in Seq([req : {r}, cmd : {c}, len : Nat, at : Nat]) /\ Len(f) = n
             /\ \A i \in 1..n : f[i] = [req |-> r, cmd |-> c, len |-> PayloadLen(c), at |-> i]
<1>1. PayloadLen(c) \in Nat /\ PayloadLen(c) <= MAX_PAYLOAD
  BY PayloadAssumption DEF PayloadLen
<1>. DEFINE n == HDR + PayloadLen(c) + CRC_SZ
            b(i) == [req |-> r, cmd |-> c, len |-> PayloadLen(c), at |-> i]
<1>2. n \in Nat /\ n >= HDR + CRC_SZ /\ n <= CAPACITY
  BY <1>1, PayloadAssumption DEF HDR, CRC_SZ, CAPACITY
<1>3. Frame(r, c, PayloadLen(c)) = [i \in 1..n |-> b(i)]
  BY DEF Frame
<1>. HIDE DEF n
<1>4. \A i \in 1..n : b(i) \in [req : {r}, cmd : {c}, len : Nat, at : Nat]
  BY <1>1, <1>2
<1>5. [i \in 1..n |-> b(i)] \in Seq([req : {r}, cmd : {c}, len : Nat, at : Nat])
  BY <1>2, <1>4
<1>6. Len([i \in 1..n |-> b(i)]) = n
  BY <1>2
<1>. QED
  BY <1>1, <1>2, <1>3, <1>5, <1>6 DEF n

\* Noise is a byte of its own or replaces one.
LEMMA Disturbed ==
  ASSUME LineTypes, NEW l \in BadLens, Noise(l)
  PROVE  /\ wire' \in Seq(Byte) /\ Len(wire') \in Nat
         /\ \/ /\ Len(wire') = Len(wire) + 1 /\ ~IsMagic(wire'[1])
               /\ \A i \in 2..Len(wire') : i - 1 \in 1..Len(wire) /\ wire'[i] = wire[i - 1]
            \/ /\ Len(wire') = Len(wire)
               /\ \A i \in 1..Len(wire') : ~IsMagic(wire'[i]) \/ wire'[i] = wire[i]
<1>1. Junk(l) \in Byte /\ ~IsMagic(Junk(l))
  BY UsbAssumption DEF Junk, Byte, IsMagic, LineTypes, Ids
<1>2. Len(wire) \in Nat
  BY LenProperties DEF LineTypes
<1>3. CASE wire' = <<Junk(l)>> \o wire
  <2>1. <<Junk(l)>> \in Seq(Byte) /\ Len(<<Junk(l)>>) = 1 /\ <<Junk(l)>>[1] = Junk(l)
    BY <1>1
  <2>. DEFINE j == <<Junk(l)>>
  <2>. HIDE DEF j
  <2>2. /\ j \o wire \in Seq(Byte) /\ Len(j \o wire) = 1 + Len(wire)
        /\ \A i \in 1..(1 + Len(wire)) :
             (j \o wire)[i] = IF i <= 1 THEN j[i] ELSE wire[i - 1]
    BY <2>1, ConcatProperties DEF LineTypes, j
  <2>3. wire' = j \o wire /\ j[1] = Junk(l)
    BY <1>3, <2>1 DEF j
  <2>. QED
    BY <1>1, <1>2, <2>2, <2>3
<1>4. ASSUME NEW k \in 1..Len(wire), wire' = [wire EXCEPT ![k] = Junk(l)]
      PROVE  /\ wire' \in Seq(Byte) /\ Len(wire') = Len(wire)
             /\ \A i \in 1..Len(wire) : ~IsMagic(wire'[i]) \/ wire'[i] = wire[i]
  BY <1>1, <1>4, ExceptSeq DEF LineTypes
<1>. QED
  BY <1>2, <1>3, <1>4 DEF Noise

\* What a new request puts behind what is on the line.
LEMMA Requesting ==
  ASSUME LineTypes, NEW c \in Cmds, HostSend(c)
  PROVE  LET n == HDR + PayloadLen(c) + CRC_SZ
         IN  /\ Byte \subseteq Byte' /\ sent' = sent + 1 /\ sent' \in Ids
             /\ n \in Nat /\ n >= HDR + CRC_SZ
             /\ wire' \in Seq(Byte') /\ Len(wire) \in Nat /\ Len(wire') = Len(wire) + n
             /\ \A i \in 1..Len(wire) : wire'[i] = wire[i]
             /\ \A i \in 1..n : wire'[Len(wire) + i]
                  = [req |-> sent + 1, cmd |-> c, len |-> PayloadLen(c), at |-> i]
<1>. DEFINE n == HDR + PayloadLen(c) + CRC_SZ
            f == Frame(sent + 1, c, PayloadLen(c))
<1>1. sent \in Nat /\ sent' = sent + 1 /\ sent' \in Ids
  BY UsbAssumption DEF HostSend, LineTypes, Ids
<1>2. Byte \subseteq Byte'
  BY <1>1 DEF Byte
<1>3. /\ n \in Nat /\ n >= HDR + CRC_SZ /\ PayloadLen(c) \in Nat
      /\ f \in Seq([req : {sent + 1}, cmd : {c}, len : Nat, at : Nat]) /\ Len(f) = n
      /\ \A i \in 1..n : f[i] = [req |-> sent + 1, cmd |-> c, len |-> PayloadLen(c), at |-> i]
  <2>1. sent + 1 \in Nat
    BY <1>1
  <2>. QED
    BY <2>1, Requested, Zenon
<1>4. wire' = wire \o f
  BY <1>1 DEF HostSend
<1>. HIDE DEF f, n
<1>5. [req : {sent + 1}, cmd : {c}, len : Nat, at : Nat] \subseteq Byte'
  BY <1>1 DEF Byte
<1>6. f \in Seq(Byte')
  BY <1>3, <1>5, SeqMonotonic
<1>7. wire \in Seq(Byte')
  BY <1>2, SeqMonotonic DEF LineTypes
<1>8. Len(wire) \in Nat
  BY LenProperties DEF LineTypes
<1>9. /\ wire \o f \in Seq(Byte') /\ Len(wire \o f) = Len(wire) + Len(f)
      /\ \A i \in 1..(Len(wire) + Len(f)) :
           (wire \o f)[i] = IF i <= Len(wire) THEN wire[i] ELSE f[i - Len(wire)]
  BY <1>6, <1>7, ConcatProperties
<1>10. ASSUME NEW i \in 1..Len(wire) PROVE wire'[i] = wire[i]
  BY <1>3, <1>4, <1>8, <1>9
<1>11. ASSUME NEW i \in 1..n PROVE wire'[Len(wire) + i] = f[i]
  <2>1. /\ Len(wire) + i \in 1..(Len(wire) + Len(f)) /\ ~(Len(wire) + i <= Len(wire))
        /\ (Len(wire) + i) - Len(wire) = i
    BY <1>3, <1>8
  <2>. QED
    BY <1>4, <1>9, <2>1
<1>13. Len(wire') = Len(wire) + n
  BY <1>3, <1>4, <1>9
<1>14. \A i \in 1..n : wire'[Len(wire) + i]
         = [req |-> sent + 1, cmd |-> c, len |-> PayloadLen(c), at |-> i]
  BY <1>3, <1>11
<1>. QED
  BY <1>1, <1>2, <1>3, <1>4, <1>8, <1>9, <1>10, <1>13, <1>14 DEF n

LEMMA LineTypesKept ==
  ASSUME LineTypes, SignTypes, [Next]_vars
  PROVE  LineTypes'
<1>1. ASSUME NEW c \in Cmds, HostSend(c) PROVE LineTypes'
  <2>1. Byte \subseteq Byte' /\ sent' = sent + 1 /\ sent' \in Ids /\ wire' \in Seq(Byte')
    BY <1>1, Requesting
  <2>2. buf \in Seq(Byte')
    BY <2>1, SeqMonotonic DEF LineTypes
  <2>3. UNCHANGED <<toHost, noise, buf, consumed, task, frame, handled>> /\ host' = "waiting"
    BY <1>1 DEF HostSend, taskVars, readerVars
  <2>4. handled' \in 0..sent' /\ frame' \in [req : 0..sent', cmd : Cmds \cup {"none"}]
    BY <2>1, <2>3 DEF LineTypes, Ids
  <2>. QED
    BY <2>1, <2>2, <2>3, <2>4 DEF LineTypes
<1>2. CASE HostRead
  <2>1. Tail(toHost) \in Seq(Message)
    BY <1>2, HeadTailProperties DEF HostRead, LineTypes
  <2>. QED
    BY <1>2, <2>1 DEF HostRead, LineTypes, Byte, taskVars, readerVars
<1>3. CASE HostTimeout
  BY <1>3 DEF HostTimeout, LineTypes, Byte, taskVars, readerVars
<1>4. ASSUME NEW l \in BadLens, Noise(l) PROVE LineTypes'
  <2>1. wire' \in Seq(Byte)
    BY <1>4, Disturbed
  <2>2. UNCHANGED <<sent, host, toHost, buf, consumed, task, frame, handled>> /\ noise' \in Nat
    BY <1>4 DEF Noise, taskVars, readerVars, LineTypes
  <2>. QED
    BY <2>1, <2>2 DEF LineTypes, Byte
<1>5. ASSUME NEW k, Chunked(k) PROVE LineTypes'
  <2>1. k \in 0..Len(wire)
    BY <1>5 DEF Chunked
  <2>2. wire' \in Seq(Byte) /\ UNCHANGED <<sent, host, toHost, noise, handled>>
    BY <1>5, <2>1, Chunk DEF Chunked
  <2>3. /\ buf' \in Seq(Byte) /\ Len(buf') <= CAPACITY
        /\ consumed' \in Nat /\ consumed' <= Len(buf')
        /\ frame' \in [req : 0..sent, cmd : Cmds \cup {"none"}]
        /\ task' \in {"read", "handle"}
    BY <1>5, <2>1, Feeding DEF Chunked
  <2>. QED
    BY <2>2, <2>3 DEF LineTypes, Byte
<1>6. CASE Handle
  <2>1. PICK kind \in Kinds, tx \in Ids : toHost' = Append(toHost, Reply(kind, tx))
    BY <1>6, Answering
  <2>2. Reply(kind, tx) \in Message
    BY UsbAssumption DEF Reply, Message, LineTypes, Ids
  <2>3. toHost' \in Seq(Message)
    BY <2>1, <2>2, AppendProperties DEF LineTypes
  <2>4. /\ task' = "drain" /\ handled' = frame.req /\ frame' = NoFrame
        /\ UNCHANGED <<sent, host, wire, noise, buf, consumed>>
    BY <1>6, Answering
  <2>5. /\ frame.req \in 0..sent /\ NoFrame \in [req : 0..sent, cmd : Cmds \cup {"none"}]
    BY DEF NoFrame, LineTypes, Ids
  <2>. QED
    BY <2>3, <2>4, <2>5 DEF LineTypes, Byte
<1>7. CASE UNCHANGED <<lineVars, taskVars>>
  BY <1>7 DEF LineTypes, Byte, lineVars, taskVars, readerVars
<1>. QED
  BY <1>1, <1>2, <1>3, <1>4, <1>5, <1>6, <1>7, Chunking
     DEF Next, vars, ShowPreview, Confirm, ConfirmFails, Approves, Reject, SetUnlocked, Tick

-----------------------------------------------------------------------------
\* The signing states, the buffers and the screen.
LEMMA SigningKept ==
  ASSUME LineTypes, SignTypes, OneTransaction, [Next]_vars
  PROVE  SignTypes' /\ OneTransaction'
<1>1. CASE UNCHANGED <<signVars, shown, approved>> /\ unlocked' \in BOOLEAN
  BY <1>1 DEF SignTypes, OneTransaction, signVars
<1>2. 0 \in Ids /\ frame.req \in Ids
  BY UsbAssumption DEF LineTypes, Ids
<1>3. CASE Handle
  <2>1. UNCHANGED <<shown, unlocked>>
    BY <1>3, Answering
  <2>2. CASE UNCHANGED <<signVars, approved>>
    BY <2>1, <2>2 DEF SignTypes, OneTransaction, signVars
  <2>3. CASE SendStored
    <3>1. /\ state = "Idle" /\ state' = "AwaitingConfirmation"
          /\ unsigned' = frame.req /\ preview' = frame.req /\ UNCHANGED <<signed, approved>>
      BY <2>3 DEF SendStored, CanSend
    <3>. QED
      BY <1>2, <2>1, <3>1 DEF SignTypes, OneTransaction
  <2>4. CASE SendUnparsed
    <3>1. state = "Idle" /\ unsigned' = 0 /\ UNCHANGED <<state, signed, preview, approved>>
      BY <2>4 DEF SendUnparsed, CanSend
    <3>. QED
      BY <1>2, <2>1, <3>1 DEF SignTypes, OneTransaction
  <2>5. CASE FetchSigned
    <3>1. /\ state = "Signed" /\ state' = "Idle" /\ unsigned' = 0 /\ signed' = 0
          /\ approved' = approved \ {signed} /\ UNCHANGED preview
      BY <2>5 DEF FetchSigned
    <3>. QED
      BY <1>2, <2>1, <3>1 DEF SignTypes, OneTransaction
  <2>6. CASE FetchRejected
    <3>1. /\ state = "Rejected" /\ state' = "Idle" /\ unsigned' = 0
          /\ UNCHANGED <<signed, preview, approved>>
      BY <2>6 DEF FetchRejected
    <3>. QED
      BY <1>2, <2>1, <3>1 DEF SignTypes, OneTransaction
  <2>. QED
    BY <1>3, <2>2, <2>3, <2>4, <2>5, <2>6
       DEF Handle, HandleBusy, HandleLocked, SendRefused, FetchNothing, HandleOther
<1>4. CASE ShowPreview
  <2>1. /\ state = "AwaitingConfirmation" /\ shown' = preview
        /\ UNCHANGED <<state, unsigned, signed, preview, approved, unlocked>>
    BY <1>4 DEF ShowPreview, signVars
  <2>. QED
    BY <2>1 DEF SignTypes, OneTransaction
<1>5. CASE Confirm
  <2>1. /\ shown # 0 /\ state = "AwaitingConfirmation" /\ shown' = 0
        /\ approved' = approved \cup {shown} /\ signed' = unsigned /\ state' = "Signed"
        /\ UNCHANGED <<unsigned, preview, unlocked>>
    BY <1>5 DEF Confirm, Approves
  <2>. QED
    BY <1>2, <2>1 DEF SignTypes, OneTransaction
<1>6. CASE ConfirmFails
  <2>1. /\ state' = "Idle" /\ shown' = 0 /\ signed' \in {signed, 0}
        /\ UNCHANGED <<unsigned, preview, approved, unlocked>>
    BY <1>6 DEF ConfirmFails, Approves
  <2>. QED
    BY <1>2, <2>1 DEF SignTypes, OneTransaction
<1>7. CASE Reject
  <2>1. /\ shown # 0 /\ shown' = 0
        /\ state' = IF state = "AwaitingConfirmation" THEN "Rejected" ELSE state
        /\ UNCHANGED <<unsigned, signed, preview, approved, unlocked>>
    BY <1>7 DEF Reject
  <2>. QED
    BY <1>2, <2>1 DEF SignTypes, OneTransaction
<1>8. CASE SetUnlocked
  <2>1. /\ unlocked' = ~unlocked /\ shown' = IF unlocked THEN 0 ELSE shown
        /\ UNCHANGED <<state, unsigned, signed, preview, approved>>
    BY <1>8 DEF SetUnlocked, signVars
  <2>. QED
    BY <1>2, <2>1 DEF SignTypes, OneTransaction
<1>9. unlocked \in BOOLEAN
  BY DEF SignTypes
<1>. QED
  BY <1>1, <1>3, <1>4, <1>5, <1>6, <1>7, <1>8, <1>9
     DEF Next, vars, HostSend, HostRead, HostTimeout, Noise, ReadChunk, Drain, Tick, userVars

-----------------------------------------------------------------------------
\* A command in a new window.
LEMMA NextWindow ==
  ASSUME TwoWindows, NewWindow, age' = 0, count' = 1, recent' = Append(recent, 0)
  PROVE  TwoWindows'
<1>1. SECOND \in Nat \ {0} /\ MAX_CMDS_PER_SEC \in Nat \ {0} /\ Len(recent) \in Nat
  BY UsbAssumption, LenProperties DEF TwoWindows
<1>2. age = SECOND
  BY <1>1 DEF TwoWindows, NewWindow
<1>3. \A i \in 1..Len(recent) : recent[i] \in 0..(SECOND - 1)
  BY ElementOfSeq DEF TwoWindows
<1>4. Len(recent) <= MAX_CMDS_PER_SEC
  <2>1. PICK n \in 0..Len(recent) :
          /\ n <= MAX_CMDS_PER_SEC
          /\ \A i \in 1..n : recent[i] >= age
          /\ Len(recent) - n <= count /\ Len(recent) - n <= MAX_CMDS_PER_SEC
    BY DEF TwoWindows
  <2>2. n = 0
    <3>. SUFFICES ASSUME n # 0 PROVE FALSE
      OBVIOUS
    <3>1. 1 \in 1..n /\ 1 \in 1..Len(recent)
      BY <1>1
    <3>2. recent[1] >= SECOND /\ recent[1] \in 0..(SECOND - 1)
      BY <1>2, <1>3, <2>1, <3>1
    <3>. QED
      BY <1>1, <3>2
  <2>. QED
    BY <1>1, <2>1, <2>2
<1>5. 0 \in 0..(SECOND - 1)
  BY <1>1
<1>6. /\ recent' \in Seq(0..(SECOND - 1)) /\ Len(recent') = Len(recent) + 1
      /\ \A i \in 1..Len(recent) : recent'[i] = recent[i]
  BY <1>5, AppendProperties DEF TwoWindows
<1>7. \E n \in 0..Len(recent') :
        /\ n <= MAX_CMDS_PER_SEC
        /\ \A i \in 1..n : recent'[i] >= age'
        /\ Len(recent') - n <= count' /\ Len(recent') - n <= MAX_CMDS_PER_SEC
  <2>1. Len(recent) \in 0..Len(recent') /\ Len(recent') - Len(recent) = 1
    BY <1>1, <1>6
  <2>2. \A i \in 1..Len(recent) : recent'[i] >= age'
    BY <1>1, <1>3, <1>6
  <2>. QED
    BY <1>1, <1>4, <2>1, <2>2
<1>8. age' \in 0..SECOND /\ count' \in 0..U8_MAX
  BY <1>1 DEF U8_MAX
<1>. QED
  BY <1>6, <1>7, <1>8 DEF TwoWindows

\* A command in the window of the last.
LEMMA SameWindow ==
  ASSUME TwoWindows, ~NewWindow, NEW pass, CheckRate(pass)
  PROVE  TwoWindows'
<1>1. /\ SECOND \in Nat \ {0} /\ MAX_CMDS_PER_SEC \in 1..254 /\ Len(recent) \in Nat
      /\ count \in 0..U8_MAX /\ age \in 0..SECOND
  BY UsbAssumption, LenProperties DEF TwoWindows
<1>2. /\ count' = (IF count < U8_MAX THEN count + 1 ELSE count) /\ age' = age
      /\ pass = (count' <= MAX_CMDS_PER_SEC)
      /\ recent' = IF pass THEN Append(recent, 0) ELSE recent
  BY DEF CheckRate, Counted, WithinRate
<1>3. PICK n \in 0..Len(recent) :
        /\ n <= MAX_CMDS_PER_SEC
        /\ \A i \in 1..n : recent[i] >= age
        /\ Len(recent) - n <= count /\ Len(recent) - n <= MAX_CMDS_PER_SEC
  BY DEF TwoWindows
<1>4. count' \in 0..U8_MAX /\ count <= count'
  BY <1>1, <1>2 DEF U8_MAX
<1>5. CASE ~pass
  <2>1. recent' = recent
    BY <1>2, <1>5
  <2>2. Len(recent) - n <= count'
    BY <1>1, <1>3, <1>4 DEF U8_MAX
  <2>. QED
    BY <1>1, <1>2, <1>3, <1>4, <2>1, <2>2 DEF TwoWindows
<1>6. CASE pass
  <2>1. recent' = Append(recent, 0) /\ count' <= MAX_CMDS_PER_SEC
    BY <1>2, <1>6
  <2>2. count' = count + 1
    BY <1>1, <1>2, <2>1 DEF U8_MAX
  <2>3. 0 \in 0..(SECOND - 1)
    BY <1>1
  <2>4. /\ recent' \in Seq(0..(SECOND - 1)) /\ Len(recent') = Len(recent) + 1
        /\ \A i \in 1..Len(recent) : recent'[i] = recent[i]
    BY <2>1, <2>3, AppendProperties DEF TwoWindows
  <2>5. n \in 0..Len(recent') /\ \A i \in 1..n : recent'[i] >= age'
    BY <1>1, <1>2, <1>3, <2>4
  <2>6. Len(recent') - n <= count' /\ Len(recent') - n <= MAX_CMDS_PER_SEC
    BY <1>1, <1>3, <2>1, <2>2, <2>4
  <2>. QED
    BY <1>1, <1>2, <1>3, <1>4, <2>4, <2>5, <2>6 DEF TwoWindows
<1>. QED
  BY <1>2, <1>5, <1>6

\* A tick of the clock.
LEMMA Aging ==
  ASSUME TwoWindows, Tick
  PROVE  TwoWindows'
<1>1. /\ SECOND \in Nat \ {0} /\ MAX_CMDS_PER_SEC \in 1..254 /\ Len(recent) \in Nat
      /\ count \in 0..U8_MAX /\ age \in 0..SECOND
      /\ \A i \in 1..Len(recent) : recent[i] \in 0..(SECOND - 1)
  BY UsbAssumption, LenProperties, ElementOfSeq DEF TwoWindows
<1>2. age' \in 0..SECOND /\ age' <= age + 1 /\ count' = count
  BY <1>1 DEF Tick
<1>3. PICK m \in 0..Len(recent) :
        /\ \A i \in 1..Len(recent) : i <= m <=> recent[i] + 1 >= SECOND
        /\ recent' = [i \in 1..(Len(recent) - m) |-> recent[i + m] + 1]
  BY DEF Tick
<1>. DEFINE l == Len(recent) - m
<1>4. l \in Nat /\ l <= Len(recent)
  BY <1>1
<1>. HIDE DEF l
<1>5. ASSUME NEW i \in 1..l
      PROVE  i + m \in 1..Len(recent) /\ recent[i + m] + 1 \in 0..(SECOND - 1)
  <2>1. i + m \in 1..Len(recent) /\ ~(i + m <= m)
    BY <1>1, <1>4 DEF l
  <2>. QED
    BY <1>1, <1>3, <2>1
<1>6. recent' = [i \in 1..l |-> recent[i + m] + 1]
  BY <1>3 DEF l
<1>7. recent' \in Seq(0..(SECOND - 1)) /\ Len(recent') = l
  BY <1>4, <1>5, <1>6
<1>8. \A i \in 1..l : recent'[i] = recent[i + m] + 1
  BY <1>6
<1>9. PICK n \in 0..Len(recent) :
        /\ n <= MAX_CMDS_PER_SEC
        /\ \A i \in 1..n : recent[i] >= age
        /\ Len(recent) - n <= count /\ Len(recent) - n <= MAX_CMDS_PER_SEC
  BY DEF TwoWindows
<1>10. CASE n <= m
  <2>1. 0 \in 0..Len(recent') /\ \A i \in 1..0 : recent'[i] >= age'
    BY <1>4, <1>7
  <2>2. Len(recent') - 0 <= count /\ Len(recent') - 0 <= MAX_CMDS_PER_SEC
    BY <1>1, <1>7, <1>9, <1>10 DEF l
  <2>. QED
    BY <1>1, <1>2, <1>7, <2>1, <2>2 DEF TwoWindows
<1>11. CASE ~(n <= m)
  <2>1. n - m \in 0..Len(recent') /\ n - m <= MAX_CMDS_PER_SEC
    BY <1>1, <1>7, <1>9, <1>11 DEF l
  <2>2. ASSUME NEW i \in 1..(n - m) PROVE recent'[i] >= age'
    <3>1. i \in 1..l /\ i + m \in 1..n
      BY <1>1, <1>9, <1>11 DEF l
    <3>2. recent'[i] = recent[i + m] + 1 /\ recent[i + m] >= age
      BY <1>8, <1>9, <3>1
    <3>3. recent[i + m] \in Nat
      BY <1>1, <1>5, <3>1
    <3>. QED
      BY <1>1, <1>2, <3>2, <3>3
  <2>3. Len(recent') - (n - m) <= count /\ Len(recent') - (n - m) <= MAX_CMDS_PER_SEC
    BY <1>1, <1>7, <1>9, <1>11 DEF l
  <2>. QED
    BY <1>1, <1>2, <1>7, <2>1, <2>2, <2>3 DEF TwoWindows
<1>. QED
  BY <1>10, <1>11

LEMMA TwoWindowsKept ==
  ASSUME TwoWindows, [Next]_vars
  PROVE  TwoWindows'
<1>1. CASE UNCHANGED rateVars
  BY <1>1 DEF TwoWindows, rateVars
<1>2. ASSUME NEW pass \in BOOLEAN, CheckRate(pass) PROVE TwoWindows'
  <2>1. CASE NewWindow
    <3>1. WithinRate
      BY <2>1 DEF WithinRate
    <3>2. age' = 0 /\ count' = 1 /\ recent' = Append(recent, 0)
      BY <1>2, <2>1, <3>1 DEF CheckRate, Counted
    <3>. QED
      BY <2>1, <3>2, NextWindow
  <2>. QED
    BY <1>2, <2>1, SameWindow
<1>3. CASE Handle
  <2>1. \E pass \in BOOLEAN : CheckRate(pass)
    BY <1>3 DEF Handle, HandleBusy, HandleLocked, SendRefused, SendStored, SendUnparsed,
                FetchSigned, FetchRejected, FetchNothing, HandleOther, Accepts
  <2>. QED
    BY <1>2, <2>1
<1>4. CASE Tick
  BY <1>4, Aging
<1>. QED
  BY <1>1, <1>3, <1>4
     DEF Next, vars, HostSend, HostRead, HostTimeout, Noise, ReadChunk, Drain,
         ShowPreview, Confirm, ConfirmFails, Approves, Reject, SetUnlocked

\* The other way round: the count of the open window is one of commands let through.
LEMMA WindowCountedKept ==
  ASSUME TwoWindows, WindowCounted, [Next]_vars
  PROVE  WindowCounted'
<1>1. /\ SECOND \in Nat \ {0} /\ MAX_CMDS_PER_SEC \in 1..254 /\ Len(recent) \in Nat
      /\ count \in 0..U8_MAX /\ age \in 0..SECOND
      /\ \A i \in 1..Len(recent) : recent[i] \in 0..(SECOND - 1)
  BY UsbAssumption, LenProperties, ElementOfSeq DEF TwoWindows
<1>2. CASE UNCHANGED rateVars
  BY <1>2 DEF WindowCounted, rateVars
<1>3. ASSUME NEW pass \in BOOLEAN, CheckRate(pass) PROVE WindowCounted'
  <2>1. 0 \in 0..(SECOND - 1)
    BY <1>1
  <2>2. /\ Len(Append(recent, 0)) = Len(recent) + 1
        /\ \A i \in 1..Len(recent) : Append(recent, 0)[i] = recent[i]
        /\ Append(recent, 0)[Len(recent) + 1] = 0
    BY <2>1, AppendProperties DEF TwoWindows
  <2>3. CASE NewWindow
    <3>1. age' = 0 /\ count' = 1 /\ recent' = Append(recent, 0)
      BY <1>3, <2>3 DEF CheckRate, Counted, WithinRate
    <3>2. Len(recent') - Len(recent) >= count' /\ Len(recent) \in 0..Len(recent')
      BY <1>1, <2>2, <3>1
    <3>3. ASSUME NEW i \in 1..Len(recent'), i > Len(recent) PROVE recent'[i] <= age'
      <4>1. i = Len(recent) + 1
        BY <1>1, <2>2, <3>1, <3>3
      <4>. QED
        BY <2>2, <3>1, <4>1
    <3>. QED
      BY <3>2, <3>3 DEF WindowCounted
  <2>4. CASE ~NewWindow
    <3>1. /\ age' = age /\ count' = (IF count < U8_MAX THEN count + 1 ELSE count)
          /\ pass = (count' <= MAX_CMDS_PER_SEC)
          /\ recent' = IF pass THEN Append(recent, 0) ELSE recent
      BY <1>3, <2>4 DEF CheckRate, Counted, WithinRate
    <3>2. PICK n \in 0..Len(recent) :
            /\ \A i \in 1..Len(recent) : i > n => recent[i] <= age
            /\ Len(recent) - n >= count \/ Len(recent) - n >= MAX_CMDS_PER_SEC
      BY <1>1, <2>4 DEF NewWindow, WindowCounted
    <3>3. CASE pass
      <4>1. recent' = Append(recent, 0) /\ Len(recent') = Len(recent) + 1
        BY <2>2, <3>1, <3>3
      <4>2. ASSUME NEW i \in 1..Len(recent'), i > n PROVE recent'[i] <= age'
        <5>1. CASE i \in 1..Len(recent)
          BY <2>2, <3>1, <3>2, <4>1, <4>2, <5>1
        <5>2. CASE i = Len(recent) + 1
          BY <1>1, <2>2, <3>1, <4>1, <5>2
        <5>. QED
          BY <1>1, <4>1, <5>1, <5>2
      <4>3. Len(recent') - n >= count' \/ Len(recent') - n >= MAX_CMDS_PER_SEC
        BY <1>1, <3>1, <3>2, <4>1
      <4>4. n \in 0..Len(recent')
        BY <1>1, <4>1
      <4>. QED
        BY <4>2, <4>3, <4>4 DEF WindowCounted
    <3>4. CASE ~pass
      <4>1. recent' = recent /\ ~(count' <= MAX_CMDS_PER_SEC)
        BY <3>1, <3>4
      <4>2. Len(recent) - n >= MAX_CMDS_PER_SEC
        BY <1>1, <3>1, <3>2, <4>1 DEF U8_MAX
      <4>. QED
        BY <3>1, <3>2, <4>1, <4>2 DEF WindowCounted
    <3>. QED
      BY <3>3, <3>4
  <2>. QED
    BY <2>3, <2>4
<1>4. CASE Handle
  <2>1. \E pass \in BOOLEAN : CheckRate(pass)
    BY <1>4 DEF Handle, HandleBusy, HandleLocked, SendRefused, SendStored, SendUnparsed,
                FetchSigned, FetchRejected, FetchNothing, HandleOther, Accepts
  <2>. QED
    BY <1>3, <2>1
<1>5. CASE Tick
  <2>. SUFFICES ASSUME age' < SECOND PROVE WindowCounted'
    BY DEF WindowCounted
  <2>1. age < SECOND /\ age' = age + 1 /\ count' = count
    BY <1>1, <1>5 DEF Tick
  <2>2. PICK m \in 0..Len(recent) :
          /\ \A i \in 1..Len(recent) : i <= m <=> recent[i] + 1 >= SECOND
          /\ recent' = [i \in 1..(Len(recent) - m) |-> recent[i + m] + 1]
    BY <1>5 DEF Tick
  <2>3. PICK n \in 0..Len(recent) :
          /\ \A i \in 1..Len(recent) : i > n => recent[i] <= age
          /\ Len(recent) - n >= count \/ Len(recent) - n >= MAX_CMDS_PER_SEC
    BY <2>1 DEF WindowCounted
  <2>. DEFINE l == Len(recent) - m
  <2>4. l \in Nat /\ l <= Len(recent)
    BY <1>1
  <2>5. Len(recent') = l /\ \A i \in 1..l : recent'[i] = recent[i + m] + 1
    <3>. HIDE DEF l
    <3>1. recent' = [i \in 1..l |-> recent[i + m] + 1]
      BY <2>2 DEF l
    <3>2. ASSUME NEW i \in 1..l PROVE recent[i + m] + 1 \in Nat
      <4>1. i + m \in 1..Len(recent)
        BY <1>1, <2>4 DEF l
      <4>. QED
        BY <1>1, <4>1
    <3>3. recent' \in Seq(Nat) /\ Len(recent') = l
      BY <2>4, <3>1, <3>2
    <3>. QED
      BY <3>1, <3>3
  <2>6. m <= n
    <3>. SUFFICES ASSUME m > n PROVE FALSE
      BY <1>1
    <3>1. m \in 1..Len(recent) /\ m <= m
      BY <1>1
    <3>2. recent[m] + 1 >= SECOND /\ recent[m] <= age
      BY <2>2, <2>3, <3>1
    <3>. QED
      BY <1>1, <2>1, <3>1, <3>2
  <2>7. n - m \in 0..Len(recent') /\ Len(recent') - (n - m) = Len(recent) - n
    BY <1>1, <2>5, <2>6
  <2>8. ASSUME NEW i \in 1..Len(recent'), i > n - m PROVE recent'[i] <= age'
    <3>1. i + m \in 1..Len(recent) /\ i + m > n
      BY <1>1, <2>5, <2>8
    <3>2. recent[i + m] <= age /\ recent'[i] = recent[i + m] + 1
      BY <2>3, <2>5, <2>8, <3>1
    <3>. QED
      BY <1>1, <2>1, <3>1, <3>2
  <2>. QED
    BY <2>1, <2>3, <2>7, <2>8 DEF WindowCounted
<1>. QED
  BY <1>2, <1>4, <1>5
     DEF Next, vars, HostSend, HostRead, HostTimeout, Noise, ReadChunk, Drain,
         ShowPreview, Confirm, ConfirmFails, Approves, Reject, SetUnlocked

-----------------------------------------------------------------------------
\* Filling keeps the order, within the buffer and towards the rest of the line.
LEMMA FillingInOrder ==
  ASSUME LineTypes, NEW k \in 0..Len(wire), NEW low,
         Rising(low, Compacted), Rising(low, wire), Before(Compacted, wire)
  PROVE  LET s == Filled(SubSeq(wire, 1, k))
             rest == SubSeq(wire, k + 1, Len(wire))
         IN  Rising(low, s) /\ Rising(low, rest) /\ Before(s, rest)
<1>. DEFINE s == Filled(SubSeq(wire, 1, k))
            rest == SubSeq(wire, k + 1, Len(wire))
            n == Len(Compacted)
<1>1. /\ Len(s) \in Nat /\ n \in Nat /\ n <= Len(s) /\ Len(s) <= n + k
      /\ \A i \in 1..n : s[i] = Compacted[i]
      /\ \A i \in (n + 1)..Len(s) : i - n \in 1..k /\ s[i] = wire[i - n]
  BY Filling
<1>2. Len(rest) = Len(wire) - k /\ \A i \in 1..(Len(wire) - k) : rest[i] = wire[k + i]
  BY Chunk
<1>3. Len(wire) \in Nat /\ k \in Nat /\ k <= Len(wire)
  BY LenProperties DEF LineTypes
<1>. HIDE DEF s, rest, n
<1>4. \A i \in 1..Len(rest) : k + i \in 1..Len(wire) /\ rest[i] = wire[k + i]
  BY <1>2, <1>3
<1>5. \A i \in (n + 1)..Len(s) : i - n \in 1..Len(wire) /\ s[i] = wire[i - n]
  BY <1>1, <1>3
<1>6. \A i \in 1..Len(s) : i \in 1..n \/ i \in (n + 1)..Len(s)
  BY <1>1
<1>7. /\ \A i \in 1..n : IsMagic(Compacted[i]) =>
           /\ Compacted[i].req > low
           /\ \A j \in 1..n : i < j /\ IsMagic(Compacted[j]) => Compacted[i].req < Compacted[j].req
      /\ \A i \in 1..n, j \in 1..Len(wire) :
           IsMagic(Compacted[i]) /\ IsMagic(wire[j]) => Compacted[i].req < wire[j].req
  BY DEF Rising, Before, n
<1>8. \A i \in 1..Len(wire) : IsMagic(wire[i]) =>
        /\ wire[i].req > low
        /\ \A j \in 1..Len(wire) : i < j /\ IsMagic(wire[j]) => wire[i].req < wire[j].req
  BY DEF Rising
<1>9. Rising(low, s)
  <2>1. ASSUME NEW i \in 1..Len(s), IsMagic(s[i]) PROVE s[i].req > low
    <3>1. CASE i \in 1..n
      BY <1>1, <1>7, <2>1, <3>1
    <3>2. CASE i \in (n + 1)..Len(s)
      BY <1>5, <1>8, <2>1, <3>2
    <3>. QED
      BY <1>6, <3>1, <3>2
  <2>2. ASSUME NEW i \in 1..Len(s), NEW j \in 1..Len(s), i < j, IsMagic(s[i]), IsMagic(s[j])
        PROVE  s[i].req < s[j].req
    <3>1. CASE i \in 1..n /\ j \in 1..n
      BY <1>1, <1>7, <2>2, <3>1
    <3>2. CASE i \in 1..n /\ j \in (n + 1)..Len(s)
      BY <1>1, <1>5, <1>7, <2>2, <3>2
    <3>3. CASE i \in (n + 1)..Len(s) /\ j \in (n + 1)..Len(s)
      <4>1. i - n < j - n
        BY <1>1, <2>2
      <4>. QED
        BY <1>5, <1>8, <2>2, <3>3, <4>1
    <3>4. ~(i \in (n + 1)..Len(s) /\ j \in 1..n)
      BY <1>1, <2>2
    <3>. QED
      BY <1>6, <3>1, <3>2, <3>3, <3>4
  <2>. QED
    BY <2>1, <2>2 DEF Rising
<1>10. Rising(low, rest)
  <2>1. \A i, j \in 1..Len(rest) : i < j => k + i < k + j
    BY <1>2, <1>3
  <2>. QED
    BY <1>4, <1>8, <2>1 DEF Rising
<1>11. Before(s, rest)
  <2>1. ASSUME NEW i \in 1..Len(s), NEW j \in 1..Len(rest), IsMagic(s[i]), IsMagic(rest[j])
        PROVE  s[i].req < rest[j].req
    <3>1. CASE i \in 1..n
      BY <1>1, <1>4, <1>7, <2>1, <3>1
    <3>2. CASE i \in (n + 1)..Len(s)
      <4>1. i - n < k + j
        <5>1. i - n \in 1..k
          BY <1>1, <3>2
        <5>2. Len(rest) \in Nat
          BY <1>2, <1>3
        <5>. QED
          BY <1>3, <5>1, <5>2
      <4>. QED
        BY <1>4, <1>5, <1>8, <2>1, <3>2, <4>1
    <3>. QED
      BY <1>6, <3>1, <3>2
  <2>. QED
    BY <2>1 DEF Before
<1>. QED
  BY <1>9, <1>10, <1>11 DEF s, rest

LEMMA ChunkInOrder ==
  ASSUME LineTypes, FramesInOrder, NEW k, Chunked(k)
  PROVE  FramesInOrder'
<1>. DEFINE s == Filled(SubSeq(wire, 1, k))
<1>1. /\ k \in 0..Len(wire) /\ task # "handle" /\ Returned = handled /\ handled' = handled
      /\ wire' = SubSeq(wire, k + 1, Len(wire))
  BY DEF Chunked, Returned
<1>2. Rising(handled, s) /\ Rising(handled, wire') /\ Before(s, wire')
  BY <1>1, FillingInOrder DEF FramesInOrder
<1>3. Len(s) \in Nat
  BY <1>1, Filling
<1>4. \E d \in 0..Len(s) :
        /\ Len(Compacted') = Len(s) - d
        /\ \A i \in 1..(Len(s) - d) : Compacted'[i] = s[i + d]
        /\ task' = "handle" => d >= 1 /\ IsMagic(s[1]) /\ frame'.req = s[1].req
  BY <1>1, Feeding DEF Chunked
<1>. HIDE DEF s
<1>5. PICK d \in 0..Len(s) :
        /\ Len(Compacted') = Len(s) - d
        /\ \A i \in 1..(Len(s) - d) : Compacted'[i] = s[i + d]
        /\ task' = "handle" => d >= 1 /\ IsMagic(s[1]) /\ frame'.req = s[1].req
  BY <1>4
<1>6. \A i \in 1..Len(Compacted') : i + d \in 1..Len(s) /\ Compacted'[i] = s[i + d]
  BY <1>3, <1>5
<1>7. Before(Compacted', wire')
  BY <1>2, <1>6 DEF Before
<1>8. \A i, j \in 1..Len(Compacted') : i < j => i + d < j + d
  BY <1>3, <1>5
<1>9. Rising(handled, Compacted')
  BY <1>2, <1>6, <1>8 DEF Rising
<1>10. CASE task' # "handle"
  <2>1. Returned' = handled
    BY <1>1, <1>10 DEF Returned
  <2>. QED
    BY <1>2, <1>7, <1>9, <1>10, <2>1 DEF FramesInOrder
<1>11. CASE task' = "handle"
  <2>1. /\ Returned' = s[1].req /\ frame'.req = s[1].req /\ IsMagic(s[1])
        /\ d >= 1 /\ 1 \in 1..Len(s)
    BY <1>3, <1>5, <1>11 DEF Returned
  <2>2. frame'.req > handled'
    BY <1>1, <1>2, <2>1 DEF Rising
  <2>3. \A i \in 1..Len(Compacted') : 1 < i + d
    BY <1>3, <1>5, <2>1
  <2>4. Rising(s[1].req, Compacted')
    <3>1. \A i \in 1..Len(Compacted') : IsMagic(Compacted'[i]) => s[1].req < Compacted'[i].req
      BY <1>2, <1>6, <2>1, <2>3 DEF Rising
    <3>2. \A i \in 1..Len(Compacted') : IsMagic(Compacted'[i]) => Compacted'[i].req > s[1].req
      BY <3>1
    <3>. QED
      BY <1>9, <3>2 DEF Rising
  <2>5. Rising(s[1].req, wire')
    <3>1. \A i \in 1..Len(wire') : IsMagic(wire'[i]) => s[1].req < wire'[i].req
      BY <1>2, <2>1 DEF Before
    <3>2. \A i \in 1..Len(wire') : IsMagic(wire'[i]) => wire'[i].req > s[1].req
      BY <3>1
    <3>. QED
      BY <1>2, <3>2 DEF Rising
  <2>. QED
    BY <1>7, <2>1, <2>2, <2>4, <2>5 DEF FramesInOrder
<1>. QED
  BY <1>10, <1>11

LEMMA RequestInOrder ==
  ASSUME LineTypes, FramesInOrder, NEW c \in Cmds, HostSend(c)
  PROVE  FramesInOrder'
<1>. DEFINE n == HDR + PayloadLen(c) + CRC_SZ
            l == Len(wire)
            own(i) == [req |-> sent + 1, cmd |-> c, len |-> PayloadLen(c), at |-> i]
<1>1. /\ sent' = sent + 1 /\ n \in Nat /\ l \in Nat /\ Len(wire') = l + n
      /\ \A i \in 1..l : wire'[i] = wire[i]
      /\ \A i \in 1..n : wire'[l + i] = own(i)
  BY Requesting
<1>2. sent \in Nat /\ Returned \in 0..sent
  BY UsbAssumption DEF LineTypes, Ids, Returned
<1>3. UNCHANGED <<buf, consumed, task, frame, handled>>
  BY DEF HostSend, taskVars, readerVars
<1>4. Compacted' = Compacted /\ Returned' = Returned
  BY <1>3 DEF Compacted, Returned
<1>5. \A i \in 1..l : wire[i].req \in 0..sent
  <2>1. \A i \in 1..l : wire[i] \in Byte
    BY ElementOfSeq DEF LineTypes
  <2>. QED
    BY <2>1 DEF Byte
<1>6. Compacted \in Seq(Byte)
  BY Unparsed
<1>7. \A i \in 1..Len(Compacted) : Compacted[i].req \in 0..sent
  <2>1. \A i \in 1..Len(Compacted) : Compacted[i] \in Byte
    BY <1>6, ElementOfSeq
  <2>. QED
    BY <2>1 DEF Byte
<1>8. \A i \in 1..n : own(i).at = i /\ own(i).req = sent + 1
  OBVIOUS
<1>. HIDE DEF n, l, own
<1>9. \A i \in 1..Len(wire') :
        \/ i \in 1..l /\ wire'[i] = wire[i]
        \/ i - l \in 1..n /\ wire'[i] = own(i - l)
  <2>. SUFFICES ASSUME NEW i \in 1..Len(wire'), ~(i \in 1..l)
                PROVE  i - l \in 1..n /\ wire'[i] = own(i - l)
    BY <1>1
  <2>1. i - l \in 1..n /\ l + (i - l) = i
    BY <1>1
  <2>. QED
    BY <1>1, <2>1
\* Only the first byte of the new request is a magic byte.
<1>10. \A i \in 1..Len(wire') : IsMagic(wire'[i]) =>
         \/ i \in 1..l /\ wire'[i] = wire[i]
         \/ i = l + 1 /\ wire'[i].req = sent + 1
  <2>. SUFFICES ASSUME NEW i \in 1..Len(wire'), IsMagic(wire'[i]), ~(i \in 1..l)
                PROVE  i = l + 1 /\ wire'[i].req = sent + 1
    BY <1>1, <1>9
  <2>1. i - l \in 1..n /\ wire'[i] = own(i - l)
    BY <1>9
  <2>2. i - l = 1
    BY <1>8, <2>1 DEF IsMagic
  <2>. QED
    BY <1>1, <1>8, <2>1, <2>2
<1>11. Rising(Returned, wire')
  <2>1. ASSUME NEW i \in 1..Len(wire'), IsMagic(wire'[i]) PROVE wire'[i].req > Returned
    <3>1. CASE i \in 1..l /\ wire'[i] = wire[i]
      BY <2>1, <3>1 DEF FramesInOrder, Rising, l
    <3>2. CASE wire'[i].req = sent + 1
      BY <1>2, <3>2
    <3>. QED
      BY <1>10, <2>1, <3>1, <3>2
  <2>2. ASSUME NEW i \in 1..Len(wire'), NEW j \in 1..Len(wire'), i < j,
               IsMagic(wire'[i]), IsMagic(wire'[j])
        PROVE  wire'[i].req < wire'[j].req
    <3>1. i \in 1..l /\ wire'[i] = wire[i]
      BY <1>1, <1>10, <2>2
    <3>2. CASE j \in 1..l /\ wire'[j] = wire[j]
      BY <2>2, <3>1, <3>2 DEF FramesInOrder, Rising, l
    <3>3. CASE wire'[j].req = sent + 1
      BY <1>2, <1>5, <3>1, <3>3
    <3>. QED
      BY <1>10, <2>2, <3>2, <3>3
  <2>. QED
    BY <2>1, <2>2 DEF Rising
<1>12. Before(Compacted, wire')
  <2>1. ASSUME NEW i \in 1..Len(Compacted), NEW j \in 1..Len(wire'),
               IsMagic(Compacted[i]), IsMagic(wire'[j])
        PROVE  Compacted[i].req < wire'[j].req
    <3>1. CASE j \in 1..l /\ wire'[j] = wire[j]
      BY <2>1, <3>1 DEF FramesInOrder, Before, l
    <3>2. CASE wire'[j].req = sent + 1
      BY <1>2, <1>7, <3>2
    <3>. QED
      BY <1>10, <2>1, <3>1, <3>2
  <2>. QED
    BY <2>1 DEF Before
<1>. QED
  BY <1>3, <1>4, <1>11, <1>12 DEF FramesInOrder

LEMMA NoiseInOrder ==
  ASSUME LineTypes, FramesInOrder, NEW l \in BadLens, Noise(l)
  PROVE  FramesInOrder'
<1>1. UNCHANGED <<buf, consumed, task, frame, handled>>
  BY DEF Noise, taskVars, readerVars
<1>2. Compacted' = Compacted /\ Returned' = Returned
  BY <1>1 DEF Compacted, Returned
<1>3. Len(wire) \in Nat /\ Len(wire') \in Nat
  BY Disturbed, LenProperties DEF LineTypes
<1>4. CASE /\ Len(wire') = Len(wire) + 1 /\ ~IsMagic(wire'[1])
           /\ \A i \in 2..Len(wire') : i - 1 \in 1..Len(wire) /\ wire'[i] = wire[i - 1]
  <2>1. \A i \in 1..Len(wire') : IsMagic(wire'[i]) =>
          i - 1 \in 1..Len(wire) /\ wire'[i] = wire[i - 1]
    <3>. SUFFICES ASSUME NEW i \in 1..Len(wire'), IsMagic(wire'[i])
                  PROVE  i \in 2..Len(wire')
      BY <1>4
    <3>1. i # 1
      BY <1>4
    <3>. QED
      BY <1>3, <3>1
  <2>2. \A i, j \in 1..Len(wire') : i < j => i - 1 < j - 1
    BY <1>3
  <2>3. Rising(Returned, wire')
    BY <2>1, <2>2 DEF FramesInOrder, Rising
  <2>4. Before(Compacted, wire')
    BY <2>1 DEF FramesInOrder, Before
  <2>. QED
    BY <1>1, <1>2, <2>3, <2>4 DEF FramesInOrder
<1>5. CASE /\ Len(wire') = Len(wire)
           /\ \A i \in 1..Len(wire') : ~IsMagic(wire'[i]) \/ wire'[i] = wire[i]
  <2>1. Rising(Returned, wire')
    BY <1>5 DEF FramesInOrder, Rising
  <2>2. Before(Compacted, wire')
    BY <1>5 DEF FramesInOrder, Before
  <2>. QED
    BY <1>1, <1>2, <2>1, <2>2 DEF FramesInOrder
<1>. QED
  BY <1>4, <1>5, Disturbed

LEMMA FramesInOrderKept ==
  ASSUME LineTypes, SignTypes, FramesInOrder, [Next]_vars
  PROVE  FramesInOrder'
<1>1. CASE UNCHANGED <<wire, taskVars>>
  <2>1. Compacted' = Compacted /\ Returned' = Returned
    BY <1>1 DEF Compacted, Returned, taskVars, readerVars
  <2>. QED
    BY <1>1, <2>1 DEF FramesInOrder, taskVars
<1>2. CASE Handle
  <2>1. /\ task = "handle" /\ task' = "drain" /\ handled' = frame.req
        /\ UNCHANGED <<wire, buf, consumed>>
    BY <1>2, Answering
  <2>2. Compacted' = Compacted /\ Returned' = Returned
    BY <2>1 DEF Compacted, Returned
  <2>. QED
    BY <2>1, <2>2 DEF FramesInOrder
<1>. QED
  BY <1>1, <1>2, RequestInOrder, NoiseInOrder, ChunkInOrder, Chunking
     DEF Next, vars, HostRead, HostTimeout, ShowPreview, Confirm, ConfirmFails, Approves, Reject,
         SetUnlocked, Tick, lineVars

-----------------------------------------------------------------------------
\* A request that arrives undamaged is a frame as soon as it is complete.
LEMMA OwnFrame ==
  ASSUME LineTypes, NEW c \in Cmds, NEW s \in Seq(Byte),
         Len(s) <= HDR + PayloadLen(c) + CRC_SZ,
         \A i \in 1..Len(s) : s[i] = Own(c, i)
  PROVE  /\ Len(s) < HDR + PayloadLen(c) + CRC_SZ => Parse(s) = "short"
         /\ Len(s) = HDR + PayloadLen(c) + CRC_SZ =>
              Parse(s) = "frame" /\ Total(s) = Len(s)
<1>. DEFINE n == HDR + PayloadLen(c) + CRC_SZ
<1>1. sent \in Nat /\ Len(s) \in Nat /\ n \in Nat /\ n >= HDR + CRC_SZ
  <2>1. sent \in Nat /\ Len(s) \in Nat
    BY UsbAssumption, LenProperties DEF LineTypes, Ids
  <2>2. n \in Nat /\ n >= HDR + CRC_SZ
    BY <2>1, Requested, Zenon
  <2>. QED
    BY <2>1, <2>2
<1>2. CASE Len(s) < HDR + CRC_SZ
  <2>1. Parse(s) = "short" /\ ~(Len(s) = n)
    BY <1>1, <1>2 DEF Parse, HDR, CRC_SZ
  <2>. QED
    BY <2>1
<1>3. CASE Len(s) >= HDR + CRC_SZ
  <2>1. 1 \in 1..Len(s) /\ 3 \in 1..Len(s) /\ 4 \in 1..Len(s)
    BY <1>1, <1>3 DEF HDR, CRC_SZ
  <2>2. s[1] = Own(c, 1) /\ s[3] = Own(c, 3) /\ s[4] = Own(c, 4)
    BY <2>1
  <2>3. IsMagic(s[1])
    BY <2>2 DEF Own, IsMagic
  <2>4. Total(s) = n
    <3>1. LengthField(s) = PayloadLen(c)
      BY <2>2 DEF LengthField, Own
    <3>. QED
      BY <3>1 DEF Total
  <2>5. ~(Len(s) < HDR + CRC_SZ)
    BY <1>1, <1>3 DEF HDR, CRC_SZ
  <2>. HIDE DEF n
  <2>6. CASE Len(s) < n
    <3>1. Parse(s) = "short" /\ Len(s) # n
      BY <1>1, <1>3, <2>3, <2>4, <2>5, <2>6 DEF Parse
    <3>. QED
      BY <3>1 DEF n
  <2>7. CASE Len(s) = n
    <3>. DEFINE f == Frame(s[1].req, s[1].cmd, s[1].len)
    <3>1. s[1].req = sent /\ s[1].cmd = c /\ s[1].len = PayloadLen(c)
      BY <2>2 DEF Own
    <3>2. /\ f \in Seq([req : {sent}, cmd : {c}, len : Nat, at : Nat]) /\ Len(f) = n
          /\ \A i \in 1..n : f[i] = [req |-> sent, cmd |-> c, len |-> PayloadLen(c), at |-> i]
      <4>1. f = Frame(sent, c, PayloadLen(c))
        BY <3>1
      <4>. HIDE DEF f
      <4>. QED
        BY <1>1, <4>1, Requested, Zenon DEF n
    <3>. HIDE DEF f
    <3>3. f \in Seq(Byte)
      <4>1. [req : {sent}, cmd : {c}, len : Nat, at : Nat] \subseteq Byte
        BY <1>1 DEF Byte
      <4>. QED
        BY <3>2, <4>1, SeqMonotonic
    <3>4. \A i \in 1..Len(s) : s[i] = f[i]
      BY <2>7, <3>2 DEF Own
    <3>5. s = f
      BY <2>7, <3>2, <3>3, <3>4, SeqEqual
    <3>6. SubSeq(s, 1, Total(s)) = s
      BY <2>4, <2>7, SubSeqFull
    <3>7. CrcOk(s)
      BY <3>5, <3>6 DEF CrcOk, f
    <3>8. ~(Len(s) < Total(s))
      BY <1>1, <2>4, <2>7
    <3>9. Parse(s) = "frame"
      BY <2>3, <2>5, <3>7, <3>8 DEF Parse
    <3>10. ~(Len(s) < n)
      BY <1>1, <2>7
    <3>. QED
      BY <2>4, <2>7, <3>9, <3>10 DEF n
  <2>8. Len(s) <= n
    BY DEF n
  <2>. QED
    BY <1>1, <2>6, <2>7, <2>8
<1>. QED
  BY <1>1, <1>2, <1>3 DEF HDR, CRC_SZ

\* No byte is left.
LEMMA NoBytes ==
  ASSUME LineTypes
  PROVE  /\ wire = <<>> <=> Len(wire) = 0
         /\ Compacted = <<>> <=> Len(Compacted) = 0
         /\ Len(wire) \in Nat /\ Len(Compacted) \in Nat
<1>1. Compacted \in Seq(Byte) /\ wire \in Seq(Byte)
  BY Unparsed DEF LineTypes
<1>. QED
  BY <1>1, EmptySeq, LenProperties

\* The next bytes of the request, the last ones among them or not.
LEMMA MoreOfRequest ==
  ASSUME LineTypes, LineTypes', Sending, NEW k, Chunked(k)
  PROVE  Sending' \/ Handling'
<1>1. PICK c \in Cmds : OnItsWay(c)
  BY DEF Sending
<1>. DEFINE s == Filled(SubSeq(wire, 1, k))
            m == HDR + PayloadLen(c) + CRC_SZ
            n == Len(Compacted)
<1>2. /\ k \in 0..Len(wire) /\ wire' = SubSeq(wire, k + 1, Len(wire))
      /\ UNCHANGED <<sent, host, toHost>> /\ host = "waiting" /\ toHost = <<>>
  BY DEF Chunked, Sending
<1>3. m \in Nat /\ m <= CAPACITY /\ m >= HDR + CRC_SZ
  <2>1. sent \in Nat
    BY DEF LineTypes, Ids
  <2>. QED
    BY <2>1, Requested
<1>4. n \in Nat /\ Len(wire) \in Nat /\ Len(wire) > 0 /\ n + Len(wire) = m
  BY <1>1, NoBytes DEF OnItsWay, Sending
<1>5. /\ s \in Seq(Byte) /\ Len(s) \in Nat /\ n <= Len(s)
      /\ n + k <= CAPACITY => Len(s) = n + k
      /\ \A i \in 1..n : s[i] = Compacted[i]
      /\ \A i \in (n + 1)..Len(s) : i - n \in 1..k /\ s[i] = wire[i - n]
  BY <1>2, Filling
<1>. HIDE DEF s, n
<1>6. Len(s) = n + k /\ n + k <= m
  <2>1. CAPACITY \in Nat
    BY PayloadAssumption DEF CAPACITY, HDR, CRC_SZ
  <2>. HIDE DEF m
  <2>. QED
    BY <1>2, <1>3, <1>4, <1>5, <2>1
<1>7. ASSUME NEW i \in 1..Len(s) PROVE s[i] = Own(c, i)
  <2>1. CASE i <= n
    <3>1. i \in 1..n
      BY <1>4, <2>1
    <3>. QED
      BY <1>1, <1>5, <3>1 DEF OnItsWay, n
  <2>2. CASE ~(i <= n)
    <3>1. i \in (n + 1)..Len(s)
      BY <1>4, <1>5, <2>2
    <3>2. i - n \in 1..Len(wire) /\ s[i] = wire[i - n] /\ n + (i - n) = i
      BY <1>2, <1>4, <1>5, <3>1
    <3>. QED
      BY <1>1, <3>2 DEF OnItsWay, n
  <2>. QED
    BY <2>1, <2>2
<1>8. /\ Len(s) < m => Parse(s) = "short"
      /\ Len(s) = m => Parse(s) = "frame" /\ Total(s) = Len(s)
  BY <1>5, <1>6, <1>7, OwnFrame
<1>9. /\ Len(wire') = Len(wire) - k
      /\ \A i \in 1..(Len(wire) - k) : wire'[i] = wire[k + i]
  BY <1>2, Chunk
<1>10. Compacted' = SubSeq(buf', consumed' + 1, Len(buf'))
  BY DEF Compacted
<1>11. CASE Len(s) < m
  <2>1. buf' = s /\ consumed' = 0 /\ task' = "read"
    BY <1>8, <1>11 DEF Chunked, Feed, FeedFrame, FeedNothing, s
  <2>2. Compacted' = s
    <3>1. consumed' + 1 = 1 /\ Compacted' = SubSeq(s, consumed' + 1, Len(s))
      BY <1>10, <2>1
    <3>2. SubSeq(s, 1, Len(s)) = s
      BY <1>5, SubSeqFull
    <3>. QED
      BY <3>1, <3>2
  <2>3. \A i \in 1..Len(wire') : wire'[i] = Own(c, Len(s) + i)
    <3>. SUFFICES ASSUME NEW i \in 1..Len(wire') PROVE wire'[i] = Own(c, Len(s) + i)
      OBVIOUS
    <3>. HIDE DEF m
    <3>1. i \in 1..(Len(wire) - k)
      BY <1>9
    <3>2. k + i \in 1..Len(wire) /\ n + (k + i) = Len(s) + i
      BY <1>2, <1>4, <1>6, <3>1
    <3>3. wire'[i] = wire[k + i]
      BY <1>9, <3>1
    <3>. QED
      BY <1>1, <3>2, <3>3 DEF OnItsWay, n
  <2>4. Len(s) + Len(wire') = m /\ Len(wire') # 0
    <3>. HIDE DEF m
    <3>1. Len(wire') = Len(wire) - k
      BY <1>9
    <3>2. k \in Nat /\ Len(s) < m
      BY <1>2, <1>4, <1>11
    <3>. QED
      BY <1>3, <1>4, <1>6, <3>1, <3>2
  <2>5. \A i : Own(c, i)' = Own(c, i)
    BY <1>2 DEF Own
  <2>6. OnItsWay(c)'
    BY <1>7, <2>2, <2>3, <2>4, <2>5 DEF OnItsWay
  <2>7. wire' # <<>>
    BY <2>4, EmptySeq
  <2>. QED
    BY <1>2, <2>1, <2>6, <2>7 DEF Sending
<1>12. CASE Len(s) = m
  <2>1. buf' = s /\ consumed' = Len(s) /\ task' = "handle"
    BY <1>8, <1>12 DEF Chunked, Feed, FeedFrame, FeedNothing, s
  <2>2. Compacted' = <<>>
    <3>1. Len(s) + 1 \in Int /\ Len(s) \in Int /\ Len(s) < Len(s) + 1
      BY <1>5
    <3>. QED
      BY <1>10, <2>1, <3>1, SubSeqEmpty
  <2>3. Len(wire') = 0
    BY <1>2, <1>4, <1>6, <1>9, <1>12
  <2>4. wire' = <<>>
    BY <2>3, EmptySeq DEF LineTypes
  <2>. QED
    BY <1>2, <2>1, <2>2, <2>4 DEF Handling, Empty
<1>. QED
  BY <1>3, <1>5, <1>6, <1>11, <1>12

\* feed finds nothing where nothing is.
LEMMA NothingFed ==
  ASSUME LineTypes, LineTypes', Empty, NEW k, Chunked(k)
  PROVE  Empty' /\ task' # "handle" /\ UNCHANGED <<host, toHost>>
<1>1. Len(wire) = 0 /\ Len(Compacted) = 0
  BY NoBytes DEF Empty
<1>2. k = 0 /\ UNCHANGED <<host, toHost>> /\ k \in 0..Len(wire)
  BY <1>1 DEF Chunked
<1>. DEFINE s == Filled(SubSeq(wire, 1, k))
<1>3. Len(s) = 0
  <2>1. Len(s) \in Nat /\ Len(s) <= Len(Compacted) + k
    BY <1>2, Filling
  <2>. HIDE DEF s
  <2>. QED
    BY <1>1, <1>2, <2>1
<1>4. \E d \in 0..Len(s) :
        Len(Compacted') = Len(s) - d /\ (task' = "handle" => d >= 1)
  BY <1>2, Feeding DEF Chunked
<1>. HIDE DEF s
<1>5. Len(Compacted') = 0 /\ task' # "handle"
  <2>1. PICK d \in 0..0 : Len(Compacted') = 0 - d /\ (task' = "handle" => d >= 1)
    BY <1>3, <1>4
  <2>2. d = 0
    OBVIOUS
  <2>. QED
    BY <2>1, <2>2
<1>6. Len(wire') = 0
  <2>1. wire' = SubSeq(wire, k + 1, Len(wire))
    BY DEF Chunked
  <2>2. Len(wire') = Len(wire) - k
    BY <1>2, <2>1, Chunk
  <2>. QED
    BY <1>1, <1>2, <2>2
<1>7. Compacted' \in Seq(Byte') /\ wire' \in Seq(Byte')
  <2>1. LineTypes' => (Compacted \in Seq(Byte))'
    BY Unparsed, PTL
  <2>. QED
    BY <2>1 DEF LineTypes
<1>8. Compacted' = <<>> /\ wire' = <<>>
  BY <1>5, <1>6, <1>7, EmptySeq
<1>. QED
  BY <1>2, <1>5, <1>8 DEF Empty

LEMMA OneRequestKept ==
  ASSUME LineTypes, LineTypes', SignTypes, OneRequest, [Next]_vars
  PROVE  OneRequest'
<1>. SUFFICES ASSUME noise' = 0
              PROVE  (Sending \/ Handling \/ Replying \/ Resting)'
  BY DEF OneRequest
<1>1. CASE UNCHANGED <<lineVars, taskVars>>
  <2>1. UNCHANGED <<sent, host, toHost, task, wire, buf, consumed, noise>>
    BY <1>1 DEF lineVars, taskVars, readerVars
  <2>2. Compacted' = Compacted /\ (\A c, i : Own(c, i)' = Own(c, i))
    BY <2>1 DEF Compacted, Own
  <2>3. \A c : OnItsWay(c)' = OnItsWay(c)
    BY <2>1, <2>2 DEF OnItsWay
  <2>4. UNCHANGED <<Sending, Handling, Replying, Resting>>
    BY <2>1, <2>2, <2>3 DEF Sending, Handling, Replying, Resting, Empty
  <2>. QED
    BY <2>1, <2>4 DEF OneRequest
<1>2. ASSUME NEW c \in Cmds, HostSend(c) PROVE Sending'
  <2>1. Resting
    BY <1>2 DEF HostSend, OneRequest, Sending, Handling, Replying
  <2>2. host' = "waiting" /\ UNCHANGED <<toHost, task, buf, consumed>>
    BY <1>2 DEF HostSend, taskVars, readerVars
  <2>3. Compacted' = <<>> /\ Len(Compacted') = 0 /\ Len(wire) = 0
    BY <2>1, <2>2, NoBytes DEF Compacted, Resting, Empty
  <2>. DEFINE n == HDR + PayloadLen(c) + CRC_SZ
  <2>4. /\ sent' = sent + 1 /\ n \in Nat /\ n >= HDR + CRC_SZ /\ Len(wire') = Len(wire) + n
        /\ \A i \in 1..n : wire'[Len(wire) + i]
             = [req |-> sent + 1, cmd |-> c, len |-> PayloadLen(c), at |-> i]
    BY <1>2, Requesting
  <2>5. \A i : Own(c, i)' = [req |-> sent + 1, cmd |-> c, len |-> PayloadLen(c), at |-> i]
    BY <2>4 DEF Own
  <2>. HIDE DEF n
  <2>6. \A i \in 1..n : 0 + i = i
    BY <2>4
  <2>7. Len(wire') = n /\ n # 0
    BY <2>3, <2>4 DEF HDR, CRC_SZ
  <2>8. \A i \in 1..n : wire'[i] = Own(c, i)'
    BY <2>3, <2>4, <2>5, <2>6
  <2>9. OnItsWay(c)'
    <3>1. Len(Compacted') + Len(wire') = n
      BY <2>3, <2>4, <2>7
    <3>2. (\A i \in 1..Len(Compacted) : Compacted[i] = Own(c, i))'
      BY <2>3
    <3>3. (\A i \in 1..Len(wire) : wire[i] = Own(c, Len(Compacted) + i))'
      <4>1. \A i \in 1..Len(wire') : Len(Compacted') + i = i
        BY <2>3, <2>6, <2>7
      <4>. QED
        BY <2>4, <2>7, <2>8, <4>1 DEF Own
    <3>. QED
      BY <3>1, <3>2, <3>3 DEF OnItsWay, n
  <2>10. wire' # <<>>
    BY <2>7, EmptySeq
  <2>. QED
    BY <2>1, <2>2, <2>3, <2>9, <2>10 DEF Sending, Resting
<1>3. CASE HostRead
  <2>1. Replying
    BY <1>3 DEF HostRead, OneRequest, Sending, Handling, Resting
  <2>2. toHost' = <<>>
    <3>1. Len(Tail(toHost)) = Len(toHost) - 1 /\ Tail(toHost) \in Seq(Message)
      BY <1>3, HeadTailProperties DEF HostRead, LineTypes
    <3>2. Len(Tail(toHost)) = 0
      BY <2>1, <3>1 DEF Replying
    <3>. QED
      BY <1>3, <3>1, <3>2, EmptySeq DEF HostRead
  <2>3. UNCHANGED <<wire, task, buf, consumed>> /\ host' = "idle"
    BY <1>3 DEF HostRead, taskVars, readerVars
  <2>4. Compacted' = Compacted
    BY <2>3 DEF Compacted
  <2>. QED
    BY <2>1, <2>2, <2>3, <2>4 DEF Replying, Resting, Empty
<1>4. CASE HostTimeout
  <2>1. host = "waiting" /\ wire = <<>> /\ task = "read" /\ toHost = <<>> /\ noise = 0
    BY <1>4 DEF HostTimeout
  <2>2. Len(toHost) = 0
    BY <2>1, EmptySeq
  <2>. QED
    BY <2>1, <2>2 DEF OneRequest, Sending, Handling, Replying, Resting
<1>5. ASSUME NEW l \in BadLens, Noise(l) PROVE FALSE
  BY <1>5 DEF Noise, LineTypes
<1>6. ASSUME NEW k, Chunked(k) PROVE (Sending \/ Handling \/ Replying \/ Resting)'
  <2>1. noise = 0 /\ task # "handle"
    BY <1>6 DEF Chunked
  <2>2. CASE Sending
    BY <1>6, <2>2, MoreOfRequest
  <2>3. CASE Replying
    BY <1>6, <2>3, NothingFed DEF Replying
  <2>4. CASE Resting
    BY <1>6, <2>4, NothingFed DEF Resting
  <2>. QED
    BY <2>1, <2>2, <2>3, <2>4 DEF OneRequest, Handling
<1>7. CASE Handle
  <2>1. PICK kind \in Kinds, tx \in Ids : toHost' = Append(toHost, Reply(kind, tx))
    BY <1>7, Answering
  <2>2. task = "handle" /\ task' = "drain" /\ UNCHANGED <<host, wire, noise, buf, consumed>>
    BY <1>7, Answering
  <2>3. Handling
    BY <2>2 DEF OneRequest, Sending, Replying, Resting
  <2>4. Len(toHost') = 1
    <3>1. Len(toHost) = 0
      BY <2>3, EmptySeq DEF Handling
    <3>2. Reply(kind, tx) \in Message
      BY UsbAssumption DEF Reply, Message, LineTypes, Ids
    <3>3. Len(toHost') = Len(toHost) + 1
      BY <2>1, <3>2, AppendProperties DEF LineTypes
    <3>. QED
      BY <3>1, <3>3
  <2>5. Compacted' = Compacted
    BY <2>2 DEF Compacted
  <2>. QED
    BY <2>2, <2>3, <2>4, <2>5 DEF Handling, Replying, Empty
<1>. QED
  BY <1>1, <1>2, <1>3, <1>4, <1>5, <1>6, <1>7, Chunking
     DEF Next, vars, ShowPreview, Confirm, ConfirmFails, Approves, Reject, SetUnlocked, Tick

-----------------------------------------------------------------------------
LEMMA InitInv == Init => IInv
<1>. SUFFICES ASSUME Init PROVE IInv
  OBVIOUS
<1>1. 0 \in Ids /\ CAPACITY \in Nat /\ SECOND \in Nat \ {0} /\ MAX_CMDS_PER_SEC \in 1..254
  BY UsbAssumption, PayloadAssumption DEF Ids, CAPACITY, HDR, CRC_SZ
<1>2. /\ \A S : <<>> \in Seq(S)
      /\ Len(<<>>) = 0
  BY EmptySeq
<1>3. LineTypes
  BY <1>1, <1>2 DEF Init, ReaderInit, NoFrame, LineTypes
<1>4. SignTypes /\ OneTransaction
  BY <1>1 DEF Init, SignTypes, OneTransaction
<1>5. TwoWindows
  <2>1. age = 0 /\ count = 0 /\ recent = <<>>
    BY DEF Init
  <2>2. recent \in Seq(0..(SECOND - 1)) /\ Len(recent) = 0
    BY <1>2, <2>1
  <2>3. age \in 0..SECOND /\ count \in 0..U8_MAX
    BY <1>1, <2>1 DEF U8_MAX
  <2>4. 0 \in 0..Len(recent) /\ Len(recent) - 0 <= count /\ Len(recent) - 0 <= MAX_CMDS_PER_SEC
    BY <1>1, <2>1, <2>2
  <2>. QED
    BY <1>1, <2>2, <2>3, <2>4 DEF TwoWindows
<1>6. Len(wire) = 0 /\ Len(Compacted) = 0 /\ wire = <<>> /\ Compacted = <<>>
  <2>1. wire = <<>> /\ buf = <<>> /\ consumed = 0
    BY DEF Init, ReaderInit
  <2>2. Len(Compacted) = 0 /\ Len(wire) = 0
    BY <1>2, <1>3, <2>1, Unparsed
  <2>. QED
    BY <1>3, <2>1, <2>2, NoBytes
<1>7. FramesInOrder
  BY <1>6 DEF Init, FramesInOrder, Rising, Before
<1>8. OneRequest
  BY <1>6 DEF Init, OneRequest, Resting, Empty
<1>9. WindowCounted
  <2>1. age = 0 /\ count = 0 /\ recent = <<>> /\ Len(recent) = 0
    BY <1>2 DEF Init
  <2>2. 0 \in 0..Len(recent) /\ Len(recent) - 0 >= count /\ \A i \in 1..Len(recent) : FALSE
    BY <2>1
  <2>. QED
    BY <2>2 DEF WindowCounted
<1>. QED
  BY <1>3, <1>4, <1>5, <1>7, <1>8, <1>9 DEF IInv

\* The inductive invariant holds.
THEOREM Invariance == Spec => []IInv
<1>1. IInv /\ [Next]_vars => IInv'
  <2>. SUFFICES ASSUME IInv, [Next]_vars PROVE IInv'
    OBVIOUS
  <2>1. LineTypes'
    BY LineTypesKept DEF IInv
  <2>. QED
    BY <2>1, SigningKept, TwoWindowsKept, WindowCountedKept, FramesInOrderKept, OneRequestKept
       DEF IInv
<1>. QED
  BY InitInv, <1>1, PTL DEF Spec

\* Types: what the reader keeps fits its buffer, for every way to cut the stream and
\* every byte of noise.
THEOREM TypeCorrect == Spec => []TypeOK
<1>1. IInv => TypeOK
  <2>. SUFFICES ASSUME IInv PROVE TypeOK
    OBVIOUS
  <2>1. \A i \in 1..Len(toHost) : toHost[i] \in [kind : Kinds, tx : Ids, req : Ids]
    BY ElementOfSeq DEF IInv, LineTypes, Message
  <2>2. Len(buf) \in Nat
    BY LenProperties DEF IInv, LineTypes
  <2>3. /\ sent \in 0..MaxReqs /\ host \in {"idle", "waiting"}
        /\ Len(buf) <= CAPACITY /\ consumed \in 0..Len(buf)
        /\ task \in {"read", "handle", "drain"} /\ frame.req \in 0..sent
        /\ frame.cmd \in Cmds \cup {"none"} /\ handled \in 0..sent
    BY <2>2 DEF IInv, LineTypes, Ids
  <2>4. /\ state \in {"Idle", "AwaitingConfirmation", "Signed", "Rejected"}
        /\ {unsigned, signed, preview, shown} \subseteq Ids /\ approved \subseteq Ids
        /\ unlocked \in BOOLEAN
    BY DEF IInv, SignTypes
  <2>. QED
    BY <2>1, <2>3, <2>4 DEF IInv, TwoWindows, TypeOK
<1>. QED
  BY <1>1, Invariance, PTL

\* What the limit comes to: within one second at most two windows let commands through
\* (check_rate_limit; MaxPerSecond, the limit the comments state, is refuted by a run).
THEOREM RateIsBounded == Spec => [](Len(recent) <= 2 * MAX_CMDS_PER_SEC)
<1>1. IInv => Len(recent) <= 2 * MAX_CMDS_PER_SEC
  <2>. SUFFICES ASSUME IInv PROVE Len(recent) <= 2 * MAX_CMDS_PER_SEC
    OBVIOUS
  <2>1. MAX_CMDS_PER_SEC \in Nat /\ Len(recent) \in Nat
    BY UsbAssumption, LenProperties DEF IInv, TwoWindows
  <2>. QED
    BY <2>1 DEF IInv, TwoWindows
<1>. QED
  BY <1>1, Invariance, PTL

\* A host that keeps to the limit is never refused: a command that is comes after a
\* second that has let the whole limit through (check_rate_limit), for every limit a
\* saturating byte can exceed.
THEOREM ExcessOnly == Spec => []OnlyExcessRefused
<1>1. IInv => OnlyExcessRefused
  <2>. SUFFICES ASSUME IInv, ~WithinRate PROVE Len(recent) >= MAX_CMDS_PER_SEC
    BY DEF OnlyExcessRefused
  <2>1. /\ SECOND \in Nat \ {0} /\ MAX_CMDS_PER_SEC \in 1..254 /\ Len(recent) \in Nat
        /\ count \in 0..U8_MAX /\ age \in 0..SECOND
    BY UsbAssumption, LenProperties DEF IInv, TwoWindows
  <2>2. age < SECOND /\ ~((IF count < U8_MAX THEN count + 1 ELSE count) <= MAX_CMDS_PER_SEC)
    BY <2>1 DEF WithinRate, NewWindow, Counted
  <2>3. PICK n \in 0..Len(recent) :
          Len(recent) - n >= count \/ Len(recent) - n >= MAX_CMDS_PER_SEC
    BY <2>2 DEF IInv, WindowCounted
  <2>. QED
    BY <2>1, <2>2, <2>3 DEF U8_MAX
<1>. QED
  BY <1>1, Invariance, PTL

\* On a quiet line no request is lost, however the stream is cut into chunks.
THEOREM QuietLineAnswers == Spec => []TimeoutNeedsNoise
<1>1. IInv => TimeoutNeedsNoise
  <2>. SUFFICES ASSUME IInv, host = "waiting", wire = <<>>, task = "read", toHost = <<>>,
                       noise = 0
                PROVE  FALSE
    BY DEF TimeoutNeedsNoise, IInv, LineTypes
  <2>1. Len(toHost) = 0
    BY EmptySeq
  <2>. QED
    BY <2>1 DEF IInv, OneRequest, Sending, Handling, Replying, Resting
<1>. QED
  BY <1>1, Invariance, PTL

\* A reply: the one step that makes toHost longer, and its last element.
LEMMA OneReply ==
  ASSUME IInv, Next, NEW i \in 1..Len(toHost'), i > Len(toHost)
  PROVE  Handle /\ \A reply : toHost' = Append(toHost, reply) => toHost'[i] = reply
<1>1. Len(toHost) \in Nat /\ toHost \in Seq(Message)
  BY LenProperties DEF IInv, LineTypes
<1>2. ~ HostRead
  <2>. SUFFICES ASSUME HostRead PROVE FALSE
    OBVIOUS
  <2>1. Len(toHost') = Len(toHost) - 1
    BY <1>1, HeadTailProperties DEF HostRead
  <2>. QED
    BY <1>1, <2>1
<1>3. toHost' # toHost
  BY <1>1
<1>4. Handle
  BY <1>2, <1>3
     DEF Next, HostSend, HostTimeout, Noise, ReadChunk, Drain, ShowPreview, Confirm, ConfirmFails,
         Approves, Reject, SetUnlocked, Tick, lineVars
<1>5. ASSUME NEW reply, toHost' = Append(toHost, reply) PROVE toHost'[i] = reply
  <2>1. toHost \in Seq(Message \cup {reply}) /\ reply \in Message \cup {reply}
    BY <1>1, SeqMonotonic
  <2>2. Len(toHost') = Len(toHost) + 1 /\ toHost'[Len(toHost) + 1] = reply
    BY <1>5, <2>1, AppendProperties
  <2>3. i = Len(toHost) + 1
    BY <1>1, <2>2
  <2>. QED
    BY <2>2, <2>3
<1>. QED
  BY <1>4, <1>5

\* Replies are in the order of the requests and none is sent twice.
THEOREM RepliesInOrder == Spec => AnsweredInOrder
<1>. DEFINE A == \A i \in 1..Len(toHost') : i > Len(toHost) => toHost'[i].req > handled
<1>1. IInv /\ [Next]_vars => [A]_vars
  <2>. SUFFICES ASSUME IInv, Next, NEW i \in 1..Len(toHost'), i > Len(toHost)
                PROVE  toHost'[i].req > handled
    OBVIOUS
  <2>1. Handle /\ \E kind, tx : toHost'[i] = Reply(kind, tx)
    BY OneReply, Answering DEF IInv
  <2>2. task = "handle"
    BY <2>1, Answering DEF IInv
  <2>3. toHost'[i].req = frame.req
    BY <2>1 DEF Reply
  <2>. QED
    BY <2>2, <2>3 DEF IInv, FramesInOrder
<1>. QED
  BY <1>1, Invariance, PTL DEF Spec, AnsweredInOrder

\* What is delivered was approved on the screen and not delivered before.
THEOREM DeliveriesApproved == Spec => OnlyApprovedDelivered
<1>. DEFINE A == \A i \in 1..Len(toHost') :
                   (i > Len(toHost) /\ toHost'[i].kind = "CONFIRMED")
                     => toHost'[i].tx \in approved
<1>1. IInv /\ [Next]_vars => [A]_vars
  <2>. SUFFICES ASSUME IInv, Next, NEW i \in 1..Len(toHost'), i > Len(toHost),
                       toHost'[i].kind = "CONFIRMED"
                PROVE  toHost'[i].tx \in approved
    OBVIOUS
  <2>1. Handle /\ \A reply : toHost' = Append(toHost, reply) => toHost'[i] = reply
    BY OneReply
  <2>2. \A kind, tx : Answer(Reply(kind, tx)) => kind = "CONFIRMED" /\ toHost'[i].tx = tx
    <3>. SUFFICES ASSUME NEW kind, NEW tx, Answer(Reply(kind, tx))
                  PROVE  kind = "CONFIRMED" /\ toHost'[i].tx = tx
      OBVIOUS
    <3>1. toHost'[i] = Reply(kind, tx)
      BY <2>1 DEF Answer
    <3>. QED
      BY <3>1 DEF Reply
  <2>3. FetchSigned
    <3>1. \A kind, tx : kind # "CONFIRMED" => ~Answer(Reply(kind, tx))
      BY <2>2
    <3>2. /\ ~Answer(Reply("BUSY", 0)) /\ ~Answer(Reply("LOCKED", 0))
          /\ ~Answer(Reply("NEED_CONFIRM", frame.req)) /\ ~Answer(Reply("PSBT_PARSE", 0))
          /\ ~Answer(Reply("REJECTED", 0))
          /\ ~Answer(Reply(IF state = "Idle" THEN "NO_PENDING" ELSE "BUSY", 0))
      BY <3>1
    <3>3. ~HandleBusy /\ ~HandleLocked /\ ~SendRefused
      BY <3>2 DEF HandleBusy, HandleLocked, SendRefused
    <3>4. ~SendStored /\ ~SendUnparsed /\ ~FetchRejected /\ ~FetchNothing
      BY <3>2 DEF SendStored, SendUnparsed, FetchRejected, FetchNothing
    <3>5. ASSUME HandleOther PROVE FALSE
      <4>. DEFINE kind == CASE frame.cmd = "GET_FIRMWARE_VER" -> "OK"
                            [] frame.cmd \in {"GET_XPUB", "WIPE_WALLET"} -> "LOCKED"
                            [] frame.cmd = "UNKNOWN" -> "INVALID_FRAME"
      <4>1. Answer(Reply(kind, 0))
        BY <3>5 DEF HandleOther
      <4>2. frame.cmd \in {"GET_FIRMWARE_VER", "GET_XPUB", "WIPE_WALLET", "UNKNOWN"}
        BY <3>5 DEF HandleOther, Accepts
      <4>3. kind # "CONFIRMED"
        BY <4>2
      <4>. HIDE DEF kind
      <4>. QED
        BY <3>1, <4>1, <4>3
    <3>. QED
      BY <2>1, <3>3, <3>4, <3>5 DEF Handle
  <2>4. state = "Signed" /\ toHost'[i].tx = signed
    BY <2>2, <2>3 DEF FetchSigned
  <2>. QED
    BY <2>4 DEF IInv, OneTransaction
<1>. QED
  BY <1>1, Invariance, PTL DEF Spec, OnlyApprovedDelivered
=============================================================================
