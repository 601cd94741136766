---------------------------- MODULE FrameReader ----------------------------
(***************************************************************************)
(* The reader that cuts the byte stream of the USB serial line into frames *)
(* (FrameReader of comm/usb_protocol.rs).  A byte is known by the frame it *)
(* belongs to (a number, its command and payload length) and its position  *)
(* there; a byte of noise belongs to none and carries the length it shows  *)
(* when it is read as one.  The checksum is ideal, and no byte but the     *)
(* first of a frame looks like the magic byte.                             *)
(***************************************************************************)
EXTENDS Integers, Sequences

CONSTANT MAX_PAYLOAD

ASSUME PayloadAssumption == MAX_PAYLOAD \in Nat

VARIABLES
  buf,             \* buf[..pos]
  consumed         \* bytes already returned to the caller

readerVars == <<buf, consumed>>

HDR == 4
CRC_SZ == 2
CAPACITY == HDR + MAX_PAYLOAD + CRC_SZ

Frame(r, cmd, len) ==
  [i \in 1..(HDR + len + CRC_SZ) |-> [req |-> r, cmd |-> cmd, len |-> len, at |-> i]]
Junk(len) == [req |-> 0, cmd |-> "none", len |-> len, at |-> 0]

ReaderInit == buf = <<>> /\ consumed = 0

\* Mutant: the frame returned last stays in front of the buffer.
Compacted_Keeps == buf

\* The buffer without the frame returned last.
Compacted == SubSeq(buf, consumed + 1, Len(buf))

\* Mutant: the room left in the buffer is not looked at.
Fitting_All(data) == data

\* As much of the data as there is room for; the rest is lost.
Fitting(data) ==
  LET space == CAPACITY - Len(Compacted)
  IN  SubSeq(data, 1, IF Len(data) < space THEN Len(data) ELSE space)

Filled(data) == Compacted \o Fitting(data)

IsMagic(b) == b.at = 1
LengthField(s) == IF s[4].req = s[3].req THEN s[3].len
                  ELSE IF s[3].req = 0 THEN s[3].len ELSE s[4].len
Total(s) == HDR + LengthField(s) + CRC_SZ
CrcOk(s) == SubSeq(s, 1, Total(s)) = Frame(s[1].req, s[1].cmd, s[1].len)

\* From the first magic byte on.
Shifted(s) ==
  LET found == {i \in 1..Len(s) : IsMagic(s[i])}
  IN  IF found = {} THEN <<>>
      ELSE SubSeq(s, CHOOSE i \in found : \A j \in found : i <= j, Len(s))

\* Mutant: a complete frame has to be followed by another byte.
Parse_WaitsForMore(s) ==
  CASE Len(s) < HDR + CRC_SZ -> "short"
    [] Len(s) >= HDR + CRC_SZ /\ ~IsMagic(s[1]) -> "noMagic"
    [] Len(s) >= HDR + CRC_SZ /\ IsMagic(s[1]) /\ Len(s) <= Total(s) -> "short"
    [] OTHER -> IF CrcOk(s) THEN "frame" ELSE "badCrc"

\* What feed makes of the filled buffer.
Parse(s) ==
  CASE Len(s) < HDR + CRC_SZ -> "short"
    [] Len(s) >= HDR + CRC_SZ /\ ~IsMagic(s[1]) -> "noMagic"
    [] Len(s) >= HDR + CRC_SZ /\ IsMagic(s[1]) /\ Len(s) < Total(s) -> "short"
    [] OTHER -> IF CrcOk(s) THEN "frame" ELSE "badCrc"

\* feed returns a frame; the buffer is compacted at the next call.
FeedFrame(data) ==
  LET s == Filled(data)
  IN  /\ Parse(s) = "frame"
      /\ buf' = s /\ consumed' = Total(s)

\* feed returns nothing.
FeedNothing(data) ==
  LET s == Filled(data)
  IN  /\ Parse(s) # "frame"
      /\ buf' = CASE Parse(s) = "short" -> s
                  [] Parse(s) = "noMagic" -> Shifted(s)
                  [] Parse(s) = "badCrc" -> <<>>
      /\ consumed' = 0
=============================================================================
