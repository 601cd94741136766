----------------------------- MODULE GbChannel -----------------------------
(***************************************************************************)
(* The wallet channel: the Game Boy side (gb-wallet/sram_comm.c) and the   *)
(* RP2350 side (src/comm/gb_channel.rs and the loop of src/stealth.rs)     *)
(* exchange framed commands and responses through three regions of shared  *)
(* SRAM and one status byte, which both sides change by an unlocked read   *)
(* followed by a write.                                                    *)
(*                                                                         *)
(* Memory is cut where the frame layout can be told apart: the header and  *)
(* the rest of the command region, the same of the response region, and    *)
(* the extended buffer both directions share.  A cell holds a piece of one *)
(* frame; a frame's CRC is right exactly when every cell it spans holds a  *)
(* piece of that frame and the reader looks at the bytes the writer put    *)
(* the CRC in (an ideal CRC: a damaged frame never passes).                *)
(***************************************************************************)
EXTENDS Integers, Sequences

CONSTANTS
  CmdBytes,        \* command bytes the wallet ROM sends
  KnownCmds,       \* those Command::from_byte recognises
  CmdLens,         \* payload lengths of commands
  RspLens,         \* payload lengths of responses
  BadLens,         \* length fields a damaged command header may show
  BufSize,         \* size of the caller's response buffer
  MaxCmds,         \* bound: commands sent
  MaxFaults,       \* bound: memory cells damaged in transfer
  StartOrders      \* which of the two start orders happen (values of held)

ASSUME LensAssumption ==
  /\ CmdLens \subseteq Nat /\ RspLens \subseteq Nat /\ BadLens \subseteq Nat
  /\ BufSize \in Nat /\ MaxCmds \in Nat /\ MaxFaults \in Nat
ASSUME BytesAssumption == KnownCmds \subseteq CmdBytes /\ CmdBytes # {}
ASSUME StartAssumption == StartOrders \subseteq BOOLEAN

VARIABLES
  mem,             \* the SRAM cells
  status,          \* the status byte, as the set of its two used bits
  gbPc, gbCell, gbStatus, gbReq, gbRaw, gbBuf, gbResult,
  rpPc, rpCell, rpStatus, rpRaw, rpRsp,
  served,          \* history: number of commands dispatched
  held,            \* TRUE: the Game Boy starts after GbChannel::init
  faults           \* number of cells damaged so far

gbVars == <<gbPc, gbCell, gbStatus, gbReq, gbRaw, gbBuf, gbResult>>
rpVars == <<rpPc, rpCell, rpStatus, rpRaw, rpRsp, served>>
vars == <<mem, status, gbVars, rpVars, held, faults>>

(***************************************************************************)
(* Layout.                                                                 *)
(***************************************************************************)
FRAME_HEADER_SIZE == 4
FRAME_CRC_SIZE == 2
REGION_SIZE == 64                                \* CMD_ and RSP_REGION_SIZE
EXT_PAYLOAD_SIZE == 112
RSP_REGION_ADDR == 8000                          \* 0x1F40
EXT_PAYLOAD_ADDR == 8064                         \* 0x1F80
MAX_PAYLOAD_SIZE == REGION_SIZE + EXT_PAYLOAD_SIZE

FrameSize(len) == FRAME_HEADER_SIZE + len + FRAME_CRC_SIZE

Cells == {"cmdHead", "cmdBody", "rspHead", "rspBody", "ext"}
InitOrder == <<"cmdHead", "cmdBody", "rspHead", "rspBody", "ext">>

Bits == {"CMD_PENDING", "RSP_READY"}
Errors == {"none", "COMM_ERROR", "CHECKSUM_ERR"}
ResponseCode == {"Error", "InvalidCommand"}

Zero == [dir |-> "none", seq |-> 0, byte |-> "none", len |-> 0]
CmdFrame(n, c, l) == [dir |-> "cmd", seq |-> n, byte |-> c, len |-> l]
RspFrame(n, c, l) == [dir |-> "rsp", seq |-> n, byte |-> c, len |-> l]

\* A header cell shows the magic byte 0xB7 unless it was zeroed.
MagicOk(piece) == piece.dir # "none"

(***************************************************************************)
(* Game Boy: main() of the wallet ROM.                                     *)
(***************************************************************************)

\* Power-up of the Game Boy; sram_comm_init is the first channel call.
GbStart ==
  /\ gbPc = "off"
  /\ held => rpPc \notin {"zero", "zeroStatus"}
  /\ gbPc' = "zero"
  /\ UNCHANGED <<mem, status, gbCell, gbStatus, gbReq, gbRaw, gbBuf, gbResult,
                 rpVars, held, faults>>

\* Mutant: the fill runs one cell too far.
GbZeroCell_RunsOver ==
  /\ gbPc = "zero"
  /\ mem' = [mem EXCEPT ![InitOrder[gbCell]] = Zero]
  /\ IF gbCell > Len(InitOrder)
       THEN gbPc' = "zeroStatus" /\ UNCHANGED gbCell
       ELSE gbCell' = gbCell + 1 /\ UNCHANGED gbPc
  /\ UNCHANGED <<status, gbStatus, gbReq, gbRaw, gbBuf, gbResult, rpVars, held, faults>>

GbZeroCell ==
  /\ gbPc = "zero"
  /\ mem' = [mem EXCEPT ![InitOrder[gbCell]] = Zero]
  /\ IF gbCell = Len(InitOrder)
       THEN gbPc' = "zeroStatus" /\ UNCHANGED gbCell
       ELSE gbCell' = gbCell + 1 /\ UNCHANGED gbPc
  /\ UNCHANGED <<status, gbStatus, gbReq, gbRaw, gbBuf, gbResult, rpVars, held, faults>>

GbZeroStatus ==
  /\ gbPc = "zeroStatus"
  /\ status' = {}
  /\ gbPc' = "idle"
  /\ UNCHANGED <<mem, gbCell, gbStatus, gbReq, gbRaw, gbBuf, gbResult, rpVars, held, faults>>

\* sram_comm_send_command builds the frame; a frame larger than the command
\* region and the extended buffer together is refused before any write.
GbSend(c, l) ==
  /\ gbPc = "idle"
  /\ gbReq.seq < MaxCmds
  /\ FrameSize(l) <= REGION_SIZE + EXT_PAYLOAD_SIZE
  /\ gbReq' = CmdFrame(gbReq.seq + 1, c, l)
  /\ gbPc' = "wHead"
  /\ UNCHANGED <<mem, status, gbCell, gbStatus, gbRaw, gbBuf, gbResult, rpVars, held, faults>>

GbWriteHead ==
  /\ gbPc = "wHead"
  /\ mem' = [mem EXCEPT !["cmdHead"] = gbReq]
  /\ gbPc' = "wBody"
  /\ UNCHANGED <<status, gbCell, gbStatus, gbReq, gbRaw, gbBuf, gbResult, rpVars, held, faults>>

GbWriteBody ==
  /\ gbPc = "wBody"
  /\ mem' = [mem EXCEPT !["cmdBody"] = gbReq]
  /\ gbPc' = IF FrameSize(gbReq.len) > REGION_SIZE THEN "wExt" ELSE "setRead"
  /\ UNCHANGED <<status, gbCell, gbStatus, gbReq, gbRaw, gbBuf, gbResult, rpVars, held, faults>>

GbWriteExt ==
  /\ gbPc = "wExt"
  /\ mem' = [mem EXCEPT !["ext"] = gbReq]
  /\ gbPc' = "setRead"
  /\ UNCHANGED <<status, gbCell, gbStatus, gbReq, gbRaw, gbBuf, gbResult, rpVars, held, faults>>

\* write_status(read_status() | SCMD_STATUS_CMD_PENDING): two bus accesses.
GbSetRead ==
  /\ gbPc = "setRead"
  /\ gbStatus' = status
  /\ gbPc' = "setWrite"
  /\ UNCHANGED <<mem, status, gbCell, gbReq, gbRaw, gbBuf, gbResult, rpVars, held, faults>>

\* Mutant: the call returns without waiting for the response.
GbSetWrite_DoesNotWait ==
  /\ gbPc = "setWrite"
  /\ status' = gbStatus \cup {"CMD_PENDING"}
  /\ gbPc' = "idle"
  /\ UNCHANGED <<mem, gbCell, gbStatus, gbReq, gbRaw, gbBuf, gbResult, rpVars, held, faults>>

GbSetWrite ==
  /\ gbPc = "setWrite"
  /\ status' = gbStatus \cup {"CMD_PENDING"}
  /\ gbPc' = "wait"
  /\ UNCHANGED <<mem, gbCell, gbStatus, gbReq, gbRaw, gbBuf, gbResult, rpVars, held, faults>>

\* Mutant: the poll tests the status byte without masking RSP_READY.
GbSeeResponse_AnyBit ==
  /\ gbPc = "wait"
  /\ status # {}
  /\ gbPc' = "rRaw"
  /\ UNCHANGED <<mem, status, gbCell, gbStatus, gbReq, gbRaw, gbBuf, gbResult, rpVars, held, faults>>

\* sram_comm_wait_response leaves its polling loop.
GbSeeResponse ==
  /\ gbPc = "wait"
  /\ "RSP_READY" \in status
  /\ gbPc' = "rRaw"
  /\ UNCHANGED <<mem, status, gbCell, gbStatus, gbReq, gbRaw, gbBuf, gbResult, rpVars, held, faults>>

\* First read of the response region; a wrong magic ends the call at once.
GbReadRaw ==
  /\ gbPc = "rRaw"
  /\ gbRaw' = [head |-> mem["rspHead"], body |-> mem["rspBody"]]
  /\ IF MagicOk(mem["rspHead"])
       THEN gbPc' = "rBuf" /\ UNCHANGED gbResult
       ELSE gbPc' = "clrRead" /\ gbResult' = "COMM_ERROR"
  /\ UNCHANGED <<mem, status, gbCell, gbStatus, gbReq, gbBuf, rpVars, held, faults>>

\* The payload reaches the caller's buffer only if it fits, and before the
\* CRC is looked at.
GbCopyPayload ==
  /\ gbPc = "rBuf"
  /\ gbBuf' = IF gbRaw.head.len > BufSize THEN gbBuf
              ELSE [body |-> gbRaw.body,
                    ext |-> IF gbRaw.head.len > REGION_SIZE - FRAME_HEADER_SIZE
                            THEN mem["ext"] ELSE gbRaw.body]
  /\ gbPc' = "crc"
  /\ UNCHANGED <<mem, status, gbCell, gbStatus, gbReq, gbRaw, gbResult, rpVars, held, faults>>

\* Where the Game Boy looks for the CRC, in 16-bit addresses, and where byte
\* number i of a response lies.
GbCrcAddr(len) ==
  LET total == FRAME_HEADER_SIZE + len IN
  IF total + FRAME_CRC_SIZE <= REGION_SIZE
    THEN RSP_REGION_ADDR + total
    ELSE (EXT_PAYLOAD_ADDR + ((total - REGION_SIZE) % 65536)) % 65536
RspByteAddr(i) ==
  IF i < REGION_SIZE THEN RSP_REGION_ADDR + i
  ELSE EXT_PAYLOAD_ADDR + (i - REGION_SIZE)

\* Second read of the region: the CRC over header and payload against the
\* CRC bytes of the frame.
GbCrcOk ==
  LET f == mem["rspHead"] IN
  /\ f.dir = "rsp"
  /\ f.len = gbRaw.head.len
  /\ mem["rspBody"] = f
  /\ FrameSize(f.len) > REGION_SIZE => mem["ext"] = f
  /\ GbCrcAddr(f.len) = RspByteAddr(FRAME_HEADER_SIZE + f.len)

GbCheckCrc ==
  /\ gbPc = "crc"
  /\ gbResult' = IF GbCrcOk THEN gbRaw.head.byte ELSE "CHECKSUM_ERR"
  /\ gbPc' = "clrRead"
  /\ UNCHANGED <<mem, status, gbCell, gbStatus, gbReq, gbRaw, gbBuf, rpVars, held, faults>>

\* sram_comm_clear_response, then the call returns.
GbClearRead ==
  /\ gbPc = "clrRead"
  /\ gbStatus' = status
  /\ gbPc' = "clrWrite"
  /\ UNCHANGED <<mem, status, gbCell, gbReq, gbRaw, gbBuf, gbResult, rpVars, held, faults>>

\* Mutant: the response flag is left set.
GbClearWrite_KeepsFlag ==
  /\ gbPc = "clrWrite"
  /\ status' = gbStatus
  /\ gbPc' = "idle"
  /\ UNCHANGED <<mem, gbCell, gbStatus, gbReq, gbRaw, gbBuf, gbResult, rpVars, held, faults>>

GbClearWrite ==
  /\ gbPc = "clrWrite"
  /\ status' = gbStatus \ {"RSP_READY"}
  /\ gbPc' = "idle"
  /\ UNCHANGED <<mem, gbCell, gbStatus, gbReq, gbRaw, gbBuf, gbResult, rpVars, held, faults>>

(***************************************************************************)
(* RP2350: run_stealth_mode.                                               *)
(***************************************************************************)

\* GbChannel::init.
RpZeroCell ==
  /\ rpPc = "zero"
  /\ mem' = [mem EXCEPT ![InitOrder[rpCell]] = Zero]
  /\ IF rpCell = Len(InitOrder)
       THEN rpPc' = "zeroStatus" /\ UNCHANGED rpCell
       ELSE rpCell' = rpCell + 1 /\ UNCHANGED rpPc
  /\ UNCHANGED <<status, gbVars, rpStatus, rpRaw, rpRsp, served, held, faults>>

RpZeroStatus ==
  /\ rpPc = "zeroStatus"
  /\ status' = {}
  /\ rpPc' = "poll"
  /\ UNCHANGED <<mem, gbVars, rpCell, rpStatus, rpRaw, rpRsp, served, held, faults>>

\* has_command, at the top of read_command.
RpPoll ==
  /\ rpPc = "poll"
  /\ "CMD_PENDING" \in status
  /\ rpPc' = "rCmd"
  /\ UNCHANGED <<mem, status, gbVars, rpCell, rpStatus, rpRaw, rpRsp, served, held, faults>>

\* The first 64 bytes.  The overflow that is read from the extended buffer
\* counts header and payload only, never the CRC, and is not read at all
\* when it exceeds that buffer.
RpReadRegion ==
  /\ rpPc = "rCmd"
  /\ rpRaw' = [head |-> mem["cmdHead"], body |-> mem["cmdBody"], ext |-> Zero]
  /\ LET overflow == FRAME_HEADER_SIZE + mem["cmdHead"].len - REGION_SIZE IN
     rpPc' = IF ~MagicOk(mem["cmdHead"]) THEN "clrRead"
             ELSE IF overflow > 0 /\ overflow <= EXT_PAYLOAD_SIZE THEN "rExt"
             ELSE "decode"
  /\ UNCHANGED <<mem, status, gbVars, rpCell, rpStatus, rpRsp, served, held, faults>>

RpReadExt ==
  /\ rpPc = "rExt"
  /\ rpRaw' = [head |-> rpRaw.head, body |-> rpRaw.body, ext |-> mem["ext"]]
  /\ rpPc' = "decode"
  /\ UNCHANGED <<mem, status, gbVars, rpCell, rpStatus, rpRsp, served, held, faults>>

\* Mutant: the frame that fills the region exactly is taken for a longer one.
RpCrcRead_Strict(len) == FrameSize(len) < REGION_SIZE

\* The CRC bytes are among the bytes read only when the whole frame fits the
\* command region.
RpCrcRead(len) == FrameSize(len) <= REGION_SIZE

\* Frame::decode succeeds on what was read.
RpFrameOk ==
  LET f == rpRaw.head IN
  /\ f.dir = "cmd"
  /\ rpRaw.body = f
  /\ FRAME_HEADER_SIZE + f.len > REGION_SIZE => rpRaw.ext = f
  /\ RpCrcRead(f.len)

\* A frame that is too large, and one that decodes, clear the flag; a frame
\* that fails its checksum returns early and leaves it set.
RpDecode ==
  /\ rpPc = "decode"
  /\ rpPc' = IF FrameSize(rpRaw.head.len) > MAX_PAYLOAD_SIZE + FRAME_HEADER_SIZE + FRAME_CRC_SIZE
                \/ RpFrameOk
             THEN "clrRead" ELSE "poll"
  /\ UNCHANGED <<mem, status, gbVars, rpCell, rpStatus, rpRaw, rpRsp, served, held, faults>>

\* clear_command_flag: a read and a write.
RpClearRead ==
  /\ rpPc = "clrRead"
  /\ rpStatus' = status
  /\ rpPc' = "clrWrite"
  /\ UNCHANGED <<mem, status, gbVars, rpCell, rpRaw, rpRsp, served, held, faults>>

\* Mutant: the command flag is left set.
RpClearWrite_KeepsFlag ==
  /\ rpPc = "clrWrite"
  /\ status' = rpStatus
  /\ rpPc' = IF RpFrameOk THEN "dispatch" ELSE "poll"
  /\ UNCHANGED <<mem, gbVars, rpCell, rpStatus, rpRaw, rpRsp, served, held, faults>>

RpClearWrite ==
  /\ rpPc = "clrWrite"
  /\ status' = rpStatus \ {"CMD_PENDING"}
  /\ rpPc' = IF RpFrameOk THEN "dispatch" ELSE "poll"
  /\ UNCHANGED <<mem, gbVars, rpCell, rpStatus, rpRaw, rpRsp, served, held, faults>>

\* dispatch_wallet_command: every known command is a stub that answers Error.
Reply(c) == IF c \in KnownCmds THEN "Error" ELSE "InvalidCommand"

\* The response frame is built; Frame::new refuses an oversized payload and
\* then nothing is written.
RpDispatch(l) ==
  /\ rpPc = "dispatch"
  /\ served' = served + 1
  /\ IF l > MAX_PAYLOAD_SIZE
       THEN rpPc' = "poll" /\ UNCHANGED rpRsp
       ELSE /\ rpRsp' = RspFrame(rpRaw.head.seq, Reply(rpRaw.head.byte), l)
            /\ rpPc' = "wHead"
  /\ UNCHANGED <<mem, status, gbVars, rpCell, rpStatus, rpRaw, held, faults>>

RpWriteHead ==
  /\ rpPc = "wHead"
  /\ mem' = [mem EXCEPT !["rspHead"] = rpRsp]
  /\ rpPc' = "wBody"
  /\ UNCHANGED <<status, gbVars, rpCell, rpStatus, rpRaw, rpRsp, served, held, faults>>

RpWriteBody ==
  /\ rpPc = "wBody"
  /\ mem' = [mem EXCEPT !["rspBody"] = rpRsp]
  /\ rpPc' = IF FrameSize(rpRsp.len) > REGION_SIZE THEN "wExt" ELSE "setRead"
  /\ UNCHANGED <<status, gbVars, rpCell, rpStatus, rpRaw, rpRsp, served, held, faults>>

\* The rest of the frame.  More than EXT_PAYLOAD_SIZE bytes run on into the
\* status byte, which then holds a byte of the frame.
RpWriteExt ==
  /\ rpPc = "wExt"
  /\ mem' = [mem EXCEPT !["ext"] = rpRsp]
  /\ status' \in IF FrameSize(rpRsp.len) > REGION_SIZE + EXT_PAYLOAD_SIZE
                 THEN SUBSET Bits ELSE {status}
  /\ rpPc' = "setRead"
  /\ UNCHANGED <<gbVars, rpCell, rpStatus, rpRaw, rpRsp, served, held, faults>>

RpSetRead ==
  /\ rpPc = "setRead"
  /\ rpStatus' = status
  /\ rpPc' = "setWrite"
  /\ UNCHANGED <<mem, status, gbVars, rpCell, rpRaw, rpRsp, served, held, faults>>

RpSetWrite ==
  /\ rpPc = "setWrite"
  /\ status' = rpStatus \cup {"RSP_READY"}
  /\ rpPc' = "poll"
  /\ UNCHANGED <<mem, gbVars, rpCell, rpStatus, rpRaw, rpRsp, served, held, faults>>

(***************************************************************************)
(* The bus: a transfer may damage a cell (the reason frames carry a magic  *)
(* byte, a length check and a CRC).  A response keeps its length field: a  *)
(* longer one would be copied past the Game Boy's buffer for the checksum, *)
(* and what is behind that buffer is not in the model.                     *)
(***************************************************************************)
Noise(piece, l) ==
  [dir |-> "noise", seq |-> piece.seq, byte |-> piece.byte, len |-> l]
DamagedForms(cell) ==
  {Zero, Noise(mem[cell], mem[cell].len)} \cup
    (IF cell = "cmdHead" THEN {Noise(mem[cell], l) : l \in BadLens} ELSE {})

Damage(cell) ==
  /\ faults < MaxFaults
  /\ faults' = faults + 1
  /\ \E piece \in DamagedForms(cell) : mem' = [mem EXCEPT ![cell] = piece]
  /\ UNCHANGED <<status, gbVars, rpVars, held>>

(***************************************************************************)
(* Behaviours.                                                             *)
(***************************************************************************)

\* SRAM is not cleared at power-up: it may hold an earlier session's frames
\* and any status bits.
LastSession == RspFrame(0, "Error", 0)

Init ==
  /\ mem \in {[c \in Cells |-> Zero], [c \in Cells |-> LastSession]}
  /\ status \in SUBSET Bits
  /\ held \in StartOrders
  /\ gbPc = "off" /\ gbCell = 1 /\ gbStatus = {} /\ gbResult = "none"
  /\ gbReq \in {CmdFrame(0, c, 0) : c \in CmdBytes}
  /\ gbRaw = [head |-> Zero, body |-> Zero]
  /\ gbBuf = [body |-> Zero, ext |-> Zero]
  /\ rpPc = "zero" /\ rpCell = 1 /\ rpStatus = {}
  /\ rpRaw = [head |-> Zero, body |-> Zero, ext |-> Zero]
  /\ rpRsp = Zero
  /\ served = 0 /\ faults = 0

GbStep ==
  \/ GbStart \/ GbZeroCell \/ GbZeroStatus
  \/ GbWriteHead \/ GbWriteBody \/ GbWriteExt \/ GbSetRead \/ GbSetWrite
  \/ GbSeeResponse \/ GbReadRaw \/ GbCopyPayload \/ GbCheckCrc
  \/ GbClearRead \/ GbClearWrite

RpStep ==
  \/ RpZeroCell \/ RpZeroStatus
  \/ RpPoll \/ RpReadRegion \/ RpReadExt \/ RpDecode \/ RpClearRead \/ RpClearWrite
  \/ \E l \in RspLens : RpDispatch(l)
  \/ RpWriteHead \/ RpWriteBody \/ RpWriteExt \/ RpSetRead \/ RpSetWrite

Next ==
  \/ GbStep
  \/ \E c \in CmdBytes, l \in CmdLens : GbSend(c, l)
  \/ RpStep
  \/ \E cell \in Cells : Damage(cell)

Spec == Init /\ [][Next]_vars

\* Both processors run all the time; only the user decides about a new command.
FairSpec == Spec /\ WF_vars(GbStep) /\ WF_vars(RpStep)

(***************************************************************************)
(* Properties.                                                             *)
(***************************************************************************)
GbPcs == {"off", "zero", "zeroStatus", "idle", "wHead", "wBody", "wExt", "setRead",
          "setWrite", "wait", "rRaw", "rBuf", "crc", "clrRead", "clrWrite"}
RpPcs == {"zero", "zeroStatus", "poll", "rCmd", "rExt", "decode", "clrRead", "clrWrite",
          "dispatch", "wHead", "wBody", "wExt", "setRead", "setWrite"}
Piece == [dir : {"none", "noise", "cmd", "rsp"}, seq : Nat,
          byte : CmdBytes \cup ResponseCode \cup {"none"}, len : Nat]

\* Every variable keeps its type: in particular the two program counters and
\* what each side has copied out of the shared memory.
TypeOK ==
  /\ mem \in [Cells -> Piece]
  /\ status \in SUBSET Bits
  /\ gbPc \in GbPcs /\ gbCell \in 1..5 /\ gbStatus \in SUBSET Bits
  /\ gbReq \in Piece
  /\ gbRaw \in [head : Piece, body : Piece]
  /\ gbBuf \in [body : Piece, ext : Piece]
  /\ gbResult \in Errors \cup CmdBytes \cup ResponseCode
  /\ rpPc \in RpPcs /\ rpCell \in 1..5 /\ rpStatus \in SUBSET Bits
  /\ rpRaw \in [head : Piece, body : Piece, ext : Piece]
  /\ rpRsp \in Piece
  /\ served \in Nat /\ faults \in Nat
  /\ held \in BOOLEAN

GbSending == gbPc \in {"wHead", "wBody", "wExt", "setRead", "setWrite"}
GbReceiving == gbPc \in {"rRaw", "rBuf", "crc", "clrRead", "clrWrite"}

\* Neither side's unlocked read-then-write of the status byte (sram_comm.c:212
\* and 102-103, gb_channel.rs:444-445 and 479-480) overwrites a change the
\* other side made in between.
NoLostStatusUpdate ==
  /\ gbPc \in {"setWrite", "clrWrite"} => gbStatus = status
  /\ rpPc \in {"setWrite", "clrWrite"} => rpStatus = status

\* While the Game Boy writes a command or reads a response, the RP2350 is in
\* its polling loop and touches no region: the extended buffer, which both
\* directions share, never has two users.
RegionsNotShared ==
  held /\ (GbSending \/ GbReceiving) => rpPc = "poll"

\* A call that reports a response code reports the code of its own command,
\* whose frame was executed, and when the response fits the caller's buffer
\* the buffer holds that response's payload and nothing else.
CallReturnsItsResponse ==
  gbPc \in {"clrRead", "clrWrite"} /\ gbResult \notin Errors =>
    /\ served = gbReq.seq
    /\ rpRsp.seq = gbReq.seq
    /\ gbResult = Reply(gbReq.byte)
    /\ rpRsp.len <= BufSize => gbBuf = [body |-> rpRsp, ext |-> rpRsp]

\* The channel implements SyncChannel: at most one command outstanding, each
\* executed at most once, each call ends with an error or its own reply.
Outstanding == GbSending \/ gbPc \in {"wait", "rRaw", "rBuf", "crc"}
Abs == INSTANCE SyncChannel WITH
         phase <- IF Outstanding THEN "sent" ELSE "idle",
         seq <- gbReq.seq,
         cmd <- gbReq.byte,
         outcome <- gbResult
ImplementsSyncChannel == Abs!Spec

\* On an undamaged bus and with the start order right, every command whose
\* frame fits the command region is answered: the call returns.
FittingCommandAnswered ==
  (gbPc = "wait" /\ held /\ FrameSize(gbReq.len) <= REGION_SIZE /\ faults = 0)
    ~> (gbPc = "idle" \/ faults > 0)

\* What PROTOCOL.md:11 says of the channel: the Game Boy writes a command and
\* polls until it has the response.
EveryCommandAnswered == (gbPc = "wait") ~> (gbPc = "idle")
=============================================================================
