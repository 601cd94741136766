-------------------------- MODULE GbChannelProofs --------------------------
(***************************************************************************)
(* Proofs about GbChannel for every set of commands and lengths, every     *)
(* number of commands and damaged cells, and both start orders.  The only  *)
(* hypothesis is RspFits: every response the dispatcher writes fits the    *)
(* response region and the extended buffer together.                       *)
(***************************************************************************)
EXTENDS GbChannel, TLAPS

RspFits == \A l \in RspLens : FrameSize(l) <= REGION_SIZE + EXT_PAYLOAD_SIZE

GbInit == gbPc \in {"off", "zero", "zeroStatus"}
RpInit == rpPc \in {"zero", "zeroStatus"}
RpReading == rpPc \in {"rCmd", "rExt", "decode", "clrRead", "clrWrite"}
RpAnswering == rpPc \in {"wHead", "wBody", "wExt", "setRead", "setWrite"}

\* The status byte and the two program counters pass a baton: who may write
\* the byte next is decided by its value.
HandOff ==
  /\ RpInit /\ held => gbPc = "off"
  /\ RpInit /\ ~GbInit => gbPc = "idle" \/ GbSending \/ gbPc = "wait"
  /\ RpInit /\ gbPc = "wait" => status = {"CMD_PENDING"}
  /\ ~RpInit /\ GbInit => rpPc = "poll" /\ status = {}
  /\ gbPc = "idle" \/ GbSending => (rpPc = "poll" \/ RpInit) /\ status = {}
  /\ gbPc = "setWrite" => gbStatus = {}
  /\ GbReceiving => rpPc = "poll" /\ status = {"RSP_READY"}
  /\ gbPc = "clrWrite" => gbStatus = {"RSP_READY"}
  /\ RpReading => gbPc = "wait" /\ status = {"CMD_PENDING"}
  /\ rpPc = "clrWrite" => rpStatus = {"CMD_PENDING"}
  /\ rpPc = "dispatch" \/ RpAnswering => gbPc = "wait" /\ status = {}
  /\ rpPc = "setWrite" => rpStatus = {}
  /\ rpPc = "poll" /\ gbPc = "wait" =>
       status \in {{}, {"CMD_PENDING"}, {"RSP_READY"}}

\* Commands are executed in order, none twice.
ServedInOrder ==
  /\ served <= gbReq.seq
  /\ GbInit \/ gbPc = "idle" => served = gbReq.seq
  /\ GbSending \/ (gbPc = "wait" /\ status = {"CMD_PENDING"}) \/ rpPc = "dispatch"
       => served + 1 = gbReq.seq
  /\ RpAnswering \/ (gbPc = "wait" /\ status = {"RSP_READY"}) \/ GbReceiving
       => served = gbReq.seq

\* What the RP2350 takes for a command header is the pending command's.
CmdCells ==
  /\ gbPc \in {"wBody", "wExt", "setRead", "setWrite", "wait"}
       => (mem["cmdHead"].dir = "cmd" => mem["cmdHead"] = gbReq)
  /\ rpPc \in {"rExt", "decode", "clrRead", "clrWrite"}
       => (rpRaw.head.dir = "cmd" => rpRaw.head = gbReq)
  /\ rpPc = "dispatch" => rpRaw.head = gbReq

\* The response being written or read answers the pending command, and every
\* response cell that is not damaged belongs to it once it has been written.
Ready == (gbPc = "wait" /\ status = {"RSP_READY"}) \/ GbReceiving
RspCells ==
  /\ RpAnswering \/ Ready =>
       rpRsp = RspFrame(gbReq.seq, Reply(gbReq.byte), rpRsp.len)
  /\ RpAnswering => FrameSize(rpRsp.len) <= REGION_SIZE + EXT_PAYLOAD_SIZE
  /\ rpPc \in {"wBody", "wExt", "setRead", "setWrite"} \/ Ready =>
       (mem["rspHead"].dir = "rsp" => mem["rspHead"] = rpRsp)
  /\ rpPc \in {"wExt", "setRead", "setWrite"} \/ Ready =>
       (mem["rspBody"].dir = "rsp" => mem["rspBody"] = rpRsp)
  /\ rpPc \in {"setRead", "setWrite"} \/ Ready =>
       (FrameSize(rpRsp.len) > REGION_SIZE /\ mem["ext"].dir = "rsp"
          => mem["ext"] = rpRsp)

\* A cell that is still intact was intact when the Game Boy first read it.
RspRead ==
  /\ gbPc \in {"rBuf", "crc"} =>
       /\ mem["rspHead"].dir = "rsp" => gbRaw.head = rpRsp
       /\ mem["rspBody"].dir = "rsp" => gbRaw.body = rpRsp
  /\ gbPc = "crc" /\ rpRsp.len <= BufSize
       /\ mem["rspHead"].dir = "rsp" /\ mem["rspBody"].dir = "rsp"
       /\ (FrameSize(rpRsp.len) > REGION_SIZE => mem["ext"].dir = "rsp")
       => gbBuf = [body |-> rpRsp, ext |-> rpRsp]

IInv == TypeOK /\ HandOff /\ ServedInOrder /\ CmdCells /\ RspCells /\ RspRead
          /\ CallReturnsItsResponse

\* Every step keeps the types.
LEMMA TypeStep ==
  ASSUME TypeOK, [Next]_vars
  PROVE  TypeOK'
<1> USE DEF TypeOK, Piece, Cells, Bits, GbPcs, RpPcs, Zero, CmdFrame, RspFrame,
           InitOrder, Errors, ResponseCode, Reply, gbVars, rpVars
<1>1. CASE GbStart
  BY <1>1 DEF GbStart
<1>2. CASE GbZeroCell
  BY <1>2 DEF GbZeroCell
<1>3. CASE GbZeroStatus
  BY <1>3 DEF GbZeroStatus
<1>4. CASE GbWriteHead
  BY <1>4 DEF GbWriteHead
<1>5. CASE GbWriteBody
  BY <1>5 DEF GbWriteBody
<1>6. CASE GbWriteExt
  BY <1>6 DEF GbWriteExt
<1>7. CASE GbSetRead
  BY <1>7 DEF GbSetRead
<1>8. CASE GbSetWrite
  BY <1>8 DEF GbSetWrite
<1>9. CASE GbSeeResponse
  BY <1>9 DEF GbSeeResponse
<1>10. CASE GbReadRaw
  BY <1>10 DEF GbReadRaw
<1>11. CASE GbCopyPayload
  BY <1>11 DEF GbCopyPayload
<1>12. CASE GbCheckCrc
  BY <1>12 DEF GbCheckCrc
<1>13. CASE GbClearRead
  BY <1>13 DEF GbClearRead
<1>14. CASE GbClearWrite
  BY <1>14 DEF GbClearWrite
<1>15. CASE RpZeroCell
  BY <1>15 DEF RpZeroCell
<1>16. CASE RpZeroStatus
  BY <1>16 DEF RpZeroStatus
<1>17. CASE RpPoll
  BY <1>17 DEF RpPoll
<1>18. CASE RpReadRegion
  BY <1>18 DEF RpReadRegion
<1>19. CASE RpReadExt
  BY <1>19 DEF RpReadExt
<1>20. CASE RpDecode
  BY <1>20 DEF RpDecode
<1>21. CASE RpClearRead
  BY <1>21 DEF RpClearRead
<1>22. CASE RpClearWrite
  BY <1>22 DEF RpClearWrite
<1>23. CASE RpWriteHead
  BY <1>23 DEF RpWriteHead
<1>24. CASE RpWriteBody
  BY <1>24 DEF RpWriteBody
<1>25. CASE RpWriteExt
  BY <1>25 DEF RpWriteExt
<1>26. CASE RpSetRead
  BY <1>26 DEF RpSetRead
<1>27. CASE RpSetWrite
  BY <1>27 DEF RpSetWrite
<1>28. ASSUME NEW c \in CmdBytes, NEW l \in CmdLens, GbSend(c, l)
       PROVE  TypeOK'
  BY <1>28, LensAssumption DEF GbSend
<1>29. ASSUME NEW l \in RspLens, RpDispatch(l)
       PROVE  TypeOK'
  BY <1>29, LensAssumption DEF RpDispatch
<1>30. ASSUME NEW cell \in Cells, Damage(cell)
       PROVE  TypeOK'
  BY <1>30, LensAssumption DEF Damage, DamagedForms, Noise, Zero
<1>31. CASE UNCHANGED vars
  BY <1>31 DEF vars, gbVars, rpVars
<1> QED
  BY <1>1, <1>2, <1>3, <1>4, <1>5, <1>6, <1>7, <1>8, <1>9, <1>10, <1>11, <1>12, <1>13, <1>14, <1>15, <1>16, <1>17, <1>18, <1>19, <1>20, <1>21, <1>22, <1>23, <1>24, <1>25, <1>26, <1>27, <1>28, <1>29, <1>30, <1>31
     DEF Next, GbStep, RpStep

\* Every step passes the baton on or keeps it.
LEMMA HandOffStep ==
  ASSUME TypeOK, HandOff, RspCells, [Next]_vars
  PROVE  HandOff'
<1> USE DEF TypeOK, GbPcs, RpPcs, Bits, HandOff, GbInit, RpInit, RpReading, RpAnswering, GbSending, GbReceiving, gbVars, rpVars
<1>1. CASE GbStart
  BY <1>1 DEF GbStart
<1>2. CASE GbZeroCell
  BY <1>2 DEF GbZeroCell
<1>3. CASE GbZeroStatus
  BY <1>3 DEF GbZeroStatus
<1>4. CASE GbWriteHead
  BY <1>4 DEF GbWriteHead
<1>5. CASE GbWriteBody
  BY <1>5 DEF GbWriteBody
<1>6. CASE GbWriteExt
  BY <1>6 DEF GbWriteExt
<1>7. CASE GbSetRead
  BY <1>7 DEF GbSetRead
<1>8. CASE GbSetWrite
  BY <1>8 DEF GbSetWrite
<1>9. CASE GbSeeResponse
  BY <1>9 DEF GbSeeResponse
<1>10. CASE GbReadRaw
  BY <1>10 DEF GbReadRaw
<1>11. CASE GbCopyPayload
  BY <1>11 DEF GbCopyPayload
<1>12. CASE GbCheckCrc
  BY <1>12 DEF GbCheckCrc
<1>13. CASE GbClearRead
  BY <1>13 DEF GbClearRead
<1>14. CASE GbClearWrite
  BY <1>14 DEF GbClearWrite
<1>15. CASE RpZeroCell
  BY <1>15 DEF RpZeroCell
<1>16. CASE RpZeroStatus
  BY <1>16 DEF RpZeroStatus
<1>17. CASE RpPoll
  BY <1>17 DEF RpPoll
<1>18. CASE RpReadRegion
  BY <1>18 DEF RpReadRegion
<1>19. CASE RpReadExt
  BY <1>19 DEF RpReadExt
<1>20. CASE RpDecode
  BY <1>20 DEF RpDecode
<1>21. CASE RpClearRead
  BY <1>21 DEF RpClearRead
<1>22. CASE RpClearWrite
  BY <1>22 DEF RpClearWrite
<1>23. CASE RpWriteHead
  BY <1>23 DEF RpWriteHead
<1>24. CASE RpWriteBody
  BY <1>24 DEF RpWriteBody
<1>25. CASE RpWriteExt
  BY <1>25 DEF RpWriteExt, RspCells, FrameSize, REGION_SIZE, EXT_PAYLOAD_SIZE,
                 FRAME_HEADER_SIZE, FRAME_CRC_SIZE, Piece
<1>26. CASE RpSetRead
  BY <1>26 DEF RpSetRead
<1>27. CASE RpSetWrite
  BY <1>27 DEF RpSetWrite
<1>28. ASSUME NEW c \in CmdBytes, NEW l \in CmdLens, GbSend(c, l)
       PROVE  HandOff'
  BY <1>28 DEF GbSend
<1>29. ASSUME NEW l \in RspLens, RpDispatch(l)
       PROVE  HandOff'
  BY <1>29 DEF RpDispatch
<1>30. ASSUME NEW cell \in Cells, Damage(cell)
       PROVE  HandOff'
  BY <1>30 DEF Damage, DamagedForms, Noise, Zero
<1>31. CASE UNCHANGED vars
  BY <1>31 DEF vars, gbVars, rpVars
<1> QED
  BY <1>1, <1>2, <1>3, <1>4, <1>5, <1>6, <1>7, <1>8, <1>9, <1>10, <1>11, <1>12, <1>13, <1>14, <1>15, <1>16, <1>17, <1>18, <1>19, <1>20, <1>21, <1>22, <1>23, <1>24, <1>25, <1>26, <1>27, <1>28, <1>29, <1>30, <1>31
     DEF Next, GbStep, RpStep

\* Every step keeps the order of execution.
LEMMA ServedStep ==
  ASSUME TypeOK, HandOff, ServedInOrder, CmdCells, RspCells, [Next]_vars
  PROVE  ServedInOrder'
<1> USE DEF TypeOK, GbPcs, RpPcs, Bits, Piece, ServedInOrder, HandOff, CmdFrame,
           GbInit, RpInit, RpReading, RpAnswering, GbSending, GbReceiving, gbVars, rpVars
<1>1. CASE GbStart
  BY <1>1 DEF GbStart
<1>2. CASE GbZeroCell
  BY <1>2 DEF GbZeroCell
<1>3. CASE GbZeroStatus
  BY <1>3 DEF GbZeroStatus
<1>4. CASE GbWriteHead
  BY <1>4 DEF GbWriteHead
<1>5. CASE GbWriteBody
  BY <1>5 DEF GbWriteBody
<1>6. CASE GbWriteExt
  BY <1>6 DEF GbWriteExt
<1>7. CASE GbSetRead
  BY <1>7 DEF GbSetRead
<1>8. CASE GbSetWrite
  BY <1>8 DEF GbSetWrite
<1>9. CASE GbSeeResponse
  BY <1>9 DEF GbSeeResponse
<1>10. CASE GbReadRaw
  BY <1>10 DEF GbReadRaw
<1>11. CASE GbCopyPayload
  BY <1>11 DEF GbCopyPayload
<1>12. CASE GbCheckCrc
  BY <1>12 DEF GbCheckCrc
<1>13. CASE GbClearRead
  BY <1>13 DEF GbClearRead
<1>14. CASE GbClearWrite
  BY <1>14 DEF GbClearWrite
<1>15. CASE RpZeroCell
  BY <1>15 DEF RpZeroCell
<1>16. CASE RpZeroStatus
  BY <1>16 DEF RpZeroStatus
<1>17. CASE RpPoll
  BY <1>17 DEF RpPoll
<1>18. CASE RpReadRegion
  BY <1>18 DEF RpReadRegion
<1>19. CASE RpReadExt
  BY <1>19 DEF RpReadExt
<1>20. CASE RpDecode
  BY <1>20 DEF RpDecode
<1>21. CASE RpClearRead
  BY <1>21 DEF RpClearRead
<1>22. CASE RpClearWrite
  BY <1>22 DEF RpClearWrite
<1>23. CASE RpWriteHead
  BY <1>23 DEF RpWriteHead
<1>24. CASE RpWriteBody
  BY <1>24 DEF RpWriteBody
<1>25. CASE RpWriteExt
  BY <1>25 DEF RpWriteExt, RspCells, FrameSize, REGION_SIZE, EXT_PAYLOAD_SIZE,
                 FRAME_HEADER_SIZE, FRAME_CRC_SIZE
<1>26. CASE RpSetRead
  BY <1>26 DEF RpSetRead
<1>27. CASE RpSetWrite
  BY <1>27 DEF RpSetWrite
<1>28. ASSUME NEW c \in CmdBytes, NEW l \in CmdLens, GbSend(c, l)
       PROVE  ServedInOrder'
  BY <1>28 DEF GbSend
<1>29. ASSUME NEW l \in RspLens, RpDispatch(l)
       PROVE  ServedInOrder'
  BY <1>29 DEF RpDispatch, CmdCells
<1>30. ASSUME NEW cell \in Cells, Damage(cell)
       PROVE  ServedInOrder'
  BY <1>30 DEF Damage, DamagedForms, Noise, Zero
<1>31. CASE UNCHANGED vars
  BY <1>31 DEF vars, gbVars, rpVars
<1> QED
  BY <1>1, <1>2, <1>3, <1>4, <1>5, <1>6, <1>7, <1>8, <1>9, <1>10, <1>11, <1>12, <1>13, <1>14, <1>15, <1>16, <1>17, <1>18, <1>19, <1>20, <1>21, <1>22, <1>23, <1>24, <1>25, <1>26, <1>27, <1>28, <1>29, <1>30, <1>31
     DEF Next, GbStep, RpStep

\* Every step keeps what is known of the command cells.
LEMMA CmdCellsStep ==
  ASSUME TypeOK, HandOff, CmdCells, [Next]_vars
  PROVE  CmdCells'
<1> USE DEF TypeOK, GbPcs, RpPcs, Bits, Piece, Cells, HandOff, CmdCells, CmdFrame, Zero,
           InitOrder, GbInit, RpInit, RpReading, RpAnswering, GbSending, GbReceiving, gbVars, rpVars
<1>1. CASE GbStart
  BY <1>1 DEF GbStart
<1>2. CASE GbZeroCell
  BY <1>2 DEF GbZeroCell
<1>3. CASE GbZeroStatus
  BY <1>3 DEF GbZeroStatus
<1>4. CASE GbWriteHead
  BY <1>4 DEF GbWriteHead
<1>5. CASE GbWriteBody
  BY <1>5 DEF GbWriteBody
<1>6. CASE GbWriteExt
  BY <1>6 DEF GbWriteExt
<1>7. CASE GbSetRead
  BY <1>7 DEF GbSetRead
<1>8. CASE GbSetWrite
  BY <1>8 DEF GbSetWrite
<1>9. CASE GbSeeResponse
  BY <1>9 DEF GbSeeResponse
<1>10. CASE GbReadRaw
  BY <1>10 DEF GbReadRaw
<1>11. CASE GbCopyPayload
  BY <1>11 DEF GbCopyPayload
<1>12. CASE GbCheckCrc
  BY <1>12 DEF GbCheckCrc
<1>13. CASE GbClearRead
  BY <1>13 DEF GbClearRead
<1>14. CASE GbClearWrite
  BY <1>14 DEF GbClearWrite
<1>15. CASE RpZeroCell
  BY <1>15 DEF RpZeroCell
<1>16. CASE RpZeroStatus
  BY <1>16 DEF RpZeroStatus
<1>17. CASE RpPoll
  BY <1>17 DEF RpPoll
<1>18. CASE RpReadRegion
  BY <1>18 DEF RpReadRegion
<1>19. CASE RpReadExt
  BY <1>19 DEF RpReadExt
<1>20. CASE RpDecode
  BY <1>20 DEF RpDecode
<1>21. CASE RpClearRead
  BY <1>21 DEF RpClearRead
<1>22. CASE RpClearWrite
  BY <1>22 DEF RpClearWrite, RpFrameOk
<1>23. CASE RpWriteHead
  BY <1>23 DEF RpWriteHead
<1>24. CASE RpWriteBody
  BY <1>24 DEF RpWriteBody
<1>25. CASE RpWriteExt
  BY <1>25 DEF RpWriteExt
<1>26. CASE RpSetRead
  BY <1>26 DEF RpSetRead
<1>27. CASE RpSetWrite
  BY <1>27 DEF RpSetWrite
<1>28. ASSUME NEW c \in CmdBytes, NEW l \in CmdLens, GbSend(c, l)
       PROVE  CmdCells'
  BY <1>28 DEF GbSend
<1>29. ASSUME NEW l \in RspLens, RpDispatch(l)
       PROVE  CmdCells'
  BY <1>29 DEF RpDispatch
<1>30. ASSUME NEW cell \in Cells, Damage(cell)
       PROVE  CmdCells'
  BY <1>30 DEF Damage, DamagedForms, Noise, Zero
<1>31. CASE UNCHANGED vars
  BY <1>31 DEF vars, gbVars, rpVars
<1> QED
  BY <1>1, <1>2, <1>3, <1>4, <1>5, <1>6, <1>7, <1>8, <1>9, <1>10, <1>11, <1>12, <1>13, <1>14, <1>15, <1>16, <1>17, <1>18, <1>19, <1>20, <1>21, <1>22, <1>23, <1>24, <1>25, <1>26, <1>27, <1>28, <1>29, <1>30, <1>31
     DEF Next, GbStep, RpStep

\* Every step keeps what is known of the response cells.
LEMMA RspCellsStep ==
  ASSUME TypeOK, HandOff, CmdCells, RspCells, RspFits, [Next]_vars
  PROVE  RspCells'
<1> USE DEF TypeOK, GbPcs, RpPcs, Bits, Piece, Cells, HandOff, RspCells, Ready, CmdFrame,
           RspFrame, Zero, InitOrder, GbInit, RpInit, RpReading, RpAnswering, GbSending, GbReceiving, gbVars, rpVars
<1>1. CASE GbStart
  BY <1>1 DEF GbStart
<1>2. CASE GbZeroCell
  BY <1>2 DEF GbZeroCell
<1>3. CASE GbZeroStatus
  BY <1>3 DEF GbZeroStatus
<1>4. CASE GbWriteHead
  BY <1>4 DEF GbWriteHead
<1>5. CASE GbWriteBody
  BY <1>5 DEF GbWriteBody
<1>6. CASE GbWriteExt
  BY <1>6 DEF GbWriteExt
<1>7. CASE GbSetRead
  BY <1>7 DEF GbSetRead
<1>8. CASE GbSetWrite
  BY <1>8 DEF GbSetWrite
<1>9. CASE GbSeeResponse
  BY <1>9 DEF GbSeeResponse
<1>10. CASE GbReadRaw
  BY <1>10 DEF GbReadRaw
<1>11. CASE GbCopyPayload
  BY <1>11 DEF GbCopyPayload
<1>12. CASE GbCheckCrc
  BY <1>12 DEF GbCheckCrc
<1>13. CASE GbClearRead
  BY <1>13 DEF GbClearRead
<1>14. CASE GbClearWrite
  BY <1>14 DEF GbClearWrite
<1>15. CASE RpZeroCell
  BY <1>15 DEF RpZeroCell
<1>16. CASE RpZeroStatus
  BY <1>16 DEF RpZeroStatus
<1>17. CASE RpPoll
  BY <1>17 DEF RpPoll
<1>18. CASE RpReadRegion
  BY <1>18 DEF RpReadRegion
<1>19. CASE RpReadExt
  BY <1>19 DEF RpReadExt
<1>20. CASE RpDecode
  BY <1>20 DEF RpDecode
<1>21. CASE RpClearRead
  BY <1>21 DEF RpClearRead
<1>22. CASE RpClearWrite
  BY <1>22 DEF RpClearWrite
<1>23. CASE RpWriteHead
  BY <1>23 DEF RpWriteHead
<1>24. CASE RpWriteBody
  BY <1>24 DEF RpWriteBody, FrameSize, REGION_SIZE, EXT_PAYLOAD_SIZE,
                 FRAME_HEADER_SIZE, FRAME_CRC_SIZE
<1>25. CASE RpWriteExt
  BY <1>25 DEF RpWriteExt, FrameSize, REGION_SIZE, EXT_PAYLOAD_SIZE,
                 FRAME_HEADER_SIZE, FRAME_CRC_SIZE
<1>26. CASE RpSetRead
  BY <1>26 DEF RpSetRead
<1>27. CASE RpSetWrite
  BY <1>27 DEF RpSetWrite
<1>28. ASSUME NEW c \in CmdBytes, NEW l \in CmdLens, GbSend(c, l)
       PROVE  RspCells'
  BY <1>28 DEF GbSend
<1>29. ASSUME NEW l \in RspLens, RpDispatch(l)
       PROVE  RspCells'
  BY <1>29 DEF RpDispatch, CmdCells, RspFits, Reply
<1>30. ASSUME NEW cell \in Cells, Damage(cell)
       PROVE  RspCells'
  BY <1>30 DEF Damage, DamagedForms, Noise, Zero
<1>31. CASE UNCHANGED vars
  BY <1>31 DEF vars, gbVars, rpVars
<1> QED
  BY <1>1, <1>2, <1>3, <1>4, <1>5, <1>6, <1>7, <1>8, <1>9, <1>10, <1>11, <1>12, <1>13, <1>14, <1>15, <1>16, <1>17, <1>18, <1>19, <1>20, <1>21, <1>22, <1>23, <1>24, <1>25, <1>26, <1>27, <1>28, <1>29, <1>30, <1>31
     DEF Next, GbStep, RpStep

\* Every step keeps what is known of the Game Boy's copies.
LEMMA RspReadStep ==
  ASSUME TypeOK, HandOff, RspCells, RspRead, [Next]_vars
  PROVE  RspRead'
<1> USE DEF TypeOK, GbPcs, RpPcs, Bits, Piece, Cells, HandOff, RspRead, RspCells, Ready,
           CmdFrame, RspFrame, Zero, InitOrder, GbInit, RpInit, RpReading, RpAnswering, GbSending, GbReceiving, gbVars, rpVars
<1>1. CASE GbStart
  BY <1>1 DEF GbStart
<1>2. CASE GbZeroCell
  BY <1>2 DEF GbZeroCell
<1>3. CASE GbZeroStatus
  BY <1>3 DEF GbZeroStatus
<1>4. CASE GbWriteHead
  BY <1>4 DEF GbWriteHead
<1>5. CASE GbWriteBody
  BY <1>5 DEF GbWriteBody
<1>6. CASE GbWriteExt
  BY <1>6 DEF GbWriteExt
<1>7. CASE GbSetRead
  BY <1>7 DEF GbSetRead
<1>8. CASE GbSetWrite
  BY <1>8 DEF GbSetWrite
<1>9. CASE GbSeeResponse
  BY <1>9 DEF GbSeeResponse
<1>10. CASE GbReadRaw
  BY <1>10 DEF GbReadRaw
<1>11. CASE GbCopyPayload
  <2>1. /\ GbReceiving /\ Ready /\ mem' = mem /\ rpRsp' = rpRsp /\ gbRaw' = gbRaw
        /\ gbPc' = "crc" /\ rpRsp \in Piece /\ BufSize \in Nat
    BY <1>11, LensAssumption DEF GbCopyPayload
  <2>2. ASSUME rpRsp.len <= BufSize, mem["rspHead"].dir = "rsp", mem["rspBody"].dir = "rsp",
               FrameSize(rpRsp.len) > REGION_SIZE => mem["ext"].dir = "rsp"
        PROVE  gbBuf' = [body |-> rpRsp, ext |-> rpRsp]
    <3>1. gbRaw.head = rpRsp /\ gbRaw.body = rpRsp
      BY <1>11, <2>2 DEF GbCopyPayload
    <3>2. rpRsp.len > REGION_SIZE - FRAME_HEADER_SIZE => mem["ext"] = rpRsp
      BY <2>1, <2>2 DEF FrameSize, REGION_SIZE, FRAME_HEADER_SIZE, FRAME_CRC_SIZE
    <3>3. ~(gbRaw.head.len > BufSize)
      BY <2>1, <2>2, <3>1
    <3> QED
      BY <1>11, <3>1, <3>2, <3>3 DEF GbCopyPayload
  <2> QED
    BY <1>11, <2>1, <2>2 DEF GbCopyPayload
<1>12. CASE GbCheckCrc
  BY <1>12 DEF GbCheckCrc
<1>13. CASE GbClearRead
  BY <1>13 DEF GbClearRead
<1>14. CASE GbClearWrite
  BY <1>14 DEF GbClearWrite
<1>15. CASE RpZeroCell
  BY <1>15 DEF RpZeroCell
<1>16. CASE RpZeroStatus
  BY <1>16 DEF RpZeroStatus
<1>17. CASE RpPoll
  BY <1>17 DEF RpPoll
<1>18. CASE RpReadRegion
  BY <1>18 DEF RpReadRegion
<1>19. CASE RpReadExt
  BY <1>19 DEF RpReadExt
<1>20. CASE RpDecode
  BY <1>20 DEF RpDecode
<1>21. CASE RpClearRead
  BY <1>21 DEF RpClearRead
<1>22. CASE RpClearWrite
  BY <1>22 DEF RpClearWrite
<1>23. CASE RpWriteHead
  BY <1>23 DEF RpWriteHead
<1>24. CASE RpWriteBody
  BY <1>24 DEF RpWriteBody
<1>25. CASE RpWriteExt
  BY <1>25 DEF RpWriteExt
<1>26. CASE RpSetRead
  BY <1>26 DEF RpSetRead
<1>27. CASE RpSetWrite
  BY <1>27 DEF RpSetWrite
<1>28. ASSUME NEW c \in CmdBytes, NEW l \in CmdLens, GbSend(c, l)
       PROVE  RspRead'
  BY <1>28 DEF GbSend
<1>29. ASSUME NEW l \in RspLens, RpDispatch(l)
       PROVE  RspRead'
  BY <1>29 DEF RpDispatch
<1>30. ASSUME NEW cell \in Cells, Damage(cell)
       PROVE  RspRead'
  BY <1>30 DEF Damage, DamagedForms, Noise, Zero
<1>31. CASE UNCHANGED vars
  BY <1>31 DEF vars, gbVars, rpVars
<1> QED
  BY <1>1, <1>2, <1>3, <1>4, <1>5, <1>6, <1>7, <1>8, <1>9, <1>10, <1>11, <1>12, <1>13, <1>14, <1>15, <1>16, <1>17, <1>18, <1>19, <1>20, <1>21, <1>22, <1>23, <1>24, <1>25, <1>26, <1>27, <1>28, <1>29, <1>30, <1>31
     DEF Next, GbStep, RpStep

\* Every step keeps the promise of a finished call.
LEMMA CallStep ==
  ASSUME TypeOK, HandOff, ServedInOrder, RspCells, RspRead, CallReturnsItsResponse, [Next]_vars
  PROVE  CallReturnsItsResponse'
<1> USE DEF TypeOK, GbPcs, RpPcs, Bits, Piece, HandOff, CallReturnsItsResponse,
           GbInit, RpInit, RpReading, RpAnswering, GbSending, GbReceiving, gbVars, rpVars
<1>1. CASE GbStart
  BY <1>1 DEF GbStart
<1>2. CASE GbZeroCell
  BY <1>2 DEF GbZeroCell
<1>3. CASE GbZeroStatus
  BY <1>3 DEF GbZeroStatus
<1>4. CASE GbWriteHead
  BY <1>4 DEF GbWriteHead
<1>5. CASE GbWriteBody
  BY <1>5 DEF GbWriteBody
<1>6. CASE GbWriteExt
  BY <1>6 DEF GbWriteExt
<1>7. CASE GbSetRead
  BY <1>7 DEF GbSetRead
<1>8. CASE GbSetWrite
  BY <1>8 DEF GbSetWrite
<1>9. CASE GbSeeResponse
  BY <1>9 DEF GbSeeResponse
<1>10. CASE GbReadRaw
  BY <1>10 DEF GbReadRaw, Errors
<1>11. CASE GbCopyPayload
  BY <1>11 DEF GbCopyPayload
<1>12. CASE GbCheckCrc
  BY <1>12 DEF GbCheckCrc, GbCrcOk, RspCells, RspRead, Ready,
                 ServedInOrder, RspFrame, Errors
<1>13. CASE GbClearRead
  BY <1>13 DEF GbClearRead
<1>14. CASE GbClearWrite
  BY <1>14 DEF GbClearWrite
<1>15. CASE RpZeroCell
  BY <1>15 DEF RpZeroCell
<1>16. CASE RpZeroStatus
  BY <1>16 DEF RpZeroStatus
<1>17. CASE RpPoll
  BY <1>17 DEF RpPoll
<1>18. CASE RpReadRegion
  BY <1>18 DEF RpReadRegion
<1>19. CASE RpReadExt
  BY <1>19 DEF RpReadExt
<1>20. CASE RpDecode
  BY <1>20 DEF RpDecode
<1>21. CASE RpClearRead
  BY <1>21 DEF RpClearRead
<1>22. CASE RpClearWrite
  BY <1>22 DEF RpClearWrite
<1>23. CASE RpWriteHead
  BY <1>23 DEF RpWriteHead
<1>24. CASE RpWriteBody
  BY <1>24 DEF RpWriteBody
<1>25. CASE RpWriteExt
  BY <1>25 DEF RpWriteExt
<1>26. CASE RpSetRead
  BY <1>26 DEF RpSetRead
<1>27. CASE RpSetWrite
  BY <1>27 DEF RpSetWrite
<1>28. ASSUME NEW c \in CmdBytes, NEW l \in CmdLens, GbSend(c, l)
       PROVE  CallReturnsItsResponse'
  BY <1>28 DEF GbSend
<1>29. ASSUME NEW l \in RspLens, RpDispatch(l)
       PROVE  CallReturnsItsResponse'
  BY <1>29 DEF RpDispatch
<1>30. ASSUME NEW cell \in Cells, Damage(cell)
       PROVE  CallReturnsItsResponse'
  BY <1>30 DEF Damage, DamagedForms, Noise, Zero
<1>31. CASE UNCHANGED vars
  BY <1>31 DEF vars, gbVars, rpVars
<1> QED
  BY <1>1, <1>2, <1>3, <1>4, <1>5, <1>6, <1>7, <1>8, <1>9, <1>10, <1>11, <1>12, <1>13, <1>14, <1>15, <1>16, <1>17, <1>18, <1>19, <1>20, <1>21, <1>22, <1>23, <1>24, <1>25, <1>26, <1>27, <1>28, <1>29, <1>30, <1>31
     DEF Next, GbStep, RpStep

\* The initial states satisfy the invariant.
LEMMA InitHolds == Init => IInv
<1> SUFFICES ASSUME Init PROVE IInv
  OBVIOUS
<1>1. TypeOK
  BY BytesAssumption, StartAssumption
     DEF Init, TypeOK, Piece, Cells, Bits, GbPcs, RpPcs, Zero, LastSession, CmdFrame,
         RspFrame, Errors, ResponseCode
<1>2. HandOff /\ ServedInOrder /\ CmdCells /\ RspCells /\ RspRead /\ CallReturnsItsResponse
  BY DEF Init, HandOff, ServedInOrder, CmdCells, RspCells, RspRead, Ready, GbInit, RpInit,
         RpReading, RpAnswering, GbSending, GbReceiving, CallReturnsItsResponse, CmdFrame
<1> QED
  BY <1>1, <1>2 DEF IInv

\* IInv is inductive.
LEMMA StepHolds ==
  ASSUME RspFits, IInv, [Next]_vars
  PROVE  IInv'
<1>1. TypeOK /\ HandOff /\ ServedInOrder /\ CmdCells /\ RspCells /\ RspRead
        /\ CallReturnsItsResponse
  BY DEF IInv
<1>2. TypeOK'
  BY <1>1, TypeStep
<1>3. HandOff'
  BY <1>1, HandOffStep
<1>4. ServedInOrder'
  BY <1>1, ServedStep
<1>5. CmdCells'
  BY <1>1, CmdCellsStep
<1>6. RspCells'
  BY <1>1, RspCellsStep
<1>7. RspRead'
  BY <1>1, RspReadStep
<1>8. CallReturnsItsResponse'
  BY <1>1, CallStep
<1> QED
  BY <1>2, <1>3, <1>4, <1>5, <1>6, <1>7, <1>8 DEF IInv

(***************************************************************************)
(* Theorems.                                                               *)
(***************************************************************************)

\* The channel's variables keep their types.
THEOREM TypeCorrect == Spec => []TypeOK
<1>1. Init => TypeOK
  BY InitHolds DEF IInv
<1>2. TypeOK /\ [Next]_vars => TypeOK'
  BY TypeStep
<1> QED
  BY <1>1, <1>2, PTL DEF Spec

\* The baton, the order of execution and the contents of the cells are
\* invariant: the induction every theorem below rests on.
THEOREM Invariance ==
  ASSUME RspFits PROVE Spec => []IInv
<1>1. Init => IInv
  BY InitHolds
<1>2. IInv /\ [Next]_vars => IInv'
  BY StepHolds
<1> QED
  BY <1>1, <1>2, PTL DEF Spec

\* No unlocked read-then-write of the status byte loses the other side's
\* change, for any commands, lengths, faults and start order.
THEOREM StatusUpdatesSurvive ==
  ASSUME RspFits PROVE Spec => []NoLostStatusUpdate
<1>1. IInv => NoLostStatusUpdate
  BY DEF IInv, HandOff, NoLostStatusUpdate, GbSending, GbReceiving, RpReading, RpAnswering,
         RpInit
<1> QED
  BY <1>1, Invariance, PTL

\* With the right start order the regions have one user at a time.
THEOREM RegionsHaveOneUser ==
  ASSUME RspFits PROVE Spec => []RegionsNotShared
<1>1. IInv => RegionsNotShared
  BY DEF IInv, HandOff, RegionsNotShared, GbInit, RpInit, GbSending, GbReceiving
<1> QED
  BY <1>1, Invariance, PTL

\* A call that ends with a response code ends with its own.
THEOREM CallsAreAnsweredByTheirOwnResponse ==
  ASSUME RspFits PROVE Spec => []CallReturnsItsResponse
<1>1. IInv => CallReturnsItsResponse
  BY DEF IInv
<1> QED
  BY <1>1, Invariance, PTL

\* Initially the channel is idle and nothing was sent.
LEMMA InitRefines == Init => Abs!Init
  BY DEF Init, Abs!Init, Outstanding, GbSending, CmdFrame, Errors

\* Every step of the channel is a step of SyncChannel or changes none of its
\* variables.
LEMMA StepRefines ==
  ASSUME IInv, [Next]_vars
  PROVE  [Abs!Next]_(Abs!vars)
<1> USE DEF Abs!vars, Outstanding, GbSending, IInv, gbVars, rpVars
<1>1. CASE \/ GbStart \/ GbZeroCell \/ GbZeroStatus \/ GbWriteHead \/ GbWriteBody
           \/ GbWriteExt \/ GbSetRead \/ GbSetWrite \/ GbSeeResponse \/ GbCopyPayload
           \/ GbClearRead \/ GbClearWrite
  BY <1>1 DEF GbStart, GbZeroCell, GbZeroStatus, GbWriteHead, GbWriteBody, GbWriteExt,
              GbSetRead, GbSetWrite, GbSeeResponse, GbCopyPayload, GbClearRead, GbClearWrite
<1>2. CASE \/ RpZeroCell \/ RpZeroStatus \/ RpPoll \/ RpReadRegion \/ RpReadExt \/ RpDecode
           \/ RpClearRead \/ RpClearWrite \/ RpWriteHead \/ RpWriteBody \/ RpWriteExt
           \/ RpSetRead \/ RpSetWrite
  BY <1>2 DEF RpZeroCell, RpZeroStatus, RpPoll, RpReadRegion, RpReadExt, RpDecode,
              RpClearRead, RpClearWrite, RpWriteHead, RpWriteBody, RpWriteExt, RpSetRead,
              RpSetWrite
<1>3. ASSUME NEW c \in CmdBytes, NEW l \in CmdLens, GbSend(c, l)
      PROVE  Abs!Send(c)
  BY <1>3 DEF GbSend, Abs!Send, CmdFrame
<1>4. CASE GbReadRaw
  <2>1. CASE MagicOk(mem["rspHead"])
    BY <1>4, <2>1 DEF GbReadRaw
  <2>2. CASE ~MagicOk(mem["rspHead"])
    <3>1. Abs!Fail("COMM_ERROR")
      BY <1>4, <2>2 DEF GbReadRaw, Abs!Fail
    <3> QED
      BY <3>1 DEF Abs!Next, Errors
  <2> QED
    BY <2>1, <2>2
<1>5. CASE GbCheckCrc
  <2>1. CASE GbCrcOk
    <3>1. gbRaw.head = rpRsp /\ served = gbReq.seq
            /\ rpRsp = RspFrame(gbReq.seq, Reply(gbReq.byte), rpRsp.len)
      BY <1>5, <2>1 DEF GbCheckCrc, GbCrcOk, RspRead, RspCells, Ready, GbReceiving,
                        ServedInOrder
    <3>2. Abs!Deliver
      BY <1>5, <2>1, <3>1 DEF GbCheckCrc, Abs!Deliver, RspFrame
    <3> QED
      BY <3>2 DEF Abs!Next
  <2>2. CASE ~GbCrcOk
    <3>1. Abs!Fail("CHECKSUM_ERR")
      BY <1>5, <2>2 DEF GbCheckCrc, Abs!Fail
    <3> QED
      BY <3>1 DEF Abs!Next, Errors
  <2> QED
    BY <2>1, <2>2
<1>6. ASSUME NEW l \in RspLens, RpDispatch(l)
      PROVE  Abs!Serve
  <2>1. gbPc = "wait" /\ rpRaw.head = gbReq /\ served + 1 = gbReq.seq
    BY <1>6 DEF RpDispatch, HandOff, CmdCells, ServedInOrder
  <2>2. served \in Nat
    BY DEF TypeOK
  <2> QED
    BY <1>6, <2>1, <2>2 DEF RpDispatch, Abs!Serve
<1>7. ASSUME NEW cell \in Cells, Damage(cell)
      PROVE  UNCHANGED Abs!vars
  BY <1>7 DEF Damage
<1>8. CASE UNCHANGED vars
  BY <1>8 DEF vars
<1> QED
  BY <1>1, <1>2, <1>3, <1>4, <1>5, <1>6, <1>7, <1>8
     DEF Next, GbStep, RpStep, Abs!Next

\* The channel implements the abstract synchronous call: at most one command
\* outstanding, none executed twice, no call answered by another's response.
THEOREM Refinement ==
  ASSUME RspFits PROVE Spec => ImplementsSyncChannel
<1>1. Init => Abs!Init
  BY InitRefines
<1>2. IInv /\ [Next]_vars => [Abs!Next]_(Abs!vars)
  BY StepRefines
<1> QED
  BY <1>1, <1>2, Invariance, PTL DEF Spec, Abs!Spec, ImplementsSyncChannel

=============================================================================
