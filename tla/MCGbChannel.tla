---------------------------- MODULE MCGbChannel ----------------------------
(***************************************************************************)
(* Instances of GbChannel for TLC.  Payload lengths are the ends of the    *)
(* ranges in which a frame uses the same cells: 58 is the longest payload  *)
(* whose frame fits one region, 59 and 60 push one and both CRC bytes into *)
(* the extended buffer, 170 is the longest that fits region and buffer.    *)
(***************************************************************************)
EXTENDS GbChannel

MCCmdBytes == {"GetAddress", "Unknown"}
MCKnownCmds == {"GetAddress"}
MCCmdLens == {0, 58, 59, 170}
MCRspLens == {0, 59, 60, 170}
MCBadLens == {100, 177}

\* What the wallet ROM of this commit sends (a byte, an index, a PIN), and the
\* empty payload every stub of dispatch_wallet_command answers with.
TodaysCmdLens == {0, 1, 5, 8}
TodaysRspLens == {0}

\* The shortest command whose CRC does not end inside the command region.
FirstLongCmd == {59}
=============================================================================
