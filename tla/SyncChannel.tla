---------------------------- MODULE SyncChannel ----------------------------
(***************************************************************************)
(* What the wallet channel promises its two users, without its memory: a   *)
(* Game Boy caller has one command outstanding at a time, the RP2350       *)
(* executes each command at most once, and the call returns either a       *)
(* transport error or the reply of the very command that was sent.         *)
(* PROTOCOL.md:11 calls this "Synchronous: GB writes command, polls for    *)
(* response".  GbChannel implements it.                                    *)
(***************************************************************************)
EXTENDS Naturals

CONSTANTS
  CmdBytes,          \* the command bytes a caller may send
  Errors,            \* the transport errors a call may return
  Reply(_)           \* the response code of a command

VARIABLES
  phase,             \* "idle", or "sent" while a call is outstanding
  seq,               \* number of commands sent so far
  served,            \* number of the last command executed
  cmd,               \* the command of the last call
  outcome            \* what the last finished call returned

vars == <<phase, seq, served, cmd, outcome>>

Init ==
  /\ phase = "idle"
  /\ seq = 0
  /\ served = 0
  /\ cmd \in CmdBytes
  /\ outcome \in Errors

Send(c) ==
  /\ phase = "idle"
  /\ phase' = "sent"
  /\ seq' = seq + 1
  /\ cmd' = c
  /\ UNCHANGED <<served, outcome>>

Serve ==
  /\ phase = "sent"
  /\ served < seq
  /\ served' = seq
  /\ UNCHANGED <<phase, seq, cmd, outcome>>

Deliver ==
  /\ phase = "sent"
  /\ served = seq
  /\ phase' = "idle"
  /\ outcome' = Reply(cmd)
  /\ UNCHANGED <<seq, served, cmd>>

Fail(e) ==
  /\ phase = "sent"
  /\ phase' = "idle"
  /\ outcome' = e
  /\ UNCHANGED <<seq, served, cmd>>

Next ==
  \/ \E c \in CmdBytes : Send(c)
  \/ Serve
  \/ Deliver
  \/ \E e \in Errors : Fail(e)

Spec == Init /\ [][Next]_vars
=============================================================================
