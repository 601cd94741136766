----------------------------- MODULE UsbWallet -----------------------------
(***************************************************************************)
(* Signing a transaction for a host on the USB serial line                 *)
(* (UsbWalletProtocol of comm/usb_protocol.rs): the host's requests, the   *)
(* frame reader they pass through chunk by chunk, the handler with its     *)
(* rate limit and signing states, and the user who looks at the preview on *)
(* the Game Boy and answers.  The task that reads the line is not part of  *)
(* this commit; it is taken to use the reader as its tests do: feed what   *)
(* arrived, handle the frame, feed nothing until no frame is left.         *)
(*                                                                         *)
(* A transaction is known by the number of the request that brought it.    *)
(***************************************************************************)
EXTENDS FrameReader

CONSTANTS
  Cmds,                \* requests the host may send
  BadLens,             \* what a byte of noise says when read as a length
  MAX_CMDS_PER_SEC,
  SECOND,              \* ticks of the clock in a second
  MaxReqs,             \* bound: requests
  MaxNoise             \* bound: bytes of noise

ASSUME UsbAssumption ==
  /\ Cmds \subseteq {"SEND_PSBT", "SEND_BROKEN", "GET_SIGNED_PSBT", "GET_FIRMWARE_VER",
                     "GET_XPUB", "WIPE_WALLET", "UNKNOWN"}
  /\ BadLens \subseteq Nat
  /\ MAX_CMDS_PER_SEC \in 1..254      \* a saturated count exceeds it
  /\ SECOND \in Nat \ {0}
  /\ MaxReqs \in Nat /\ MaxNoise \in Nat

VARIABLES
  sent, host,          \* number of requests so far; the host is "idle" or "waiting"
  wire, toHost,        \* bytes and replies on the line
  task, frame,         \* reading task: "read", "handle", "drain"; its frame
  state,               \* SigningState
  unsigned, signed,    \* the PSBT in either buffer, 0 for none
  preview,             \* transaction of tx_preview
  unlocked,            \* wallet_unlocked
  age, count,          \* time since last_cmd_ms, cmd_count
  shown,               \* transaction on the Game Boy's screen, 0 for none
  noise,               \* bytes of noise so far
  approved,            \* history: transactions approved and not yet delivered
  handled,             \* history: the last request handled
  recent               \* history: ages of the commands let through within a second

lineVars == <<sent, host, wire, toHost, noise>>
taskVars == <<readerVars, task, frame, handled>>
signVars == <<state, unsigned, signed, preview>>
rateVars == <<age, count, recent>>
userVars == <<shown, unlocked, approved>>
vars == <<lineVars, taskVars, signVars, rateVars, userVars>>

U8_MAX == 255
NoFrame == [req |-> 0, cmd |-> "none"]
Reply(kind, tx) == [kind |-> kind, tx |-> tx, req |-> frame.req]

Init ==
  /\ sent = 0 /\ host = "idle" /\ wire = <<>> /\ toHost = <<>> /\ noise = 0
  /\ ReaderInit /\ task = "read" /\ frame = NoFrame /\ handled = 0
  /\ state = "Idle" /\ unsigned = 0 /\ signed = 0 /\ preview = 0
  /\ age = 0 /\ count = 0 /\ recent = <<>>
  /\ shown = 0 /\ unlocked = FALSE /\ approved = {}

(***************************************************************************)
(* The host and the line.                                                  *)
(***************************************************************************)
PayloadLen(c) == IF c \in {"SEND_PSBT", "SEND_BROKEN"} THEN MAX_PAYLOAD ELSE 0

HostSend(c) ==
  /\ host = "idle" /\ sent < MaxReqs
  /\ sent' = sent + 1 /\ host' = "waiting"
  /\ wire' = wire \o Frame(sent', c, PayloadLen(c))
  /\ UNCHANGED <<toHost, noise, taskVars, signVars, rateVars, userVars>>

HostRead ==
  /\ toHost # <<>> /\ host = "waiting"
  /\ toHost' = Tail(toHost) /\ host' = "idle"
  /\ UNCHANGED <<sent, wire, noise, taskVars, signVars, rateVars, userVars>>

\* The host's read times out when nothing is on its way any more.
HostTimeout ==
  /\ host = "waiting" /\ wire = <<>> /\ task = "read" /\ toHost = <<>>
  /\ host' = "idle"
  /\ UNCHANGED <<sent, wire, toHost, noise, taskVars, signVars, rateVars, userVars>>

\* A byte of noise in front of what is on the line, or instead of one byte of it;
\* what it says as a length is told apart only where one is read.
LengthBytes == {3, 4}
NoLen == CHOOSE l \in BadLens : TRUE

Noise(l) ==
  /\ noise < MaxNoise /\ noise' = noise + 1
  /\ wire # <<>>
  /\ \/ l = NoLen /\ wire' = <<Junk(l)>> \o wire
     \/ \E k \in 1..Len(wire) :
          /\ wire[k].at \in LengthBytes \/ l = NoLen
          /\ wire' = [wire EXCEPT ![k] = Junk(l)]
  /\ UNCHANGED <<sent, host, toHost, taskVars, signVars, rateVars, userVars>>

(***************************************************************************)
(* The task that reads the line.                                           *)
(***************************************************************************)
Feed(data) ==
  \/ FeedFrame(data) /\ frame' = [req |-> buf'[1].req, cmd |-> buf'[1].cmd] /\ task' = "handle"
  \/ FeedNothing(data) /\ frame' = NoFrame /\ task' = "read"

ReadChunk(k) ==
  /\ task = "read"
  /\ Feed(SubSeq(wire, 1, k))
  /\ wire' = SubSeq(wire, k + 1, Len(wire))
  /\ UNCHANGED <<sent, host, toHost, noise, handled, signVars, rateVars, userVars>>

Drain ==
  /\ task = "drain"
  /\ Feed(<<>>)
  /\ UNCHANGED <<lineVars, handled, signVars, rateVars, userVars>>

(***************************************************************************)
(* handle_usb_command.                                                     *)
(***************************************************************************)
NewWindow == age >= SECOND

\* Mutant: a new window goes on with the count of the last one.
Counted_GoesOn == IF count < U8_MAX THEN count + 1 ELSE count

\* cmd_count with this command in it; the sum saturates.
Counted == IF NewWindow THEN 1 ELSE IF count < U8_MAX THEN count + 1 ELSE count

WithinRate == NewWindow \/ Counted <= MAX_CMDS_PER_SEC

CheckRate(pass) ==
  /\ pass = WithinRate
  /\ count' = Counted /\ age' = IF NewWindow THEN 0 ELSE age
  /\ recent' = IF pass THEN Append(recent, 0) ELSE recent

Answer(reply) ==
  /\ toHost' = Append(toHost, reply)
  /\ task' = "drain" /\ handled' = frame.req /\ frame' = NoFrame
  /\ UNCHANGED <<sent, host, wire, noise, readerVars, shown, unlocked>>

HandleBusy ==
  /\ task = "handle" /\ CheckRate(FALSE)
  /\ Answer(Reply("BUSY", 0))
  /\ UNCHANGED <<signVars, approved>>

HandleLocked ==
  /\ task = "handle" /\ CheckRate(TRUE)
  /\ ~unlocked /\ frame.cmd # "GET_FIRMWARE_VER"
  /\ Answer(Reply("LOCKED", 0))
  /\ UNCHANGED <<signVars, approved>>

Accepts(cmds) ==
  /\ task = "handle" /\ CheckRate(TRUE)
  /\ frame.cmd \in cmds
  /\ unlocked \/ frame.cmd = "GET_FIRMWARE_VER"

\* Mutant: a new transaction replaces one the user has not answered.
CanSend_WhileShown == state \in {"Idle", "AwaitingConfirmation"}

CanSend == state = "Idle"

SendRefused ==
  /\ Accepts({"SEND_PSBT", "SEND_BROKEN"}) /\ ~CanSend
  /\ Answer(Reply("BUSY", 0))
  /\ UNCHANGED <<signVars, approved>>

SendStored ==
  /\ Accepts({"SEND_PSBT"}) /\ CanSend
  /\ unsigned' = frame.req /\ preview' = frame.req /\ state' = "AwaitingConfirmation"
  /\ Answer(Reply("NEED_CONFIRM", frame.req))
  /\ UNCHANGED <<signed, approved>>

SendUnparsed ==
  /\ Accepts({"SEND_BROKEN"}) /\ CanSend
  /\ unsigned' = 0
  /\ Answer(Reply("PSBT_PARSE", 0))
  /\ UNCHANGED <<state, signed, preview, approved>>

FetchSigned ==
  /\ Accepts({"GET_SIGNED_PSBT"}) /\ state = "Signed"
  /\ state' = "Idle" /\ unsigned' = 0 /\ signed' = 0
  /\ approved' = approved \ {signed}
  /\ Answer(Reply("CONFIRMED", signed))
  /\ UNCHANGED preview

FetchRejected ==
  /\ Accepts({"GET_SIGNED_PSBT"}) /\ state = "Rejected"
  /\ state' = "Idle" /\ unsigned' = 0
  /\ Answer(Reply("REJECTED", 0))
  /\ UNCHANGED <<signed, preview, approved>>

FetchNothing ==
  /\ Accepts({"GET_SIGNED_PSBT"}) /\ state \in {"AwaitingConfirmation", "Idle"}
  /\ Answer(Reply(IF state = "Idle" THEN "NO_PENDING" ELSE "BUSY", 0))
  /\ UNCHANGED <<signVars, approved>>

\* Requests that touch no state: two of them are not implemented yet.
HandleOther ==
  /\ Accepts({"GET_FIRMWARE_VER", "GET_XPUB", "WIPE_WALLET", "UNKNOWN"})
  /\ Answer(Reply(CASE frame.cmd = "GET_FIRMWARE_VER" -> "OK"
                    [] frame.cmd \in {"GET_XPUB", "WIPE_WALLET"} -> "LOCKED"
                    [] frame.cmd = "UNKNOWN" -> "INVALID_FRAME", 0))
  /\ UNCHANGED <<signVars, approved>>

Handle ==
  \/ HandleBusy \/ HandleLocked
  \/ SendRefused \/ SendStored \/ SendUnparsed
  \/ FetchSigned \/ FetchRejected \/ FetchNothing
  \/ HandleOther

(***************************************************************************)
(* The user at the Game Boy, the wallet's lock and the clock.              *)
(***************************************************************************)
ShowPreview ==
  /\ state = "AwaitingConfirmation" /\ unlocked /\ shown # preview
  /\ shown' = preview
  /\ UNCHANGED <<lineVars, taskVars, signVars, rateVars, unlocked, approved>>

\* The user answers what is on the screen, which then leaves the screen;
\* confirm_and_sign needs a key, so the wallet is unlocked.
Approves ==
  /\ shown # 0 /\ unlocked /\ state = "AwaitingConfirmation"
  /\ shown' = 0
  /\ UNCHANGED <<lineVars, taskVars, rateVars, unlocked>>

Confirm ==
  /\ Approves
  /\ approved' = approved \cup {shown}
  /\ signed' = unsigned /\ state' = "Signed"
  /\ UNCHANGED <<unsigned, preview>>

\* Signing fails, or what it yields does not fit the buffer.
ConfirmFails ==
  /\ Approves
  /\ state' = "Idle" /\ signed' \in {signed, 0}
  /\ UNCHANGED <<unsigned, preview, approved>>

Reject ==
  /\ shown # 0 /\ shown' = 0
  /\ state' = IF state = "AwaitingConfirmation" THEN "Rejected" ELSE state
  /\ UNCHANGED <<lineVars, taskVars, unsigned, signed, preview, rateVars, unlocked, approved>>

SetUnlocked ==
  /\ unlocked' = ~unlocked
  /\ shown' = IF unlocked THEN 0 ELSE shown
  /\ UNCHANGED <<lineVars, taskVars, signVars, rateVars, approved>>

\* The ages descend: the commands a second old fall off the front.
Tick ==
  /\ age < SECOND \/ recent # <<>>
  /\ age' = IF age < SECOND THEN age + 1 ELSE age
  /\ \E n \in 0..Len(recent) :
       /\ \A i \in 1..Len(recent) : i <= n <=> recent[i] + 1 >= SECOND
       /\ recent' = [i \in 1..(Len(recent) - n) |-> recent[i + n] + 1]
  /\ UNCHANGED <<lineVars, taskVars, signVars, count, userVars>>

Next ==
  \/ \E c \in Cmds : HostSend(c)
  \/ HostRead \/ HostTimeout
  \/ \E l \in BadLens : Noise(l)
  \/ \E k \in 1..Len(wire) : ReadChunk(k)
  \/ Drain \/ Handle
  \/ ShowPreview \/ Confirm \/ ConfirmFails \/ Reject \/ SetUnlocked
  \/ Tick

Spec == Init /\ [][Next]_vars

(***************************************************************************)
(* Properties.                                                             *)
(***************************************************************************)
Kinds == {"BUSY", "LOCKED", "NEED_CONFIRM", "PSBT_PARSE", "CONFIRMED", "REJECTED", "NO_PENDING",
          "OK", "INVALID_FRAME"}
Ids == 0..MaxReqs

\* Every variable keeps its type, and the reader never writes past its buffer.
TypeOK ==
  /\ sent \in 0..MaxReqs /\ host \in {"idle", "waiting"}
  /\ \A i \in 1..Len(toHost) : toHost[i] \in [kind : Kinds, tx : Ids, req : Ids]
  /\ Len(buf) <= CAPACITY /\ consumed \in 0..Len(buf)
  /\ task \in {"read", "handle", "drain"} /\ frame.req \in 0..sent
  /\ frame.cmd \in Cmds \cup {"none"} /\ handled \in 0..sent
  /\ state \in {"Idle", "AwaitingConfirmation", "Signed", "Rejected"}
  /\ {unsigned, signed, preview, shown} \subseteq Ids /\ approved \subseteq Ids
  /\ age \in 0..SECOND /\ count \in 0..U8_MAX /\ unlocked \in BOOLEAN

\* The wallet delivers only what the user has approved on the screen, and each
\* approval delivers once: whatever the host sends between the preview, the
\* answer and the fetch.
OnlyApprovedDelivered ==
  [][\A i \in 1..Len(toHost') :
       (i > Len(toHost) /\ toHost'[i].kind = "CONFIRMED") => toHost'[i].tx \in approved]_vars

\* No request is answered twice or after a later one, however the stream is cut
\* into chunks and wherever noise falls.
AnsweredInOrder ==
  [][\A i \in 1..Len(toHost') : i > Len(toHost) => toHost'[i].req > handled]_vars

\* "Excess commands return ERR_BUSY", and no others do: a command is refused only when
\* the second before it has let the whole limit through, whatever window it falls in.
OnlyExcessRefused ==
  task = "handle" /\ ~WithinRate => Len(recent) >= MAX_CMDS_PER_SEC

\* "Max 10 commands per second. Excess commands return ERR_BUSY": no second lets more
\* than the limit through.  The windows do not slide, so a second across a border does.
MaxPerSecond == Len(recent) <= MAX_CMDS_PER_SEC

\* Only noise makes a host wait in vain: on a quiet line every request has an
\* answer, or is still on its way, however the stream is cut.
TimeoutNeedsNoise ==
  (host = "waiting" /\ wire = <<>> /\ task = "read" /\ toHost = <<>>) => noise > 0

\* "returns complete frames when available": when the reader says it has none,
\* there is no undamaged frame in its buffer.
CompleteFramesReturned ==
  task = "read" =>
    ~ \E i, j \in 1..Len(buf) :
        /\ IsMagic(buf[i]) /\ i <= j
        /\ SubSeq(buf, i, j) = Frame(buf[i].req, buf[i].cmd, buf[i].len)
=============================================================================
