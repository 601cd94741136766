-------------------------------- MODULE Psbt --------------------------------
(***************************************************************************)
(* The preview of a transaction and its signing (wallet/psbt.rs).          *)
(*                                                                         *)
(* A message is the magic, one global map, one map per input and one per   *)
(* output.  A map is a run of entries and a separator (a key of length 0). *)
(* Of an entry the model keeps the key type and what the value says: the   *)
(* number of a transaction for key 0 of the global map, an amount for a    *)
(* key 1 (the witness UTXO of an input; of an output it is the witness     *)
(* script, whose first eight bytes are as good an amount to this parser).  *)
(* The parser is one loop step per action and works on entries; a message  *)
(* may end inside its last entry.                                          *)
(***************************************************************************)
EXTENDS Digits, SequencesExt, FiniteSetsExt, FiniteSets

CONSTANTS
  Txs,             \* the unsigned transactions: number of inputs; values and scripts of the outputs
  Amounts,         \* what the value of an entry with key 1 says
  U64,             \* numbers a u64 holds (2^64)
  CAPACITY,        \* inputs and outputs a heapless vector holds (16)
  MAX_SIGNED,      \* entries that fit the buffer of a signed message (1024 bytes)
  MaxItems         \* bound: entries and separators in a message

ASSUME PsbtAssumption ==
  /\ U64 \in Nat \ {0} /\ Amounts \subseteq 0..(U64 - 1)
  /\ Txs \in Seq([ins : Nat \ {0},
                  outs : Seq([value : 0..(U64 - 1), script : [len : Nat, op : STRING]])])
  /\ CAPACITY \in Nat \ {0} /\ MAX_SIGNED \in Nat /\ MaxItems \in Nat

VARIABLES
  data, ending,    \* the message; where inside its last entry it ends, or "whole"
  parser,          \* "host" (still writing), "global", "outputs", "inputs", "done"
  offset,          \* entries read so far
  tx,              \* number of the unsigned transaction, 0 for None
  outputs,         \* values of the outputs read so far
  input_value,     \* amount of the input map being read
  inputs,          \* amounts of the inputs read so far
  preview,         \* what parse_preview returned
  signed           \* what sign_psbt_raw returned

psbtVars == <<data, ending, parser, offset, tx, outputs, input_value, inputs, preview, signed>>

UNSIGNED_TX == 0    \* PSBT_GLOBAL_UNSIGNED_TX
WITNESS_UTXO == 1   \* PSBT_IN_WITNESS_UTXO with a value of at least 9 bytes
OTHER_KEY == 2          \* any other key, or a witness UTXO too short to be read

Separator == [key |-> -1, val |-> 0]
Entry(key, val) == [key |-> key, val |-> val]
NoPreview == [kind |-> "none", destination |-> "", amount |-> 0, fee |-> 0]
Failed(error) == [NoPreview EXCEPT !.kind = error]

PsbtInit ==
  /\ data = <<>> /\ ending = "whole" /\ parser = "host" /\ offset = 0
  /\ tx = 0 /\ outputs = <<>> /\ input_value = 0 /\ inputs = <<>>
  /\ preview = NoPreview /\ signed = "none"

(***************************************************************************)
(* The host writes a message.                                              *)
(***************************************************************************)
GlobalDone == \E i \in 1..Len(data) : data[i] = Separator

Entries ==
  {Entry(OTHER_KEY, 0)} \cup
  (IF GlobalDone THEN {Entry(WITNESS_UTXO, v) : v \in Amounts}
                 ELSE {Entry(UNSIGNED_TX, t) : t \in DOMAIN Txs})

HostWrites(item) ==
  /\ parser = "host" /\ Len(data) < MaxItems
  /\ data' = Append(data, item)
  /\ UNCHANGED <<ending, parser, offset, tx, outputs, input_value, inputs, preview, signed>>

\* The message ends after a whole entry, or after the key, the key type or a part
\* of the value of one.
HostSends(e) ==
  /\ parser = "host"
  /\ ending' = e
  /\ e # "whole" => data # <<>> /\ Last(data) # Separator
  /\ parser' = "global"
  /\ UNCHANGED <<data, offset, tx, outputs, input_value, inputs, preview, signed>>

(***************************************************************************)
(* PsbtParser::parse_preview.                                              *)
(***************************************************************************)
Return(result) ==
  /\ parser' = "done" /\ preview' = result
  /\ UNCHANGED <<data, ending, signed>>

AtEnd == offset = Len(data)
Next1 == data[offset + 1]
IsCut == offset + 1 = Len(data) /\ ending # "whole"
Reads(key) == ~AtEnd /\ ~IsCut /\ Next1.key \in key

Skip == offset' = offset + 1 /\ UNCHANGED <<data, ending, parser, preview, signed>>

NoMagic ==
  /\ parser = "global" /\ data = <<>>
  /\ Return(Failed("InvalidMagic"))
  /\ UNCHANGED <<offset, tx, outputs, input_value, inputs>>

\* The message ends in the global map, in an entry or before the separator.
GlobalEnds ==
  /\ parser = "global" /\ data # <<>> /\ (AtEnd \/ IsCut)
  /\ Return(Failed("InvalidStructure"))
  /\ UNCHANGED <<offset, tx, outputs, input_value, inputs>>

GlobalEntry ==
  /\ parser = "global" /\ Reads({UNSIGNED_TX, OTHER_KEY})
  /\ tx' = IF Next1.key = UNSIGNED_TX THEN Next1.val ELSE tx
  /\ Skip
  /\ UNCHANGED <<outputs, input_value, inputs>>

GlobalSeparator ==
  /\ parser = "global" /\ ~AtEnd /\ Next1 = Separator
  /\ IF tx = 0 THEN Return(Failed("MissingField")) /\ UNCHANGED offset
               ELSE /\ parser' = "outputs" /\ offset' = offset + 1
                    /\ UNCHANGED <<data, ending, preview, signed>>
  /\ UNCHANGED <<tx, outputs, input_value, inputs>>

\* Mutant: one more than the vector holds.
Fits_OffByOne(vec) == Len(vec) <= CAPACITY

\* push of a heapless vector fails when the vector is full.
Fits(vec) == Len(vec) < CAPACITY

\* parse_tx_outputs: one output per step.
TxOutput ==
  /\ parser = "outputs" /\ Len(outputs) < Len(Txs[tx].outs)
  /\ IF Fits(outputs)
     THEN /\ outputs' = Append(outputs, Txs[tx].outs[Len(outputs) + 1])
          /\ UNCHANGED <<data, ending, parser, preview, signed>>
     ELSE Return(Failed("InvalidStructure")) /\ UNCHANGED outputs
  /\ UNCHANGED <<offset, tx, input_value, inputs>>

TxOutputsEnd ==
  /\ parser = "outputs" /\ Len(outputs) = Len(Txs[tx].outs)
  /\ parser' = "inputs"
  /\ UNCHANGED <<data, ending, offset, tx, outputs, input_value, inputs, preview, signed>>

\* parse_input_maps.  Nothing tells it where the output maps begin.
InputEntry ==
  /\ parser = "inputs" /\ Reads({WITNESS_UTXO, OTHER_KEY})
  /\ input_value' = IF Next1.key = WITNESS_UTXO THEN Next1.val ELSE input_value
  /\ Skip
  /\ UNCHANGED <<tx, outputs, inputs>>

SaturatingSub(a, b) == IF a > b THEN a - b ELSE 0
\* total += value: a release build wraps around.
Total(values) == SumOf(values) % U64
Values(outs) == [i \in DOMAIN outs |-> outs[i].value]

\* classify_script and script_to_address.  A script is its length and its opcodes; the
\* address shown is a prefix, followed by at most eight bytes of the program.
Classify(script) ==
  LET types == {t \in {<<22, "0 20", "P2WPKH">>, <<34, "0 32", "P2WSH">>,
                       <<25, "DUP HASH160 20", "P2PKH">>, <<23, "HASH160 20", "P2SH">>} :
                  t[1] = script.len /\ t[2] = script.op}
  IN  IF types = {} THEN "Unknown" ELSE (CHOOSE t \in types : TRUE)[3]

ScriptToAddress(script) ==
  [P2WPKH |-> "bc1q", P2WSH |-> "bc1q..wsh", P2PKH |-> "1...", P2SH |-> "3...",
   Unknown |-> "unknown"][Classify(script)]

\* Mutant: the fee is what the largest output leaves.
Preview_LargestOnly(ins) ==
  LET values == Range(Values(outputs)) \cup {0}
  IN  [kind |-> "ok",
       destination |-> IF outputs = <<>> THEN "" ELSE ScriptToAddress(outputs[1].script),
       amount |-> Max(values), fee |-> SaturatingSub(Total(ins), Max(values))]

\* The first output is the destination, the largest the amount.
Preview(ins) ==
  [kind |-> "ok",
   destination |-> IF outputs = <<>> THEN "" ELSE ScriptToAddress(outputs[1].script),
   amount |-> Max(Range(Values(outputs)) \cup {0}),
   fee |-> SaturatingSub(Total(ins), Total(Values(outputs)))]

\* An input map is over: an amount of zero is as good as none.
Counted(v) == IF v > 0 THEN Append(inputs, v) ELSE inputs

InputSeparator ==
  /\ parser = "inputs" /\ ~AtEnd /\ Next1 = Separator
  /\ offset' = offset + 1 /\ input_value' = 0
  /\ IF input_value > 0 /\ ~Fits(inputs)
     THEN Return(Failed("InvalidStructure")) /\ UNCHANGED inputs
     ELSE /\ inputs' = Counted(input_value)
          /\ UNCHANGED <<data, ending, parser, preview, signed>>
  /\ UNCHANGED <<tx, outputs>>

\* The last entry has no size: an error.
InputCutBeforeSize ==
  /\ parser = "inputs" /\ ~AtEnd /\ IsCut /\ ending = "size"
  /\ Return(Failed("InvalidStructure"))
  /\ UNCHANGED <<offset, tx, outputs, input_value, inputs>>

\* The end of the message, or of its last entry, ends the last map: no error.
InputsEnd ==
  /\ parser = "inputs"
  /\ AtEnd \/ (IsCut /\ ending \in {"key", "val"})
  /\ IF input_value > 0 /\ ~Fits(inputs)
     THEN Return(Failed("InvalidStructure")) /\ UNCHANGED inputs
     ELSE inputs' = Counted(input_value) /\ Return(Preview(Counted(input_value)))
  /\ UNCHANGED <<offset, tx, outputs, input_value>>

\* Or what is left of a key or a value that is cut short is read again, as if a map
\* began there: as nothing, as an error, or (bound: once) as another amount.
InputReadAgain ==
  /\ parser = "inputs" /\ ~AtEnd /\ IsCut /\ ending \in {"key", "val"}
  /\ \/ Return(Failed("InvalidStructure")) /\ UNCHANGED inputs
     \/ \E v \in Amounts \ {0} :
          LET read == Counted(input_value)
          IN  /\ Len(read) < CAPACITY
              /\ inputs' = Append(read, v) /\ Return(Preview(Append(read, v)))
  /\ UNCHANGED <<offset, tx, outputs, input_value>>

(***************************************************************************)
(* sign_psbt_raw parses the message itself; parse_full_psbt hands it no    *)
(* input whose script it could refuse or whose hash it could sign, so the  *)
(* message comes back as it was.  A bad key is an error.                   *)
(***************************************************************************)
FullInputs == <<>>     \* ParsedPsbt.inputs

Sign ==
  /\ parser = "done" /\ signed = "none"
  /\ \/ signed' = IF preview.kind # "ok" THEN preview.kind
                  ELSE IF Len(data) > MAX_SIGNED THEN "BufferTooSmall"
                  ELSE IF \E i \in DOMAIN FullInputs : Classify(FullInputs[i]) # "P2WPKH"
                       THEN "SigningError" ELSE "ok"
     \/ preview.kind = "ok" /\ signed' = "SigningError"
  /\ UNCHANGED <<data, ending, parser, offset, tx, outputs, input_value, inputs, preview>>

ParsePreview ==
  \/ NoMagic \/ GlobalEnds \/ GlobalEntry \/ GlobalSeparator
  \/ TxOutput \/ TxOutputsEnd
  \/ InputEntry \/ InputSeparator \/ InputsEnd \/ InputCutBeforeSize \/ InputReadAgain

PsbtNext ==
  \/ \E item \in Entries \cup {Separator} : HostWrites(item)
  \/ \E e \in {"whole", "key", "size", "val"} : HostSends(e)
  \/ ParsePreview \/ Sign

(***************************************************************************)
(* Properties.                                                             *)
(***************************************************************************)
PsbtTypeOK ==
  /\ parser \in {"host", "global", "outputs", "inputs", "done"}
  /\ offset \in 0..Len(data) /\ tx \in 0..Len(Txs)
  /\ Len(inputs) <= CAPACITY /\ Len(outputs) <= CAPACITY
  /\ preview.kind \in {"none", "ok", "InvalidMagic", "InvalidStructure", "MissingField"}
  /\ signed \in {"none", preview.kind, "SigningError", "BufferTooSmall"}

\* The map an entry is in: 0 the global one, then the inputs', then the outputs'.
MapOf(i) == Cardinality({j \in 1..(i - 1) : data[j] = Separator})
\* The amount a map gives: that of its last witness UTXO.
AmountOf(m) ==
  LET utxos == {i \in DOMAIN data : MapOf(i) = m /\ m > 0 /\ data[i].key = WITNESS_UTXO}
  IN  IF utxos = {} THEN 0 ELSE data[Max(utxos)].val
InputSum(t) == SumOf([m \in 1..t.ins |-> AmountOf(m)])
OutputSum(t) == SumOf(Values(t.outs))
FeeOf(t) == SaturatingSub(InputSum(t), OutputSum(t))

\* Of a message that ends after a whole entry, however early, the screen shows what
\* its input maps hold less all that the transaction pays: no map is skipped or
\* counted twice, and one input or output more than the vectors hold is an error,
\* not a smaller sum.  (Unless an output carries a witness script, see below, or the
\* amounts add up to more than a u64 holds.)
FeeIsInputsMinusOutputs ==
  (/\ preview.kind = "ok" /\ ending = "whole"
   /\ \A i \in DOMAIN data : data[i].key = WITNESS_UTXO => MapOf(i) <= Txs[tx].ins
   /\ InputSum(Txs[tx]) < U64 /\ OutputSum(Txs[tx]) < U64)
     => preview.fee = FeeOf(Txs[tx])

\* The same without that condition, of complete messages (wallet/psbt.rs:252, "Total
\* input amount (from witness UTXOs)", "Fee = inputs - outputs").
FeeOfEveryMessage ==
  (/\ preview.kind = "ok" /\ ending = "whole"
   /\ MapOf(Len(data) + 1) = 1 + Txs[tx].ins + Len(Txs[tx].outs))
     => preview.fee = FeeOf(Txs[tx])
=============================================================================
