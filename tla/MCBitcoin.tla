------------------------------ MODULE MCBitcoin ------------------------------
(***************************************************************************)
(* The wallet's Bitcoin algorithms side by side, for the bitcoin run.      *)
(* They share no state: each behaviour does one job.                       *)
(***************************************************************************)
EXTENDS Psbt, HdKeys, Codecs

\* As many inputs and outputs as CAPACITY, and one output more.
MCTxs ==
  LET P2WPKH == [len |-> 22, op |-> "0 20"]
      Pay(v) == [value |-> v, script |-> P2WPKH]
  IN  <<[ins |-> 2, outs |-> <<Pay(1), [value |-> 2, script |-> [len |-> 34, op |-> "0 32"]]>>],
        [ins |-> 1, outs |-> <<Pay(1), Pay(1), Pay(1)>>]>>

\* Normal and hardened components, the alias of a hardened one, an overflow, a word.
MCTexts ==
  LET Plain(n) == [num |-> n, marked |-> FALSE]
      Marked(n) == [num |-> n, marked |-> TRUE]
  IN  {<<>>, <<Plain(0)>>, <<Marked(0)>>, <<Plain(2)>>, <<Marked(2)>>,
       <<Marked(1), Plain(0)>>, <<Plain(0), Plain(1)>>, <<Plain(1), Plain(INVALID)>>}

\* Up to three bytes, zeros anywhere among them.
MCPayloads == UNION {[1..n -> {0, 1, 58, 255}] : n \in 0..3}

\* A word index copies bits, so one set bit at a time, in the entropy or in the hash,
\* tells every wrong position apart.
OneBit(n) == {[entropy |-> [i \in 1..n |-> IF i = k THEN 2^b ELSE 0], hash |-> 0] : k \in 1..n, b \in 0..7}
HashBit(n) == {[entropy |-> [i \in 1..n |-> 170], hash |-> 2^b] : b \in 0..7}
MCEntropies == OneBit(16) \cup OneBit(32) \cup HashBit(16) \cup HashBit(32) \cup HashBit(15)

VARIABLE job

vars == <<job, psbtVars, keysVars, codecVars>>

Init == job \in {"psbt", "keys", "codec"} /\ PsbtInit /\ KeysInit /\ CodecInit

Next ==
  /\ \/ job = "psbt" /\ PsbtNext /\ UNCHANGED <<keysVars, codecVars>>
     \/ job = "keys" /\ KeysNext /\ UNCHANGED <<psbtVars, codecVars>>
     \/ job = "codec" /\ CodecNext /\ UNCHANGED <<psbtVars, keysVars>>
  /\ UNCHANGED job

Spec == Init /\ [][Next]_vars

\* One type invariant for the three.
TypeOK == PsbtTypeOK /\ KeysTypeOK /\ CodecTypeOK
=============================================================================
