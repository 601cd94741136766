------------------------------- MODULE Codecs -------------------------------
(***************************************************************************)
(* The two codecs of the wallet that loop over bits and digits:            *)
(* base58check_encode of wallet/bip32.rs, one digit per step, and          *)
(* to_word_indices of wallet/bip39.rs, one word per step.  Of SHA-256 only *)
(* the bytes they take of a hash are there, as inputs.                     *)
(***************************************************************************)
EXTENDS Digits, SequencesExt, FiniteSetsExt

CONSTANTS
  Payloads,        \* payloads to encode, with the checksum appended
  FULL, CHARS,     \* bytes and digits the buffers hold (82 and 112)
  Entropies        \* entropy bytes with the first byte of their hash: [entropy, hash]

\* A payload and its checksum fit the buffer (try_push panics), and its digits are as
\* many as 82 bytes can have.
ASSUME CodecAssumption ==
  /\ FULL \in Nat /\ CHARS \in Nat /\ Power(256, FULL) <= Power(58, CHARS)
  /\ Payloads \subseteq Seq(0..255) /\ \A bytes \in Payloads : Len(bytes) <= FULL
  /\ Entropies \subseteq [entropy : Seq(0..255), hash : 0..255]

\* By the length of the entropy.
WORDS == [len \in {16, 32} |-> IF len = 16 THEN 12 ELSE 24]
CHECKSUM_BITS == [len \in {16, 32} |-> IF len = 16 THEN 4 ELSE 8]

VARIABLES
  codec,           \* "idle", "base58", "words" or "done"
  full,            \* the bytes encoded
  num, chars,      \* what is left of them, and the digits so far, the last digit first
  mnemonic,        \* [entropy, hash]
  indices,         \* the words so far
  encoded          \* the string returned by base58check_encode, as digits

codecVars == <<codec, full, num, chars, mnemonic, indices, encoded>>

NoMnemonic == [entropy |-> <<>>, hash |-> 0]

CodecInit ==
  /\ codec = "idle" /\ full = <<>> /\ num = <<>> /\ chars = <<>>
  /\ mnemonic = NoMnemonic /\ indices = <<>> /\ encoded = <<>>

(***************************************************************************)
(* base58check_encode.                                                     *)
(***************************************************************************)
Encode(bytes) ==
  /\ codec = "idle" /\ codec' = "base58"
  /\ full' = bytes /\ num' = bytes
  /\ UNCHANGED <<chars, mnemonic, indices, encoded>>

\* One pass of long division by 58: the carry after 0, 1, ... of the bytes.
Carries(bytes) ==
  LET carry[n \in 0..Len(bytes)] ==
        IF n = 0 THEN 0 ELSE (carry[n - 1] * 256 + bytes[n]) % 58
  IN  carry
Quotient(bytes) ==
  [i \in 1..Len(bytes) |-> ((Carries(bytes)[i - 1] * 256 + bytes[i]) \div 58) % 256]

LeadingZeros(s) == Max({n \in 0..Len(s) : \A i \in 1..n : s[i] = 0})
\* Mutant: zeros in the middle go too.
Trim_AllZeros(s) == SelectSeq(s, LAMBDA b : b # 0)
\* Leading zeros go to the left end, out of the buffer.
Trim(s) == SubSeq(s, LeadingZeros(s) + 1, Len(s))

Digit ==
  /\ codec = "base58" /\ \E i \in DOMAIN num : num[i] # 0
  /\ chars' = Append(chars, Carries(num)[Len(num)])
  /\ num' = Trim(Quotient(num))
  /\ UNCHANGED <<codec, full, mnemonic, indices, encoded>>

\* The string is built from the digits alone: the '1's pushed for the leading zeros went
\* to another one.
EncodeReturns ==
  /\ codec = "base58" /\ \A i \in DOMAIN num : num[i] = 0
  /\ encoded' = Reverse(chars) /\ codec' = "done"
  /\ UNCHANGED <<full, num, chars, mnemonic, indices>>

(***************************************************************************)
(* Mnemonic::from_entropy, to_word_indices.                                *)
(***************************************************************************)
FromEntropy(m) ==
  /\ codec = "idle"
  /\ IF Len(m.entropy) \in DOMAIN WORDS
     THEN mnemonic' = m /\ codec' = "words"
     ELSE codec' = "done" /\ UNCHANGED mnemonic     \* InvalidEntropyLength
  /\ UNCHANGED <<full, num, chars, indices, encoded>>

BitOf(byte, i) == (byte \div 2^i) % 2

\* Mutant: the bits of the checksum are taken from its low end.
StreamBit_LowChecksum(m, pos) ==
  LET entropy == m.entropy
      bits == CHECKSUM_BITS[Len(entropy)]
  IN  IF pos < 8 * Len(entropy) THEN BitOf(entropy[pos \div 8 + 1], 7 - (pos % 8))
      ELSE BitOf(m.hash, bits - 1 - (pos - 8 * Len(entropy)))

\* Bit pos of entropy || checksum.
StreamBit(m, pos) ==
  LET entropy == m.entropy
      bits == CHECKSUM_BITS[Len(entropy)]
      checksum == m.hash \div 2^(8 - bits)
  IN  IF pos < 8 * Len(entropy) THEN BitOf(entropy[pos \div 8 + 1], 7 - (pos % 8))
      ELSE BitOf(checksum, bits - 1 - (pos - 8 * Len(entropy)))

WordIndex ==
  /\ codec = "words"
  /\ LET bit_pos == 11 * Len(indices)
         idx == Value([b \in 1..11 |-> StreamBit(mnemonic, bit_pos + b - 1)], 2)
     IN  indices' = Append(indices, idx)
  /\ codec' = IF Len(indices) + 1 = (8 * Len(mnemonic.entropy) + CHECKSUM_BITS[Len(mnemonic.entropy)]) \div 11
              THEN "done" ELSE "words"
  /\ UNCHANGED <<full, num, chars, mnemonic, encoded>>

CodecNext ==
  \/ \E bytes \in Payloads : Encode(bytes)
  \/ Digit \/ EncodeReturns
  \/ \E m \in Entropies : FromEntropy(m)
  \/ WordIndex

(***************************************************************************)
(* Properties.                                                             *)
(***************************************************************************)
\* No payload has more digits than chars has room for (wallet/bip32.rs:553): the push
\* of a digit is unwrapped.
DigitsFit == Len(chars) <= CHARS

CodecTypeOK ==
  /\ codec \in {"idle", "base58", "words", "done"}
  /\ \A i \in DOMAIN num : num[i] \in 0..255
  /\ \A i \in DOMAIN chars : chars[i] \in 0..57
  /\ DigitsFit
  /\ \A i \in DOMAIN indices : indices[i] \in 0..2047

\* After every digit what is left, followed by the digits so far, makes up the number
\* that was given; in the end the digits alone do, and none of them is a leading zero.
Base58KeepsValue ==
  /\ codec \in {"base58", "done"} =>
       Value(<<Value(num, 256)>> \o Reverse(chars), 58) = Value(full, 256)
  /\ codec = "done" => Value(encoded, 58) = Value(full, 256) /\ LeadingZeros(encoded) = 0

\* The text says how many zero bytes the payload begins with (wallet/bip32.rs:546, "Add
\* '1' for each leading zero byte"): without them it decodes to a shorter payload.
LeadingZerosKept == codec = "done" => LeadingZeros(encoded) = LeadingZeros(full)

\* The words give the entropy back, followed by the first bits of its hash, and there
\* are as many as promised.
WordsSpellEntropy ==
  (codec = "done" /\ mnemonic # NoMnemonic) =>
    LET bits == CHECKSUM_BITS[Len(mnemonic.entropy)]
        Bit(j) == BitOf(indices[j \div 11 + 1], 10 - (j % 11))
        Read(from, n) == Value([b \in 1..n |-> Bit(from + b - 1)], 2)
        end == 8 * Len(mnemonic.entropy)
    IN  /\ Len(indices) = WORDS[Len(mnemonic.entropy)]
        /\ \A k \in DOMAIN mnemonic.entropy : Read(8 * (k - 1), 8) = mnemonic.entropy[k]
        /\ Read(end, bits) = mnemonic.hash \div 2^(8 - bits)
=============================================================================
