------------------------------- MODULE HdKeys -------------------------------
(***************************************************************************)
(* BIP-32 keys (wallet/bip32.rs): the master key, derive_path one          *)
(* component per step, the public key of a key and its public children.    *)
(*                                                                         *)
(* The group of the curve is the integers modulo ORDER, a point being its  *)
(* logarithm.  HMAC-SHA512 is a random oracle: what it answers is chosen   *)
(* at the first question, remembered, and its right half never comes       *)
(* twice.  A fingerprint is the public key it is the hash of.              *)
(***************************************************************************)
EXTENDS Integers, Sequences, FiniteSets

CONSTANTS
  ORDER,          \* of the group, a prime
  HARDENED,       \* half of the indices (0x8000_0000)
  Lefts,          \* left halves the oracle answers; 0 and ORDER are no scalars
  Texts,          \* paths callers ask for: sequences of components
  MaxQuestions    \* bound: questions to the oracle

INVALID == -1                \* a component that is empty or not a number of 32 bits
Components == [num : Nat \cup {INVALID}, marked : BOOLEAN]

ASSUME KeysAssumption ==
  /\ ORDER \in Nat /\ ORDER > 1 /\ HARDENED \in Nat \ {0}
  /\ Lefts \subseteq 0..ORDER /\ Texts \subseteq Seq(Components) /\ MaxQuestions \in Nat

VARIABLES
  hmac,           \* what the oracle has answered: question -> [left, chain]
  key,            \* the ExtendedPrivKey of the caller, or NoKey
  master,         \* the master key it comes from
  text, path,     \* the path derive_path was called with, and what it has not read of it
  walk,           \* its local key
  found,          \* the keys it returned, with the indices its caller spelled
  xpub,           \* an ExtendedPubKey, or NoKey
  base, trail,    \* the key it was exported from, and its indices since
  result          \* of the last call

keysVars == <<hmac, key, master, text, path, walk, found, xpub, base, trail, result>>

NoKey == [secret |-> 0, chain |-> 0, depth |-> 0, parent |-> 0, index |-> 0]
U32_MAX == 2 * HARDENED - 1

KeysInit ==
  /\ hmac = <<>> /\ key = NoKey /\ master = NoKey
  /\ text = <<>> /\ path = <<>> /\ walk = NoKey /\ found = {}
  /\ xpub = NoKey /\ base = NoKey /\ trail = <<>> /\ result = "none"

\* try_scalar: zero and numbers not below the order are no keys.
Scalar(x) == x \in 1..(ORDER - 1)
\* The point of a private key, as a logarithm.
Point(secret) == secret

\* One call of HMAC-SHA512: the answer is in hmac'.
Ask(question) ==
  IF question \in DOMAIN hmac THEN UNCHANGED hmac
  ELSE /\ Cardinality(DOMAIN hmac) < MaxQuestions
       /\ \E left \in Lefts :
            hmac' = [q \in DOMAIN hmac \cup {question} |->
                       IF q = question THEN [left |-> left, chain |-> Cardinality(DOMAIN hmac) + 1]
                                       ELSE hmac[q]]

(***************************************************************************)
(* ExtendedPrivKey.                                                        *)
(***************************************************************************)
SeedQuestion == <<0, "seed", 0, 0>>

NewMaster(seed_len) ==
  /\ key = NoKey
  /\ IF seed_len \notin 16..64
     THEN result' = "InvalidSeed" /\ UNCHANGED <<hmac, key, master>>
     ELSE /\ Ask(SeedQuestion)
          /\ LET r == hmac'[SeedQuestion]
             IN  IF Scalar(r.left)
                 THEN /\ key' = [NoKey EXCEPT !.secret = r.left, !.chain = r.chain]
                      /\ master' = key' /\ result' = "ok"
                 ELSE result' = "InvalidSeed" /\ UNCHANGED <<key, master>>
  /\ UNCHANGED <<text, path, walk, found, xpub, base, trail>>

\* Mutant: every child comes from the private key.
PrivQuestion_Secret(k, index) == <<k.chain, "secret", k.secret, index>>

\* A hardened child comes from the private key, a normal one from the public key.
PrivQuestion(k, index) ==
  IF index >= HARDENED THEN <<k.chain, "secret", k.secret, index>>
                       ELSE <<k.chain, "point", Point(k.secret), index>>

\* The depth has no bound; the code's is a byte, and paths here are far from 256 levels.
PrivChild(k, index, r) ==
  [secret |-> (k.secret + r.left) % ORDER, chain |-> r.chain,
   depth |-> k.depth + 1, parent |-> Point(k.secret), index |-> index]

\* derive_path: the path is read component by component; an error leaves the caller
\* the key it had.
DerivePath(t) ==
  /\ key # NoKey /\ path = <<>>
  /\ text' = t /\ path' = t
  /\ walk' = IF t = <<>> THEN NoKey ELSE key
  /\ result' = IF t = <<>> THEN "ok" ELSE "none"
  /\ UNCHANGED <<hmac, key, master, found, xpub, base, trail>>

\* Mutant: the mark of a component is read but not added.
Index_Unmarked(component) == component.num
\* The index a component stands for.
Index(component) == component.num + (IF component.marked THEN HARDENED ELSE 0)

PathError ==
  /\ path # <<>>
  /\ result' = IF Head(path).num = INVALID THEN "InvalidPath" ELSE "InvalidChildIndex"
  /\ Head(path).num = INVALID \/ Index(Head(path)) > U32_MAX
  /\ text' = <<>> /\ path' = <<>> /\ walk' = NoKey
  /\ UNCHANGED <<hmac, key, master, found, xpub, base, trail>>

\* What the caller spelled: a mark asks for a hardened child.
Spelled(t) == [i \in DOMAIN t |-> IF t[i].marked THEN t[i].num + HARDENED ELSE t[i].num]

PathStep ==
  /\ path # <<>> /\ Head(path).num # INVALID /\ Index(Head(path)) <= U32_MAX
  /\ LET index == Index(Head(path))
         question == PrivQuestion(walk, index)
     IN  /\ Ask(question)
         /\ LET child == PrivChild(walk, index, hmac'[question])
            IN  IF ~Scalar(hmac'[question].left) \/ child.secret = 0
                THEN /\ text' = <<>> /\ path' = <<>> /\ walk' = NoKey
                     /\ result' = "InvalidChildIndex" /\ UNCHANGED <<key, found>>
                ELSE IF Len(path) > 1
                THEN path' = Tail(path) /\ walk' = child /\ UNCHANGED <<key, text, found, result>>
                ELSE /\ text' = <<>> /\ path' = <<>> /\ walk' = NoKey
                     /\ key' = child /\ result' = "ok"
                     /\ found' = found \cup
                          (IF key = master THEN {[indices |-> Spelled(text), key |-> child]} ELSE {})
  /\ UNCHANGED <<master, xpub, base, trail>>

\* The caller still has the master key: derive_path borrows it.
BackToMaster ==
  /\ path = <<>> /\ key # master /\ key' = master
  /\ UNCHANGED <<hmac, master, text, path, walk, found, xpub, base, trail, result>>

(***************************************************************************)
(* ExtendedPubKey.                                                         *)
(***************************************************************************)
PublicKey ==
  /\ key # NoKey /\ path = <<>> /\ xpub = NoKey
  /\ xpub' = [key EXCEPT !.secret = Point(key.secret)]     \* its compressed_bytes
  /\ base' = key /\ trail' = <<>>
  /\ UNCHANGED <<hmac, key, master, text, path, walk, found, result>>

\* add_tweak_to_pubkey multiplies the point by the tweak.
AddTweakToPubkey(point, tweak) == (point * tweak) % ORDER

PubChild(index) ==
  /\ xpub # NoKey /\ path = <<>>
  /\ IF index >= HARDENED
     THEN result' = "HardenedFromPublic" /\ UNCHANGED <<hmac, xpub, trail>>
     ELSE LET question == <<xpub.chain, "point", xpub.secret, index>>
          IN  /\ Ask(question)
              /\ LET r == hmac'[question]
                     child == AddTweakToPubkey(xpub.secret, r.left)
                 IN  IF ~Scalar(r.left) \/ child = 0
                     THEN result' = "InvalidChildIndex" /\ UNCHANGED <<xpub, trail>>
                     ELSE /\ xpub' = [secret |-> child, chain |-> r.chain, depth |-> xpub.depth + 1,
                                      parent |-> xpub.secret, index |-> index]
                          /\ trail' = Append(trail, index) /\ result' = "ok"
  /\ UNCHANGED <<key, master, text, path, walk, found, base>>

KeysNext ==
  \/ \E n \in {15, 16, 64, 65} : NewMaster(n)
  \/ \E t \in Texts : DerivePath(t)
  \/ PathStep \/ PathError \/ BackToMaster
  \/ PublicKey
  \/ \E index \in 0..U32_MAX : PubChild(index)

(***************************************************************************)
(* Properties.                                                             *)
(***************************************************************************)
KeysTypeOK ==
  /\ \A k \in {key, walk, xpub} : k = NoKey \/ Scalar(k.secret)
  /\ \A q \in DOMAIN hmac : hmac[q].left \in Lefts
  /\ key = NoKey \/ key.chain \in 1..Cardinality(DOMAIN hmac)

\* Two paths from the master key give the same key exactly if they spell the same
\* indices, "2147483648" being the same as "0'": a marked and an unmarked component, a
\* prefix and the whole, never meet, and an error half way gives no key.
PathsNameKeys ==
  \A a, b \in found : a.indices = b.indices <=> a.key = b.key

\* A child derived from the public key asks the oracle what the private key would ask
\* for the same index and carries the same chain code, depth, fingerprint and index:
\* with the two keys the right ones, the rest of a watching wallet's tree would follow.
ChildrenShareLineage ==
  Len(trail) = 1 =>
    LET question == PrivQuestion(base, trail[1])
    IN  /\ question \in DOMAIN hmac
        /\ LET child == PrivChild(base, trail[1], hmac[question])
           IN  xpub = [child EXCEPT !.secret = xpub.secret]

\* The public child is the public key of the private child (wallet/bip32.rs:95, "Add
\* tweak to public key point (for normal child derivation)").
PublicChildOfPrivateChild ==
  Len(trail) = 1 =>
    LET child == PrivChild(base, trail[1], hmac[PrivQuestion(base, trail[1])])
    IN  xpub.secret = Point(child.secret)
=============================================================================
