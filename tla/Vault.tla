------------------------------- MODULE Vault -------------------------------
(***************************************************************************)
(* The seed and its PIN: WalletState (wallet/state.rs), EncryptedSeed and  *)
(* PinRateLimiter (wallet/encrypt.rs), SeedStorage (wallet/storage.rs) and *)
(* StoredKey (wallet/keys.rs), called in any order by the code they are    *)
(* written for, with power cuts between any two steps on the card.         *)
(*                                                                         *)
(* A seed is a name and a length.  Encryption is ideal: EncryptedSeed is   *)
(* the seed and the PIN, or what cannot be opened.  Salt and nonce do not  *)
(* appear.  Time is counted in units of thirty seconds, up to LONGEST.     *)
(***************************************************************************)
EXTENDS Integers, Sequences, FiniteSets

CONSTANTS
  Seeds,          \* seeds imported: name -> length in bytes
  Pins,           \* PINs of four to eight digits
  BadPins,        \* other strings, with what validate_pin says of them
  SeedNameFits,   \* whether the card's library takes SEED_FILENAME (see the README)
  CardFails,      \* whether the card may fail
  U8_MAX          \* of failed_attempts (255)

ASSUME VaultAssumption ==
  /\ \A s \in DOMAIN Seeds : Seeds[s] \in 1..64
  /\ "none" \notin DOMAIN Seeds
  /\ SeedNameFits \in BOOLEAN /\ CardFails \in BOOLEAN
  /\ U8_MAX \in Nat /\ U8_MAX >= 3

VARIABLES
  status, seed, master_key,       \* WalletState: status and the secrets it holds
  failed_attempts, since,         \* its rate_limiter: failures, and time since the last
  key,                            \* a StoredKey: the seed it holds, NONE when locked
  sealed,                         \* the EncryptedSeed in the caller's hands
  dir, file,                      \* the card: directory saves, seed file
  op,                             \* "idle", "storing", "wiping" or "deleting"
  result,                         \* of the last call
  stored,                         \* history: the last complete store, if nothing began after it
  guesses                         \* history: ages of the last failures before a success

walletVars == <<status, seed, master_key>>
limiterVars == <<failed_attempts, since, guesses>>
cardVars == <<dir, file, op, stored>>
vars == <<walletVars, limiterVars, key, sealed, cardVars, result>>

NONE == "none"                 \* no seed
GENERATED == "generated"       \* what Mnemonic::to_seed returns: 64 bytes of zero, always
LONGEST == 2
SeedLen(s) == IF s = GENERATED THEN 64 ELSE Seeds[s]

Sealed(s, pin) == [seed |-> s, pin |-> pin]
NoSealed == Sealed(NONE, NONE)
Sealeds == {Sealed(s, p) : s \in DOMAIN Seeds \cup {GENERATED}, p \in Pins}

\* Contents of the seed file that are no whole EncryptedSeed.
ABSENT == Sealed(NONE, "absent")
EMPTY == Sealed(NONE, "empty")
JUNK == Sealed(NONE, "junk")

PowerOn ==
  /\ status = "NoSeed" /\ seed = NONE /\ master_key = NONE
  /\ failed_attempts = 0 /\ since = LONGEST /\ guesses = <<>>
  /\ key = NONE /\ sealed = NoSealed /\ op = "idle" /\ result = "none"

Init == PowerOn /\ dir = FALSE /\ file = ABSENT /\ stored = NoSealed

Returns(r) == result' = r

(***************************************************************************)
(* WalletState.                                                            *)
(***************************************************************************)
\* ExtendedPrivKey::new_master wants 16 to 64 bytes.
MasterOf(s) == SeedLen(s) \in 16..64

\* generate_seed encrypts the new seed and lets the result go.
Generate(pin) ==
  /\ op = "idle"
  /\ IF status # "NoSeed" THEN Returns("AlreadyInitialized") /\ UNCHANGED walletVars
     ELSE IF pin \in DOMAIN BadPins THEN Returns(BadPins[pin]) /\ UNCHANGED walletVars
     ELSE /\ seed' = GENERATED /\ master_key' = GENERATED /\ status' = "Unlocked"
          /\ Returns("ok")
  /\ UNCHANGED <<limiterVars, key, sealed, cardVars>>

RecordSuccess == failed_attempts' = 0 /\ since' = LONGEST /\ guesses' = <<>>

\* Mutant: the secrets are set before the master key is known to exist.
Opened_SeedFirst(s) ==
  /\ seed' = s
  /\ IF MasterOf(s) THEN master_key' = s /\ status' = "Unlocked" /\ Returns("ok")
                    ELSE Returns("KeyDerivation") /\ UNCHANGED <<master_key, status>>

\* The PIN was right: without a master key nothing is kept.
Opened(s) ==
  IF MasterOf(s)
  THEN /\ seed' = s /\ master_key' = s /\ status' = "Unlocked"
       /\ Returns("ok")
  ELSE Returns("KeyDerivation") /\ UNCHANGED walletVars

\* EncryptedSeed::decrypt.
Decrypts(e, pin) == e.seed # NONE /\ e.pin = pin

UnlockRefused ==
  /\ op = "idle" /\ sealed # NoSealed /\ status # "Locked"
  /\ Returns("NotLocked")
  /\ UNCHANGED <<walletVars, limiterVars, key, sealed, cardVars>>

UnlockOpens(pin) ==
  /\ op = "idle" /\ sealed # NoSealed /\ status = "Locked" /\ Decrypts(sealed, pin)
  /\ RecordSuccess /\ Opened(sealed.seed)
  /\ UNCHANGED <<key, sealed, cardVars>>

Lock ==
  /\ op = "idle" /\ seed' = NONE /\ master_key' = NONE
  /\ status' = IF status = "Unlocked" THEN "Locked" ELSE status
  /\ Returns("ok")
  /\ UNCHANGED <<limiterVars, key, sealed, cardVars>>

\* WalletState::wipe: the card and the limiter are not touched.
Wipe ==
  /\ op = "idle" /\ seed' = NONE /\ master_key' = NONE /\ status' = "NoSeed"
  /\ Returns("ok")
  /\ UNCHANGED <<limiterVars, key, sealed, cardVars>>

(***************************************************************************)
(* PinRateLimiter.  unlock does not ask it; a caller that does, asks       *)
(* is_locked_out before every attempt and records each wrong PIN.          *)
(***************************************************************************)
Wait == IF failed_attempts >= 10 THEN 2 ELSE 1
IsLockedOut == failed_attempts >= 3 /\ since < Wait

\* Mutant: the counter wraps.
CountFailure_Wraps == failed_attempts' = (failed_attempts + 1) % (U8_MAX + 1)
\* Mutant: it has no limit.
CountFailure_NoLimit == failed_attempts' = failed_attempts + 1
CountFailure == failed_attempts' = IF failed_attempts < U8_MAX THEN failed_attempts + 1 ELSE U8_MAX

RecordFailure ==
  /\ CountFailure /\ since' = 0
  /\ guesses' = Append(IF Len(guesses) = 4 THEN Tail(guesses) ELSE guesses, 0)

WrongPin(pin) ==
  /\ op = "idle" /\ sealed # NoSealed /\ status = "Locked" /\ ~Decrypts(sealed, pin)
  /\ ~IsLockedOut /\ RecordFailure /\ Returns("WrongPin")
  /\ UNCHANGED <<walletVars, key, sealed, cardVars>>

Older(t) == IF t < LONGEST THEN t + 1 ELSE LONGEST
Tick ==
  /\ failed_attempts > 0 /\ since < LONGEST
  /\ since' = Older(since) /\ guesses' = [i \in DOMAIN guesses |-> Older(guesses[i])]
  /\ UNCHANGED <<walletVars, failed_attempts, key, sealed, cardVars, result>>

(***************************************************************************)
(* EncryptedSeed::encrypt, of an imported seed or of the wallet's own; and *)
(* StoredKey.                                                              *)
(***************************************************************************)
Encrypt(s, pin) ==
  /\ op = "idle" /\ (s = seed \/ s \in DOMAIN Seeds)
  /\ sealed' = Sealed(s, pin) /\ Returns("ok")
  /\ UNCHANGED <<walletVars, limiterVars, key, cardVars>>

FromEncrypted(pin) ==
  /\ op = "idle" /\ sealed # NoSealed
  /\ IF Decrypts(sealed, pin) THEN key' = sealed.seed /\ Returns("ok")
                              ELSE Returns("WrongPin") /\ UNCHANGED key
  /\ UNCHANGED <<walletVars, limiterVars, sealed, cardVars>>

LockKey ==
  /\ op = "idle" /\ key # NONE /\ key' = NONE /\ Returns("ok")
  /\ UNCHANGED <<walletVars, limiterVars, sealed, cardVars>>

\* get_master_key.
KeyMaster ==
  /\ op = "idle"
  /\ Returns(IF key = NONE THEN "Locked" ELSE IF MasterOf(key) THEN "ok" ELSE "DerivationError")
  /\ UNCHANGED <<walletVars, limiterVars, key, sealed, cardVars>>

(***************************************************************************)
(* SeedStorage.  A card error is a choice at every step that may meet one. *)
(***************************************************************************)
CardError(r) ==
  /\ op' = "idle" /\ Returns(r)
  /\ UNCHANGED <<walletVars, limiterVars, key, sealed>>

StoreFails ==
  /\ op = "idle" /\ sealed \in Sealeds /\ CardFails
  /\ CardError("FsError") /\ UNCHANGED <<dir, file, stored>>

\* The directory is made if it is not there, and the file opened, which empties it.
StoreOpens ==
  /\ op = "idle" /\ sealed \in Sealeds
  /\ dir' = TRUE
  /\ IF SeedNameFits
     THEN /\ op' = "storing" /\ file' = EMPTY /\ stored' = NoSealed
          /\ UNCHANGED <<walletVars, limiterVars, key, sealed, result>>
     ELSE CardError("IoError") /\ UNCHANGED <<file, stored>>

\* What is written is there when the file is closed.
StoreWrites ==
  /\ op = "storing"
  /\ file' = sealed /\ stored' = sealed /\ op' = "idle" /\ Returns("ok")
  /\ UNCHANGED <<walletVars, limiterVars, key, sealed, dir>>

StoreWriteFails ==
  /\ op = "storing" /\ CardFails
  /\ CardError("IoError") /\ UNCHANGED <<dir, file, stored>>

\* from_bytes tells a file by its length: other bytes may pass for an EncryptedSeed
\* that no PIN opens.
Read(contents) ==
  IF contents = ABSENT THEN {"NotFound"}
  ELSE IF contents = EMPTY THEN {"Corrupted"}
  ELSE IF contents = JUNK THEN {"Corrupted", "ok"} ELSE {"ok"}

Load ==
  /\ op = "idle"
  /\ \/ /\ dir /\ SeedNameFits /\ result' \in Read(file)
        /\ sealed' = IF result' = "ok" THEN file ELSE sealed
     \/ ~(dir /\ SeedNameFits) /\ Returns("NotFound") /\ UNCHANGED sealed
     \/ CardFails /\ result' \in {"FsError", "NotFound", "IoError"} /\ UNCHANGED sealed
  /\ UNCHANGED <<walletVars, limiterVars, key, cardVars>>

\* Mutant: the file is opened for appending, and deleted in the end all the same.
Emptied_Not(contents) == contents
\* Opening a file for the random passes empties it first.
Emptied(contents) == EMPTY

\* wipe: an error of the first open is passed over, the file deleted all the same.
WipeOpens ==
  /\ op = "idle" /\ dir
  /\ \/ /\ SeedNameFits /\ file # ABSENT /\ op' = "wiping"
        /\ file' = Emptied(file) /\ stored' = NoSealed
     \/ /\ ~SeedNameFits \/ file = ABSENT \/ CardFails
        /\ op' = "deleting" /\ UNCHANGED <<file, stored>>
  /\ UNCHANGED <<walletVars, limiterVars, key, sealed, dir, result>>

WipeNotFound ==
  /\ op = "idle" /\ (~dir \/ CardFails)
  /\ \E r \in {"NotFound", "FsError"} : CardError(r) /\ (r = "FsError" => CardFails)
  /\ UNCHANGED <<dir, file, stored>>

\* Three writes one behind the other, and the file is closed.
WipePasses ==
  /\ op = "wiping" /\ op' = "deleting"
  /\ file' = JUNK \/ (CardFails /\ UNCHANGED file)
  /\ UNCHANGED <<walletVars, limiterVars, key, sealed, dir, stored, result>>

WipeDeletes ==
  /\ op = "deleting"
  /\ \/ /\ SeedNameFits /\ file # ABSENT
        /\ file' = ABSENT /\ stored' = NoSealed /\ op' = "idle" /\ Returns("ok")
        /\ UNCHANGED <<walletVars, limiterVars, key, sealed>>
     \/ /\ ~SeedNameFits \/ file = ABSENT \/ CardFails
        /\ CardError("IoError") /\ UNCHANGED <<file, stored>>
  /\ UNCHANGED dir

\* Everything in RAM is lost, the limiter too.
PowerCut ==
  /\ status' = "NoSeed" /\ seed' = NONE /\ master_key' = NONE
  /\ failed_attempts' = 0 /\ since' = LONGEST /\ guesses' = <<>>
  /\ key' = NONE /\ sealed' = NoSealed /\ op' = "idle" /\ result' = "none"
  /\ UNCHANGED <<dir, file, stored>>

Next ==
  \/ \E pin \in Pins \cup DOMAIN BadPins : Generate(pin)
  \/ \E pin \in Pins : UnlockOpens(pin) \/ WrongPin(pin) \/ FromEncrypted(pin)
  \/ \E s \in DOMAIN Seeds \cup {GENERATED}, pin \in Pins : Encrypt(s, pin)
  \/ UnlockRefused \/ Lock \/ Wipe \/ Tick \/ LockKey \/ KeyMaster
  \/ StoreFails \/ StoreOpens \/ StoreWrites \/ StoreWriteFails
  \/ Load \/ WipeNotFound \/ WipeOpens \/ WipePasses \/ WipeDeletes
  \/ PowerCut

Spec == Init /\ [][Next]_vars

(***************************************************************************)
(* Properties.                                                             *)
(***************************************************************************)
TypeOK ==
  /\ status \in {"NoSeed", "Locked", "Unlocked"}
  /\ failed_attempts \in 0..U8_MAX /\ since \in 0..LONGEST
  /\ sealed \in Sealeds \cup {NoSealed, JUNK}
  /\ file \in Sealeds \cup {ABSENT, EMPTY, JUNK}
  /\ op \in {"idle", "storing", "wiping", "deleting"}

\* Secrets are in the wallet exactly while it is unlocked, both or none, also when an
\* imported seed opens but gives no master key.
SecretsOnlyUnlocked ==
  /\ (status = "Unlocked") <=> (seed # NONE)
  /\ seed = master_key

\* Whatever fails or is cut, a complete store stays on the card until a store or a wipe
\* gets hold of its file, and from then on nothing is left that a PIN opens until the
\* next complete store: no old seed comes back, and none but the last is there.
CardHoldsLastStore ==
  (file \in Sealeds \/ stored # NoSealed) => (dir /\ file = stored)

\* At most three wrong PINs in any thirty seconds between two right ones, however many
\* came before, if the caller asks is_locked_out first and the power stays on.
GuessesAreSlow == Cardinality({i \in DOMAIN guesses : guesses[i] < 1}) <= 3

\* A store that meets no error of the card succeeds (wallet/storage.rs:244 asserts that
\* the name is at most eight characters long, which is what the card's library takes).
StoreSucceeds == result # "IoError"
=============================================================================
