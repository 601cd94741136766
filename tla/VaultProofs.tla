---------------------------- MODULE VaultProofs ----------------------------
(***************************************************************************)
(* Proofs about Vault for every set of seeds and PINs, a card that fails   *)
(* or not, a name that fits or not, and any limit of the counter from the  *)
(* limiter's first threshold on.                                           *)
(*                                                                         *)
(* IInv adds to the properties what a step in the middle of a store or a   *)
(* wipe relies on, and how the ages of wrong PINs follow from the count.   *)
(***************************************************************************)
EXTENDS Vault, FiniteSetTheorems, SequenceTheorems, TLAPS

\* Whoever is in the middle of something has found the directory; in the
\* middle of a wipe the seed is gone.
CardInv ==
  /\ CardHoldsLastStore
  /\ op = "storing" => dir
  /\ op = "wiping" => (stored = NoSealed /\ file \notin Sealeds)

\* No failure is younger than the last one; below the first threshold all of
\* them were counted; and a fourth one came only after the first had aged.
LimiterInv ==
  /\ failed_attempts \in 0..U8_MAX /\ since \in 0..LONGEST
  /\ guesses \in Seq(Nat) /\ Len(guesses) <= 4
  /\ \A i \in 1..Len(guesses) : guesses[i] >= since
  /\ failed_attempts < 3 => Len(guesses) <= failed_attempts
  /\ Len(guesses) = 4 => guesses[1] >= 1

\* Types, and that a store in progress has something to write.
Types == TypeOK /\ (op = "storing" => sealed \in Sealeds)

IInv == Types /\ SecretsOnlyUnlocked /\ CardInv /\ LimiterInv

-----------------------------------------------------------------------------
\* What is left of a store or a wipe that was cut, and an absent file, are no
\* seed that a PIN opens.
LEMMA LeftoversAreNoSeeds ==
  /\ NoSealed \notin Sealeds /\ ABSENT \notin Sealeds
  /\ EMPTY \notin Sealeds /\ JUNK \notin Sealeds
<1>1. \A s \in DOMAIN Seeds \cup {GENERATED} : s # NONE
  BY VaultAssumption DEF NONE, GENERATED
<1>2. \A e \in Sealeds : e.seed # NONE
  BY <1>1 DEF Sealeds, Sealed
<1>3. NoSealed.seed = NONE /\ ABSENT.seed = NONE /\ EMPTY.seed = NONE /\ JUNK.seed = NONE
  BY DEF NoSealed, ABSENT, EMPTY, JUNK, Sealed
<1>. QED
  BY <1>2, <1>3

\* A seed sealed under a PIN is one of the sealed seeds.
LEMMA SealedIsSealed ==
  ASSUME NEW s \in DOMAIN Seeds \cup {GENERATED}, NEW p \in Pins
  PROVE  Sealed(s, p) \in Sealeds
BY DEF Sealeds

-----------------------------------------------------------------------------
\* Types.  Only Encrypt and Load choose what is in the caller's hands, and both
\* choose among what can be there.
LEMMA TypesInitially == Init => Types
BY VaultAssumption DEF Init, PowerOn, Types, TypeOK, LONGEST

LEMMA TypesKept == Types /\ [Next]_vars => Types'
<1>. SUFFICES ASSUME Types, [Next]_vars PROVE Types'
  OBVIOUS
<1>. USE DEF Types, TypeOK
<1>1. ASSUME NEW pin \in Pins \cup DOMAIN BadPins, Generate(pin) PROVE Types'
  BY <1>1 DEF Generate, walletVars, limiterVars, cardVars
<1>2. ASSUME NEW pin \in Pins, UnlockOpens(pin) PROVE Types'
  BY <1>2, VaultAssumption DEF UnlockOpens, RecordSuccess, Opened, walletVars, cardVars, LONGEST
<1>3. ASSUME NEW pin \in Pins, WrongPin(pin) PROVE Types'
  BY <1>3, VaultAssumption DEF WrongPin, RecordFailure, CountFailure, walletVars, cardVars, LONGEST
<1>4. ASSUME NEW pin \in Pins, FromEncrypted(pin) PROVE Types'
  BY <1>4 DEF FromEncrypted, walletVars, limiterVars, cardVars
<1>5. ASSUME NEW s \in DOMAIN Seeds \cup {GENERATED}, NEW pin \in Pins, Encrypt(s, pin)
      PROVE  Types'
  BY <1>5, SealedIsSealed DEF Encrypt, walletVars, limiterVars, cardVars
<1>6. CASE UnlockRefused \/ Lock \/ Wipe \/ LockKey \/ KeyMaster
  BY <1>6 DEF UnlockRefused, Lock, Wipe, LockKey, KeyMaster, walletVars, limiterVars, cardVars
<1>7. CASE Tick
  BY <1>7 DEF Tick, Older, LONGEST, walletVars, cardVars
<1>8. CASE StoreFails \/ StoreOpens \/ StoreWrites \/ StoreWriteFails
  BY <1>8 DEF StoreFails, StoreOpens, StoreWrites, StoreWriteFails, CardError,
              walletVars, limiterVars
<1>9. CASE Load
  <2>1. sealed' \in Sealeds \cup {NoSealed, JUNK}
    BY <1>9 DEF Load, Read
  <2>. QED
    BY <1>9, <2>1 DEF Load, walletVars, limiterVars, cardVars
<1>10. CASE WipeNotFound \/ WipeOpens \/ WipePasses \/ WipeDeletes
  BY <1>10 DEF WipeNotFound, WipeOpens, WipePasses, WipeDeletes, CardError, Emptied,
               walletVars, limiterVars
<1>11. CASE PowerCut
  BY <1>11, VaultAssumption DEF PowerCut, LONGEST
<1>12. CASE UNCHANGED vars
  BY <1>12 DEF vars, walletVars, limiterVars, cardVars
<1>. QED
  BY <1>1, <1>2, <1>3, <1>4, <1>5, <1>6, <1>7, <1>8, <1>9, <1>10, <1>11, <1>12 DEF Next

\* The status, the count of wrong PINs, the file and what the caller holds keep
\* their types whatever is called, fails or is cut.
THEOREM TypeCorrect == Spec => []TypeOK
<1>1. Types => TypeOK
  BY DEF Types
<1>. QED
  BY <1>1, TypesInitially, TypesKept, PTL DEF Spec

-----------------------------------------------------------------------------
\* Seed and master key are set together and cleared together.
LEMMA SecretsKept == SecretsOnlyUnlocked /\ [Next]_vars => SecretsOnlyUnlocked'
<1>. SUFFICES ASSUME SecretsOnlyUnlocked, [Next]_vars PROVE SecretsOnlyUnlocked'
  OBVIOUS
<1>. USE DEF SecretsOnlyUnlocked
<1>1. ASSUME NEW pin \in Pins \cup DOMAIN BadPins, Generate(pin) PROVE SecretsOnlyUnlocked'
  BY <1>1 DEF Generate, walletVars, GENERATED, NONE
<1>2. ASSUME NEW pin \in Pins, UnlockOpens(pin) PROVE SecretsOnlyUnlocked'
  <2>1. sealed.seed # NONE
    BY <1>2 DEF UnlockOpens, Decrypts
  <2>. QED
    BY <1>2, <2>1 DEF UnlockOpens, Opened, walletVars
<1>3. CASE Lock \/ Wipe \/ PowerCut
  BY <1>3 DEF Lock, Wipe, PowerCut
<1>4. CASE UNCHANGED walletVars
  BY <1>4 DEF walletVars
<1>5. \/ \E pin \in Pins \cup DOMAIN BadPins : Generate(pin)
      \/ \E pin \in Pins : UnlockOpens(pin)
      \/ Lock \/ Wipe \/ PowerCut \/ UNCHANGED walletVars
  BY DEF Next, vars, WrongPin, FromEncrypted, Encrypt, UnlockRefused, Tick, LockKey, KeyMaster,
         StoreFails, StoreOpens, StoreWrites, StoreWriteFails, CardError,
         Load, WipeNotFound, WipeOpens, WipePasses, WipeDeletes
<1>. QED
  BY <1>1, <1>2, <1>3, <1>4, <1>5

\* Secrets exist exactly while the wallet is unlocked, both or none: state.rs sets
\* them after the last step that can fail and clears them on every way out.
THEOREM SecretsAreGuarded == Spec => []SecretsOnlyUnlocked
<1>1. Init => SecretsOnlyUnlocked
  BY DEF Init, PowerOn, SecretsOnlyUnlocked
<1>. QED
  BY <1>1, SecretsKept, PTL DEF Spec

-----------------------------------------------------------------------------
\* The card changes only by the steps of a store and of a wipe.
LEMMA CardKept == CardInv /\ [Next]_vars => CardInv'
<1>. SUFFICES ASSUME CardInv, [Next]_vars PROVE CardInv'
  OBVIOUS
<1>. USE LeftoversAreNoSeeds DEF CardInv, CardHoldsLastStore
<1>1. CASE StoreOpens
  BY <1>1 DEF StoreOpens, CardError
<1>2. CASE StoreWrites
  BY <1>2 DEF StoreWrites
<1>3. CASE StoreWriteFails \/ StoreFails \/ WipeNotFound
  BY <1>3 DEF StoreWriteFails, StoreFails, WipeNotFound, CardError
<1>4. CASE WipeOpens
  BY <1>4 DEF WipeOpens, Emptied
<1>5. CASE WipePasses
  BY <1>5 DEF WipePasses
<1>6. CASE WipeDeletes
  BY <1>6 DEF WipeDeletes, CardError
<1>7. CASE PowerCut
  BY <1>7 DEF PowerCut
<1>8. CASE UNCHANGED cardVars
  BY <1>8 DEF cardVars, Sealeds
<1>9. \/ StoreOpens \/ StoreWrites \/ StoreWriteFails \/ StoreFails \/ WipeNotFound
      \/ WipeOpens \/ WipePasses \/ WipeDeletes \/ PowerCut \/ UNCHANGED cardVars
  BY DEF Next, vars, Generate, UnlockOpens, WrongPin, FromEncrypted, Encrypt, UnlockRefused,
         Lock, Wipe, Tick, LockKey, KeyMaster, Load
<1>. QED
  BY <1>1, <1>2, <1>3, <1>4, <1>5, <1>6, <1>7, <1>8, <1>9

\* However a store or a wipe is cut or fails, the file is the last complete store or
\* nothing a PIN opens (SeedStorage::store and wipe of storage.rs).
THEOREM LastStoreStays == Spec => []CardHoldsLastStore
<1>1. Init => CardInv
  BY LeftoversAreNoSeeds DEF Init, PowerOn, CardInv, CardHoldsLastStore
<1>2. CardInv => CardHoldsLastStore
  BY DEF CardInv
<1>. QED
  BY <1>1, <1>2, CardKept, PTL DEF Spec

-----------------------------------------------------------------------------
\* Lengths around the bound of the history.
LEMMA Lengths == \A n \in Nat : (n <= 4 /\ n # 4 => n <= 3) /\ (n + 1 = 4 => n = 3)
OBVIOUS

\* Four ages without the oldest one.
LEMMA TailOfFour ==
  ASSUME NEW s \in Seq(Nat), Len(s) = 4
  PROVE  /\ Tail(s) \in Seq(Nat) /\ Len(Tail(s)) = 3
         /\ \A i \in 1..3 : Tail(s)[i] = s[i + 1] /\ i + 1 \in 1..Len(s)
<1>1. s # << >>
  <2>. SUFFICES ASSUME s = << >> PROVE Len(s) = 0
    OBVIOUS
  <2>. QED
    BY EmptySeq
<1>2. /\ Tail(s) \in Seq(Nat) /\ Len(Tail(s)) = Len(s) - 1
      /\ \A i \in 1..Len(Tail(s)) : Tail(s)[i] = s[i + 1]
  BY <1>1, HeadTailProperties
<1>3. Len(Tail(s)) = 3
  BY <1>2
<1>4. \A i \in 1..3 : i + 1 \in 1..Len(s)
  OBVIOUS
<1>. QED
  BY <1>2, <1>3, <1>4

\* A wrong PIN is the youngest; the oldest of four goes.
LEMMA FailureRecorded ==
  ASSUME LimiterInv, ~IsLockedOut, RecordFailure
  PROVE  LimiterInv'
<1>. USE DEF LimiterInv, LONGEST
<1>. DEFINE kept == IF Len(guesses) = 4 THEN Tail(guesses) ELSE guesses
<1>1. /\ kept \in Seq(Nat) /\ Len(kept) \in Nat /\ Len(kept) <= 3 /\ Len(kept) <= Len(guesses)
      /\ \A i \in 1..Len(kept) : kept[i] \in Nat /\ kept[i] >= since
  <2>1. /\ Len(guesses) \in Nat /\ Len(guesses) <= 4 /\ guesses \in Seq(Nat) /\ since \in Nat
        /\ \A i \in 1..Len(guesses) : guesses[i] \in Nat /\ guesses[i] >= since
    <3>1. Len(guesses) \in Nat /\ \A i \in 1..Len(guesses) : guesses[i] \in Nat
      OBVIOUS
    <3>. QED
      BY <3>1
  <2>2. CASE Len(guesses) = 4
    <3>1. /\ kept \in Seq(Nat) /\ Len(kept) = 3
          /\ \A i \in 1..3 : kept[i] = guesses[i + 1] /\ i + 1 \in 1..Len(guesses)
      BY <2>1, <2>2, TailOfFour
    <3>. HIDE DEF kept
    <3>2. \A i \in 1..3 : kept[i] \in Nat /\ kept[i] >= since
      BY <2>1, <3>1
    <3>3. Len(kept) <= Len(guesses)
      BY <2>2, <3>1
    <3>. QED
      BY <3>1, <3>2, <3>3
  <2>3. CASE Len(guesses) # 4
    <3>1. kept = guesses
      BY <2>3
    <3>. HIDE DEF kept
    <3>2. Len(kept) <= 3
      BY Lengths, <2>1, <2>3, <3>1, Zenon
    <3>. QED
      BY <2>1, <3>1, <3>2
  <2>. QED
    BY <2>2, <2>3
<1>3. guesses' = Append(kept, 0) /\ since' = 0
  BY DEF RecordFailure
<1>. HIDE DEF kept
<1>4. /\ guesses' \in Seq(Nat) /\ Len(guesses') = Len(kept) + 1
      /\ \A i \in 1..Len(kept) : guesses'[i] = kept[i]
      /\ guesses'[Len(kept) + 1] = 0
  BY <1>1, <1>3, AppendProperties
<1>5. \A i \in 1..Len(guesses') : guesses'[i] >= since'
  BY <1>1, <1>3, <1>4
<1>6. failed_attempts' < 3 => Len(guesses') <= failed_attempts'
  BY <1>1, <1>4, VaultAssumption DEF RecordFailure, CountFailure
<1>7. Len(guesses') = 4 => guesses'[1] >= 1
  <2>. SUFFICES ASSUME Len(guesses') = 4 PROVE guesses'[1] >= 1
    OBVIOUS
  <2>1. Len(kept) = 3
    BY Lengths, <1>1, <1>4, Zenon
  <2>2. 1 \in 1..Len(kept) /\ guesses'[1] = kept[1]
    BY <2>1, <1>4
  <2>3. failed_attempts >= 3
    BY <2>1, <1>1, VaultAssumption
  <2>4. since >= 1
    BY <2>3, VaultAssumption DEF IsLockedOut, Wait, LONGEST
  <2>. QED
    BY <2>2, <2>4, <1>1
<1>8. failed_attempts' \in 0..U8_MAX /\ since' \in 0..LONGEST
  BY <1>3, VaultAssumption DEF RecordFailure, CountFailure
<1>9. Len(guesses') <= 4
  BY <1>1, <1>4
<1>. QED
  BY <1>4, <1>5, <1>6, <1>7, <1>8, <1>9

\* Time passes for all of them alike.
LEMMA TimePassed ==
  ASSUME LimiterInv, Tick
  PROVE  LimiterInv'
<1>. USE DEF LimiterInv, Tick, Older, LONGEST
<1>1. guesses' = [i \in 1..Len(guesses) |-> Older(guesses[i])]
  OBVIOUS
<1>2. \A i \in 1..Len(guesses) : Older(guesses[i]) \in Nat
  OBVIOUS
<1>3. guesses' \in Seq(Nat) /\ Len(guesses') = Len(guesses)
  BY <1>1, <1>2
<1>4. \A i \in 1..Len(guesses') : guesses'[i] >= since'
  BY <1>1, <1>3
<1>5. Len(guesses') = 4 => guesses'[1] >= 1
  BY <1>1, <1>3
<1>. QED
  BY <1>3, <1>4, <1>5

\* Without failures there is nothing to count.
LEMMA EmptyIsCalm ==
  guesses' = <<>> /\ failed_attempts' = 0 /\ since' = LONGEST => LimiterInv'
<1>. SUFFICES ASSUME guesses' = <<>> /\ failed_attempts' = 0 /\ since' = LONGEST
              PROVE  LimiterInv'
  OBVIOUS
<1>1. guesses' \in Seq(Nat) /\ Len(guesses') = 0
  BY EmptySeq
<1>2. failed_attempts' \in 0..U8_MAX /\ since' \in 0..LONGEST
  BY VaultAssumption DEF LONGEST
<1>. QED
  BY <1>1, <1>2 DEF LimiterInv

\* The limiter's calls are the only ones that touch it, and a success empties it.
LEMMA LimiterKept == LimiterInv /\ [Next]_vars => LimiterInv'
<1>. SUFFICES ASSUME LimiterInv, [Next]_vars PROVE LimiterInv'
  OBVIOUS
<1>1. ASSUME NEW pin \in Pins, WrongPin(pin) PROVE LimiterInv'
  BY <1>1, FailureRecorded DEF WrongPin
<1>2. CASE Tick
  BY <1>2, TimePassed
<1>3. CASE guesses' = <<>> /\ failed_attempts' = 0 /\ since' = LONGEST
  BY <1>3, EmptyIsCalm
<1>4. CASE UNCHANGED limiterVars
  BY <1>4 DEF limiterVars, LimiterInv
<1>5. \/ \E pin \in Pins : WrongPin(pin)
      \/ Tick \/ (guesses' = <<>> /\ failed_attempts' = 0 /\ since' = LONGEST)
      \/ UNCHANGED limiterVars
  BY DEF Next, vars, Generate, UnlockOpens, RecordSuccess, FromEncrypted, Encrypt, UnlockRefused,
         Lock, Wipe, LockKey, KeyMaster, Load, StoreFails, StoreOpens, StoreWrites,
         StoreWriteFails, CardError, WipeNotFound, WipeOpens, WipePasses, WipeDeletes, PowerCut
<1>. QED
  BY <1>1, <1>2, <1>3, <1>4, <1>5

\* Of at most four failures, three are recent.
LEMMA FewRecent == LimiterInv => GuessesAreSlow
<1>. SUFFICES ASSUME LimiterInv PROVE GuessesAreSlow
  OBVIOUS
<1>. DEFINE recent == {i \in DOMAIN guesses : guesses[i] < 1}
            first == IF Len(guesses) = 4 THEN 2 ELSE 1
            last == IF Len(guesses) = 4 THEN 4 ELSE 3
<1>1. recent \subseteq first..last
  <2>. SUFFICES ASSUME NEW i \in recent PROVE i \in first..last
    OBVIOUS
  <2>1. /\ i \in 1..Len(guesses) /\ guesses[i] < 1
        /\ Len(guesses) \in Nat /\ Len(guesses) <= 4 /\ (Len(guesses) = 4 => guesses[1] >= 1)
        /\ guesses[i] \in Nat
    BY DEF LimiterInv
  <2>2. CASE Len(guesses) = 4
    <3>1. i # 1
      <4>. SUFFICES ASSUME i = 1 PROVE FALSE
        OBVIOUS
      <4>1. guesses[1] \in Nat /\ guesses[1] < 1 /\ guesses[1] >= 1
        BY <2>1, <2>2
      <4>. QED
        BY <4>1
    <3>. QED
      BY <2>1, <2>2, <3>1
  <2>3. CASE Len(guesses) # 4
    <3>1. Len(guesses) <= 3
      BY Lengths, <2>1, <2>3, Zenon
    <3>. QED
      BY <2>1, <2>3, <3>1
  <2>. QED
    BY <2>2, <2>3
<1>2. IsFiniteSet(first..last) /\ Cardinality(first..last) = 3
  <2>1. first \in Int /\ last \in Int /\ first <= last /\ last - first + 1 = 3
    OBVIOUS
  <2>. QED
    BY <2>1, FS_Interval
<1>3. Cardinality(recent) <= 3
  BY <1>1, <1>2, FS_Subset, FS_CardinalityType
<1>. QED
  BY <1>3 DEF GuessesAreSlow

-----------------------------------------------------------------------------
\* The inductive invariant.
THEOREM Invariance == Spec => []IInv
<1>1. Init => IInv
  <2>. SUFFICES ASSUME Init PROVE IInv
    OBVIOUS
  <2>1. Types /\ SecretsOnlyUnlocked /\ CardInv
    BY TypesInitially, LeftoversAreNoSeeds
       DEF Init, PowerOn, SecretsOnlyUnlocked, CardInv, CardHoldsLastStore
  <2>2. guesses \in Seq(Nat) /\ Len(guesses) = 0
    BY EmptySeq DEF Init, PowerOn
  <2>3. LimiterInv
    BY <2>2, VaultAssumption DEF Init, PowerOn, LimiterInv, LONGEST
  <2>. QED
    BY <2>1, <2>3 DEF IInv
<1>2. IInv /\ [Next]_vars => IInv'
  BY TypesKept, SecretsKept, CardKept, LimiterKept DEF IInv, Types
<1>. QED
  BY <1>1, <1>2, PTL DEF Spec

\* A caller that asks is_locked_out first tries at most three wrong PINs in any thirty
\* seconds, whatever it calls in between, for any width of the counter.
THEOREM WrongPinsAreSlow == Spec => []GuessesAreSlow
<1>1. IInv => GuessesAreSlow
  BY FewRecent DEF IInv
<1>. QED
  BY <1>1, Invariance, PTL
=============================================================================
