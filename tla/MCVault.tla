------------------------------ MODULE MCVault ------------------------------
EXTENDS Vault, TLC
\* One imported seed of full length and one too short for a master key.
MCSeeds == ("imported" :> 64) @@ ("short" :> 8)
MCBadPins == ("12" :> "TooShort") @@ ("123456789" :> "TooLong") @@ ("12a4" :> "NonDigit")
=============================================================================
