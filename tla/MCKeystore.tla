----------------------------- MODULE MCKeystore -----------------------------
(* TLC instance of Keystore: the mnemonic type of each test secret, and    *)
(* passwords that may be exchanged for one another.                        *)
EXTENDS Keystore, TLC

CONSTANTS s1, s2

MCKinds == s1 :> "bip39" @@ s2 :> "slip39"

PasswordSymmetry == Permutations(Passwords)
=============================================================================
