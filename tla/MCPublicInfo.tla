---------------------------- MODULE MCPublicInfo ----------------------------
(* Symmetry for the model checking of PublicInfo: secrets of one kind and    *)
(* passphrases are never ordered or named.                                  *)
EXTENDS PublicInfo, TLC

DataSymmetry == Permutations(Secrets) \cup Permutations(Passphrases)
PassphraseSymmetry == Permutations(Passphrases)
=============================================================================
