---------------------------- MODULE MCBip39Main -----------------------------
(* __main__ of src/bip39.py over the generated dictionary and phrases. *)
EXTENDS Bip39Main, MCWordsGuess
=============================================================================
