----------------------------- MODULE Bip39Main ------------------------------
(***************************************************************************)
(* The __main__ block of src/bip39.py: print the phrase, print its         *)
(* decoding, then list(a2b_words_guess(words)) and print the list.  list() *)
(* calls next() until StopIteration, so the generator's steps are never    *)
(* abandoned, and an exception ends the script with a traceback.  The      *)
(* block's phrase words is taken from Phrases (the example phrase among    *)
(* them).                                                                  *)
(***************************************************************************)
EXTENDS WordsGuess

VARIABLES
  mpc,            (* "start", "listing" (inside list()), "exited"          *)
  words,          (* the phrase of the block                               *)
  possible_words, (* the printed list                                      *)
  exitcode        (* 0, or 1 after a traceback                             *)

mvars == <<mpc, words, possible_words, exitcode>>
allvars == <<vars, mvars>>

MainInit ==
  /\ Init
  /\ mpc = "start"
  /\ words \in Phrases
  /\ possible_words = <<>>
  /\ exitcode = 0

(***************************************************************************)
(* print(words); print(_split_lookup(words)) -- a ValueError escapes --    *)
(* then a2b_words_guess(words) creates the generator list() consumes.      *)
(***************************************************************************)
MainSplit ==
  /\ mpc = "start"
  /\ IF SplitLookup(words) = ValueError
       THEN mpc' = "exited" /\ exitcode' = 1 /\ UNCHANGED vars
       ELSE mpc' = "listing" /\ Call(words) /\ UNCHANGED exitcode
  /\ UNCHANGED <<words, possible_words>>

(* list() calls next(): the generator's first run, a yield, or a resume. *)
ListNext ==
  /\ mpc = "listing"
  /\ Start \/ Yield \/ Resume
  /\ UNCHANGED mvars

(* StopIteration ends list(), then print(possible_words); an exception   *)
(* from the generator ends the script instead.                          *)
MainPrint ==
  /\ mpc = "listing"
  /\ gpc \in {"exhausted", "raised"}
  /\ mpc' = "exited"
  /\ IF gpc = "exhausted"
       THEN possible_words' = out /\ UNCHANGED exitcode
       ELSE exitcode' = 1 /\ UNCHANGED possible_words
  /\ UNCHANGED <<words, vars>>

MainNext == MainSplit \/ ListNext \/ MainPrint

(* The script's steps. *)
MainSpec == MainInit /\ [][MainNext]_allvars

-----------------------------------------------------------------------------

(***************************************************************************)
(* Spec section 4.3: completion yields "typically exactly one" word for a  *)
(* genuine mnemonic.  The loop yields one word for each of the             *)
(* 2^(11 - chk_w) values of the missing entropy bits, 8 to 128 of them.    *)
(***************************************************************************)
CompletionTypicallyUnique ==
  mpc = "exited" /\ exitcode = 0 /\ possible_words # <<>> => Len(possible_words) = 1
=============================================================================
