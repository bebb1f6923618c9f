-------------------------- MODULE MCPhraseDecoder ---------------------------
(***************************************************************************)
(* _split_lookup over the toy dictionary: every list of up to three tokens *)
(* drawn from a full word, an abbreviation, a word that is its own         *)
(* abbreviation, the last word of the list, an unknown word with a known   *)
(* prefix and a too-short token, in list form and in two string forms.    *)
(***************************************************************************)
EXTENDS PhraseDecoder, Bip39Toy

MCTokenPool ==
  { <<"a","b","s","o","l","u","t","e">>,  \* absolute, 8 letters
    <<"a","d","d","r">>,                  \* address, abbreviated
    <<"z","e","r","o">>,                  \* zero, its own abbreviation
    <<"z","o","n","e">>,                  \* zone, the last word
    <<"a","c","e">>,                      \* unknown, prefix "ac" known
    <<"a","b">> }                         \* too short
=============================================================================
