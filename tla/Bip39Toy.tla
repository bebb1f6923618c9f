----------------------------- MODULE Bip39Toy -------------------------------
(***************************************************************************)
(* A fifteen-word dictionary with the shapes the resolver must handle:     *)
(* 3- to 8-letter words, words that are their own abbreviation, a first-   *)
(* letter run made of several two-letter runs ("ab", "ac", "ad"), single-  *)
(* word runs, and a last run that ends the list ("z").                     *)
(***************************************************************************)
EXTENDS Integers

MCAlphabet ==
  <<"a", "b", "c", "d", "e", "g", "i", "l", "n", "o", "r", "s", "t", "u", "z">>

MCWords ==
  << <<"a","b","l","e">>, <<"a","b","o","u","t">>, <<"a","b","s","e","n","t">>,
     <<"a","b","s","o","l","u","t","e">>, <<"a","c","i","d">>, <<"a","c","t">>,
     <<"a","c","t","i","o","n">>, <<"a","d","d">>, <<"a","d","d","r","e","s","s">>,
     <<"b","a","g">>, <<"b","a","l","l">>, <<"c","a","b">>,
     <<"z","e","b","r","a">>, <<"z","e","r","o">>, <<"z","o","n","e">> >>
(* wordlist_en[i] *)
MCWordAt(i) == MCWords[i + 1]
=============================================================================
