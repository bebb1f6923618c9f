--------------------------- MODULE MCWordResolver ---------------------------
(***************************************************************************)
(* The resolver over the toy dictionary.  The tokens are every prefix of  *)
(* a word (the words and their abbreviations among them), every word with *)
(* a letter appended, and strings whose prefixes are absent from the      *)
(* table or whose scan runs off the end of the list.                      *)
(***************************************************************************)
EXTENDS WordResolver, Bip39Toy

MCTokens ==
  LET ws == {MCWords[k] : k \in DOMAIN MCWords}
  IN  UNION {{SubSeq(w, 1, n) : n \in 1 .. Len(w)} : w \in ws}
      \cup {Append(w, l) : w \in ws, l \in {"a", "s", "z"}}
      \cup {<<"a","c","e">>, <<"b","e","a","d">>, <<"z","z","z">>, <<"u","n","d","o">>}
=============================================================================
