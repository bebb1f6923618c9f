---------------------------- MODULE PhraseDecoder ---------------------------
(***************************************************************************)
(* A caller of _split_lookup (src/bip39.py, modelled in Bip39Codec).  It   *)
(* renders a token list in one of several forms, decodes it, and           *)
(* remembers the list it meant.                                            *)
(* Each call means the previous list with one token more, or the empty    *)
(* list, so every list of at most MaxTokens tokens is reached.            *)
(***************************************************************************)
EXTENDS Bip39Codec

CONSTANTS
  TokenPool,    (* the tokens the caller may write                       *)
  MaxTokens,    (* the longest token list the caller means               *)
  Forms         (* subset of {"list", "str", "str_padded"}               *)

ASSUME Forms \subseteq {"list", "str", "str_padded"}

-----------------------------------------------------------------------------
(* How the caller writes a token list: a list, or a string joined by a    *)
(* space, or one with leading, trailing and doubled whitespace.           *)
Render(toks, form) ==
  LET sp == CHOOSE c \in Whitespace : TRUE
      Joined(sep) == FoldLeft(LAMBDA acc, t : IF acc = <<>> THEN t ELSE acc \o sep \o t,
                              <<>>, toks)
  IN  CASE form = "list" -> [kind |-> "list", tokens |-> toks]
        [] form = "str"  -> [kind |-> "str", chars |-> Joined(<<sp>>)]
        [] OTHER -> [kind |-> "str",
                     chars |-> SetToSeq(Whitespace) \o Joined(SetToSeq(Whitespace))
                               \o <<sp>>]

VARIABLES
  meant,     (* the token list the caller meant                          *)
  phrase,    (* the argument passed to _split_lookup                     *)
  dresult    (* its return value (num, rv), or ValueError                *)

vars == <<meant, phrase, dresult>>

Init ==
  /\ meant = <<>>
  /\ phrase = Render(<<>>, "list")
  /\ dresult = SplitLookup(phrase)

Decode(toks, form) ==
  /\ meant' = toks
  /\ phrase' = Render(toks, form)
  /\ dresult' = SplitLookup(Render(toks, form))

Next ==
  \/ \E t \in TokenPool, form \in Forms :
       Len(meant) < MaxTokens /\ Decode(Append(meant, t), form)
  \/ \E form \in Forms : Decode(<<>>, form)

Spec == Init /\ [][Next]_vars

-----------------------------------------------------------------------------
TypeOK ==
  /\ meant \in BoundedSeq(TokenPool, MaxTokens)
  /\ phrase.kind \in {"str", "list"}
  /\ \/ dresult = ValueError
     \/ /\ DOMAIN dresult = {"num", "rv"}
        /\ dresult.num \in 0 .. MaxTokens
        /\ dresult.rv \in Seq({0, 1})

(***************************************************************************)
(* Decoding round-trips (spec section 8): when every meant token denotes a *)
(* word, the result is (N, v) with v of at most 11*N bits whose fields are *)
(* the words' indices in phrase order; when one does not, ValueError.      *)
(* Breaks if a field is misplaced, a token is dropped or split wrongly, or *)
(* an unknown token is absorbed.                                           *)
(***************************************************************************)
DecodeRoundTrip ==
  IF \A k \in DOMAIN meant : Denotes(meant[k]) # {}
  THEN /\ dresult # ValueError
       /\ dresult.num = Len(meant)
       /\ BitLength(dresult.rv) <= 11 * Len(meant)
       /\ \A k \in DOMAIN meant :
            Field(dresult.rv, Len(meant), k - 1) \in Denotes(meant[k])
  ELSE dresult = ValueError
=============================================================================
