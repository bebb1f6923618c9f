----------------------------- MODULE Bip39Codec -----------------------------
(***************************************************************************)
(* Phrases and the packed value of src/bip39.py: splitting, _split_lookup, *)
(* and, as the reference the completer is held to, the BIP39 checksum rule *)
(* of spec section 3 stated directly on bits.                              *)
(*                                                                         *)
(* A phrase is [kind |-> "str", chars |-> <<...>>] (a Python str, split    *)
(* on whitespace) or [kind |-> "list", tokens |-> <<...>>] (already split). *)
(***************************************************************************)
EXTENDS Bip39Words, BigNat

CONSTANT Whitespace   (* the characters str.split() separates on *)

(* str.split(): the pieces between whitespace characters (and the ends),  *)
(* the empty ones dropped, so runs and leading or trailing whitespace      *)
(* give no token.                                                          *)
Split(s) ==
  LET cuts   == <<0>> \o SelectSeq([k \in DOMAIN s |-> k], LAMBDA k : s[k] \in Whitespace)
                      \o <<Len(s) + 1>>
      pieces == [k \in 1 .. Len(cuts) - 1 |-> SubSeq(s, cuts[k] + 1, cuts[k + 1] - 1)]
  IN  SelectSeq(pieces, LAMBDA t : t # <<>>)

(* if isinstance(phrase, str): phrase = phrase.split() *)
PhraseTokens(phrase) ==
  IF phrase.kind = "str" THEN Split(phrase.chars) ELSE phrase.tokens

(***************************************************************************)
(* The loop rv = (rv << 11) | get_word_index(w); the first ValueError      *)
(* propagates and no partial result is returned.                           *)
(***************************************************************************)
(* Packing variants: one that shifts by 10 bits, and one that returns    *)
(* (num, rv) with the failed lookup in place of rv.                       *)
SplitLookupShift10(phrase) ==
  LET toks == PhraseTokens(phrase)
      Pack(rv, w) ==
        IF rv = ValueError \/ GetWordIndex(w) = ValueError THEN ValueError
        ELSE BOr(Shl(rv, 10), NatToBits(GetWordIndex(w)))
      rv == FoldLeft(Pack, <<>>, toks)
  IN  IF rv = ValueError THEN ValueError ELSE [num |-> Len(toks), rv |-> rv]

SplitLookupNoRaise(phrase) ==
  LET toks == PhraseTokens(phrase)
      Pack(rv, w) ==
        IF rv = ValueError \/ GetWordIndex(w) = ValueError THEN ValueError
        ELSE BOr(Shl(rv, 11), NatToBits(GetWordIndex(w)))
  IN  [num |-> Len(toks), rv |-> FoldLeft(Pack, <<>>, toks)]

SplitLookup(phrase) ==
  LET toks == PhraseTokens(phrase)
      Pack(rv, w) ==
        IF rv = ValueError \/ GetWordIndex(w) = ValueError THEN ValueError
        ELSE BOr(Shl(rv, 11), NatToBits(GetWordIndex(w)))
      rv == FoldLeft(Pack, <<>>, toks)
  IN  IF rv = ValueError THEN ValueError ELSE [num |-> Len(toks), rv |-> rv]

(* The k-th 11-bit field of an n-word value: (v >> 11*(n-1-k)) & 0x7FF. *)
Field(v, n, k) == LowBits(Shr(v, 11 * (n - 1 - k)), 11)

-----------------------------------------------------------------------------
(* Reference: the word indices a phrase denotes, or ValueError if one of  *)
(* its tokens denotes no word.                                             *)
Decoded(p) ==
  LET toks == PhraseTokens(p)
  IN  IF \A k \in DOMAIN toks : Denotes(toks[k]) # {}
      THEN [k \in DOMAIN toks |-> CHOOSE x \in Denotes(toks[k]) : TRUE]
      ELSE ValueError

(* Decoded as an explicit function on a finite set of phrases. *)
RECURSIVE DecodedOn(_)
DecodedOn(S) ==
  IF S = {} THEN <<>>
  ELSE LET p == CHOOSE p \in S : TRUE IN (p :> Decoded(p)) @@ DecodedOn(S \ {p})

(***************************************************************************)
(* Reference: a full mnemonic of M word indices is valid under a digest    *)
(* whose first byte is D(bytes) when its 11*M bits split into ENT entropy  *)
(* bits and CS = ENT/32 checksum bits, and the checksum bits are the top   *)
(* CS bits of D of the entropy bytes.                                       *)
(***************************************************************************)
MnemonicBits(idxs) == FlattenSeq([k \in DOMAIN idxs |-> PadTo(NatToBits(idxs[k]), 11)])

BitsToByteSeq(bits) ==
  [j \in 1 .. Len(bits) \div 8 |-> BitsToNat(SubSeq(bits, 8 * j - 7, 8 * j))]

ValidMnemonic(idxs, D(_)) ==
  LET total == 11 * Len(idxs)
      cs    == total \div 33
      ent   == 32 * cs
      bits  == MnemonicBits(idxs)
  IN  /\ ent + cs = total
      /\ BitsToNat(SubSeq(bits, ent + 1, total))
           = D(BitsToByteSeq(SubSeq(bits, 1, ent))) \div 2^(8 - cs)
=============================================================================
