---------------------------- MODULE MCWordsGuess ----------------------------
(***************************************************************************)
(* The generator over a generated 2048-word dictionary: word i is the      *)
(* three letters <<i \div 128, (i \div 16) % 8, i % 16>> over the letters  *)
(* 0..15, so the list is sorted, every word is its own abbreviation and    *)
(* the packed values, shifts and byte widths are exactly those of the real *)
(* list.  SHA-256 is replaced by a byte-mixing fold that depends on every  *)
(* byte and on the length; the properties hold for any digest.             *)
(***************************************************************************)
EXTENDS WordsGuess

MCAlphabet == [k \in 1 .. 16 |-> k - 1]

GenWord(x) == <<x \div 128, (x \div 16) % 8, x % 16>>

(* Built by concatenation so that TLC holds it as an explicit tuple. *)
RECURSIVE GenWords(_, _)
GenWords(lo, hi) ==
  IF lo = hi THEN <<GenWord(lo)>>
  ELSE GenWords(lo, (lo + hi) \div 2) \o GenWords((lo + hi) \div 2 + 1, hi)

MCWords == GenWords(0, 2047)

MCWordAt(x) == GenWord(x)

RECURSIVE MCDigest0(_)
MCDigest0(bytes) ==
  IF bytes = <<>> THEN 71 ELSE (MCDigest0(Front(bytes)) * 167 + Last(bytes) + 29) % 256

AsList(idxs) == [kind |-> "list", tokens |-> [k \in DOMAIN idxs |-> GenWord(idxs[k])]]

(* The 23 words of the spec's example, by their indices in the real list. *)
Example23 == <<2032, 954, 1311, 9, 1128, 1529, 834, 1307, 27, 52, 666, 1790,
               542, 1662, 236, 1673, 718, 990, 1664, 1208, 1137, 483, 1768>>

(* The words joined by single separators, as " ".join builds them. *)
AsString(idxs) ==
  [kind |-> "str", chars |-> FlattenSeq([k \in DOMAIN idxs |->
                               IF k = 1 THEN GenWord(idxs[k]) ELSE <<16>> \o GenWord(idxs[k])])]

Ramp(n, step) == [k \in 1 .. n |-> (k * step) % 2048]

MCPhraseList ==
  << AsString(Example23),                       \* __main__'s " ".join: chk_w = 8
    AsList(Ramp(11, 187)),                     \* chk_w = 4, 128 candidates
    AsList(Ramp(14, 1021)),                    \* chk_w = 5
    AsList(Ramp(17, 2047)),                    \* chk_w = 6
    AsList([k \in 1 .. 20 |-> 2047]),          \* chk_w = 7, all bits set
    AsList([k \in 1 .. 23 |-> 0]),             \* chk_w = 8, all bits clear
    AsList(Ramp(10, 5)),                       \* unsupported count
    AsList(Ramp(12, 5)),                       \* a full mnemonic: unsupported
    AsList(<<>>),                              \* no words
    [kind |-> "list", tokens |-> Append([k \in 1 .. 10 |-> GenWord(k)], <<15, 15, 0>>)],
                                               \* 11 tokens, the last unknown
    [kind |-> "list", tokens |-> <<<<1, 2>>, GenWord(3)>>],
                                               \* a too-short token, 2 tokens
    [kind |-> "str", chars |-> FlattenSeq([k \in 1 .. 11 |-> GenWord(k) \o <<16>>])] >>
                                               \* 11 words as a string

MCPhraseAt(k) == MCPhraseList[k]
=============================================================================
