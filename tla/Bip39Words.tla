----------------------------- MODULE Bip39Words -----------------------------
(***************************************************************************)
(* The dictionary side of src/bip39.py: the wordlist, the prefix table     *)
(* _lookup and the resolver get_word_index, as pure operators.             *)
(*                                                                         *)
(* A word is a sequence of letters (w[1] is Python's w[0]); an index is    *)
(* Python's 0-based position, so wordlist_en[i] is WordAt(i).  The         *)
(* exception raised by the code is the model value ValueError.             *)
(***************************************************************************)
EXTENDS Integers, Sequences, SequencesExt

CONSTANTS
  Alphabet,   (* the letters, as a sequence in collation order            *)
  NumWords,   (* len(wordlist_en)                                          *)
  WordAt(_),  (* wordlist_en[i], for i in Indices                          *)
  ValueError  (* the exception get_word_index raises                       *)

(* The positions of wordlist_en; its words are the constant WordAt. *)
Indices == 0 .. NumWords - 1

(* Python's slice w[:n], which stops at the end of a short word. *)
Slice(w, n) == SubSeq(w, 1, IF n < Len(w) THEN n ELSE Len(w))

(***************************************************************************)
(* What the wordlist is promised to be (spec section 3): every word has 3  *)
(* to 8 letters, the list is sorted, and no two words share their first    *)
(* four letters.  get_word_index relies on all three.  In a sorted list    *)
(* the 4-letter prefixes are sorted too, so neighbours suffice.            *)
(***************************************************************************)
RECURSIVE LexLess(_, _)
LexLess(u, v) ==
  LET pos(l) == CHOOSE k \in DOMAIN Alphabet : Alphabet[k] = l
  IN  \/ u = <<>> /\ v # <<>>
      \/ /\ u # <<>> /\ v # <<>>
         /\ \/ pos(Head(u)) < pos(Head(v))
            \/ Head(u) = Head(v) /\ LexLess(Tail(u), Tail(v))

ASSUME \A i \in Indices : 3 <= Len(WordAt(i)) /\ Len(WordAt(i)) <= 8
ASSUME \A i \in 1 .. NumWords - 1 : LexLess(WordAt(i - 1), WordAt(i))
ASSUME \A i \in 1 .. NumWords - 1 : Slice(WordAt(i - 1), 4) # Slice(WordAt(i), 4)
ASSUME ValueError \notin Int

(***************************************************************************)
(* The generator of the prefix table (the disabled block before _lookup)   *)
(* walks the list in order and records a 1- or 2-letter prefix only if it  *)
(* is not yet present, so each prefix keeps the first index carrying it.   *)
(* The dead 3-letter branch ("if 0 and ...") is left out.                  *)
(***************************************************************************)
(* A generator that overwrites, so each prefix keeps its last index.      *)
RECURSIVE BuildFromLastWins(_, _)
BuildFromLastWins(lo, hi) ==
  IF lo = hi
  THEN (Slice(WordAt(lo), 2) :> lo) @@ (Slice(WordAt(lo), 1) :> lo)
  ELSE BuildFromLastWins((lo + hi) \div 2 + 1, hi) @@ BuildFromLastWins(lo, (lo + hi) \div 2)

RECURSIVE BuildFrom(_, _)
BuildFrom(lo, hi) ==
  IF lo = hi
  THEN (Slice(WordAt(lo), 1) :> lo) @@ (Slice(WordAt(lo), 2) :> lo)
  ELSE BuildFrom(lo, (lo + hi) \div 2) @@ BuildFrom((lo + hi) \div 2 + 1, hi)

BuildLookup == BuildFrom(0, NumWords - 1)

(* _lookup: the table the generator printed, pasted into the source. *)
lookup == BuildLookup

(***************************************************************************)
(* get_word_index(word).  The length assertion and the _lookup[word[:2]]   *)
(* KeyError both become ValueError; otherwise the list is scanned from the *)
(* table's start index: a match (full word or its first four letters)      *)
(* returns, a change of first letter breaks, running off the end of the   *)
(* list falls through to the final raise.                                  *)
(***************************************************************************)
RECURSIVE ScanFrom(_, _)
ScanFrom(word, i) ==
  IF i = NumWords THEN ValueError
  ELSE CASE word = WordAt(i) \/ word = Slice(WordAt(i), 4) -> i
         [] WordAt(i)[1] # word[1]                        -> ValueError
         [] OTHER                                         -> ScanFrom(word, i + 1)

GetWordIndex(word) ==
  IF \/ ~(3 <= Len(word) /\ Len(word) <= 8)
     \/ Slice(word, 2) \notin DOMAIN lookup
  THEN ValueError
  ELSE ScanFrom(word, lookup[Slice(word, 2)])

(***************************************************************************)
(* Reference meaning of a token (spec sections 4.1 and 8): the indices of  *)
(* the dictionary words it spells in full or abbreviates to four letters.  *)
(***************************************************************************)
Denotes(t) == {x \in Indices : t = WordAt(x) \/ t = Slice(WordAt(x), 4)}
=============================================================================
