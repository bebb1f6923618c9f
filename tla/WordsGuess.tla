----------------------------- MODULE WordsGuess -----------------------------
(***************************************************************************)
(* a2b_words_guess (src/bip39.py): the generator of candidate final words, *)
(* driven by a caller that creates it and consumes it with next().         *)
(*                                                                         *)
(* Calling a2b_words_guess runs no code: the body starts at the first      *)
(* next() (Start), which decodes the phrase, checks the word count, prints *)
(* and enters the loop; each pass of the loop body yields one word (Yield) *)
(* and the next next() resumes after the yield (Resume).  A yielded word   *)
(* wordlist_en[idx] is recorded by its index idx.  The caller may call     *)
(* again at any point between next() calls, dropping the old generator.    *)
(***************************************************************************)
EXTENDS Bip39Codec

CONSTANTS
  NumPhrases,   (* how many phrases a caller may pass                     *)
  PhraseAt(_),  (* the k-th of them, k in 1..NumPhrases                   *)
  Digest0(_),   (* sha256(bits).digest()[0]                               *)
  IndexError    (* what wordlist_en[...] raises past the end              *)

ASSUME NumWords = 2048

Phrases == {PhraseAt(k) : k \in 1 .. NumPhrases}

VARIABLES
  gpc,     (* "none", "created", "loop", "suspended", "exhausted", "raised" *)
  gphrase, (* the argument phrase of the call                            *)
  num,     (* locals of the generator frame: num, chk_w, width, prv and   *)
  chkw,
  gwidth,  (* width (names distinct from the operators' parameters)      *)
  prv,
  loop_i,  (* the loop variable i                                         *)
  out,     (* the indices yielded so far                                 *)
  err,     (* the exception the generator raised, or "none"              *)
  printed  (* whether anything was written to stdout, across calls        *)

vars == <<gpc, gphrase, num, chkw, gwidth, prv, loop_i, out, err, printed>>

(* if num not in { 11, 14, 17, 20, 23 }: return *)
GuessLengths == {11, 14, 17, 20, 23}

Init ==
  /\ gpc = "none"
  /\ gphrase = CHOOSE p \in Phrases : TRUE
  /\ num = 0 /\ chkw = 0 /\ gwidth = 0 /\ prv = <<>> /\ loop_i = 0
  /\ out = <<>>
  /\ err = "none"
  /\ printed = FALSE

(* a2b_words_guess(phrase): a new generator, nothing run yet; the old    *)
(* generator and its frame are dropped.                                  *)
Call(p) ==
  /\ gpc # "loop"
  /\ gpc' = "created"
  /\ gphrase' = p
  /\ num' = 0 /\ chkw' = 0 /\ gwidth' = 0 /\ prv' = <<>> /\ loop_i' = 0
  /\ out' = <<>>
  /\ err' = "none"
  /\ UNCHANGED printed

(* chk_w = (num+1) // 3: the checksum bits the missing word carries *)
ChkW(n) == (n + 1) \div 3

(* A byte width one too large. *)
WidthPlusOne(n, c) == (((n + 1) * 11) - c) \div 8 + 1

(* width = (((num+1) * 11) - chk_w) // 8: the entropy bytes *)
Width(n, c) == (((n + 1) * 11) - c) \div 8

(***************************************************************************)
(* First next(): _split_lookup, the length check, the frame set-up, the    *)
(* print, and entry to "for i in range(1 << (11 - chk_w))".                *)
(***************************************************************************)
Start ==
  LET d == SplitLookup(gphrase)
      c == ChkW(d.num)
  IN
  /\ gpc = "created"
  /\ IF d = ValueError
       THEN /\ gpc' = "raised"
            /\ err' = ValueError
            /\ UNCHANGED <<num, chkw, gwidth, prv, loop_i, printed>>
     ELSE IF d.num \notin GuessLengths
       THEN /\ gpc' = "exhausted"
            /\ num' = d.num
            /\ UNCHANGED <<chkw, gwidth, prv, loop_i, err, printed>>
     ELSE /\ gpc' = "loop"
          /\ num' = d.num
          /\ chkw' = c
          /\ gwidth' = Width(d.num, c)
          /\ prv' = Shl(d.rv, 11 - c)
          /\ printed' = TRUE
          /\ loop_i' = 0
          /\ UNCHANGED err
  /\ UNCHANGED <<gphrase, out>>

(***************************************************************************)
(* The loop body for the current i: rv = prv | i, its width big-endian     *)
(* bytes (OverflowError if rv does not fit), the top chk_w bits of the     *)
(* digest's first byte, and yield wordlist_en[(i << chk_w) + chk].         *)
(***************************************************************************)
Yield ==
  LET bytes == ToBytes(BOr(prv, NatToBits(loop_i)), gwidth)
      idx   == loop_i * 2^chkw + Digest0(bytes) \div 2^(8 - chkw)
  IN
  /\ gpc = "loop"
  /\ IF bytes = OverflowError
       THEN /\ gpc' = "raised" /\ err' = OverflowError /\ UNCHANGED out
     ELSE IF idx >= NumWords
       THEN /\ gpc' = "raised" /\ err' = IndexError /\ UNCHANGED out
     ELSE /\ gpc' = "suspended"
          /\ out' = Append(out, idx)
          /\ UNCHANGED err
  /\ UNCHANGED <<gphrase, num, chkw, gwidth, prv, loop_i, printed>>

(* A loop that runs one pass too many. *)
ResumeOffByOne ==
  /\ gpc = "suspended"
  /\ IF loop_i + 1 <= 2^(11 - chkw)
       THEN gpc' = "loop" /\ loop_i' = loop_i + 1
       ELSE gpc' = "exhausted" /\ UNCHANGED loop_i
  /\ UNCHANGED <<gphrase, num, chkw, gwidth, prv, out, err, printed>>

(* A later next(): the for loop moves to i + 1, or the range is spent. *)
Resume ==
  /\ gpc = "suspended"
  /\ IF loop_i + 1 < 2^(11 - chkw)
       THEN gpc' = "loop" /\ loop_i' = loop_i + 1
       ELSE gpc' = "exhausted" /\ UNCHANGED loop_i
  /\ UNCHANGED <<gphrase, num, chkw, gwidth, prv, out, err, printed>>

Next ==
  \/ \E p \in Phrases : Call(p)
  \/ Start
  \/ Yield
  \/ Resume

Spec == Init /\ [][Next]_vars

-----------------------------------------------------------------------------
TypeOK ==
  /\ gpc \in {"none", "created", "loop", "suspended", "exhausted", "raised"}
  /\ gphrase \in Phrases
  /\ loop_i \in 0 .. 2^(11 - chkw) - 1
  /\ out \in Seq(Indices)
  /\ err \in {"none", ValueError, OverflowError, IndexError}

(***************************************************************************)
(* The generator implements the completion contract of Bip39Completion:    *)
(* every yielded word completes the phrase under the BIP39 checksum, none  *)
(* is skipped, they come in ascending order, the sequence ends only when   *)
(* no completion is left, and the only failure is an unknown word.  This   *)
(* ties the chk_w, gwidth and shift arithmetic and the byte conversion to   *)
(* the checksum rule stated independently on bits.                         *)
(***************************************************************************)
PhraseMeaning == DecodedOn(Phrases)

Abs == INSTANCE Bip39Completion WITH
         Meaning <- PhraseMeaning,
         apc <- CASE gpc = "none"                   -> "none"
                  [] gpc = "created"                -> "called"
                  [] gpc \in {"loop", "suspended"}  -> "running"
                  [] gpc = "exhausted"              -> "done"
                  [] gpc = "raised"                 -> "failed",
         aphrase <- gphrase,
         aout <- out

GuessRefinesSpec == Abs!ASpec

(***************************************************************************)
(* Spec sections 4.3, 7 and 8: for a word count outside 11, 14, 17, 20,   *)
(* 23 the sequence is empty and that is "not an error".  The code decodes  *)
(* before it checks the count, so an unknown token raises ValueError even  *)
(* then: a consumer of a2b_words_guess never sees the UnsupportedLength    *)
(* outcome for such a phrase.                                              *)
(***************************************************************************)
UnsupportedLengthNeverRaises ==
  gpc = "raised" => Len(PhraseTokens(gphrase)) \in GuessLengths

=============================================================================
