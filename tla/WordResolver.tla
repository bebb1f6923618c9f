---------------------------- MODULE WordResolver ----------------------------
(***************************************************************************)
(* get_word_index (src/bip39.py) one loop iteration at a time, driven by a *)
(* caller that resolves tokens from the set Tokens one after another.      *)
(***************************************************************************)
EXTENDS Bip39Words

CONSTANT Tokens   (* the strings the caller may pass *)

ASSUME Tokens \subseteq Seq(Range(Alphabet))

VARIABLES
  rpc,     (* "idle", "scan" (inside the for loop), "returned", "raised"  *)
  token,   (* the argument word                                            *)
  ri,      (* the loop variable i: the list position being examined       *)
  result   (* the returned index, or ValueError                           *)

vars == <<rpc, token, ri, result>>

Init ==
  /\ rpc = "idle"
  /\ token = <<>>
  /\ ri = 0
  /\ result = ValueError

(* Entry: the length assertion and start_index = _lookup[word[:2]]. *)
Call(t) ==
  /\ rpc # "scan"
  /\ token' = t
  /\ IF 3 <= Len(t) /\ Len(t) <= 8 /\ Slice(t, 2) \in DOMAIN lookup
       THEN /\ rpc' = "scan"
            /\ ri' = lookup[Slice(t, 2)]
            /\ UNCHANGED result
       ELSE /\ rpc' = "raised"
            /\ result' = ValueError
            /\ UNCHANGED ri

(* if word == w or word == w[:4]: return i *)
ScanMatch ==
  /\ rpc = "scan"
  /\ ri < NumWords
  /\ token = WordAt(ri) \/ token = Slice(WordAt(ri), 4)
  /\ rpc' = "returned"
  /\ result' = ri
  /\ UNCHANGED <<token, ri>>

(* if w[0] != word[0]: break -- then the raise after the loop *)
ScanBreak ==
  /\ rpc = "scan"
  /\ ri < NumWords
  /\ token # WordAt(ri) /\ token # Slice(WordAt(ri), 4)
  /\ WordAt(ri)[1] # token[1]
  /\ rpc' = "raised"
  /\ result' = ValueError
  /\ UNCHANGED <<token, ri>>

(* next iteration of enumerate(wordlist_en[start_index:]) *)
ScanAdvance ==
  /\ rpc = "scan"
  /\ ri < NumWords
  /\ token # WordAt(ri) /\ token # Slice(WordAt(ri), 4)
  /\ WordAt(ri)[1] = token[1]
  /\ ri' = ri + 1
  /\ UNCHANGED <<rpc, token, result>>

(* An exhausted scan that hands back the loop position. *)
ScanExhaustedReturnsEnd ==
  /\ rpc = "scan"
  /\ ri = NumWords
  /\ rpc' = "raised"
  /\ result' = ri
  /\ UNCHANGED <<token, ri>>

(* the enumeration is exhausted: raise ValueError(word) *)
ScanExhausted ==
  /\ rpc = "scan"
  /\ ri = NumWords
  /\ rpc' = "raised"
  /\ result' = ValueError
  /\ UNCHANGED <<token, ri>>

Next ==
  \/ \E t \in Tokens : Call(t)
  \/ ScanMatch
  \/ ScanBreak
  \/ ScanAdvance
  \/ ScanExhausted

Spec == Init /\ [][Next]_vars

-----------------------------------------------------------------------------
TypeOK ==
  /\ rpc \in {"idle", "scan", "returned", "raised"}
  /\ token \in Tokens \cup {<<>>}
  /\ ri \in 0 .. NumWords
  /\ result \in Indices \cup {ValueError}

(***************************************************************************)
(* A call returns index i exactly when the token is the i-th word or its   *)
(* four-letter abbreviation, and raises ValueError exactly when it denotes *)
(* no word (spec section 8).  Breaks if the prefix table does not hold the *)
(* first index of a prefix, or the scan stops or matches wrongly.          *)
(***************************************************************************)
ResolveCorrect ==
  /\ rpc = "returned" => result \in Denotes(token)
  /\ rpc = "raised"   => Denotes(token) = {}

=============================================================================
