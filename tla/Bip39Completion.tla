--------------------------- MODULE Bip39Completion --------------------------
(***************************************************************************)
(* What checksum completion promises (spec sections 4.3, 6 and 7), with no *)
(* reference to how candidates are computed.  A call on a phrase returns a *)
(* lazy sequence; consuming it either fails (a token denotes no word),     *)
(* ends empty (the word count is not one of 11, 14, 17, 20, 23), or        *)
(* produces, in ascending index order, exactly the words whose appending   *)
(* gives a mnemonic valid under the BIP39 checksum rule.  The caller may   *)
(* stop consuming, or call again, at any time between two steps.           *)
(***************************************************************************)
EXTENDS Bip39Codec

CONSTANTS
  NumPhrases,  (* how many phrases a caller may pass                      *)
  PhraseAt(_), (* the k-th of them, k in 1..NumPhrases                    *)
  Digest0(_),  (* first byte of the SHA-256 digest of a byte sequence     *)
  Meaning      (* Decoded(p) for every p in Phrases, tabulated once       *)

VARIABLES
  apc,      (* "none", "called", "running", "done", "failed"              *)
  aphrase,  (* the phrase of the current call                             *)
  aout      (* indices of the words produced so far                       *)

Phrases == {PhraseAt(k) : k \in 1 .. NumPhrases}

avars == <<apc, aphrase, aout>>

CompletionLengths == {11, 14, 17, 20, 23}

Completes(p, w) == ValidMnemonic(Append(Meaning[p], w), Digest0)

LastOut == IF aout = <<>> THEN -1 ELSE aout[Len(aout)]

Init ==
  /\ apc = "none"
  /\ aphrase = CHOOSE p \in Phrases : TRUE
  /\ aout = <<>>

Call(p) ==
  /\ apc' = "called"
  /\ aphrase' = p
  /\ aout' = <<>>

Fail ==
  /\ apc = "called"
  /\ Meaning[aphrase] = ValueError
  /\ apc' = "failed"
  /\ UNCHANGED <<aphrase, aout>>

EndEmpty ==
  /\ apc = "called"
  /\ Meaning[aphrase] # ValueError
  /\ Len(Meaning[aphrase]) \notin CompletionLengths
  /\ apc' = "done"
  /\ UNCHANGED <<aphrase, aout>>

Begin ==
  /\ apc = "called"
  /\ Meaning[aphrase] # ValueError
  /\ Len(Meaning[aphrase]) \in CompletionLengths
  /\ apc' = "running"
  /\ UNCHANGED <<aphrase, aout>>

(* Produce the next completing word: no completing word is skipped. *)
Emit ==
  /\ apc = "running"
  /\ \E w \in LastOut + 1 .. NumWords - 1 :
       /\ aout' = Append(aout, w)
       /\ Completes(aphrase, w)
       /\ \A v \in LastOut + 1 .. w - 1 : ~Completes(aphrase, v)
  /\ UNCHANGED <<apc, aphrase>>

(* End of the sequence: no completing word is left. *)
Finish ==
  /\ apc = "running"
  /\ apc' = "done"
  /\ \A v \in LastOut + 1 .. NumWords - 1 : ~Completes(aphrase, v)
  /\ UNCHANGED <<aphrase, aout>>

ANext ==
  \/ \E p \in Phrases : Call(p)
  \/ Fail
  \/ EndEmpty
  \/ Begin
  \/ Emit
  \/ Finish

ASpec == Init /\ [][ANext]_avars
=============================================================================
