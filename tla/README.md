# TLA+ models of cove's BIP39 helper and FFI stripper

This directory holds TLA+ models of the two Python sources of the repository,
and the TLC configurations that check them.

* `src/bip39.py`: the English BIP39 wordlist, a prefix table `_lookup`, and three
  functions layered on it:
  * `get_word_index` resolves a token (a full word or its 4-letter abbreviation);
  * `_split_lookup` turns a phrase into `(num, rv)` with 11-bit fields;
  * `a2b_words_guess` is a generator. It yields every final word that makes the
    phrase a checksum-valid mnemonic.
  Its `__main__` block decodes a 23-word example with `_split_lookup` and prints
  `list(a2b_words_guess(words))`.
* `src/scripts/strip_ffi_duplicates.py`: `process_file` rewrites a generated
  Kotlin file in place and drops the FFI declaration blocks. Its `__main__`
  block checks argv and calls `process_file` on each argument in order.

The two files do not interact. Inside `bip39.py` the layering is strict:
* `a2b_words_guess` calls `_split_lookup`;
* `_split_lookup` calls `get_word_index`;
* `get_word_index` reads `_lookup` and `wordlist_en`.

## Modules

| module | models | state / operators |
|---|---|---|
| `Bip39Words` | `wordlist_en`, the `_lookup` generator block, `get_word_index` | `NumWords`, `WordAt(_)` constants with the promised list shape as ASSUMEs; `BuildFrom` (first index wins per 1/2-letter prefix), `lookup`, `ScanFrom`, `GetWordIndex`; the reference `Denotes(t)` |
| `WordResolver` | `get_word_index`, one loop iteration per step | `Call`, `ScanMatch`, `ScanBreak`, `ScanAdvance`, `ScanExhausted` |
| `BigNat` | Python ints as bit sequences | `<<`, `\|`, `int.to_bytes` (OverflowError), bit length |
| `Bip39Codec` | `str.split()`, `_split_lookup` | `Split`, `PhraseTokens`, `SplitLookup`; the reference `Decoded`, `Field`, `ValidMnemonic` (the BIP39 checksum rule, stated on bits) |
| `PhraseDecoder` | a caller of `_split_lookup` | builds every token list up to `MaxTokens`, written as a list, a plain string or a whitespace-padded string |
| `Bip39Completion` | the abstract contract of checksum completion (spec §4.3, §7) | `Call`, `Fail`, `EndEmpty`, `Begin`, `Emit` (the next completing index, none skipped), `Finish` |
| `WordsGuess` | `a2b_words_guess` as a generator driven by `next()` | `Call` (creates it, runs nothing), `Start` (first `next()`: decode, length check, frame, print), `Yield` (one loop body: `rv`, `to_bytes`, digest, index), `Resume` (next `next()`) |
| `StripFfi` | `process_file`, interruptions and reruns | `Read`, `Step` (one pass of the `for` loop), `Truncate` (`open(..., 'w')`), `WriteLines`, `Crash` (an interruption; enabled by `MayCrash`), `Rerun` |
| `StripMain` | the stripper's `__main__`, composed with `StripFfi` | a disk of `Paths` (each a file rendered from items, or `Missing`) and `argv`; `MainUsage`, `MainStart`, `MainCall` (opens the path; a missing one ends the script with status 1), `ProcessFileStep` (a `StripFfi` step), `MainReturn` (the file goes back to its path), `MainDone` |
| `Bip39Main` | `bip39.py`'s `__main__`, composed with `WordsGuess` | `MainSplit` (`_split_lookup`; a ValueError ends the script, otherwise the generator is created), `ListNext` (`list()`'s `next()`: `Start`, `Yield` or `Resume`), `MainPrint` (StopIteration, then the list is printed) |

`MC*.tla` files instantiate the modules:
* `Bip39Toy` is a 15-word sorted dictionary. Its first-letter runs start mid-table,
  and the last run, `z`, ends the list.
* `MCWordsGuess` generates a 2048-word dictionary. It also supplies 12 phrases of
  lengths 2, 3, 11, 14, 17, 20 and 23, as lists and as strings, plus phrases with
  unknown and too-short tokens.
* `MCStripFfi` builds files from items in the shapes UniFFI emits: a package line,
  data classes, nested declarations, an FFI object, an annotated `RustBuffer`, and a
  one-line FFI object. `MCItemsBraceNextLine` and `MCItemsStringBrace` add an FFI
  block with its `{` on the next line, and one with an unbalanced `{` inside a
  string literal.
* `MCStripMain` gives two paths and files of up to 2 items. `argv`
  holds up to 3 arguments, so a path can repeat and any path can be missing.
* `MCBip39Main` runs the script on each phrase of `MCWordsGuess`. Phrase 1 is the
  script's own example, built as `" ".join` builds it. `MCStripMain` and
  `MCBip39Main` extend the MC modules of the components they compose.

## Runs

| run | checks | result |
|---|---|---|
| `resolver` | `ResolveCorrect`: the scan returns an index iff the token denotes that word | pass |
| `decoder` | `DecodeRoundTrip`: fields are the token indices in order, or ValueError exactly when a token is unknown | pass |
| `completer_refines` | `GuessRefinesSpec`: `WordsGuess` implements `Bip39Completion` under the mapping of generator states | pass |
| `completer_unsupported_raises` | a phrase of unsupported length raises ValueError (decode happens before the length check) | violation |
| `strip` | `StripsExactlyFfiBlocks`: after every run the file is exactly the non-FFI items | pass |
| `strip_crash` | `FileOriginalOrStrippedPrefix`: with interruptions anywhere, the file is the generated file or a prefix of its stripped form | pass |
| `strip_crash_rerun` | after an interruption past the truncation, a rerun completes on the cut file and the cut-off lines stay lost (in the shortest trace, the package line) | violation |
| `strip_brace_next_line` | an FFI header with `{` on the next line ends its skip at once and leaks the block body | violation |
| `strip_string_brace` | an unbalanced `{` in a string literal of an FFI block keeps the skip on past the block, and the data class after it is deleted | violation |
| `strip_main` | `ExitStatusMatchesFilesStripped`: the script exits 0 exactly when every argument exists. The files named before the first missing one are stripped (again, when repeated); every other file is left as generated. | pass |
| `bip39_main_unique` | spec §4.3's "typically exactly one" completion: the script prints 8 words for a 23-word phrase | violation |

`resolver`, `decoder`, `completer_refines` and `strip_main` also check their module's
type invariant (`TypeOK` or `MainTypeOK`). Each property of a passing run has a
mutant in `PROJECT.json`: a plausible bug in a mapped definition that TLC
catches with that property.

### Findings

1. **Decode before the length check.** `a2b_words_guess` decodes before it checks
   the length (`bip39.py:337`). Spec §7/§8 say an unsupported length yields an
   empty sequence and is not an error. The code raises ValueError when such a
   phrase also has a bad token.
2. **Skip ends on a brace-less header.** `process_file` ends a skip when
   `brace_depth <= 0` after a line (`strip_ffi_duplicates.py:61`). A matching
   header with no `{` on its line therefore drops only itself, and the block body
   stays in the file.
3. **In-place rewrite is not crash-safe.** `process_file` truncates the file on
   `open(input_path, 'w')` (`strip_ffi_duplicates.py:69`) before `writelines`.
   An interruption in between, or during the write, leaves a cut file. The next
   run strips that cut file without error, so the cut-off lines (the package
   line or type definitions) are lost silently.
   The model shows this is the only damage: the file is never a mix of old and
   new text, and no FFI line comes back.
4. **Braces in strings.** `process_file` counts braces on raw text
   (`strip_ffi_duplicates.py:58`). If an FFI block has an unbalanced `{` inside a
   string literal, `brace_depth` stays above 0 after the block's closing brace.
   The skip then deletes the declarations that follow, without any error.
5. **Not one completion but many.** Spec §4.3 says completion typically yields
   exactly one word. `a2b_words_guess` yields one word for each of the
   `2^(11 - chk_w)` values of the missing entropy bits (`bip39.py:349`). That is
   8 words for the script's 23-word example and 128 for an 11-word phrase.

## Bounds and why they suffice

* **Resolver.** The toy dictionary has every prefix kind: runs sharing a first
  letter, 2-letter prefixes that start mid-run, and a last run that reaches the
  end of the list. The tokens are every prefix of every word, plus misspellings.
* **Decoder.** Up to 3 tokens in 3 forms cover these cases:
  * the empty list;
  * an unknown token in each position;
  * every field position of the packing.
* **Completer.** The 2048-word list is needed: with it, `1 << (11 - chk_w)` and
  the index `(i << chk_w) + chk` reach their real ranges. The five supported
  lengths cover every `chk_w` from 4 to 8, and so every `width`. SHA-256 is
  replaced by an arbitrary byte function `Digest0`. The properties relate the
  code to the checksum rule stated with the same function, so they hold for
  SHA-256 exactly when they hold for any function.
* **Stripper.** Files of up to 3 items, in any order and with repeats, give every
  neighbourhood of two item kinds. They include an FFI block directly after
  another block. With `MayCrash`, an interruption may hit any step, and
  `writelines` may stop after any number of lines.
* **Stripper script.** Three arguments over two paths cover these cases: a
  repeated path (stripped twice), a missing path first, in the middle or last,
  and the empty argv. The paths are interchangeable model values, and the run
  checks only invariants, so it uses `SYMMETRY`.

## Fairness

No fairness is assumed and no liveness property is checked. Every loop in the
code is a Python `for` over a finite list or `range`, which always advances, so
termination would restate the loop construct and no plausible change to the
code could break it. `MCStripMain.cfg` and `MCBip39MainUnique.cfg` set
`CHECK_DEADLOCK FALSE`: both scripts end, and an exited state has no successor.

## Not modelled

* SHA-256: a parameter, as above.
* The regular expressions of `should_skip_block`. A line carries whether they
  match.
* Braces inside string literals are not told apart from code braces: a line
  carries only the counts `line.count` gives, which is what the code uses.
* The pasted `_lookup` literal. The model derives the table from the list, as
  the disabled generator block does, so a stale literal cannot appear in it.
* Printing, in both `__main__` blocks, and the debug print in the generator
  (`bip39.py:347`). `WordsGuess` records in `printed` that it happened, but no
  run checks it. Spec §5 says completion does no I/O.
  Of the `__main__` blocks, only the exit status and the printed list are kept.

## Plan for later work

* Model the `_lookup` literal as a constant of its own, given by the pasted
  table, and check it against the table derived from the list.
