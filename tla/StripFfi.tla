------------------------------ MODULE StripFfi ------------------------------
(***************************************************************************)
(* src/scripts/strip_ffi_duplicates.py: process_file reads a generated     *)
(* Kotlin file, drops the FFI blocks line by line, and writes the rest     *)
(* back to the same file.                                                  *)
(*                                                                         *)
(* A line is abstracted to what the script reads from it: whether it       *)
(* starts with "package " or "import ", whether should_skip_block matches  *)
(* its stripped text, and its counts of "{" and "}".  A file is built from *)
(* items (a declaration, an FFI block, a package line ...), each marked    *)
(* ffi or not; the items say what the file means, the lines are all the    *)
(* script sees.                                                            *)
(***************************************************************************)
EXTENDS Integers, Sequences, SequencesExt

CONSTANTS
  Items,     (* the items a generated file is made of                     *)
  MaxItems,  (* the most items in one file                                *)
  MayCrash   (* whether the process can be interrupted (a kill, Ctrl-C,   *)
             (* or writelines raising on a full disk)                      *)

ASSUME MayCrash \in BOOLEAN

Line == [pkg : BOOLEAN, ffi : BOOLEAN, open : Nat, close : Nat]
ASSUME \A it \in Items : it.ffi \in BOOLEAN /\ it.lines \in Seq(Line)

(* The text of a file made of the items doc. *)
Render(doc) == FlattenSeq([k \in DOMAIN doc |-> doc[k].lines])

(* line.startswith('package ') or line.startswith('import ') *)
IsPackageOrImport(l) == l.pkg

(* should_skip_block(line.strip()): one of the FFI declaration patterns. *)
ShouldSkipBlock(l) == l.ffi

VARIABLES
  doc,      (* the items the file was generated from                      *)
  file,     (* the file on disk                                           *)
  pc,       (* "idle", "loop" (inside for line in lines), "truncated"     *)
            (* (open(input_path, 'w') done), "written"                     *)
  lines,    (* f.readlines()                                              *)
  pos,      (* the position of the current line                           *)
  output,   (* output_lines                                               *)
  skip,     (* skip_until_brace_closes                                    *)
  depth     (* brace_depth                                                *)

vars == <<doc, file, pc, lines, pos, output, skip, depth>>

Init ==
  /\ doc \in BoundedSeq(Items, MaxItems)
  /\ file = Render(doc)
  /\ pc = "idle"
  /\ lines = <<>> /\ pos = 1 /\ output = <<>>
  /\ skip = FALSE /\ depth = 0

(* process_file(path): read the lines and reset the loop state. *)
Read ==
  /\ pc = "idle"
  /\ pc' = "loop"
  /\ lines' = file
  /\ pos' = 1
  /\ output' = <<>>
  /\ skip' = FALSE
  /\ depth' = 0
  /\ UNCHANGED <<doc, file>>

(* A skip that ends only below depth 0. *)
StillSkippingAtZero(d) == d >= 0

(* if brace_depth <= 0: skip_until_brace_closes = False *)
StillSkipping(d) == d > 0

(***************************************************************************)
(* One pass of the for loop.  A package or import line is kept at once.    *)
(* Otherwise a matching line starts a skip with brace_depth = 0; while     *)
(* skipping, the line's braces are counted, the skip ends once the depth   *)
(* is at most 0, and the line is dropped; any other line is kept.          *)
(***************************************************************************)
Step ==
  LET l      == lines[pos]
      starts == ~skip /\ ShouldSkipBlock(l)
      d      == (IF starts THEN 0 ELSE depth) + l.open - l.close
  IN
  /\ pc = "loop"
  /\ pos <= Len(lines)
  /\ pos' = pos + 1
  /\ IF IsPackageOrImport(l)
       THEN output' = Append(output, l) /\ UNCHANGED <<skip, depth>>
     ELSE IF skip \/ starts
       THEN depth' = d /\ skip' = StillSkipping(d) /\ UNCHANGED output
     ELSE output' = Append(output, l) /\ UNCHANGED <<skip, depth>>
  /\ UNCHANGED <<doc, file, pc, lines>>

(* A writer that opens the file in append mode ('a'): nothing is cut. *)
TruncateAppendMode ==
  /\ pc = "loop"
  /\ pos > Len(lines)
  /\ pc' = "truncated"
  /\ UNCHANGED <<doc, file, lines, pos, output, skip, depth>>

(* with open(input_path, 'w') as f: the file is truncated on open. *)
Truncate ==
  /\ pc = "loop"
  /\ pos > Len(lines)
  /\ pc' = "truncated"
  /\ file' = <<>>
  /\ UNCHANGED <<doc, lines, pos, output, skip, depth>>

(* f.writelines(output_lines) onto the opened file, then it is closed. *)
WriteLines ==
  /\ pc = "truncated"
  /\ pc' = "written"
  /\ file' = file \o output
  /\ UNCHANGED <<doc, lines, pos, output, skip, depth>>

(***************************************************************************)
(* An interruption of process_file.  Before the truncation it leaves the   *)
(* file alone; after it, writelines may have written any prefix of the     *)
(* output lines (a line is the unit of the model).                         *)
(***************************************************************************)
Crash ==
  /\ MayCrash
  /\ pc \in {"loop", "truncated"}
  /\ pc' = "idle"
  /\ \/ pc = "loop" /\ UNCHANGED file
     \/ pc = "truncated" /\ \E k \in 0 .. Len(output) : file' = file \o SubSeq(output, 1, k)
  /\ UNCHANGED <<doc, lines, pos, output, skip, depth>>

(* The script is run again on the file it rewrote, or left after a crash. *)
Rerun ==
  /\ pc = "written"
  /\ pc' = "idle"
  /\ UNCHANGED <<doc, file, lines, pos, output, skip, depth>>

Next == Read \/ Step \/ Truncate \/ WriteLines \/ Crash \/ Rerun

Spec == Init /\ [][Next]_vars

-----------------------------------------------------------------------------

(* The file the docstring promises: the items that are not FFI blocks.    *)
Stripped(d) == Render(SelectSeq(d, LAMBDA it : ~it.ffi))

(***************************************************************************)
(* Every run of the script, the first and any later one, leaves exactly    *)
(* the non-FFI items of the file: no declaration is lost, and no line of   *)
(* an FFI block (header, body or closing brace) survives.  The brace count *)
(* of process_file has to find the end of every block for this to hold.   *)
(***************************************************************************)
StripsExactlyFfiBlocks == pc = "written" => file = Stripped(doc)

(***************************************************************************)
(* Under interruptions, in-place rewriting never mixes versions: the file  *)
(* on disk is always the generated file or a prefix of its stripped form.  *)
(* No FFI line comes back and no line of the old text survives past the   *)
(* truncation, whatever run was interrupted where; what can be lost is the *)
(* tail of the output.                                                     *)
(***************************************************************************)
FileOriginalOrStrippedPrefix ==
  \/ file = Render(doc)
  \/ \E k \in 0 .. Len(Stripped(doc)) : file = SubSeq(Stripped(doc), 1, k)

=============================================================================
