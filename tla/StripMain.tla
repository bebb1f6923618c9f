----------------------------- MODULE StripMain ------------------------------
(***************************************************************************)
(* The __main__ block of src/scripts/strip_ffi_duplicates.py: check argv,  *)
(* then call process_file on every argument in order.  process_file itself *)
(* is the step-by-step model of StripFfi, run on the file of the current   *)
(* argument; its result is put back on the disk when it returns.  A path   *)
(* with no file makes open() raise FileNotFoundError, which nothing        *)
(* catches: the script ends with a traceback and exit status 1.            *)
(***************************************************************************)
EXTENDS StripFfi

CONSTANTS
  Paths,     (* the paths that may be given on the command line            *)
  MaxArgs,   (* the most arguments in one invocation                      *)
  Missing    (* the contents of a path with no file                       *)

VARIABLES
  argv,      (* sys.argv[1:]                                               *)
  docs,      (* the items each path's file was generated from, or Missing *)
  disk,      (* the contents of each path                                  *)
  mpc,       (* "start", "next" (top of the for loop), "running"          *)
             (* (inside process_file), "exited"                            *)
  argi,      (* the position in argv of file_path                          *)
  exitcode   (* the exit status once exited                                *)

mvars == <<argv, docs, disk, mpc, argi, exitcode>>
allvars == <<vars, mvars>>

MainInit ==
  /\ argv \in BoundedSeq(Paths, MaxArgs)
  /\ docs \in [Paths -> BoundedSeq(Items, MaxItems) \cup {Missing}]
  /\ disk = [p \in Paths |-> IF docs[p] = Missing THEN Missing ELSE Render(docs[p])]
  /\ mpc = "start" /\ argi = 1 /\ exitcode = 0
  /\ doc = <<>> /\ file = <<>> /\ pc = "idle"
  /\ lines = <<>> /\ pos = 1 /\ output = <<>> /\ skip = FALSE /\ depth = 0

(* A usage error that exits with argparse's status 2. *)
MainUsageExit2 ==
  /\ mpc = "start"
  /\ Len(argv) < 1
  /\ mpc' = "exited" /\ exitcode' = 2
  /\ UNCHANGED <<argv, docs, disk, argi, vars>>

(* if len(sys.argv) < 2: print usage; sys.exit(1) *)
MainUsage ==
  /\ mpc = "start"
  /\ Len(argv) < 1
  /\ mpc' = "exited" /\ exitcode' = 1
  /\ UNCHANGED <<argv, docs, disk, argi, vars>>

(* A loop over sys.argv[2:]: the first argument is skipped. *)
MainStartSkipFirst ==
  /\ mpc = "start"
  /\ Len(argv) >= 1
  /\ mpc' = "next" /\ argi' = 2
  /\ UNCHANGED <<argv, docs, disk, exitcode, vars>>

(* for file_path in sys.argv[1:]: *)
MainStart ==
  /\ mpc = "start"
  /\ Len(argv) >= 1
  /\ mpc' = "next" /\ argi' = 1
  /\ UNCHANGED <<argv, docs, disk, exitcode, vars>>

(***************************************************************************)
(* print(f"Processing {file_path}"); process_file(file_path) is entered.  *)
(* Its open(input_path, 'r') raises for a missing file, and the uncaught   *)
(* exception ends the script.                                              *)
(***************************************************************************)
MainCall ==
  LET path == argv[argi] IN
  /\ mpc = "next"
  /\ argi <= Len(argv)
  /\ IF disk[path] = Missing
       THEN /\ mpc' = "exited" /\ exitcode' = 1
            /\ UNCHANGED vars
       ELSE /\ mpc' = "running"
            /\ file' = disk[path] /\ doc' = docs[path] /\ pc' = "idle"
            /\ UNCHANGED <<lines, pos, output, skip, depth, exitcode>>
  /\ UNCHANGED <<argv, docs, disk, argi>>

(* process_file runs: StripFfi's read, loop and write, without interruption. *)
ProcessFileStep ==
  /\ mpc = "running"
  /\ Read \/ Step \/ Truncate \/ WriteLines
  /\ UNCHANGED mvars

(* process_file returns: its file is the path's contents; next argument. *)
MainReturn ==
  /\ mpc = "running"
  /\ pc = "written"
  /\ disk' = [disk EXCEPT ![argv[argi]] = file]
  /\ mpc' = "next" /\ argi' = argi + 1
  /\ UNCHANGED <<argv, docs, exitcode, vars>>

(* The loop is over: the script ends with status 0. *)
MainDone ==
  /\ mpc = "next"
  /\ argi > Len(argv)
  /\ mpc' = "exited" /\ exitcode' = 0
  /\ UNCHANGED <<argv, docs, disk, argi, vars>>

MainNext ==
  \/ MainUsage \/ MainStart \/ MainCall \/ ProcessFileStep \/ MainReturn \/ MainDone

(* The script stops once it has exited. *)
MainSpec == MainInit /\ [][MainNext]_allvars

-----------------------------------------------------------------------------
MainTypeOK ==
  /\ argv \in BoundedSeq(Paths, MaxArgs)
  /\ mpc \in {"start", "next", "running", "exited"}
  /\ argi \in 1 .. Len(argv) + 1
  /\ exitcode \in {0, 1}
  /\ \A p \in Paths : disk[p] = Missing \/ disk[p] \in Seq(Line)

(* The position of the first argument with no file, or Len(argv) + 1. *)
FirstMissing ==
  LET ks == {j \in DOMAIN argv : docs[argv[j]] = Missing}
  IN  IF ks = {} THEN Len(argv) + 1 ELSE Min(ks)

(***************************************************************************)
(* What an invocation leaves behind.  Without arguments it prints usage,   *)
(* exits 1 and touches nothing.  Otherwise it exits 0 exactly when every   *)
(* argument names a file; the files named before the first missing one are *)
(* stripped (once or, when repeated, again), and every other file is left  *)
(* as generated.  A caller that ignores the status sees a partial run.     *)
(***************************************************************************)
ExitStatusMatchesFilesStripped ==
  mpc = "exited" =>
    LET done == {argv[j] : j \in 1 .. FirstMissing - 1}
    IN  /\ exitcode = IF argv = <<>> \/ FirstMissing <= Len(argv) THEN 1 ELSE 0
        /\ \A p \in Paths :
             disk[p] = CASE docs[p] = Missing -> Missing
                         [] p \in done        -> Stripped(docs[p])
                         [] OTHER             -> Render(docs[p])

=============================================================================
