---------------------------- MODULE MCStripMain -----------------------------
(***************************************************************************)
(* Invocations with up to three arguments over two paths (so a path may    *)
(* repeat), each path holding a file of up to two items or no file.        *)
(***************************************************************************)
EXTENDS StripMain, MCStripFfi, TLC

MCMainItems ==
  { Item(FALSE, <<Package>>),
    Item(FALSE, <<OpenDecl, Plain, CloseBr>>),
    Item(TRUE,  <<FfiHead, Plain, OpenDecl, ElseLine, CloseBr, CloseBr>>) }

CONSTANTS p1, p2

MCPaths == {p1, p2}

(* The paths are interchangeable: only safety is checked here. *)
MCSymmetry == Permutations(MCPaths)
=============================================================================
