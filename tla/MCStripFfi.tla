----------------------------- MODULE MCStripFfi -----------------------------
(***************************************************************************)
(* Generated files of up to three items.  The lines are the shapes UniFFI  *)
(* output has: package lines, declarations with nested braces and          *)
(* "} else {" lines, FFI objects and classes with the opening brace on the *)
(* header line, the @Structure.FieldOrder annotation line before           *)
(* "open class RustBuffer", and a one-line FFI object.                     *)
(***************************************************************************)
EXTENDS StripFfi

L(p, f, o, c) == [pkg |-> p, ffi |-> f, open |-> o, close |-> c]

Package  == L(TRUE,  FALSE, 0, 0)   \* package uniffi.cove
Plain    == L(FALSE, FALSE, 0, 0)   \* val x: Int
OpenDecl == L(FALSE, FALSE, 1, 0)   \* data class Foo(...) {
CloseBr  == L(FALSE, FALSE, 0, 1)   \* }
ElseLine == L(FALSE, FALSE, 1, 1)   \* } else {
FfiHead  == L(FALSE, TRUE,  1, 0)   \* internal object FfiConverterFoo ... {
FfiBare  == L(FALSE, TRUE,  0, 0)   \* @Structure.FieldOrder("capacity", ...)
FfiOne   == L(FALSE, TRUE,  1, 1)   \* object UniffiWithHandle { ... }
OpenBr   == L(FALSE, FALSE, 1, 0)   \* {
StrOpen  == L(FALSE, FALSE, 1, 0)   \* throw IllegalStateException("expected {")

Item(f, ls) == [ffi |-> f, lines |-> ls]

MCItems ==
  { Item(FALSE, <<Package>>),
    Item(FALSE, <<OpenDecl, Plain, CloseBr>>),
    Item(FALSE, <<OpenDecl, OpenDecl, ElseLine, CloseBr, CloseBr>>),
    Item(TRUE,  <<FfiHead, Plain, OpenDecl, ElseLine, CloseBr, CloseBr>>),
    Item(TRUE,  <<FfiBare, FfiHead, Plain, CloseBr>>),
    Item(TRUE,  <<FfiOne>>) }

(* An FFI declaration whose opening brace is on the next line. *)
MCItemsBraceNextLine ==
  MCItems \cup { Item(TRUE, <<FfiBare, OpenBr, Plain, CloseBr>>) }

(* An FFI declaration with an unbalanced brace inside a string literal. *)
MCItemsStringBrace ==
  MCItems \cup { Item(TRUE, <<FfiHead, StrOpen, CloseBr>>) }
=============================================================================
