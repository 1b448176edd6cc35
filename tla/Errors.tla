------------------------------- MODULE Errors -------------------------------
(***************************************************************************)
(* The error type of heim-common: an I/O error, its source, and a context  *)
(* that says where it came from, if any.  An I/O error is a code of the    *)
(* operating system or a kind without one.                                 *)
(***************************************************************************)
EXTENDS Naturals

Codes == {"ENOENT", "EACCES"}
Kinds == {"NotFound", "PermissionDenied", "InvalidData"}
Contexts == {"none", "File", "MissingKey"}

(* Conversion of an I/O error; parse errors become one of InvalidData. *)
FromIo(source) == [source |-> source, context |-> "none"]

FromParse == FromIo("InvalidData")

FromOsCode(code) == FromIo(code)

MissingKey == [source |-> "InvalidData", context |-> "MissingKey"]

(* with_file and the like: the context is replaced, the source is kept. *)
With(e, context) == [e EXCEPT !.context = context]

(* kind(), and the code of the system if there is one. *)
Kind(e) == CASE e.source = "ENOENT" -> "NotFound"
             [] e.source = "EACCES" -> "PermissionDenied"
             [] OTHER               -> e.source

RawOsError(e) == IF e.source \in Codes THEN e.source ELSE "none"

(* What a message begins with: the context if there is one. *)
Display(e) == IF e.context = "none" THEN <<e.source>> ELSE <<e.context, e.source>>

ErrorType == [source : Codes \union Kinds, context : Contexts]

=============================================================================
