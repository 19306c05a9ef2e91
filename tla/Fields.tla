------------------------------- MODULE Fields -------------------------------
(***************************************************************************)
(* What becomes of JSON on its way into signed fields: a body goes through *)
(* an extractor (Extractors), and the text of every field through the scan *)
(* of NewField (UnicodeEscapes).  The scan is a promise to whoever calls   *)
(* NewField, so it starts from any document, not only from what extractors *)
(* produce, which never contains what it looks for: see NothingReplaced.   *)
(***************************************************************************)
EXTENDS Extractors, UnicodeEscapes

(* A field that is scanned is all that there is of its body.               *)
OnlyField == [side |-> "field", extractor |-> Chat, path |-> <<>>, body |-> Null, meant |-> {}]

ObservesBody ==
    Init /\ strings = <<>> /\ raw = AsText(<<>>) /\ i = 3 /\ inside = FALSE
    /\ verdict = "accepted"

GivenDocument ==
    /\ ScanInit
    /\ input = OnlyField /\ phase = "refused" /\ model = NoModel
    /\ messages = <<>> /\ reading = {}

FieldsInit == ObservesBody \/ GivenDocument

FieldsNext ==
    \/ Next /\ UNCHANGED scanned
    \/ ScanNext /\ UNCHANGED vars

FieldsSpec == FieldsInit /\ [][FieldsNext]_<<vars, scanned>>

-----------------------------------------------------------------------------
(* Properties; those of the scan are explained in UnicodeEscapes.          *)

(* The variables of both have their types.                                 *)
FieldsTypeOK == TypeOK /\ ScanTypeOK

=============================================================================
