--------------------------- MODULE UnicodeEscapes ---------------------------
(***************************************************************************)
(* The scan for unpaired UTF-16 surrogates in the text of a JSON value     *)
(* that json.Valid has let pass (validateUnicodeScalarEscapes in           *)
(* internal/attestation/attestation.go), byte by byte.                     *)
(*                                                                         *)
(* raw[i] is Go's raw[i - 1].                                              *)
(***************************************************************************)
EXTENDS Naturals, Sequences, SequencesExt

CONSTANTS
    Documents   \* sequences of strings, a string being a sequence of items:
                \* characters, or the four digits of an escaped code unit

VARIABLES
    strings,    \* the document
    raw,        \* its bytes
    i,          \* the next byte
    inside,     \* i is within a string
    verdict     \* "scanning", "accepted" or "rejected"

scanned == <<strings, raw, i, inside, verdict>>

Quote == "\""
Backslash == "\\"

HexDigits == <<"0", "1", "2", "3", "4", "5", "6", "7", "8", "9", "a", "b", "c", "d", "e", "f">>
Digit == [d \in Range(HexDigits) |-> (CHOOSE n \in 1..16 : HexDigits[n] = d) - 1]

(* What ParseUint makes of four digits, as they stand in bytes from..from+3. *)
CodeUnit(bytes, from) ==
    ((Digit[bytes[from]] * 16 + Digit[bytes[from + 1]]) * 16
       + Digit[bytes[from + 2]]) * 16 + Digit[bytes[from + 3]]

High(unit) == 55296 <= unit /\ unit <= 56319    \* 0xd800..0xdbff
Low(unit) == 56320 <= unit /\ unit <= 57343     \* 0xdc00..0xdfff

-----------------------------------------------------------------------------
(* The text of a document.  A quote or a backslash in a string is escaped. *)

(* A character, or the four digits of a code unit. *)
IsItem(item) == item = <<item[1]>> \/ item \in [1..4 -> DOMAIN Digit]

IsDocument(document) ==
    /\ document \in Seq(Range(document))
    /\ \A items \in Range(document) :
          items \in Seq(Range(items)) /\ \A item \in Range(items) : IsItem(item)

(* json.Valid has let them pass.                                           *)
ASSUME DocumentsAssumption == \A document \in Documents : IsDocument(document)

Escape(item) ==
    IF Len(item) = 4 THEN <<Backslash, "u">> \o item
    ELSE IF item[1] \in {Quote, Backslash} THEN <<Backslash>> \o item
    ELSE item

Render(items) ==
    <<Quote>> \o FlattenSeq([n \in DOMAIN items |-> Escape(items[n])]) \o <<Quote>>

AsText(document) ==
    <<"[">> \o FlattenSeq([n \in DOMAIN document |->
        (IF n = 1 THEN <<>> ELSE <<",">>) \o Render(document[n])]) \o <<"]">>

ScanInit ==
    /\ strings \in Documents
    /\ raw = AsText(strings) /\ i = 1 /\ inside = FALSE /\ verdict = "scanning"

Reads(last) == last <= Len(raw)

Moves(next, within) ==
    /\ i' = next /\ inside' = within
    /\ UNCHANGED <<strings, raw, verdict>>

Stops(with) == verdict' = with /\ UNCHANGED <<strings, raw, i, inside>>

Outside ==
    /\ verdict = "scanning" /\ ~inside /\ Reads(i)
    /\ Moves(i + 1, raw[i] = Quote)

Character ==
    /\ verdict = "scanning" /\ inside /\ Reads(i) /\ raw[i] # Backslash
    /\ Moves(i + 1, raw[i] # Quote)

(* Mutant: the character is taken for the next of the string.              *)
EscapedCharacterStays ==
    /\ verdict = "scanning" /\ inside /\ Reads(i) /\ raw[i] = Backslash
    /\ Reads(i + 1) /\ raw[i + 1] # "u"
    /\ Moves(i + 1, TRUE)

EscapedCharacter ==
    /\ verdict = "scanning" /\ inside /\ Reads(i) /\ raw[i] = Backslash
    /\ Reads(i + 1) /\ raw[i + 1] # "u"
    /\ Moves(i + 2, TRUE)

(* Mutant: the second half may be any code unit but a high surrogate.      *)
SecondNotHigh(last) ==
    /\ last + 6 <= Len(raw)
    /\ raw[last + 1] = Backslash /\ raw[last + 2] = "u"
    /\ ~High(CodeUnit(raw, last + 3))

(* The escape after the one whose last digit is here is a low surrogate.   *)
SecondHalf(last) ==
    /\ last + 6 <= Len(raw)
    /\ raw[last + 1] = Backslash /\ raw[last + 2] = "u"
    /\ Low(CodeUnit(raw, last + 3))

EscapedUnit ==
    /\ verdict = "scanning" /\ inside /\ Reads(i) /\ raw[i] = Backslash
    /\ Reads(i + 1) /\ raw[i + 1] = "u" /\ Reads(i + 5)
    /\ LET unit == CodeUnit(raw, i + 2)
       IN \/ High(unit) /\ SecondHalf(i + 5) /\ Moves(i + 12, TRUE)
          \/ High(unit) /\ ~SecondHalf(i + 5) /\ Stops("rejected")
          \/ Low(unit) /\ Stops("rejected")
          \/ ~High(unit) /\ ~Low(unit) /\ Moves(i + 6, TRUE)

Ends == verdict = "scanning" /\ ~Reads(i) /\ Stops("accepted")

ScanNext == Outside \/ Character \/ EscapedCharacter \/ EscapedUnit \/ Ends

ScanSpec == ScanInit /\ [][ScanNext]_scanned

-----------------------------------------------------------------------------
(* Properties.                                                             *)

(* The variables have their types, and the text ends outside of strings.   *)
ScanTypeOK ==
    /\ i \in 1..(Len(raw) + 1)
    /\ inside \in BOOLEAN /\ (~Reads(i) => ~inside)
    /\ verdict \in {"scanning", "accepted", "rejected"}

Unit(item) == IF Len(item) = 4 THEN CodeUnit(item, 1) ELSE 0

(* The items as UTF-16 code units: halves of surrogate pairs stand side by *)
(* side, the high one first.                                               *)
Paired(items) ==
    \A n \in DOMAIN items :
       /\ High(Unit(items[n])) => n < Len(items) /\ Low(Unit(items[n + 1]))
       /\ Low(Unit(items[n])) => n > 1 /\ High(Unit(items[n - 1]))

(* The scan lets exactly the documents pass all of whose strings are made  *)
(* of Unicode scalar values, whatever else looks like an escape in them    *)
(* (attestation.go:349-385).                                               *)
VerdictRight ==
    /\ verdict = "accepted" => \A n \in DOMAIN strings : Paired(strings[n])
    /\ verdict = "rejected" => \E n \in DOMAIN strings : ~Paired(strings[n])

(* What the scan takes for an escape is a whole one, so that it never      *)
(* slices beyond the end of the text, which would panic.                   *)
NeverPastEnd ==
    verdict = "scanning" /\ inside /\ Reads(i) /\ raw[i] = Backslash =>
       /\ Reads(i + 1)
       /\ raw[i + 1] = "u" =>
             Reads(i + 5) /\ \A n \in (i + 2)..(i + 5) : raw[n] \in DOMAIN Digit

=============================================================================
