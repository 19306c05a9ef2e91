----------------------------- MODULE JSONValues -----------------------------
(***************************************************************************)
(* JSON values as text and as encoding/json decodes them into Go structs:  *)
(* what internal/mitmproxy/text_extractors.go relies on.                   *)
(*                                                                         *)
(* A string is a sequence of characters, of which the escape of a lone     *)
(* UTF-16 surrogate is one.  The key of a member is the name of a field,   *)
(* either exactly or in another case.                                      *)
(***************************************************************************)
EXTENDS Sequences, SequencesExt

Lone == "\\ud800"           \* a surrogate escape without its other half
Replacement == "U+FFFD"     \* what encoding/json reads instead

Null == [is |-> "null"]
Absent == [is |-> "absent"]     \* what a field without a member holds
Of(kind) == [is |-> kind]       \* "number", "true", "false"
String(chars) == [is |-> "string", chars |-> chars]
Array(items) == [is |-> "array", items |-> items]
Object(members) == [is |-> "object", members |-> members]
Member(name, value) == [name |-> name, exact |-> TRUE, value |-> value]


(* No object in the value has the same key twice (scanJSONValue).          *)
RECURSIVE Unique(_)
Unique(value) ==
    /\ value.is = "array" => \A i \in DOMAIN value.items : Unique(value.items[i])
    /\ value.is = "object" =>
          /\ \A i \in DOMAIN value.members : Unique(value.members[i].value)
          /\ \A i, j \in DOMAIN value.members :
                i # j => \/ value.members[i].name # value.members[j].name
                         \/ value.members[i].exact # value.members[j].exact

-----------------------------------------------------------------------------
(* encoding/json: a member sets the field of its name in whatever case,    *)
(* a later member sets it again.                                           *)

Values(object, field) ==
    LET own == SelectSeq(object.members, LAMBDA m : m.name = field)
    IN [i \in DOMAIN own |-> own[i].value]

Decoded(chars) == [i \in DOMAIN chars |-> IF chars[i] = Lone THEN Replacement ELSE chars[i]]

Holds(object, field, kinds) ==
    \A i \in DOMAIN Values(object, field) : Values(object, field)[i].is \in kinds

(* json.RawMessage: the text of the last one, null included.               *)
RawField(object, field) ==
    IF Values(object, field) = <<>> THEN Absent ELSE Last(Values(object, field))

(* A value that is no pointer: null leaves it as it was.                   *)
Settings(object, field) == SelectSeq(Values(object, field), LAMBDA v : v # Null)

StringField(object, field) ==
    IF Settings(object, field) = <<>> THEN <<>>
    ELSE Decoded(Last(Settings(object, field)).chars)

(* A pointer: null makes it nil.                                           *)
PointerField(object, field) ==
    IF RawField(object, field) = Null THEN Absent ELSE RawField(object, field)

(* A struct: each object that is a value of it is merged into it, and into *)
(* an empty one if it is behind a pointer that null made nil.              *)
Merged(values) ==
    Object(FlattenSeq([i \in DOMAIN values |-> values[i].members]))

StructField(object, field) == Merged(Settings(object, field))

PointedField(object, field) ==
    LET values == Values(object, field)
        nils == {0} \cup {i \in DOMAIN values : values[i] = Null}
        last == CHOOSE i \in nils : \A j \in nils : j <= i
    IN IF last = Len(values) THEN Absent
       ELSE Merged(SubSeq(values, last + 1, Len(values)))

=============================================================================
