----------------------------- MODULE Extractors -----------------------------
(***************************************************************************)
(* What of a body is signed: the extractors of five protocols reduce a     *)
(* request to a model and a list of messages, and a response to a list of  *)
(* messages (internal/mitmproxy/text_extractors.go), and the customer does *)
(* the same with a chat response (docs/verify_response.py).                *)
(*                                                                         *)
(* A behaviour is the way of one body.  A refused body is not signed.      *)
(***************************************************************************)
EXTENDS Naturals, JSONValues

CONSTANTS
    Inputs      \* what may come in: records of side, extractor, body and path,
                \* and in meant the conversation the sender wrote down in it

VARIABLES
    input,      \* one of Inputs
    phase,      \* "observed", "extracted", "streamed", "read" or "refused"
    model,      \* the signed fields
    messages,
    reading     \* the messages the customer finds, as a set of at most one

vars == <<input, phase, model, messages, reading>>

Chat == "openai-chat-conversation-v1"
Responses == "openai-responses-conversation-v1"
Anthropic == "anthropic-messages-conversation-v1"
Invoke == "bedrock-invoke-conversation-v1"
Converse == "bedrock-converse-conversation-v1"

TextTypes == {<<"text">>, <<"input_text">>, <<"output_text">>, <<"refusal">>}
RequestRoles == {<<"system">>, <<"developer">>, <<"user">>, <<"assistant">>}

Message(role, text) == [role |-> role, text |-> text]

-----------------------------------------------------------------------------
(* The content of a message, or a text outside of messages.                *)

Text(pointer) == Decoded(pointer.chars)

contentBlock(block) ==
    /\ block.is = "object"
    /\ Holds(block, "type", {"string", "null"})
    /\ Holds(block, "text", {"string", "null"})
    /\ Holds(block, "refusal", {"string", "null"})

(* Mutant: a block without a type is no text.                              *)
IsTypedText(block) == StringField(block, "type") \in TextTypes

IsText(block) ==
    LET type == StringField(block, "type")
    IN type \in TextTypes \/ (type = <<>> /\ PointerField(block, "text") # Absent)

BlockText(block) ==
    IF StringField(block, "type") = <<"refusal">> /\ PointerField(block, "text") = Absent
    THEN PointerField(block, "refusal")
    ELSE PointerField(block, "text")

Blocks(content) == SelectSeq(content.items, IsText)

(* extractContentText returns no error.                                    *)
Extractable(content, rejectNonText) ==
    /\ content.is \in {"absent", "null", "string", "array"}
    /\ content.is = "array" =>
          \A i \in DOMAIN content.items :
             LET block == content.items[i]
             IN /\ contentBlock(block)
                /\ IF IsText(block) THEN BlockText(block) # Absent ELSE ~rejectNonText

Found(content) == \/ content.is = "string"
                  \/ content.is = "array" /\ Blocks(content) # <<>>

extractContentText(content) ==
    IF content.is = "string" THEN Text(content)
    ELSE LET blocks == Blocks(content)
         IN FlattenSeq([i \in DOMAIN blocks |-> Text(BlockText(blocks[i]))])

messageEnvelope(message) ==
    /\ message.is = "object"
    /\ Holds(message, "type", {"string", "null"})
    /\ Holds(message, "role", {"string", "null"})
    /\ Holds(message, "refusal", {"string", "null"})

(* Empty JSON is the absence of a value, null or [].                       *)
rawJSONPresent(raw) == raw \notin {Absent, Null, Array(<<>>)}

(* Mutant: a tool may speak.                                               *)
AnyRoleOK(message) ==
    /\ messageEnvelope(message)
    /\ StringField(message, "role") # <<>>
    /\ ~rawJSONPresent(RawField(message, "tool_calls"))
    /\ ~rawJSONPresent(RawField(message, "function_call"))
    /\ Extractable(RawField(message, "content"), TRUE)
    /\ Found(RawField(message, "content"))

RequestMessageOK(message) ==
    /\ messageEnvelope(message)
    /\ StringField(message, "role") \in RequestRoles
    /\ ~rawJSONPresent(RawField(message, "tool_calls"))
    /\ ~rawJSONPresent(RawField(message, "function_call"))
    /\ Extractable(RawField(message, "content"), TRUE)
    /\ Found(RawField(message, "content"))

canonicalRequestMessage(message) ==
    Message(StringField(message, "role"), extractContentText(RawField(message, "content")))

ResponseMessageOK(message) ==
    /\ messageEnvelope(message)
    /\ StringField(message, "role") = <<"assistant">>
    /\ Extractable(RawField(message, "content"), FALSE)
    /\ Found(RawField(message, "content")) # (PointerField(message, "refusal") # Absent)

canonicalResponseMessage(message) ==
    Message(<<"assistant">>,
            IF PointerField(message, "refusal") # Absent
            THEN Text(PointerField(message, "refusal"))
            ELSE extractContentText(RawField(message, "content")))

-----------------------------------------------------------------------------
(* Requests.                                                               *)

requestEnvelope(body) ==
    /\ body.is = "object" /\ Unique(body)
    /\ Holds(body, "model", {"string", "null"})
    /\ Holds(body, "messages", {"array", "null"})

RequestMessages(body) ==
    IF Settings(body, "messages") = <<>> \/ RawField(body, "messages") = Null THEN <<>>
    ELSE RawField(body, "messages").items

(* Only the Responses API calls its messages input and has a type in them. *)
InputItems(body) ==
    CASE RawField(body, "input").is = "array" -> RawField(body, "input").items
      [] RawField(body, "input").is = "string" ->
            <<Object(<<Member("role", String(<<"user">>)),
                       Member("content", RawField(body, "input"))>>)>>
      [] OTHER -> <<>>

Items(extractor, body) ==
    IF extractor = Responses THEN InputItems(body) ELSE RequestMessages(body)

(* The text that becomes a first message of its own.                       *)
Preamble(extractor, body) ==
    CASE extractor = Responses -> RawField(body, "instructions")
      [] extractor = Chat -> Absent
      [] OTHER -> RawField(body, "system")

(* A path is the sequence of its segments, in URL.Path.                    *)
NoModel == <<>>
Escapes == [c \in {"%3A"} |-> ":"]
Unescaped(chars) ==
    [i \in DOMAIN chars |-> IF chars[i] \in DOMAIN Escapes THEN Escapes[chars[i]] ELSE chars[i]]

requestModel(bodyModel, path) ==
    LET named == {i \in 1..(Len(path) - 1) :
                     path[i] \in {<<"deployments">>, <<"model">>} /\ path[i + 1] # <<>>}
        segment == path[1 + CHOOSE i \in named : \A j \in named : i <= j]
    IN IF bodyModel # <<>> THEN bodyModel
       ELSE IF named = {} \/ \E i \in DOMAIN segment : segment[i] = "%" THEN NoModel
       ELSE Unescaped(segment)

RequestOK(extractor, body, path) ==
    /\ requestEnvelope(body)
    /\ Items(extractor, body) # <<>>
    /\ \A i \in DOMAIN Items(extractor, body) :
          LET item == Items(extractor, body)[i]
          IN /\ RequestMessageOK(item)
             /\ extractor = Responses =>
                   StringField(item, "type") \in {<<>>, <<"message">>}
    /\ Extractable(Preamble(extractor, body), TRUE)
    /\ requestModel(StringField(body, "model"), path) # NoModel

(* Mutant: what stands outside of the messages comes last.                 *)
PreambleLast(extractor, body) ==
    LET items == Items(extractor, body)
        preamble == Preamble(extractor, body)
    IN [i \in DOMAIN items |-> canonicalRequestMessage(items[i])]
       \o (IF Found(preamble)
           THEN <<Message(<<"system">>, extractContentText(preamble))>> ELSE <<>>)

RequestConversation(extractor, body) ==
    LET items == Items(extractor, body)
        preamble == Preamble(extractor, body)
    IN (IF Found(preamble)
        THEN <<Message(<<"system">>, extractContentText(preamble))>> ELSE <<>>)
       \o [i \in DOMAIN items |-> canonicalRequestMessage(items[i])]

-----------------------------------------------------------------------------
(* Responses: the one message of a body, as a sequence, or those among the *)
(* output items.                                                           *)

ChatMessages(body) ==
    LET choices == RawField(body, "choices")
    IN IF choices.is # "array" \/ Len(choices.items) # 1 THEN <<>>
       ELSE <<StructField(choices.items[1], "message")>>

OutputMessages(body) ==
    IF RawField(body, "output").is # "array" THEN <<>>
    ELSE SelectSeq(RawField(body, "output").items,
                   LAMBDA item : StringField(item, "type") = <<"message">>)

ClaudeMessage(body) ==
    Object(SelectSeq(body.members, LAMBDA m : m.name \in {"role", "content"}))

(* The message in output, unless output is null or missing.                *)
NovaMessages(body) ==
    IF PointedField(body, "output") = Absent THEN <<>>
    ELSE <<StructField(PointedField(body, "output"), "message")>>

(* Content that is null counts for Nova and does not for Claude.           *)
InvokeMessages(body) ==
    LET claude == RawField(body, "content") \notin {Absent, Null}
        nova == \E i \in DOMAIN NovaMessages(body) :
                   RawField(NovaMessages(body)[i], "content") # Absent
    IN CASE claude = nova -> <<>>
         [] claude /\ ~nova -> <<ClaudeMessage(body)>>
         [] OTHER -> NovaMessages(body)

ResponseMessages(extractor, body) ==
    CASE extractor = Chat -> ChatMessages(body)
      [] extractor = Responses -> OutputMessages(body)
      [] extractor = Anthropic -> <<ClaudeMessage(body)>>
      [] extractor = Invoke -> InvokeMessages(body)
      [] extractor = Converse -> NovaMessages(body)

(* The members that json.Decode needs to be of some type.                  *)
responseEnvelope(extractor, body) ==
    LET output == {"object", "null"}
        OutputOK(o) == /\ Holds(o, "output", output)
                       /\ PointedField(o, "output") # Absent =>
                             /\ Holds(PointedField(o, "output"), "message", output)
                             /\ messageEnvelope(StructField(PointedField(o, "output"), "message"))
    IN CASE extractor = Chat ->
               /\ Holds(body, "choices", {"array", "null"})
               /\ RawField(body, "choices").is = "array" =>
                     \A i \in DOMAIN RawField(body, "choices").items :
                        LET choice == RawField(body, "choices").items[i]
                        IN choice.is = "object" /\ Holds(choice, "message", output)
         [] extractor = Responses ->
               /\ Holds(body, "output", {"array", "null"})
               /\ RawField(body, "output").is = "array" =>
                     \A i \in DOMAIN RawField(body, "output").items :
                        messageEnvelope(RawField(body, "output").items[i])
         [] extractor = Anthropic -> Holds(body, "role", {"string", "null"})
         [] extractor = Invoke -> Holds(body, "role", {"string", "null"}) /\ OutputOK(body)
         [] extractor = Converse -> OutputOK(body)

ResponseOK(extractor, body) ==
    /\ body.is = "object" /\ Unique(body)
    /\ responseEnvelope(extractor, body)
    /\ ResponseMessages(extractor, body) # <<>>
    /\ \A i \in DOMAIN ResponseMessages(extractor, body) :
          ResponseMessageOK(ResponseMessages(extractor, body)[i])

ResponseConversation(extractor, body) ==
    LET given == ResponseMessages(extractor, body)
    IN [i \in DOMAIN given |-> canonicalResponseMessage(given[i])]

-----------------------------------------------------------------------------
(* docs/verify_response.py: the members of their exact names, of which     *)
(* Python keeps the last, and strings as they are.                         *)

Get(object, key) ==
    LET own == SelectSeq(object.members, LAMBDA m : m.name = key /\ m.exact)
    IN IF own = <<>> THEN Absent ELSE Last(own).value

OrNone(value) == IF value = Absent THEN Null ELSE value

PyIsText(block) ==
    LET type == Get(block, "type")
    IN \/ type.is = "string" /\ type.chars \in TextTypes
       \/ type \in {Absent, String(<<>>)} /\ Get(block, "text").is = "string"

PyBlockText(block) ==
    IF Get(block, "type") = String(<<"refusal">>) /\ OrNone(Get(block, "text")) = Null
    THEN Get(block, "refusal") ELSE Get(block, "text")

(* The texts of a message, or nothing if there is an error.                *)
PyTexts(message) ==
    LET content == OrNone(Get(message, "content"))
        refusal == OrNone(Get(message, "refusal"))
        blocks == SelectSeq(content.items, PyIsText)
        texts == CASE content.is = "string" -> <<content.chars>>
                   [] content.is = "array" ->
                         [i \in DOMAIN blocks |-> PyBlockText(blocks[i]).chars]
                   [] OTHER -> <<>>
        wrong == \/ content.is \notin {"string", "array", "null"}
                 \/ /\ content.is = "array"
                    /\ \/ \E i \in DOMAIN content.items : content.items[i].is # "object"
                       \/ \E i \in DOMAIN blocks : PyBlockText(blocks[i]).is # "string"
                 \/ refusal.is \notin {"string", "null"}
    IN IF wrong \/ (texts # <<>>) = (refusal # Null) THEN {}
       ELSE {IF refusal # Null THEN refusal.chars ELSE FlattenSeq(texts)}

response_messages(body) ==
    LET choices == Get(body, "choices")
        message == Get(choices.items[1], "message")
    IN IF \/ body.is # "object" \/ choices.is # "array" \/ Len(choices.items) # 1
          \/ choices.items[1].is # "object" \/ message.is # "object"
          \/ Get(message, "role") # String(<<"assistant">>)
       THEN {}
       ELSE {<<Message(<<"assistant">>, text)>> : text \in PyTexts(message)}

-----------------------------------------------------------------------------
(* NewField takes strings that consist of Unicode scalar values.           *)
Canonical(chars) == \A i \in DOMAIN chars : chars[i] # Lone

NewFields(name, conversation) ==
    /\ Canonical(name)
    /\ \A i \in DOMAIN conversation : Canonical(conversation[i].text)

Init ==
    /\ input \in Inputs
    /\ phase = "observed" /\ model = NoModel /\ messages = <<>> /\ reading = {}

Signable(i) ==
    IF i.side = "request"
    THEN /\ RequestOK(i.extractor, i.body, i.path)
         /\ NewFields(requestModel(StringField(i.body, "model"), i.path),
                      RequestConversation(i.extractor, i.body))
    ELSE /\ ResponseOK(i.extractor, i.body)
         /\ NewFields(NoModel, ResponseConversation(i.extractor, i.body))

ExtractRequest ==
    /\ phase = "observed" /\ input.side = "request" /\ Signable(input)
    /\ phase' = "extracted"
    /\ model' = requestModel(StringField(input.body, "model"), input.path)
    /\ messages' = RequestConversation(input.extractor, input.body)
    /\ UNCHANGED <<input, reading>>

ExtractResponse ==
    /\ phase = "observed" /\ input.side = "response" /\ Signable(input)
    /\ phase' = "extracted"
    /\ messages' = ResponseConversation(input.extractor, input.body)
    /\ UNCHANGED <<input, model, reading>>

Refuse ==
    /\ phase = "observed" /\ ~Signable(input)
    /\ phase' = "refused"
    /\ UNCHANGED <<input, model, messages, reading>>

StreamRequested(body) == RawField(body, "stream") = Of("true")

(* Only a request with a challenge gets this far: the field stream joins.  *)
AppendStreamingField ==
    /\ phase = "extracted" /\ input.side = "request"
    /\ StreamRequested(input.body)
    /\ phase' = "streamed"
    /\ UNCHANGED <<input, model, messages, reading>>

(* The customer of a chat response that is signed.                         *)
NormalizeResponse ==
    /\ phase = "extracted"
    /\ input.side = "response" /\ input.extractor = Chat
    /\ phase' = "read"
    /\ reading' = response_messages(input.body)
    /\ UNCHANGED <<input, model, messages>>

Next == ExtractRequest \/ ExtractResponse \/ Refuse \/ AppendStreamingField \/ NormalizeResponse

Spec == Init /\ [][Next]_vars

-----------------------------------------------------------------------------
(* Properties.                                                             *)

Signed == phase \in {"extracted", "streamed", "read"}

(* The variables have their types; only what is signed has fields.         *)
TypeOK ==
    /\ phase \in {"observed", "extracted", "streamed", "read", "refused"}
    /\ Signed <=> messages # <<>>
    /\ \A i \in DOMAIN messages : /\ messages[i].role \in RequestRoles
                                 /\ messages[i].text \in Seq(STRING)
    /\ Signed /\ input.side = "request" <=> model # NoModel
    /\ reading # {} => phase = "read"

(* A conversation comes out of its body as it was put in, whichever the    *)
(* protocol, the shape of its texts and the place of the model: equivalent *)
(* requests and responses have equal fields (text_extractors.go:99-313,    *)
(* TestConversationExtractorsNormalizeEquivalentProtocols).                *)
ProtocolsAgree ==
    \A meant \in input.meant :
       /\ phase # "refused"
       /\ Signed => model = meant.model /\ messages = meant.messages
       /\ phase = "streamed" => meant.stream

(* Every object has the exact names of its members, a type if it has one   *)
(* that is not null, and only strings of Unicode scalar values.            *)
RECURSIVE Plain(_)
Plain(value) ==
    /\ value.is = "string" => \A i \in DOMAIN value.chars : value.chars[i] # Lone
    /\ value.is = "array" => \A i \in DOMAIN value.items : Plain(value.items[i])
    /\ value.is = "object" =>
          \A i \in DOMAIN value.members : LET m == value.members[i]
             IN m.exact /\ Plain(m.value) /\ ~(m.name = "type" /\ m.value = Null)

SilentTypes == {<<"image">>, <<"reasoning">>, <<"function_call">>}

Silent(object) ==
    \E i \in DOMAIN object.members : /\ object.members[i].name = "type"
                                     /\ object.members[i].value.is = "string"
                                     /\ object.members[i].value.chars \in SilentTypes

(* All text of a body in order, without regard to the protocol.            *)
RECURSIVE Said(_)
Said(value) ==
    CASE value.is = "string" -> value.chars
      [] value.is = "array" ->
            FlattenSeq([i \in DOMAIN value.items |-> Said(value.items[i])])
      [] value.is = "object" /\ ~Silent(value) ->
            LET own == SelectSeq(value.members, LAMBDA m :
                          m.name \in {"system", "instructions", "messages", "input", "choices",
                                      "output", "message", "content", "text", "refusal"})
            IN FlattenSeq([i \in DOMAIN own |-> Said(own[i].value)])
      [] OTHER -> <<>>

SignedText == FlattenSeq([i \in DOMAIN messages |-> messages[i].text])

(* Something in a value is no text.                                        *)
RECURSIVE BeyondText(_)
BeyondText(value) ==
    \/ value.is = "array" /\ \E i \in DOMAIN value.items : BeyondText(value.items[i])
    \/ value.is = "object" /\
          \/ Silent(value)
          \/ \E i \in DOMAIN value.members :
                \/ BeyondText(value.members[i].value)
                \/ /\ value.members[i].name \in {"tool_calls", "image"}
                   /\ value.members[i].value \notin {Null, Array(<<>>)}

(* No text is left out of what is signed, moved or said twice, and nothing *)
(* but text is left out of a request.                                      *)
Complete ==
    /\ SignedText = Said(input.body)
    /\ input.side = "request" => ~BeyondText(input.body)

(* A message of a request holds a refusal next to its content.             *)
AsksWithRefusal ==
    /\ input.side = "request"
    /\ \E i \in DOMAIN Items(input.extractor, input.body) :
          PointerField(Items(input.extractor, input.body)[i], "refusal") # Absent

(* What cannot be reduced to text in full is not signed                    *)
(* (customer-verification-guide.md:215, 320).  The code breaks this: it    *)
(* ignores the refusal of a request message and signs the rest             *)
(* (text_extractors.go:334-349).                                           *)
NothingLeftOut == Signed /\ Plain(input.body) => Complete


(* The customer finds in the body of a signed response what was signed, or *)
(* the signature does not verify (verify_response.py:102-151).  Holds for   *)
(* bodies that are Plain.                                                  *)
PlainReadersAgree ==
    phase = "read" /\ Plain(input.body) => reading = {messages}

(* A lone surrogate is refused, not replaced: what attestation.go:346-348  *)
(* says of validateUnicodeScalarEscapes.                                   *)
NothingReplaced ==
    Signed => \A i \in DOMAIN messages :
       Replacement \in Range(messages[i].text) => Replacement \in Range(Said(input.body))

=============================================================================
