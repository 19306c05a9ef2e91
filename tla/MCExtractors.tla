---------------------------- MODULE MCExtractors ----------------------------
(* Bodies: conversations written down in every protocol, and bodies put    *)
(* together from blocks of all kinds.                                      *)
EXTENDS Fields

M(name, value) == Member(name, value)
Folded(name, value) == [name |-> name, exact |-> FALSE, value |-> value]
S(word) == String(<<word>>)

-----------------------------------------------------------------------------
(* Conversations.  A text has a shape: a string, blocks that split it, or  *)
(* blocks without a type.                                                  *)

Texts == {<<>>, <<"a", "b">>}
Shapes == {"string", "typed", "bare"}

Block(type, text) == Object(<<M("type", S(type)), M("text", String(text))>>)
Bare(text) == Object(<<M("text", String(text))>>)

Content(text, shape, type) ==
    CASE shape = "string" -> String(text)
      [] shape = "typed" -> Array([n \in 1..2 |-> Block(type, SelectSeq(text, LAMBDA c : c = <<"a", "b">>[n]))])
      [] shape = "bare" -> Array(<<Bare(text)>>)

Turn(m, shape, type) ==
    Object(<<M("role", String(m.role)), M("content", Content(m.text, shape, type))>>)

Systems == {<<>>} \cup {<<Message(<<"system">>, t)>> : t \in Texts}
Turns == {<<Message(<<"user">>, t)>> : t \in Texts}
         \cup {<<Message(<<"user">>, <<"a">>), Message(<<"assistant">>, t),
                 Message(<<"developer">>, <<"b">>)>> : t \in Texts}

Names == {<<"m">>, <<"m", ":">>}
Paths == {<<<<"v1">>, <<"chat">>>>, <<<<"model">>, <<>>, <<"x">>>>, <<<<"v1">>, <<"model">>>>}
PathsTo(name) ==
    {<<<<"openai">>, <<"deployments">>, name, <<"chat">>>>,
     <<<<"model">>, <<>>, <<"model">>, name, <<"invoke">>>>}
    \cup (IF name = <<"m", ":">>
          THEN {<<<<"model">>, <<"m", "%3A">>, <<"converse">>>>} ELSE {})

Top(extractor, system, turns, shape) ==
    LET turn(type) == [n \in DOMAIN turns |-> Turn(turns[n], shape, type)]
        items(type) == [n \in DOMAIN turns |->
           Object(<<M("type", S("message"))>> \o Turn(turns[n], shape, type).members)]
        outside(name, type) ==
           IF system = <<>> THEN <<>> ELSE <<M(name, Content(system[1].text, shape, type))>>
    IN CASE extractor = Chat ->
              <<M("messages", Array([n \in DOMAIN system |-> Turn(system[n], shape, "text")]
                                    \o turn("text")))>>
         [] extractor = Responses ->
              outside("instructions", "input_text") \o <<M("input", Array(items("input_text")))>>
         [] OTHER -> outside("system", "text") \o <<M("messages", Array(turn("text")))>>

Streams == {<<>>, <<M("stream", Of("true"))>>, <<M("stream", Of("false"))>>}

Requests ==
    {[side |-> "request", extractor |-> e, path |-> p.path,
      body |-> Object(p.named \o Top(e, s, t, shape) \o stream),
      meant |-> {[model |-> p.model, messages |-> s \o t,
                  stream |-> stream = <<M("stream", Of("true"))>>]}] :
        e \in {Chat, Responses, Anthropic, Invoke, Converse},
        s \in Systems, t \in Turns, shape \in Shapes, stream \in Streams,
        p \in UNION {{[model |-> n, named |-> <<M("model", String(n))>>, path |-> q] : q \in Paths}
                     \cup {[model |-> n, named |-> <<>>, path |-> q] : q \in PathsTo(n)} : n \in Names}}

(* The Responses API also takes a string.                                  *)
StringInputs ==
    {[side |-> "request", extractor |-> Responses, path |-> <<<<"v1">>>>,
      body |-> Object(<<M("model", S("m")), M("input", String(t))>>),
      meant |-> {[model |-> <<"m">>, messages |-> <<Message(<<"user">>, t)>>,
                  stream |-> FALSE]}] : t \in Texts}

Answer(text, shape, type) == Turn(Message(<<"assistant">>, text), shape, type)
Item(text, shape) == Object(<<M("type", S("message"))>> \o Answer(text, shape, "output_text").members)
Reasoning == Object(<<M("type", S("reasoning")), M("text", S("z"))>>)
OneChoice(m) == Object(<<M("choices", Array(<<Object(<<M("message", m)>>)>>))>>)
Nova(message) == Object(<<M("output", Object(<<M("message", message)>>))>>)

Written(extractor, body, list) ==
    [side |-> "response", extractor |-> extractor, path |-> <<>>, body |-> body,
     meant |-> {[model |-> NoModel, messages |-> list, stream |-> FALSE]}]

(* The bodies that say t, and in the Responses API u as well.              *)
Saying(way, t, u, shape) ==
    LET said == Message(<<"assistant">>, t)
    IN CASE way = "chat" -> Written(Chat, OneChoice(Answer(t, shape, "text")), <<said>>)
         [] way = "refusal" ->
              Written(Chat, OneChoice(Object(<<M("role", S("assistant")), M("content", Null),
                                             M("refusal", String(t))>>)), <<said>>)
         [] way = "items" ->
              Written(Responses,
                      Object(<<M("output", Array(<<Reasoning, Item(t, shape), Item(u, shape)>>))>>),
                      <<said, Message(<<"assistant">>, u)>>)
         [] way = "claude" -> Written(Anthropic, Answer(t, shape, "text"), <<said>>)
         [] way = "invoke claude" -> Written(Invoke, Answer(t, shape, "text"), <<said>>)
         [] way = "invoke nova" -> Written(Invoke, Nova(Answer(t, shape, "text")), <<said>>)
         [] way = "converse" -> Written(Converse, Nova(Answer(t, shape, "text")), <<said>>)

Answers == {Saying(way, t, u, shape) : t \in Texts, u \in Texts, shape \in Shapes,
              way \in {"chat", "refusal", "items", "claude", "invoke claude",
                       "invoke nova", "converse"}}

-----------------------------------------------------------------------------
(* Bodies of all kinds.                                                    *)

Kinds == {Null, Of("number"), String(<<>>), S("text"), S("refusal"), S("image")}
Odd == {Block("output_text", <<"a">>), Bare(<<"b">>), Reasoning,
        Object(<<M("type", S("refusal")), M("refusal", S("c"))>>),
        Object(<<M("type", S("refusal")), M("text", S("a")), M("refusal", Null)>>),
        Object(<<M("image", Object(<<>>))>>),
        Object(<<M("type", S("text")), M("text", Null)>>),
        Object(<<M("text", S("a")), M("text", S("b"))>>),
        Object(<<M("text", S("a")), Folded("text", S("b"))>>),
        Object(<<M("text", S("a")), Folded("text", Null)>>),
        Bare(<<Lone>>), Bare(<<Replacement>>), S("a"), Of("number")}
       \cup {Object(<<M("type", k), M("text", S("a"))>>) : k \in Kinds}

Single == {Null, Of("number"), S("a"), String(<<"a", Lone>>), Object(<<>>), Array(<<>>)}
          \cup {Array(<<b>>) : b \in Odd}
Contents == Single \cup {Array(<<b, c>>) : b, c \in Odd}
Extras == {<<>>, <<M("refusal", Null)>>, <<M("refusal", S("d"))>>, <<M("refusal", Of("number"))>>,
           <<M("tool_calls", Array(<<>>))>>, <<M("tool_calls", Array(<<Object(<<>>)>>))>>,
           <<Folded("content", S("e"))>>, <<M("type", S("message"))>>}

Messages(role) ==
    {Object(<<M("role", S(role)), M("content", c)>>) : c \in Contents}
    \cup {Object(<<M("role", S(role)), M("content", c)>> \o extra) : c \in Single, extra \in Extras}
    \cup {Object(<<M("role", S(role))>> \o extra) : extra \in Extras}
    \cup {Object(<<M("role", S("tool")), M("content", S("a"))>>), Null, Object(<<M("content", S("a"))>>)}

Incoming(side, extractor, body) ==
    [side |-> side, extractor |-> extractor, path |-> <<>>, body |-> body, meant |-> {}]

Named(members) == Object(<<M("model", S("m"))>> \o members)

OneTurn == Array(<<Answer(<<"a">>, "string", "text")>>)

Asked(extractor, m) ==
    Named(<<M(IF extractor = Responses THEN "input" ELSE "messages", Array(<<m>>))>>)

OddRequests ==
    {Incoming("request", e, Asked(e, m)) : e \in {Chat, Responses}, m \in Messages("user")}
    \cup {Incoming("request", Anthropic, Named(<<M("system", c), M("messages", OneTurn)>>)) :
             c \in Contents}
    \cup {Incoming("request", e, Named(Top(e, <<>>, <<>>, "string"))) :
             e \in {Chat, Responses, Anthropic}}
    \cup {Incoming("request", Chat, Object(<<M("messages", OneTurn)>>)),
          Incoming("request", Chat, Array(<<>>)),
          Incoming("request", Responses, Named(<<M("input", Null)>>))}

(* Only the OpenAI protocols know refusals beside the content.             *)
Claude(m) ==
    IF m = Null THEN m ELSE Object(SelectSeq(m.members, LAMBDA n : n.name # "refusal"))

Given(extractor, m) ==
    CASE extractor = Chat -> OneChoice(m)
      [] extractor = Responses -> Object(<<M("output", Array(<<m>>))>>)
      [] extractor = Anthropic -> Claude(m)
      [] OTHER -> Nova(m)

OddResponses ==
    {Incoming("response", e, Given(e, m)) :
        e \in {Chat, Responses, Anthropic, Converse, Invoke}, m \in Messages("assistant")}
    \cup {Incoming("response", Invoke,
            Object(<<M("role", S("assistant")), M("content", c),
                     M("output", Object(<<M("message", Answer(<<"a">>, "string", "text"))>>))>>)) :
            c \in {Null, S("a"), Array(<<>>)}}
    \cup {Incoming("response", Chat, Object(<<M("choices", Array(<<Object(<<>>), Object(<<>>)>>))>>)),
          Incoming("response", Chat, Object(<<>>)), Incoming("response", Chat, Array(<<>>))}

MCInputs == Requests \cup StringInputs \cup Answers \cup OddRequests \cup OddResponses

-----------------------------------------------------------------------------
(* Documents for the scan: one string of up to four items, or two of up to *)
(* two, out of characters that matter in JSON and escapes at the borders   *)
(* of the surrogates.                                                      *)

Units == {<<"d", "7", "f", "f">>, <<"d", "8", "0", "0">>, <<"d", "b", "f", "f">>,
          <<"d", "c", "0", "0">>, <<"d", "f", "f", "f">>, <<"e", "0", "0", "0">>}
Characters == {<<"u">>, <<"\\">>, <<"\"">>}
Fewer == Characters \cup {<<"d", "8", "0", "0">>, <<"d", "c", "0", "0">>}

MCDocuments ==
    {<<s>> : s \in UNION {[1..n -> Units \cup Characters] : n \in 0..3} \cup [1..4 -> Fewer]}
    \cup {<<s, t>> : s, t \in UNION {[1..n -> Units \cup Characters] : n \in 0..2}}

=============================================================================
