------------------------ MODULE MCAttestedExchange ------------------------
(* Small instances of AttestedExchange: requests and responses that differ *)
(* from a good one in one way at a time.                                   *)
EXTENDS AttestedExchange

Plain(size) == [got |-> 0, rest |-> size, fails |-> "no"]

Good == [domain |-> "vendor", path |-> "/chat", json |-> TRUE, body |-> Plain(2),
         model |-> "m", messages |-> "hi", stream |-> FALSE, challenges |-> <<>>]
Stream(c) == [Good EXCEPT !.stream = TRUE, !.challenges = <<c>>]

(* What matters between exchanges. *)
FewAsks == {Good, Stream("c1"), Stream("c2"), [Good EXCEPT !.messages = "bye"]}

MCAsks ==
    FewAsks \cup
    {[Good EXCEPT !.challenges = <<"c1">>],
     [Good EXCEPT !.stream = TRUE],
     [Stream("c1") EXCEPT !.challenges = <<"c1", "c1">>],
     [Stream("c1") EXCEPT !.challenges = <<"short">>],
     [Stream("c1") EXCEPT !.path = "/unruled"],
     [Stream("c1") EXCEPT !.json = FALSE],
     [Stream("c1") EXCEPT !.messages = None],
     [Stream("c1") EXCEPT !.model = "unsafe"],
     [Good EXCEPT !.model = "unsafe"],
     [Good EXCEPT !.domain = "other vendor"],
     [Good EXCEPT !.body = Plain(3)],
     [Good EXCEPT !.body = Plain(4)],
     [Good EXCEPT !.body.fails = "read"],
     [Good EXCEPT !.body.fails = "close"]}

Fine == [verified |-> TRUE, cert |-> "leaf", status |-> 200,
         type |-> "application/json", body |-> Plain(2), text |-> "hello",
         headers |-> NoHeaders]
Events == [Fine EXCEPT !.type = "text/event-stream", !.text = None]

(* Headers an attesting proxy further up has set. *)
Upper(o) == [Headers(NoHeaders, UpstreamClaims("upper", "n", o), "upper")
                EXCEPT !.proofRef = "upper"]
MCForeign == {Upper([domain |-> "vendor", path |-> "/chat", model |-> "m",
                     messages |-> "hi", cert |-> "leaf", status |-> 200,
                     type |-> "text/event-stream", challenge |-> "c1"])}
Marked(reply) == {[reply EXCEPT !.headers = h] : h \in MCForeign}

FewReplies == {Fine, Events, [Fine EXCEPT !.text = "world"],
               [Fine EXCEPT !.verified = FALSE]}

MCReplies ==
    FewReplies \cup
    Marked(Fine) \cup Marked(Events) \cup
    Marked([Fine EXCEPT !.verified = FALSE]) \cup
    {[Events EXCEPT !.type = "application/vnd.amazon.eventstream"],
     [Fine EXCEPT !.type = "other"],
     [Events EXCEPT !.verified = FALSE],
     [Events EXCEPT !.status = 600],
     [Events EXCEPT !.status = 404],
     [Fine EXCEPT !.text = None],
     [Fine EXCEPT !.cert = "renewed"],
     [Events EXCEPT !.body = Plain(4)],
     [Fine EXCEPT !.body = Plain(3)],
     [Fine EXCEPT !.body = Plain(4)],
     [Fine EXCEPT !.body.fails = "read"],
     [Fine EXCEPT !.body.fails = "close"]}

(* An exchange with another request or reply than these is on its own.     *)
OddAlone ==
    \A e, f \in Exchange :
       /\ e # f
       /\ asked[e] \in FewAsks => \E response \in answer[e] : response.reply \notin FewReplies
       => asked[f] = Good /\ forwarded[f] = {}

=============================================================================
