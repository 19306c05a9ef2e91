--------------------------- MODULE MCSigningRules ---------------------------
(* Rules files of up to four of fourteen patterns, in every order.         *)
EXTENDS SigningRules, FiniteSetsExt

Good == {<<>>, <<"a">>, <<"{x}">>, <<"a", "b">>, <<"a", "{x}">>, <<"{x}", "b">>,
         <<"{x}", "{y}">>, <<"{y}", "{x}">>, <<"a", "{x}", "b">>, <<"a", "b", "{x}">>,
         <<"{x}", "b", "a">>, <<"{x}", "b", "b">>, <<"{x}", Empty>>}
Odd == {<<"a", "{">>}

RulesOf(patterns, extractor) ==
    [is |-> "rules", paths |-> [p \in patterns |-> extractor]]
Absent == [is |-> "absent", paths |-> <<>>]
Broken == [is |-> "broken", paths |-> <<>>]

Sets == UNION {kSubset(k, Good \cup Odd) : k \in 0..4}

MCFiles ==
    {[relative |-> RulesOf(s, "chat"), fixed |-> Absent] : s \in Sets}
    \cup {[relative |-> r, fixed |-> f] :
            r \in {Absent, Broken, RulesOf({<<"a">>}, "unknown")},
            f \in {Absent, Broken, RulesOf({<<"a">>}, "chat"),
                   RulesOf({<<"a">>, <<"{x}">>}, "unknown")}}

MCPath == UNION {[1..n -> {"a", "b", "c", Empty}] : n \in 0..3} \ {<<Empty>>}

=============================================================================
