---------------------------- MODULE SigningRules ----------------------------
(***************************************************************************)
(* Which requests are signed: the rules file is chosen and read, its rules *)
(* are compiled in whatever order Go's map gives them, and from then on    *)
(* looked up by the proxy (cmd/tap/main.go, internal/mitmproxy/pathrules.go). *)
(*                                                                         *)
(* A pattern or a path is the sequence of its segments.  A rule is known   *)
(* by its pattern.                                                         *)
(***************************************************************************)
EXTENDS Naturals, Sequences

CONSTANTS
    Static,     \* segments without braces
    Parameter,  \* {name} with a valid name
    Malformed,  \* anything else that a pattern may not have in it
    Extractor,  \* the supported extractors
    Files,      \* what the two files may be, as [relative, fixed : File]
    Path        \* the paths of requests

Empty == "empty"    \* the segment between two slashes, or after the last one
Any == "any"        \* the parameter edge of a node, whatever its name

Segment == Static \cup Parameter \cup Malformed

(* A file holds rules or is absent or is broken, from pattern to extractor. *)
IsFile(file) ==
    /\ file.is \in {"absent", "broken", "rules"}
    /\ \A pattern \in DOMAIN file.paths : pattern \in Seq(Segment)

ASSUME RulesAssumption ==
    /\ \A f \in Files : IsFile(f.relative) /\ IsFile(f.fixed)
    /\ Static \cap Parameter = {} /\ Any \notin Static
    /\ Malformed \cap (Static \cup Parameter \cup {Any}) = {}

VARIABLES
    files,      \* the contents of the two files
    reading,    \* the file loadProxyConfig is at
    phase,      \* "read", "compile", "ready" or "failed"
    left,       \* patterns that CompilePathRules has not come to
    exact,      \* patterns in the map exact
    templates   \* the tree: from the edges to a node to the rule there

vars == <<files, reading, phase, left, exact, templates>>

-----------------------------------------------------------------------------
Segments(pattern) == {pattern[i] : i \in DOMAIN pattern}

(* The edge of a parameter is a field of the node: no segment leads there. *)
ASSUME PathAssumption == \A path \in Path : path \in Seq(Segments(path) \ {Any})

IsTemplate(pattern) == Segments(pattern) \cap Parameter # {}
Edge(segment) == IF segment \in Parameter THEN Any ELSE segment
Edges(pattern) == [i \in DOMAIN pattern |-> Edge(pattern[i])]

Init ==
    /\ files \in Files
    /\ reading = "relative" /\ phase = "read"
    /\ left = {} /\ exact = {} /\ templates = <<>>

(* Only a file that does not exist is passed over. *)
Fallback ==
    /\ phase = "read" /\ reading = "relative" /\ files.relative.is = "absent"
    /\ reading' = "fixed"
    /\ UNCHANGED <<files, phase, left, exact, templates>>

Read ==
    /\ phase = "read"
    /\ ~(reading = "relative" /\ files.relative.is = "absent")
    /\ IF files[reading].is = "rules" /\ DOMAIN files[reading].paths # {}
       THEN phase' = "compile" /\ left' = DOMAIN files[reading].paths
       ELSE phase' = "failed" /\ UNCHANGED left
    /\ UNCHANGED <<files, reading, exact, templates>>

At(node, pattern) ==
    [n \in DOMAIN templates \cup {node} |-> IF n = node THEN pattern ELSE templates[n]]

(* Mutant: templates that differ in the names of parameters are different. *)
SamePathsByName(pattern) == \E n \in DOMAIN templates : templates[n] = pattern

SamePaths(pattern) == Edges(pattern) \in DOMAIN templates

Faulty(pattern) == \/ Segments(pattern) \cap Malformed # {}
                   \/ IsTemplate(pattern) /\ SamePaths(pattern)

(* One turn of the loop over the map, whose order is any. *)
Compile(pattern) ==
    /\ phase = "compile" /\ pattern \in left
    /\ left' = left \ {pattern}
    /\ \/ /\ Faulty(pattern)
          /\ phase' = "failed" /\ UNCHANGED <<exact, templates>>
       \/ /\ ~Faulty(pattern) /\ ~IsTemplate(pattern)
          /\ exact' = exact \cup {pattern} /\ UNCHANGED <<phase, templates>>
       \/ /\ ~Faulty(pattern) /\ IsTemplate(pattern)
          /\ templates' = At(Edges(pattern), pattern) /\ UNCHANGED <<phase, exact>>
    /\ UNCHANGED <<files, reading>>

(* Once compiled, the extractors are looked up. *)
Supported ==
    /\ phase = "compile" /\ left = {}
    /\ phase' = IF \A p \in DOMAIN files[reading].paths :
                      files[reading].paths[p] \in Extractor
                THEN "ready" ELSE "failed"
    /\ UNCHANGED <<files, reading, left, exact, templates>>

Next == Fallback \/ Read \/ (\E pattern \in left : Compile(pattern)) \/ Supported

Spec == Init /\ [][Next]_vars

-----------------------------------------------------------------------------
(* The lookup: the rule for a path, as a set of at most one pattern.       *)

Nodes == {<<>>} \cup UNION {{SubSeq(n, 1, i) : i \in 0..Len(n)} : n \in DOMAIN templates}

(* Mutant: a static segment that leads to nothing is not taken back. *)
matchTemplateGreedy(path) ==
    LET match[node \in Nodes] ==
          IF Len(node) = Len(path)
          THEN IF node \in DOMAIN templates THEN {templates[node]} ELSE {}
          ELSE LET segment == path[Len(node) + 1]
                   static == Append(node, segment)
                   parameter == Append(node, Any)
               IN IF static \in Nodes THEN match[static]
                  ELSE IF segment # Empty /\ parameter \in Nodes THEN match[parameter]
                  ELSE {}
    IN match[<<>>]

(* A node is the sequence of edges from the root, so its length is index. *)
matchTemplate(path) ==
    LET match[node \in Nodes] ==
          IF Len(node) = Len(path)
          THEN IF node \in DOMAIN templates THEN {templates[node]} ELSE {}
          ELSE LET segment == path[Len(node) + 1]
                   static == Append(node, segment)
                   parameter == Append(node, Any)
                   preferred == IF static \in Nodes THEN match[static] ELSE {}
               IN IF preferred # {} THEN preferred
                  ELSE IF segment # Empty /\ parameter \in Nodes THEN match[parameter]
                  ELSE {}
    IN match[<<>>]

Match(path) == IF path \in exact THEN {path} ELSE matchTemplate(path)

-----------------------------------------------------------------------------
(* Properties.                                                             *)

(* The variables have their types, and a rule stands at its own node.      *)
TypeOK ==
    /\ files \in Files
    /\ reading \in {"relative", "fixed"}
    /\ phase \in {"read", "compile", "ready", "failed"}
    /\ left \cup exact \subseteq DOMAIN files[reading].paths
    /\ \A n \in DOMAIN templates : /\ templates[n] \in DOMAIN files[reading].paths
                                   /\ Edges(templates[n]) = n

(* The file that counts: the fixed one only if there is no other.          *)
Chosen == IF files.relative.is = "absent" THEN files.fixed ELSE files.relative
Rules == DOMAIN Chosen.paths

Sound ==
    /\ Chosen.is = "rules" /\ Rules # {}
    /\ \A p \in Rules : /\ Segments(p) \cap Malformed = {}
                        /\ Chosen.paths[p] \in Extractor
    /\ \A p, q \in Rules : IsTemplate(p) /\ Edges(p) = Edges(q) => p = q

(* Whether the proxy starts depends on the files alone, not on the order   *)
(* in which the rules are compiled: it starts exactly if the file that     *)
(* counts has nothing wrong in it (main.go:253-295, pathrules.go:25-66).   *)
StartsIfSound ==
    /\ phase = "ready" => Sound
    /\ phase = "failed" => ~Sound

Covers(pattern, path) ==
    /\ Len(pattern) = Len(path)
    /\ \A i \in DOMAIN path : \/ pattern[i] \notin Parameter /\ pattern[i] = path[i]
                              \/ pattern[i] \in Parameter /\ path[i] # Empty

(* At the first segment where only one of two patterns has a parameter, it *)
(* is q that has it.                                                       *)
Prefers(p, q) ==
    \E i \in DOMAIN p :
       /\ p[i] \notin Parameter /\ q[i] \in Parameter
       /\ \A j \in 1..(i - 1) : p[j] \in Parameter <=> q[j] \in Parameter

Winners(path) ==
    {p \in Rules : /\ Covers(p, path)
                   /\ \A q \in Rules \ {p} : Covers(q, path) => Prefers(p, q)}

(* The lookup finds a rule if any rule covers the path, and then the one   *)
(* that is static the furthest to the left, whatever dead ends the tree    *)
(* has and however it was built (pathrules.go:76-109).                     *)
MatchIsMostSpecific ==
    phase = "ready" => \A path \in Path : /\ Match(path) = Winners(path)
                                          /\ (\E p \in Rules : Covers(p, path))
                                                => Match(path) # {}

=============================================================================
