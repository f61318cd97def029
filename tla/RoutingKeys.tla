---------------------------- MODULE RoutingKeys ----------------------------
(***************************************************************************)
(* Which messages a pattern stands for.  The topic exchange decides which  *)
(* messages reach the queue a pattern is bound to; the handler decides     *)
(* with a regular expression of its own which of its actions they are for  *)
(* (src/app/mediate/MediateRpcHandler.ts).  Topics and patterns are        *)
(* sequences of words; a word of a pattern may be "*" or "#".              *)
(*                                                                         *)
(* The regular expression is that of a pattern whose other words stand for *)
(* themselves: the handler escapes nothing but dots.                       *)
(*                                                                         *)
(* Both are matched from the left: word i of the pattern leads from a      *)
(* position j of the topic to the positions to[i][j].                      *)
(***************************************************************************)
EXTENDS Naturals, Sequences

\* Where the first i of n words lead.
Ends(n, to) ==
    LET After[i \in 0..n] == IF i = 0 THEN {1} ELSE UNION {to[i][j] : j \in After[i - 1]}
    IN  After

\* The exchange: "*" is one word, "#" any number of words, none included.
RoutedTo(pattern, topic) ==
    [i \in DOMAIN pattern |-> [j \in 1..(Len(topic) + 1) |->
        {e \in 1..(Len(topic) + 1) :
            IF pattern[i] = "#" THEN j <= e
            ELSE e = j + 1 /\ pattern[i] \in {"*", topic[j]}}]]

Routed(pattern, topic) ==
    Len(topic) + 1 \in Ends(Len(pattern), RoutedTo(pattern, topic))[Len(pattern)]

\* The words with the dots between them.
Dotted(words) ==
    [i \in 1..(2 * Len(words) - 1) |-> IF i % 2 = 1 THEN words[(i + 1) \div 2] ELSE "."]

\* Mutant of Matches: the "*" of the regular expression stops at no dot.
MatchesAcross(pattern, topic) == Routed([i \in DOMAIN pattern |->
    IF pattern[i] = "*" THEN "#" ELSE pattern[i]], topic)

\* _routingKeyToRegExp: "*" is [^\.]+, "#" is ([^\.]+\.?)*, and the dots around
\* them stay.
MatchedTo(p, t) ==
    [i \in DOMAIN p |-> [j \in 1..(Len(t) + 1) |->
        {e \in 1..(Len(t) + 1) :
            IF p[i] = "#" THEN e = j \/ (j < e /\ t[j] # ".")
            ELSE e = j + 1 /\ (p[i] = t[j] \/ (p[i] = "*" /\ t[j] # "."))}]]

Matches(pattern, topic) ==
    LET p == Dotted(pattern)
        t == Dotted(topic)
    IN  Len(t) + 1 \in Ends(Len(p), MatchedTo(p, t))[Len(p)]
=============================================================================
