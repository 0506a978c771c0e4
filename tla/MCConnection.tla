---------------------------- MODULE MCConnection ----------------------------
(***************************************************************************)
(* Connection with two upstreams, and Match over every short pattern       *)
(***************************************************************************)
EXTENDS Connection

a == <<"a">>
ab == <<"a", "b">>

\* One key is for the second upstream only, where # has to stand for no word; the other, of one
\* word, for both of them
MCKey == {<<a, ab>>, <<ab>>}
MCKeyPatterns ==
  <<<<<<<<"a", "%">>>>>>,
    <<<<Star, <<"%", "b">>, Hash>>, <<<<"%">>>>>>>>

\* A key of one word that only a pattern of two words means, at the second upstream
TopicKey == {<<ab>>}
TopicKeyPatterns == <<<<<<a>>>>, <<<<ab, Hash>>>>>>

\* Keys of up to three words and patterns of up to three
Words == {a, ab, <<"b", "a", "b">>, <<>>}
PatternWords == {a, Hash, Star, <<"%", "b">>, <<"a", "%">>, <<"%", "a", "%">>}
Keys == UNION {[1..n -> Words] : n \in 1..3}
Patterns == UNION {[1..n -> PatternWords] : n \in 1..3}
SomePatterns == {<<a>>, <<Hash>>, <<a, Star>>, <<Star, Hash>>, <<<<"%", "b">>>>}

\* Match finds what the wildcards mean, but for keys of one word and patterns of several
Refused(key, pat) == Len(key) = 1 /\ Len(pat) > 1
MatchMeans ==
  \A key \in Keys, pat \in Patterns :
    Match(key, pat) <=> ~Refused(key, pat) /\ KeyMeans(key, pat)

\* Of several upstreams whose patterns mean the key, and are not refused, the first one is chosen,
\* and without any the default
RoutesByRules ==
  \A key \in Keys, ps \in [1..3 -> SomePatterns \union {<<>>}] :
    LET up  == Route(key, [u \in 1..3 |-> IF ps[u] = <<>> THEN <<>> ELSE <<ps[u]>>])
        for == {u \in 1..3 : ps[u] # <<>> /\ ~Refused(key, ps[u]) /\ KeyMeans(key, ps[u])}
    IN IF for = {} THEN up = 1 ELSE up \in for /\ \A u \in for : up <= u

ASSUME PatternsByRules == MatchMeans /\ RoutesByRules

=============================================================================
