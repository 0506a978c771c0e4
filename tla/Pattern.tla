------------------------------ MODULE Pattern ------------------------------
(***************************************************************************)
(* Routing keys and key patterns (pattern/match.go) and the choice of the  *)
(* upstream (Proxy.GetChannelWithIndex).  A key or a pattern is the        *)
(* sequence of its words, as strings.Split returns it; a word is the       *)
(* sequence of its characters.                                             *)
(***************************************************************************)
EXTENDS Naturals, Sequences

Hash == <<"#">>
Star == <<"*">>
Percent == "%"

\* matchTokenWithPercent, matchPercentPattern: % stands for any characters of a word
matchTokenWithPercent(text, pat) ==
  LET match[at \in (1..Len(text) + 1) \X (1..Len(pat) + 1)] ==
        LET t == at[1]
            p == at[2]
        IN IF p > Len(pat) THEN t > Len(text)
           ELSE IF t > Len(text) THEN \A q \in p..Len(pat) : pat[q] = Percent
           ELSE IF pat[p] = Percent THEN match[<<t, p + 1>>] \/ match[<<t + 1, p>>]
           ELSE pat[p] = text[t] /\ match[<<t + 1, p + 1>>]
  IN match[<<1, 1>>]

\* * stands for one word, # for any number of words
matchTokens(routing, binding) ==
  LET match[at \in (1..Len(routing) + 1) \X (1..Len(binding) + 1)] ==
        LET r == at[1]
            b == at[2]
        IN IF b > Len(binding) THEN r > Len(routing)
           ELSE IF r > Len(routing) THEN \A c \in b..Len(binding) : binding[c] = Hash
           ELSE IF binding[b] = Hash THEN match[<<r, b + 1>>] \/ match[<<r + 1, b>>]
           ELSE /\ \/ binding[b] = Star
                   \/ IF \E i \in DOMAIN binding[b] : binding[b][i] = Percent
                      THEN matchTokenWithPercent(routing[r], binding[b])
                      ELSE routing[r] = binding[b]
                /\ match[<<r + 1, b + 1>>]
  IN match[<<1, 1>>]

\* A pattern of several words never matches a key of one word, whatever its # could stand for
Match(routing, binding) ==
  ~(Len(binding) > 1 /\ Len(routing) = 1) /\ matchTokens(routing, binding)

\* GetChannelWithIndex: the first upstream with a pattern that matches, else the first one;
\* keyPatterns is the sequence of the upstreams' patterns
Route(key, keyPatterns) ==
  LET matching == {u \in DOMAIN keyPatterns :
                     \E i \in DOMAIN keyPatterns[u] : Match(key, keyPatterns[u][i])}
  IN IF matching = {} THEN 1
     ELSE CHOOSE u \in matching : \A v \in matching : u <= v

(***************************************************************************)
(* What the wildcards mean, without an algorithm: text is cut into as many *)
(* pieces as the pattern has elements; a wild element takes any piece, the *)
(* others a piece of one element that fits                                 *)
(***************************************************************************)
Means(text, pat, Wild(_), Fits(_, _)) ==
  \E cut \in [0..Len(pat) -> 0..Len(text)] :
    /\ cut[0] = 0 /\ cut[Len(pat)] = Len(text)
    /\ \A i \in 1..Len(pat) :
         /\ cut[i - 1] <= cut[i]
         /\ Wild(pat[i]) \/ (cut[i] = cut[i - 1] + 1 /\ Fits(text[cut[i]], pat[i]))

WordMeans(word, pat) ==
  \/ pat = Star
  \/ Means(word, pat, LAMBDA c : c = Percent, LAMBDA c, d : c = d)

KeyMeans(key, pat) == Means(key, pat, LAMBDA w : w = Hash, WordMeans)

=============================================================================
