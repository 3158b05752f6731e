---------------------------- MODULE MCAgentDiscovery ----------------------------
(* Five cards: every way in which the first declares two of the others or fewer, two *)
(* others declare one or none, the fourth the first, the third or none, and the last *)
(* none.  A discovery is cut short after four.                                       *)
EXTENDS AgentDiscovery

CONSTANTS a, b, c, d, e

UpTo(n) == UNION {{s \in [1 .. k -> Urls] : \A i, j \in 1 .. k : s[i] = s[j] => i = j} : k \in 0 .. n}

MCGraphs == {[u \in Urls |-> CASE u = a -> p [] u = b -> q [] u = c -> r [] u = d -> s [] OTHER -> << >>] :
               p \in {x \in UpTo(2) : a \notin {x[i] : i \in DOMAIN x}},
               q \in UpTo(1), r \in UpTo(1), s \in {<< >>, <<a>>, <<c>>}}

MCRequests == {<<a>>, <<a, b>>, <<d, a, d>>}
=============================================================================
