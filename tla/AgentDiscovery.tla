----------------------------- MODULE AgentDiscovery -----------------------------
(***************************************************************************)
(* Discovery of agents by the diagnostics agent                            *)
(* (agents/diagnostics/app.py, discover_agents, probe_card): from the      *)
(* cards of a request it follows the peers that cards declare, to a depth  *)
(* and up to a number of agents.                                           *)
(*                                                                         *)
(* A discovery is one coroutine and all it changes is local, so a turn of  *)
(* its loop is one step. A card is read twice, by the probe and for its    *)
(* peers, and either may fail, whatever the other did. A failure that is   *)
(* no error of HTTP and no ValueError, or that is met outside of the try,  *)
(* ends the discovery: the request is answered with an error and what was  *)
(* found is lost.                                                          *)
(***************************************************************************)
EXTENDS Naturals, FiniteSets, Sequences

CONSTANTS Urls,      \* the addresses of cards
          Allowed,   \* those whose host is configured or allowed
          Graphs,    \* what the cards may declare: the peers of each, in order
          Requests,  \* the addresses a request may start from, in order
          MaxDepth,
          MaxAgents

ASSUME DiscoveryAssumption ==
  /\ Allowed \subseteq Urls
  /\ Graphs \subseteq [Urls -> Seq(Urls)]
  /\ Requests \subseteq Seq(Urls)
  /\ MaxDepth \in 0 .. 4       \* agent_discovery clamps both
  /\ MaxAgents \in 1 .. 100

VARIABLES peers,   \* what the cards declare
          request, \* where the discovery started
          queue,   \* addresses with their depths, the next one first
          visited,
          agents,  \* what was found: address |-> how it went
          aborted

discoveryVars == <<peers, request, queue, visited, agents, aborted>>

Found == {"blocked", "unhealthy", "described"}

At(urls, depth) == [n \in DOMAIN urls |-> [url |-> urls[n], depth |-> depth]]

DiscoveryInit == /\ peers \in Graphs
        /\ request \in Requests
        /\ queue = At(request, 0)
        /\ visited = {}
        /\ agents = << >>
        /\ aborted = FALSE

Working == ~aborted /\ queue # << >> /\ Cardinality(visited) < MaxAgents

Record(url, status) ==
  /\ visited' = visited \cup {url}
  /\ agents' = [u \in DOMAIN agents \cup {url} |-> IF u = url THEN status ELSE agents[u]]

\* The addresses that were not seen, in order.
Unseen(urls, seen) ==
  LET Loop[n \in 0 .. Len(urls)] ==
        IF n = 0 THEN << >>
        ELSE IF urls[n] \in seen THEN Loop[n - 1]
        ELSE Append(Loop[n - 1], urls[n])
  IN  Loop[Len(urls)]

\* The peers an agent adds to the queue.
Peers(url, depth) ==
  IF depth >= MaxDepth THEN << >>
  ELSE At(Unseen(peers[url], visited \cup {url}), depth + 1)

\* Mutant: an address that was visited goes to the end of the queue.
BugPutsBack == /\ Working
               /\ Head(queue).url \in visited
               /\ queue' = Append(Tail(queue), Head(queue))
               /\ UNCHANGED <<peers, request, visited, agents, aborted>>

\* An address may be queued more than once.
Skip == /\ Working
        /\ Head(queue).url \in visited
        /\ queue' = Tail(queue)
        /\ UNCHANGED <<peers, request, visited, agents, aborted>>

\* Its host is not allowed, or one of the two reads failed.
Refuse == /\ Working
          /\ LET url == Head(queue).url
             IN  /\ url \notin visited
                 /\ Record(url, IF url \in Allowed THEN "unhealthy" ELSE "blocked")
          /\ queue' = Tail(queue)
          /\ UNCHANGED <<peers, request, aborted>>

\* Mutant: the newest peer is the next one.
BugDepthFirst == /\ Working
                 /\ LET next == Head(queue)
                    IN  /\ next.url \notin visited
                        /\ next.url \in Allowed
                        /\ Record(next.url, "described")
                        /\ queue' = Peers(next.url, next.depth) \o Tail(queue)
                 /\ UNCHANGED <<peers, request, aborted>>

Describe == /\ Working
            /\ LET next == Head(queue)
               IN  /\ next.url \notin visited
                   /\ next.url \in Allowed
                   /\ Record(next.url, "described")
                   /\ queue' = Tail(queue) \o Peers(next.url, next.depth)
            /\ UNCHANGED <<peers, request, aborted>>

\* The address cannot be parsed, the skills or the peers of the card are null, or the second
\* read is not of an object.
Abort == /\ Working
         /\ Head(queue).url \notin visited
         /\ aborted' = TRUE
         /\ UNCHANGED <<peers, request, queue, visited, agents>>

DiscoveryNext == Skip \/ Refuse \/ Describe \/ Abort

DiscoverySpec == DiscoveryInit /\ [][DiscoveryNext]_discoveryVars

\* The coroutine goes on: the operations of its clients have a timeout of 8 seconds each.
FairDiscoverySpec == DiscoverySpec /\ WF_discoveryVars(DiscoveryNext)

-----------------------------------------------------------------------------
(* Properties *)

Members(urls) == {urls[n] : n \in DOMAIN urls}

\* What one reaches from roots by at most MaxDepth links, by the number of links.
Reached(roots, links) ==
  LET Within[k \in 0 .. MaxDepth] ==
        IF k = 0 THEN roots
        ELSE Within[k - 1] \cup UNION {links[u] : u \in Within[k - 1] \cap DOMAIN links}
  IN  Within

\* The allowed agents that were described, with their peers.
Links == [u \in {v \in visited \cap Allowed : agents[v] = "described"} |-> Members(peers[u])]

\* The agents at a distance of at most k, through allowed agents that were described.
Within == Reached(Members(request), Links)

(***************************************************************************)
(* A discovery that is answered, and was not cut short by the number of    *)
(* agents, found every agent within the depth, by whichever way is the     *)
(* shortest, and no other; one that was cut short found none beyond it,    *)
(* and neither found one through an agent whose host is not allowed        *)
(* (diagnostics/app.py:177-216, 247-253).                                  *)
(***************************************************************************)
FindsAllWithin ==
  ~Working /\ ~aborted =>
    /\ visited \subseteq Within[MaxDepth]
    /\ Cardinality(visited) < MaxAgents => visited = Within[MaxDepth]

\* A discovery ends, however the cards refer to each other (diagnostics/app.py:177-216).
DiscoveryEnds == <>[]~Working
=============================================================================
