------------------------ MODULE ChangePipelineProofs ------------------------
(***************************************************************************)
(* Proofs about the change pipeline: what the detection agent promises and *)
(* publishes, and what reaches the file on GitHub.                         *)
(***************************************************************************)
EXTENDS ChangePipeline, TLAPS

-----------------------------------------------------------------------------
(* The detection agent *)

\* Until the test is executed there is no verdict; only what passed is published; a
\* dry run never reaches the effects.
PlacesInv ==
  \A r \in Requests :
    /\ pc[r] \in {"idle", "connecting", "lookup", "capturing", "generating", "executing"}
         => ~passed[r]
    /\ pc[r] = "publishing" => passed[r]
    /\ pc[r] = "caching" => result[r] # None
    /\ r \in Dry => pc[r] \notin {"connecting", "lookup", "reporting", "publishing", "caching"}

\* Whatever is to be committed passed when it was executed, in a detection that was no
\* dry run.
TasksPassed ==
  \A i \in 1..Len(tasks) : \E r \in Requests \ Dry : passed[r] /\ seen[r] = tasks[i]

IInv == TypeOK /\ PlacesInv /\ PromisesKept /\ TasksPassed

\* A sent message is in the topic, and what was there stays.
LEMMA SentLemma ==
  ASSUME NEW S, NEW T, NEW topic \in Seq(S), NEW m \in S, NEW topic2,
         topic2 = Append(topic, m) \/ topic2 = topic
  PROVE  /\ topic2 \in Seq(S)
         /\ Len(topic2) >= Len(topic)
         /\ \A i \in 1..Len(topic) : topic2[i] = topic[i]
         /\ \A i \in 1..Len(topic2) : i \in 1..Len(topic) \/ topic2[i] = m
         /\ topic2 = Append(topic, m) => Len(topic2) \in 1..Len(topic2) /\ topic2[Len(topic2)] = m
OBVIOUS

\* The initial states satisfy the invariant.
LEMMA InitInv == Init => IInv
<1> SUFFICES ASSUME Init PROVE IInv
  OBVIOUS
<1> USE ConstantsAssumption DEF Init
<1>1. TypeOK
  BY DEF TypeOK, Versions, Places, Steps
<1>2. PlacesInv
  BY DEF PlacesInv
<1>3. PromisesKept
  BY DEF PromisesKept, Promises
<1>4. TasksPassed
  BY DEF TasksPassed
<1> QED BY <1>1, <1>2, <1>3, <1>4 DEF IInv

\* Every step preserves the type invariant and the places.
LEMMA StepTypes ==
  ASSUME TypeOK, PlacesInv, [Next]_vars
  PROVE  TypeOK' /\ PlacesInv'
<1> USE ConstantsAssumption
    DEF TypeOK, PlacesInv, Places, Steps, Goto, topics, locals
<1>1. ASSUME NEW r \in Requests, Ask(r) PROVE TypeOK' /\ PlacesInv'
  BY <1>1 DEF Ask
<1> USE DEF Results, Answer
<1>2. ASSUME NEW r \in Requests, Refuse(r) PROVE TypeOK' /\ PlacesInv'
  BY <1>2 DEF Refuse
<1>3. ASSUME NEW r \in Requests, Connect(r) PROVE TypeOK' /\ PlacesInv'
  BY <1>3 DEF Connect
<1>4. ASSUME NEW r \in Requests, ConnectFails(r) PROVE TypeOK' /\ PlacesInv'
  BY <1>4 DEF ConnectFails
<1>5. ASSUME NEW r \in Requests, CacheHit(r) PROVE TypeOK' /\ PlacesInv'
  BY <1>5 DEF CacheHit
<1>6. ASSUME NEW r \in Requests, CacheMiss(r) PROVE TypeOK' /\ PlacesInv'
  BY <1>6 DEF CacheMiss
<1>7. ASSUME NEW r \in Requests, Capture(r) PROVE TypeOK' /\ PlacesInv'
  BY <1>7 DEF Capture
<1>8. ASSUME NEW r \in Requests, Generate(r) PROVE TypeOK' /\ PlacesInv'
  BY <1>8 DEF Generate
<1>9. ASSUME NEW r \in Requests, CallFails(r) PROVE TypeOK' /\ PlacesInv'
  BY <1>9 DEF CallFails
<1>10. ASSUME NEW r \in Requests, Execute(r) PROVE TypeOK' /\ PlacesInv'
  BY <1>10 DEF Execute
<1>11. ASSUME NEW r \in Requests, Report(r) PROVE TypeOK' /\ PlacesInv'
  <2>1. events' \in Seq([page : Versions, passed : BOOLEAN])
    <3> DEFINE Events == [page : Versions, passed : BOOLEAN]
               event == [page |-> seen[r], passed |-> passed[r]]
    <3>1. event \in Events /\ events \in Seq(Events)
      OBVIOUS
    <3>2. events' = Append(events, event) \/ events' = events
      BY <1>11 DEF Report, Sent
    <3> HIDE DEF Events, event
    <3>3. events' \in Seq(Events)
      BY ONLY <3>1, <3>2, SentLemma
    <3> QED BY <3>3 DEF Events
  <2>2. \/ result' \in [Requests -> Results \cup {None}] /\ result'[r] # None
           /\ pc'[r] = "caching"
        \/ pc'[r] = "publishing" /\ result' = result /\ passed[r]
    BY <1>11 DEF Report
  <2>3. /\ pc' = [pc EXCEPT ![r] = "publishing"] \/ pc' = [pc EXCEPT ![r] = "caching"]
        /\ \A s \in Requests \ {r} : result'[s] = result[s]
        /\ UNCHANGED <<page, cache, tasks, asked, seen, passed>>
        /\ pc[r] = "reporting"
    BY <1>11 DEF Report
  <2>4. TypeOK'
    <3>1. result' \in [Requests -> Results \cup {None}]
      BY <2>2
    <3>2. pc' \in [Requests -> Places]
      BY <2>3
    <3> QED BY <2>1, <2>3, <3>1, <3>2
  <2>5. PlacesInv'
    BY <2>2, <2>3
  <2> QED BY <2>4, <2>5
<1>12. ASSUME NEW r \in Requests, Publish(r) PROVE TypeOK' /\ PlacesInv'
  <2>1. tasks' \in Seq(Versions)
    BY <1>12, SentLemma DEF Publish, Sent
  <2> QED BY <1>12, <2>1 DEF Publish
<1>13. ASSUME NEW r \in Requests, Cache(r) PROVE TypeOK' /\ PlacesInv'
  BY <1>13 DEF Cache
<1>14. CASE Expire
  BY <1>14 DEF Expire
<1>15. CASE PageChanges
  BY <1>15 DEF PageChanges, Versions
<1>16. CASE Crash
  BY <1>16 DEF Crash
<1>17. CASE UNCHANGED vars
  BY <1>17 DEF vars
<1> QED
  BY <1>1, <1>2, <1>3, <1>4, <1>5, <1>6, <1>7, <1>8, <1>9, <1>10, <1>11, <1>12, <1>13,
     <1>14, <1>15, <1>16, <1>17 DEF Next, Step

\* The commit tasks change by a publication alone.
LEMMA TasksChange ==
  ASSUME [Next]_vars
  PROVE  UNCHANGED tasks \/ \E r \in Requests : Publish(r)
BY DEF Next, vars, Ask, Refuse, Step, Connect, ConnectFails, CacheHit, CacheMiss, Capture,
       Generate, CallFails, Execute, Report, Cache, Expire, PageChanges, Crash, topics

\* Published(version)', of a version that is not primed.
PublishedNext(version) == \E i \in 1..Len(tasks') : tasks'[i] = version

\* A published version stays published.
LEMMA StillPublished ==
  ASSUME TypeOK, [Next]_vars, NEW v, Published(v)
  PROVE  PublishedNext(v)
<1>1. PICK i \in 1..Len(tasks) : tasks[i] = v
  BY DEF Published, PublishedNext
<1>2. CASE UNCHANGED tasks
  BY <1>1, <1>2 DEF Published, PublishedNext
<1>3. ASSUME NEW r \in Requests, Publish(r) PROVE PublishedNext(v)
  <2>1. /\ tasks \in Seq(Versions)
        /\ tasks' = Append(tasks, seen[r]) \/ tasks' = tasks
        /\ seen[r] \in Versions
    BY <1>3 DEF TypeOK, Publish, Sent
  <2>2. Len(tasks') >= Len(tasks) /\ tasks'[i] = tasks[i]
    BY <2>1, SentLemma
  <2>3. Len(tasks) \in Nat /\ Len(tasks') \in Nat
    BY <2>1
  <2> QED BY <1>1, <2>2, <2>3 DEF Published, PublishedNext
<1> QED BY <1>2, <1>3, TasksChange

\* Every step keeps the promises.
LEMMA StepPromises ==
  ASSUME IInv, [Next]_vars
  PROVE  PromisesKept'
<1> USE DEF IInv
<1>0. TypeOK'
  BY StepTypes
<1>1. \A v : Published(v) => PublishedNext(v)
  BY StillPublished
<1>2. /\ \A r \in Requests : Promises(result[r]) => PublishedNext(result[r].page)
      /\ Promises(cache) => PublishedNext(cache.page)
  BY <1>1 DEF PromisesKept
<1>3. SUFFICES /\ \A r \in Requests : Promises(result'[r]) =>
                     \/ PublishedNext(result'[r].page)
                     \/ result'[r] = result[r]
                     \/ result'[r] = cache
               /\ \/ cache' = cache
                  \/ cache' = None
                  \/ \E r \in Requests : cache' = result[r]
  <2>1. \A r \in Requests : Promises(result'[r]) => PublishedNext(result'[r].page)
    BY <1>2, <1>3
  <2>2. Promises(cache') => PublishedNext(cache'.page)
    <3>1. ~Promises(None)
      BY DEF Promises
    <3> QED BY <1>2, <1>3, <3>1
  <2> QED BY <2>1, <2>2 DEF PromisesKept, Promises, Published, PublishedNext
<1> USE ConstantsAssumption DEF TypeOK, Promises, topics, locals, Answer, Results
<1>4. ASSUME NEW r \in Requests,
             Ask(r) \/ Refuse(r) \/ Connect(r) \/ ConnectFails(r) \/ CacheHit(r)
               \/ CacheMiss(r) \/ Capture(r) \/ Generate(r) \/ CallFails(r)
      PROVE /\ \A s \in Requests : Promises(result'[s]) =>
                 result'[s] = result[s] \/ result'[s] = cache
            /\ cache' = cache
  BY <1>4 DEF Ask, Refuse, Connect, ConnectFails, CacheHit, CacheMiss, Capture, Generate,
              CallFails
<1>5. ASSUME NEW r \in Requests, Execute(r) \/ Report(r)
      PROVE /\ \A s \in Requests : Promises(result'[s]) => result'[s] = result[s]
            /\ cache' = cache
  BY <1>5 DEF Execute, Report
<1>6. ASSUME NEW r \in Requests, Publish(r)
      PROVE /\ \A s \in Requests : Promises(result'[s]) =>
                 PublishedNext(result'[s].page) \/ result'[s] = result[s]
            /\ cache' = cache
  <2>1. PICK acknowledged \in BOOLEAN :
          /\ Sent(tasks, seen[r], acknowledged)
          /\ result' = [result EXCEPT ![r] =
               [status |-> IF acknowledged THEN "pending" ELSE "unpublished", page |-> seen[r]]]
    BY <1>6 DEF Publish
  <2>2. CASE acknowledged
    <3>1. tasks' = Append(tasks, seen[r]) /\ seen[r] \in Versions /\ tasks \in Seq(Versions)
      BY <2>1, <2>2 DEF Sent
    <3>2. Len(tasks') \in 1..Len(tasks') /\ tasks'[Len(tasks')] = seen[r]
      BY <3>1, SentLemma
    <3>3. seen' = seen /\ cache' = cache
      BY <1>6 DEF Publish
    <3>4. PublishedNext(seen[r])
      BY <3>2 DEF PublishedNext
    <3>5. result'[r].page = seen[r] /\ \A s \in Requests \ {r} : result'[s] = result[s]
      BY <2>1
    <3>6. PublishedNext(result'[r].page)
      BY <3>4, <3>5
    <3> QED BY <3>3, <3>5, <3>6
  <2>3. CASE ~acknowledged
    BY <1>6, <2>1, <2>3 DEF Publish
  <2> QED BY <2>2, <2>3
<1>7. ASSUME NEW r \in Requests, Cache(r)
      PROVE result' = result /\ (cache' = cache \/ cache' = result[r])
  BY <1>7 DEF Cache
<1>8. ASSUME Expire \/ PageChanges \/ Crash \/ UNCHANGED vars
      PROVE result' = result /\ (cache' = cache \/ cache' = None)
  BY <1>8 DEF Expire, PageChanges, Crash, vars
<1> QED BY <1>4, <1>5, <1>6, <1>7, <1>8 DEF Next, Step

\* A verdict and the version it is about stay: the capture precedes the verdict.
LEMMA VerdictStays ==
  ASSUME TypeOK, PlacesInv, [Next]_vars, NEW s \in Requests, passed[s]
  PROVE  passed'[s] /\ seen'[s] = seen[s]
BY DEF TypeOK, PlacesInv, Next, vars, Ask, Refuse, Step, Connect, ConnectFails, CacheHit,
       CacheMiss, Capture, Generate, CallFails, Execute, Report, Publish, Cache, Expire,
       PageChanges, Crash, topics, locals

\* Every step publishes only what passed.
LEMMA StepPassed ==
  ASSUME IInv, [Next]_vars
  PROVE  TasksPassed'
<1> USE DEF IInv
<1>1. ASSUME NEW v, \E s \in Requests \ Dry : passed[s] /\ seen[s] = v
      PROVE  \E s \in Requests \ Dry : passed'[s] /\ seen'[s] = v
  BY <1>1, VerdictStays
<1>2. CASE UNCHANGED tasks
  BY <1>1, <1>2 DEF TasksPassed
<1>3. ASSUME NEW r \in Requests, Publish(r) PROVE TasksPassed'
  <2>1. /\ tasks \in Seq(Versions)
        /\ tasks' = Append(tasks, seen[r]) \/ tasks' = tasks
        /\ seen[r] \in Versions
    BY <1>3 DEF TypeOK, Publish, Sent
  <2>2. passed[r] /\ r \notin Dry
    BY <1>3 DEF PlacesInv, Publish
  <2>3. ASSUME NEW i \in 1..Len(tasks')
        PROVE \E s \in Requests \ Dry : passed[s] /\ seen[s] = tasks'[i]
    <3>1. i \in 1..Len(tasks) \/ tasks'[i] = seen[r]
      BY <2>1, SentLemma
    <3>2. i \in 1..Len(tasks) => tasks'[i] = tasks[i]
      BY <2>1, SentLemma
    <3> QED BY <2>2, <3>1, <3>2 DEF TasksPassed
  <2> QED BY <1>1, <2>3 DEF TasksPassed
<1> QED BY <1>2, <1>3, TasksChange

\* Every step preserves the invariant of the detection agent.
LEMMA StepInv == IInv /\ [Next]_vars => IInv'
BY StepTypes, StepPromises, StepPassed DEF IInv

LEMMA Invariance == Spec => []IInv
BY InitInv, StepInv, PTL DEF Spec

(***************************************************************************)
(* "Pending commit" means published, for any number of detections and dry  *)
(* runs, and whichever of the effects fails.                               *)
(***************************************************************************)
THEOREM Promised == Spec => []PromisesKept
<1>1. IInv => PromisesKept
  BY DEF IInv
<1> QED BY <1>1, Invariance, PTL

\* Every commit task has a test that passed, in a detection that was no dry run.
THEOREM Passed == Spec => []TasksPassed
<1>1. IInv => TasksPassed
  BY DEF IInv
<1> QED BY <1>1, Invariance, PTL

\* Type correctness of the detection agent.
THEOREM TypeCorrect == Spec => []TypeOK
<1>1. IInv => TypeOK
  BY DEF IInv
<1> QED BY <1>1, Invariance, PTL

\* A dry run never writes the cache and sends nothing.
THEOREM Isolation == Spec => DryRunsLeaveNoTrace
<1> DEFINE Silent == \A r \in Dry :
      pc'[r] # pc[r] /\ pc'[r] # "lost" => UNCHANGED <<cache, events, tasks>>
<1>1. IInv /\ [Next]_vars => [Silent]_vars
  <2> SUFFICES ASSUME IInv, Next PROVE Silent
    BY DEF vars
  <2> SUFFICES ASSUME NEW d \in Dry, pc'[d] # pc[d], pc'[d] # "lost"
               PROVE UNCHANGED <<cache, events, tasks>>
    OBVIOUS
  <2> USE ConstantsAssumption DEF IInv, TypeOK, Goto, Answer, topics, locals
  <2>1. ASSUME NEW r \in Requests, Ask(r) \/ Refuse(r) PROVE UNCHANGED <<cache, events, tasks>>
    BY <2>1 DEF Ask, Refuse
  <2>2. ASSUME NEW r \in Requests, Step(r) PROVE UNCHANGED <<cache, events, tasks>>
    <3>1. r = d
      BY <2>2 DEF Step, Connect, ConnectFails, CacheHit, CacheMiss, Capture, Generate,
                  CallFails, Execute, Report, Publish, Cache
    <3>2. ~Report(r) /\ ~Publish(r) /\ ~Cache(r)
      BY <3>1 DEF PlacesInv, Report, Publish, Cache
    <3> QED BY <2>2, <3>2 DEF Step, Connect, ConnectFails, CacheHit, CacheMiss, Capture,
                  Generate, CallFails, Execute
  <2>3. CASE Expire \/ PageChanges \/ Crash
    BY <2>3 DEF Expire, PageChanges, Crash
  <2> QED BY <2>1, <2>2, <2>3 DEF Next
<1> QED BY <1>1, Invariance, PTL DEF Spec, DryRunsLeaveNoTrace

-----------------------------------------------------------------------------
(* What an answer rests on *)

FoundedBy(s, a) ==
  /\ asked[s] <= a.page
  /\ a.status # "FAILURE" => passed[s] /\ seen[s] = a.page

\* Request s ended with answer a, and gave it on grounds of its own.
Gave(s, a) == pc[s] = "answered" /\ result[s] = a /\ FoundedBy(s, a)

GaveNext(s, a) ==
  /\ pc'[s] = "answered" /\ result'[s] = a
  /\ asked'[s] <= a.page
  /\ a.status # "FAILURE" => passed'[s] /\ seen'[s] = a.page

\* The page only ever gets newer, so what was captured since is not older than the request;
\* an answer that was not given yet has its grounds already.
SightInv ==
  \A r \in Requests :
    /\ pc[r] \in Steps \cup {"idle"} => asked[r] <= page
    /\ pc[r] \in {"generating", "executing", "reporting", "publishing"} => asked[r] <= seen[r]
    /\ pc[r] = "caching" => FoundedBy(r, result[r])

\* The cache has the answer of a detection, which was not itself answered from it.
FoundedInv ==
  /\ SightInv
  /\ cache # None => \E s \in Requests \ Dry : Gave(s, cache)
  /\ \A r \in Requests : pc[r] = "answered" =>
       \E s \in Requests : Gave(s, result[r]) /\ (s = r \/ {r, s} \cap Dry = {})

LEMMA FoundedInit == Init => FoundedInv
BY ConstantsAssumption DEF Init, FoundedInv, SightInv, Steps

\* Nothing changes what a request that was answered did.
LEMMA AnswersStay ==
  ASSUME IInv, [Next]_vars, NEW s \in Requests, NEW a, Gave(s, a)
  PROVE  GaveNext(s, a)
<1> USE DEF Gave, GaveNext, FoundedBy, IInv, TypeOK, Goto, Answer, topics, locals
<1>1. ASSUME NEW r \in Requests, Ask(r) \/ Refuse(r) \/ Step(r) PROVE GaveNext(s, a)
  BY <1>1 DEF Ask, Refuse, Step, Connect, ConnectFails, CacheHit, CacheMiss, Capture, Generate,
              CallFails, Execute, Report, Publish, Cache
<1>2. CASE Expire \/ PageChanges \/ UNCHANGED vars
  BY <1>2 DEF Expire, PageChanges, vars
<1>3. CASE Crash
  BY <1>3 DEF Crash, Steps
<1> QED BY <1>1, <1>2, <1>3 DEF Next

LEMMA SightStep ==
  ASSUME IInv, SightInv, [Next]_vars
  PROVE  SightInv'
<1> USE ConstantsAssumption DEF SightInv, FoundedBy, IInv, TypeOK, Goto, Answer, topics, locals, Steps, Versions
<1>1. ASSUME NEW r \in Requests, Ask(r) \/ Refuse(r) PROVE SightInv'
  BY <1>1 DEF Ask, Refuse
<1>2. ASSUME NEW r \in Requests,
             Connect(r) \/ ConnectFails(r) \/ CacheHit(r) \/ CacheMiss(r)
      PROVE SightInv'
  BY <1>2 DEF Connect, ConnectFails, CacheHit, CacheMiss
<1>3. ASSUME NEW r \in Requests, Capture(r) \/ Generate(r) \/ CallFails(r) PROVE SightInv'
  BY <1>3 DEF Capture, Generate, CallFails
<1>4. ASSUME NEW r \in Requests, Execute(r) PROVE SightInv'
  BY <1>4 DEF Execute
<1>5. ASSUME NEW r \in Requests, Report(r) PROVE SightInv'
  BY <1>5 DEF Report
<1>6. ASSUME NEW r \in Requests, Publish(r) PROVE SightInv'
  BY <1>6 DEF Publish, PlacesInv
<1>7. ASSUME NEW r \in Requests, Cache(r) PROVE SightInv'
  BY <1>7 DEF Cache
<1>8. CASE Expire \/ PageChanges \/ UNCHANGED vars
  BY <1>8 DEF Expire, PageChanges, vars
<1>9. CASE Crash
  BY <1>9 DEF Crash
<1> QED BY <1>1, <1>2, <1>3, <1>4, <1>5, <1>6, <1>7, <1>8, <1>9 DEF Next, Step

\* Whoever is answered now gives an answer of its own, or the one in the cache.
LEMMA NewlyAnswered ==
  ASSUME IInv, FoundedInv, [Next]_vars, NEW r \in Requests, pc[r] # "answered",
         pc'[r] = "answered"
  PROVE  GaveNext(r, result'[r]) \/ (r \notin Dry /\ cache # None /\ result'[r] = cache)
<1> USE ConstantsAssumption DEF SightInv, GaveNext, FoundedBy, FoundedInv, IInv, TypeOK, Goto, Answer, topics, locals,
        Versions, Steps
<1>1. ASSUME NEW s \in Requests, Ask(s) \/ Connect(s) \/ CacheMiss(s) \/ Capture(s) \/ Generate(s)
                                   \/ Report(s) \/ Publish(s)
      PROVE FALSE
  BY <1>1 DEF Ask, Connect, CacheMiss, Capture, Generate, Report, Publish
<1>2. ASSUME NEW s \in Requests, ConnectFails(s) \/ CallFails(s) PROVE GaveNext(r, result'[r])
  BY <1>2 DEF ConnectFails, CallFails
<1>3. ASSUME NEW s \in Requests, Execute(s) PROVE GaveNext(r, result'[r])
  BY <1>3 DEF Execute
<1>4. ASSUME NEW s \in Requests, Cache(s) PROVE GaveNext(r, result'[r])
  BY <1>4 DEF Cache
<1>5. ASSUME NEW s \in Requests, CacheHit(s)
      PROVE r \notin Dry /\ cache # None /\ result'[r] = cache
  BY <1>5 DEF CacheHit, PlacesInv
<1>6. CASE Expire \/ PageChanges \/ UNCHANGED vars \/ Crash
  BY <1>6 DEF Expire, PageChanges, vars, Crash
<1>7. ASSUME NEW s \in Requests, Refuse(s) PROVE GaveNext(r, result'[r])
  BY <1>7 DEF Refuse
<1> QED BY <1>1, <1>2, <1>3, <1>4, <1>5, <1>6, <1>7 DEF Next, Step

LEMMA FoundedStep ==
  ASSUME IInv, FoundedInv, [Next]_vars
  PROVE  FoundedInv'
<1>1. SightInv'
  BY SightStep DEF FoundedInv
<1>2. ASSUME cache' # None PROVE \E s \in Requests \ Dry : GaveNext(s, cache')
  <2>1. CASE cache' = cache
    <3>1. PICK s \in Requests \ Dry : Gave(s, cache)
      BY <1>2, <2>1 DEF FoundedInv
    <3> QED BY <2>1, <3>1, AnswersStay
  <2>2. CASE cache' # cache
    <3>1. PICK r \in Requests : Cache(r) /\ cache' = result[r]
      BY <1>2, <2>2 DEF Next, Ask, Refuse, Step, Connect, ConnectFails, CacheHit, CacheMiss, Capture,
         Generate, CallFails, Execute, Report, Publish, Cache, Expire, PageChanges, Crash, vars
    <3>2. r \notin Dry
      BY <3>1 DEF IInv, PlacesInv, Cache
    <3>3. GaveNext(r, result'[r])
      BY <3>1 DEF Cache, GaveNext, FoundedBy, Goto, locals, FoundedInv, SightInv, IInv, TypeOK
    <3>4. result'[r] = cache'
      BY <3>1 DEF Cache, locals
    <3> QED BY <3>2, <3>3, <3>4
  <2> QED BY <2>1, <2>2
<1>3. ASSUME NEW r \in Requests, pc'[r] = "answered"
      PROVE \E s \in Requests : GaveNext(s, result'[r]) /\ (s = r \/ {r, s} \cap Dry = {})
  <2>1. CASE pc[r] = "answered"
    <3>1. PICK s \in Requests : Gave(s, result[r]) /\ (s = r \/ {r, s} \cap Dry = {})
      BY <2>1 DEF FoundedInv
    <3>2. result'[r] = result[r]
      BY <2>1 DEF IInv, TypeOK, Goto, Answer, topics, locals, vars, Next, Ask, Refuse, Step, Connect,
         ConnectFails, CacheHit, CacheMiss, Capture, Generate, CallFails, Execute, Report, Publish,
         Cache, Expire, PageChanges, Crash
    <3> QED BY <3>1, <3>2, AnswersStay
  <2>2. CASE pc[r] # "answered"
    <3>1. CASE GaveNext(r, result'[r])
      BY <3>1
    <3>2. CASE r \notin Dry /\ cache # None /\ result'[r] = cache
      <4>1. PICK s \in Requests \ Dry : Gave(s, cache)
        BY <3>2 DEF FoundedInv
      <4>2. GaveNext(s, cache)
        BY <4>1, AnswersStay
      <4>3. {r, s} \cap Dry = {}
        BY <3>2, <4>1
      <4> QED BY <3>2, <4>2, <4>3
    <3> QED BY <1>3, <2>2, <3>1, <3>2, NewlyAnswered
  <2> QED BY <2>1, <2>2
<1> QED BY <1>1, <1>2, <1>3 DEF FoundedInv, Gave, GaveNext, FoundedBy

\* An answer is about a page that its request, or the detection that first gave it, could
\* see, and unless it says FAILURE a test of that page passed, for any set of requests.
THEOREM Founded == Spec => []AnswersFounded
<1>1. FoundedInv => AnswersFounded
  <2> SUFFICES ASSUME FoundedInv, NEW r \in Requests, pc[r] = "answered"
               PROVE \E s \in Requests :
                 /\ s = r \/ ({r, s} \cap Dry = {} /\ result[s] = result[r])
                 /\ asked[s] <= result[r].page
                 /\ result[r].status # "FAILURE" => passed[s] /\ seen[s] = result[r].page
    BY DEF AnswersFounded
  <2>1. PICK s \in Requests : Gave(s, result[r]) /\ (s = r \/ {r, s} \cap Dry = {})
    BY DEF FoundedInv
  <2> QED BY <2>1 DEF Gave, FoundedBy
<1> QED BY <1>1, FoundedInit, FoundedStep, Invariance, PTL DEF Spec

-----------------------------------------------------------------------------
(* The commit agent, in the pipeline *)

\* What the consumer holds, or left behind, comes from the topic.
HandInv ==
  /\ committed \in 0..Len(tasks) \cup {None}
  /\ position \in 0..Len(tasks) \cup {None}
  /\ consumer = "polling" => position # None
  /\ consumer \in {"reading", "writing"} => position \in 1..Len(tasks)
  /\ \A w \in abandoned : Published(w.test)
  /\ file # None => Published(file)

PipelineInv == IInv /\ HandInv

LEMMA PipelineInitInv == PipelineInit => PipelineInv
BY InitInv DEF PipelineInit, PipelineInv, HandInv, Init, Commits!Init

\* The consumer takes its tests from the topic.
LEMMA CommitHand ==
  ASSUME IInv, HandInv, Commit
  PROVE  HandInv' /\ UNCHANGED vars
<1>1. UNCHANGED vars
  BY DEF Commit, Commits!Agent, Commits!Consume, Commits!Join, Commits!Deliver,
     Commits!GetContents, Commits!WriteFile, Commits!GitHubFails, Commits!Stopped,
     Commits!Execute, Commits!AutoCommit, Commits!Cancel, Commits!LoopFails, Commits!Crash,
     Commits!Restart, Commits!AbandonedWrite, vars
<1>2. UNCHANGED tasks /\ Len(tasks) \in Nat
  BY <1>1 DEF vars, IInv, TypeOK
<1>3. SUFFICES HandInv'
  BY <1>1
<1>4. \A v : Published(v)' = Published(v)
  BY <1>2 DEF Published
<1> USE <1>2, PipelineAssumption DEF HandInv, Published, Commits!group, Commits!github
<1>5. CASE Commits!Join
  BY <1>5 DEF Commits!Join
<1>6. CASE Commits!Deliver
  BY <1>6 DEF Commits!Deliver
<1>7. CASE Commits!GetContents
  BY <1>7 DEF Commits!GetContents
<1>8. consumer = "writing" => Published(Commits!InHand.test)
  BY DEF Commits!InHand
<1>9. CASE Commits!WriteFile
  BY <1>8, <1>9 DEF Commits!WriteFile, Commits!Write
<1>10. CASE Commits!GitHubFails
  BY <1>8, <1>10 DEF Commits!GitHubFails
<1>11. CASE Commits!Stopped
  BY <1>11 DEF Commits!Stopped
<1>12. CASE Commits!Execute
  BY <1>12 DEF Commits!Execute
<1>13. CASE Commits!AutoCommit
  BY <1>13 DEF Commits!AutoCommit
<1>14. CASE Commits!Cancel
  BY <1>8, <1>14 DEF Commits!Cancel, Commits!Abandon
<1>15. CASE Commits!LoopFails
  BY <1>15 DEF Commits!LoopFails
<1>16. CASE Commits!Crash
  BY <1>8, <1>16 DEF Commits!Crash, Commits!Abandon
<1>17. CASE Commits!Restart
  BY <1>17 DEF Commits!Restart
<1>18. CASE Commits!AbandonedWrite
  BY <1>18 DEF Commits!AbandonedWrite, Commits!Write
<1> QED
  BY <1>5, <1>6, <1>7, <1>9, <1>10, <1>11, <1>12, <1>13, <1>14, <1>15, <1>16, <1>17, <1>18
  DEF Commit, Commits!Agent, Commits!Consume

\* A detection only adds tasks.
LEMMA DetectHand ==
  ASSUME IInv, HandInv, [Next]_vars, UNCHANGED agentVars
  PROVE  HandInv'
<1>1. \A v : Published(v) => PublishedNext(v)
  BY StillPublished DEF IInv
<1>2. /\ Len(tasks) \in Nat /\ Len(tasks') \in Nat
      /\ Len(tasks') >= Len(tasks)
  <2>1. tasks \in Seq(Versions)
    BY DEF IInv, TypeOK
  <2>2. CASE UNCHANGED tasks
    BY <2>1, <2>2
  <2>3. ASSUME NEW r \in Requests, Publish(r)
        PROVE  tasks' = Append(tasks, seen[r]) \/ tasks' = tasks
    BY <2>3 DEF Publish, Sent
  <2>4. ASSUME NEW r \in Requests, tasks' = Append(tasks, seen[r])
        PROVE  Len(tasks') = Len(tasks) + 1
    BY <2>1, <2>4
  <2> QED BY <2>1, <2>2, <2>3, <2>4, TasksChange
<1>3. (\A w \in abandoned : PublishedNext(w.test)) /\ (file # None => PublishedNext(file))
  BY <1>1 DEF HandInv
<1> QED BY <1>2, <1>3 DEF HandInv, agentVars, Published, PublishedNext

LEMMA PipelineStepInv == PipelineInv /\ [PipelineNext]_pipelineVars => PipelineInv'
<1> SUFFICES ASSUME PipelineInv, [PipelineNext]_pipelineVars PROVE PipelineInv'
  OBVIOUS
<1> USE DEF PipelineInv
<1>1. CASE Detect
  BY <1>1, StepInv, DetectHand DEF Detect
<1>2. CASE Commit
  BY <1>2, StepInv, CommitHand
<1>3. CASE UNCHANGED pipelineVars
  <2>1. IInv'
    BY <1>3, StepInv DEF pipelineVars
  <2>2. HandInv'
    BY <1>3 DEF HandInv, Published, pipelineVars, agentVars, vars
  <2> QED BY <2>1, <2>2
<1> QED
  BY <1>1, <1>2, <1>3 DEF PipelineNext

LEMMA PipelineInvariance == PipelineSpec => []PipelineInv
BY PipelineInitInv, PipelineStepInv, PTL DEF PipelineSpec

(***************************************************************************)
(* The file on GitHub holds a test that passed and was published, whatever *)
(* the consumer's crashes, cancellations and abandoned writes.             *)
(***************************************************************************)
THEOREM OnlyPassedOnGitHub == PipelineSpec => []FilePassed
<1>1. PipelineInv => FilePassed
  BY DEF PipelineInv, HandInv, IInv, TasksPassed, Published, FilePassed
<1> QED BY <1>1, PipelineInvariance, PTL

(***************************************************************************)
(* Undisturbed, the consumer's sequence of reads and writes never runs     *)
(* into a write of its own: each task gets into the file, in order.        *)
(***************************************************************************)
UndisturbedInv ==
  disruptions = 0 =>
    /\ abandoned = {}
    /\ committed # None => position # None
    /\ consumer = "joining" => position = None /\ file = None
    /\ consumer \in {"joining", "polling", "reading", "writing"}
    /\ consumer = "polling" /\ file # None => position \in 1..Len(tasks) /\ file = tasks[position]
    /\ consumer = "writing" => read = file

LEMMA CommitUndisturbed ==
  ASSUME IInv, HandInv, disruptions \in Nat, UndisturbedInv, Commit
  PROVE  disruptions' \in Nat /\ UndisturbedInv'
<1>1. UNCHANGED tasks /\ tasks \in Seq(Versions)
  BY CommitHand DEF vars, IInv, TypeOK
<1> USE <1>1, PipelineAssumption DEF UndisturbedInv, HandInv, Commits!group, Commits!github, Commits!Disrupt
<1>2. CASE Commits!Join
  BY <1>2 DEF Commits!Join
<1>3. CASE Commits!Deliver
  BY <1>3 DEF Commits!Deliver
<1>4. CASE Commits!GetContents
  BY <1>4 DEF Commits!GetContents
<1>5. CASE Commits!WriteFile
  BY <1>5 DEF Commits!WriteFile, Commits!Write, Commits!InHand
<1>6. CASE Commits!GitHubFails
  BY <1>6 DEF Commits!GitHubFails
<1>7. CASE Commits!Stopped
  BY <1>7 DEF Commits!Stopped
<1>8. CASE Commits!Execute
  BY <1>8 DEF Commits!Execute
<1>9. CASE Commits!AutoCommit
  BY <1>9 DEF Commits!AutoCommit
<1>10. CASE Commits!Cancel
  BY <1>10 DEF Commits!Cancel
<1>11. CASE Commits!LoopFails
  BY <1>11 DEF Commits!LoopFails
<1>12. CASE Commits!Crash
  BY <1>12 DEF Commits!Crash
<1>13. CASE Commits!Restart
  BY <1>13 DEF Commits!Restart
<1>14. CASE Commits!AbandonedWrite
  BY <1>14 DEF Commits!AbandonedWrite, Commits!Write
<1> QED
  BY <1>2, <1>3, <1>4, <1>5, <1>6, <1>7, <1>8, <1>9, <1>10, <1>11, <1>12, <1>13, <1>14
  DEF Commit, Commits!Agent, Commits!Consume

\* A task that is added is not one that was delivered.
LEMMA DetectUndisturbed ==
  ASSUME IInv, disruptions \in Nat, UndisturbedInv, [Next]_vars, UNCHANGED agentVars
  PROVE  disruptions' \in Nat /\ UndisturbedInv'
<1>1. tasks \in Seq(Versions)
  BY DEF IInv, TypeOK
<1>2. CASE UNCHANGED tasks
  BY <1>2 DEF UndisturbedInv, agentVars
<1>3. ASSUME NEW r \in Requests, tasks' = Append(tasks, seen[r])
      PROVE  disruptions' \in Nat /\ UndisturbedInv'
  BY <1>1, <1>3 DEF UndisturbedInv, agentVars
<1>4. ASSUME NEW r \in Requests, Publish(r)
      PROVE  tasks' = Append(tasks, seen[r]) \/ tasks' = tasks
  BY <1>4 DEF Publish, Sent
<1> QED BY <1>2, <1>3, <1>4, TasksChange

\* The file holds the test of the last task of an undisturbed consumer.
THEOREM LastCommitted == PipelineSpec => []FileHoldsLast
<1> DEFINE J == disruptions \in Nat /\ UndisturbedInv
<1>1. PipelineInit => J
  BY DEF PipelineInit, Commits!Init, UndisturbedInv
<1>2. PipelineInv /\ J /\ [PipelineNext]_pipelineVars => J'
  <2> SUFFICES ASSUME PipelineInv, J, [PipelineNext]_pipelineVars PROVE J'
    OBVIOUS
  <2>1. CASE Detect
    BY <2>1, DetectUndisturbed DEF Detect, PipelineInv
  <2>2. CASE Commit
    BY <2>2, CommitUndisturbed DEF PipelineInv
  <2>3. CASE UNCHANGED pipelineVars
    BY <2>3, DetectUndisturbed DEF pipelineVars, PipelineInv
  <2> QED BY <2>1, <2>2, <2>3 DEF PipelineNext
<1>3. J => FileHoldsLast
  BY DEF UndisturbedInv, FileHoldsLast, Commits!HoldsLast
<1> QED BY <1>1, <1>2, <1>3, PipelineInvariance, PTL DEF PipelineSpec

=============================================================================
