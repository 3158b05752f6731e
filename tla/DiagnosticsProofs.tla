-------------------------- MODULE DiagnosticsProofs --------------------------
(***************************************************************************)
(* Proofs about the diagnostics agent: the live graph of tests, for any    *)
(* tests, targets, executions (however they overlap) and size of the       *)
(* buffer, and the discovery of agents, for any cards, requests and        *)
(* bounds.                                                                 *)
(***************************************************************************)
EXTENDS LiveGraph, AgentDiscovery, FiniteSetTheorems, SequenceTheorems, WellFoundedInduction, TLAPS

-----------------------------------------------------------------------------
(* The live graph *)

GraphTypeOK ==
  /\ stage \in [Reporters -> {"none", "stopped", "queued", "running"} \cup Ended]
  /\ waiting \in [Reporters -> Event \cup {None}]
  /\ earlier \in [Executions -> SUBSET Reporters]
  /\ flight \subseteq Event
  /\ events \in Seq(Event)
  /\ Len(events) <= MaxEvents

Level(r) == CASE stage[r] \in Ended -> 2
              [] stage[r] \in {"running", "stopped"} -> 1
              [] OTHER -> 0

\* An event says no more than what its reporter has reached.
NotAhead(e) == Stages[e.status] <= Level(e.by)

\* So do the events that were posted, and what a reporter waits for is the newest of them;
\* what was done when an execution began, is.
Posted ==
  /\ \A e \in flight : NotAhead(e)
  /\ \A n \in DOMAIN events : NotAhead(events[n])
  /\ \A r \in Reporters : waiting[r] # None => waiting[r] = [by |-> r, status |-> stage[r]]
  /\ \A x \in Executions : x \notin earlier[x] /\ \A r \in earlier[x] : Done(r)

GraphInv == GraphTypeOK /\ Posted /\ TargetsShown

LEMMA GraphInvInit == Init => GraphInv
BY GraphAssumption DEF Init, GraphInv, GraphTypeOK, Posted, TargetsShown

\* The buffer after an event: it is on top, and what is below it was there before.
LEMMA AppendLeftProperties ==
  ASSUME NEW e \in Event, events \in Seq(Event), Len(events) <= MaxEvents
  PROVE  /\ AppendLeft(e) \in Seq(Event)
         /\ Len(AppendLeft(e)) \in 1 .. MaxEvents
         /\ AppendLeft(e)[1] = e
         /\ \A n \in 2 .. Len(AppendLeft(e)) :
              n - 1 \in DOMAIN events /\ AppendLeft(e)[n] = events[n - 1]
<1> USE GraphAssumption
<1>1. CASE Len(events) < MaxEvents
  BY <1>1 DEF AppendLeft
<1>2. CASE ~(Len(events) < MaxEvents)
  <2>1. Len(events) = MaxEvents /\ MaxEvents - 1 \in Nat
    BY <1>2
  <2>2. /\ SubSeq(events, 1, MaxEvents - 1) \in Seq(Event)
        /\ Len(SubSeq(events, 1, MaxEvents - 1)) = MaxEvents - 1
        /\ \A n \in 1 .. MaxEvents - 1 : SubSeq(events, 1, MaxEvents - 1)[n] = events[n]
    BY <2>1, SubSeqProperties
  <2>3. AppendLeft(e) = <<e>> \o SubSeq(events, 1, MaxEvents - 1)
    BY <1>2 DEF AppendLeft
  <2> QED
    BY <2>1, <2>2, <2>3
<1> QED
  BY <1>1, <1>2

\* What a post changes: its reporter goes on and waits, and was not done.
LEMMA PostKeeps ==
  ASSUME GraphInv, NEW r \in Reporters, NEW s \in {"queued", "running"} \cup Ended,
         Post(r, s), Level(r) <= Stages[s], ~Done(r),
         earlier' \in [Executions -> SUBSET Reporters],
         \A x \in Executions : x \notin earlier'[x] /\ \A q \in earlier'[x] : Done(q)
  PROVE  GraphInv'
<1> DEFINE e == [by |-> r, status |-> s]
<1> USE DEF GraphInv, Post
<1>1. e \in Event /\ e.by = r /\ e.status = s
  BY DEF Event
<1>2. stage' = [stage EXCEPT ![r] = s]
      /\ waiting' = [waiting EXCEPT ![r] = e] /\ flight' = flight \cup {e} /\ events' = events
  OBVIOUS
<1>3. GraphTypeOK'
  BY <1>1, <1>2 DEF GraphTypeOK
<1>4. Level(r)' = Stages[s]
  BY <1>2 DEF Level, GraphTypeOK, Stages, Ended
<1>5. ASSUME NEW f \in Event, NotAhead(f) PROVE NotAhead(f)'
  <2>1. CASE f.by = r
    <3>1. Stages[f.status] \in Nat /\ Level(r) \in Nat /\ Stages[s] \in Nat
      BY DEF Stages, Event, Ended, Level
    <3> QED
      BY <1>4, <1>5, <2>1, <3>1 DEF NotAhead
  <2>2. CASE f.by # r
    <3>1. f.by \in Reporters
      BY DEF Event
    <3>2. stage'[f.by] = stage[f.by]
      BY <1>2, <2>2, <3>1 DEF GraphTypeOK
    <3> QED
      BY <1>5, <3>2 DEF NotAhead, Level
  <2> QED
    BY <2>1, <2>2
<1>6. NotAhead(e)'
  <2>1. Stages[s] \in Nat
    BY DEF Stages, Ended
  <2> QED
    BY <1>1, <1>4, <2>1 DEF NotAhead
<1>7. Posted'
  <2>1. \A f \in flight' : NotAhead(f)'
    BY <1>2, <1>5, <1>6 DEF Posted, GraphTypeOK
  <2>2. \A m \in DOMAIN events' : NotAhead(events[m])'
    <3>1. \A m \in DOMAIN events : events[m] \in Event /\ NotAhead(events[m])
      BY DEF Posted, GraphTypeOK
    <3> QED
      BY <1>2, <1>5, <3>1 DEF NotAhead
  <2>3. ASSUME NEW u \in Reporters, waiting'[u] # None
        PROVE  waiting'[u] = [by |-> u, status |-> stage'[u]]
    <3>1. CASE u = r
      BY <1>2, <3>1 DEF GraphTypeOK
    <3>2. CASE u # r
      BY <1>2, <2>3, <3>2 DEF GraphTypeOK, Posted
    <3> QED
      BY <3>1, <3>2
  <2>4. ASSUME NEW q \in Reporters, Done(q) PROVE Done(q)'
    BY <1>2, <2>4 DEF GraphTypeOK, Done
  <2>5. \A x \in Executions : \A q \in earlier'[x] : Done(q)'
    BY <2>4
  <2> QED
    BY <2>1, <2>2, <2>3, <2>5 DEF Posted
<1>8. TargetsShown'
  BY DEF TargetsShown
<1> QED
  BY <1>3, <1>7, <1>8

\* A reporter that was answered waits no more, and no other is disturbed.
LEMMA AnsweredKeeps ==
  ASSUME GraphTypeOK, NEW e \in Event, Answered(e)
  PROVE  /\ waiting' \in [Reporters -> Event \cup {None}]
         /\ \A r \in Reporters : waiting'[r] \in {waiting[r], None}
BY DEF Answered, GraphTypeOK, Event

\* What was done when executions began stays so, as long as no reporter goes on.
LEMMA DoneStays ==
  ASSUME GraphInv, UNCHANGED <<stage, earlier>>,
         \A r \in Reporters : waiting'[r] \in {waiting[r], None}
  PROVE  \A x \in Executions : x \notin earlier'[x] /\ \A r \in earlier'[x] : Done(r)'
BY DEF GraphInv, GraphTypeOK, Posted, Done

\* A step that changes no test, posts nothing and shows nothing new keeps the invariant.
LEMMA FewerEvents ==
  ASSUME GraphInv, flight' \subseteq flight,
         waiting' \in [Reporters -> Event \cup {None}],
         \A r \in Reporters : waiting'[r] \in {waiting[r], None},
         UNCHANGED <<stage, earlier, events, observed>>
  PROVE  GraphInv'
<1>1. GraphTypeOK'
  BY DEF GraphInv, GraphTypeOK
<1>2. Posted'
  BY DoneStays DEF GraphInv, Posted, NotAhead, Level
<1>3. TargetsShown'
  BY DEF GraphInv, TargetsShown
<1> QED
  BY <1>1, <1>2, <1>3 DEF GraphInv

LEMMA TakeKeeps ==
  ASSUME GraphInv, NEW e \in flight, Take(e)
  PROVE  GraphInv'
<1>1. /\ e \in Event /\ NotAhead(e) /\ events \in Seq(Event) /\ Len(events) <= MaxEvents
      /\ \A n \in DOMAIN events : NotAhead(events[n]) /\ Target[TestOf(events[n].by)] \in observed
  BY DEF GraphInv, GraphTypeOK, Posted, TargetsShown
<1>2. /\ events' \in Seq(Event) /\ Len(events') \in 1 .. MaxEvents
      /\ events'[1] = e
      /\ \A n \in 2 .. Len(events') : n - 1 \in DOMAIN events /\ events'[n] = events[n - 1]
  <2>1. events' = AppendLeft(e)
    BY DEF Take
  <2> QED
    BY <1>1, <2>1, AppendLeftProperties
<1>3. \A n \in DOMAIN events' : n = 1 \/ (n \in 2 .. Len(events') /\ n - 1 \in DOMAIN events)
  BY <1>2
<1>4. /\ waiting' \in [Reporters -> Event \cup {None}]
      /\ \A r \in Reporters : waiting'[r] \in {waiting[r], None}
  BY <1>1, AnsweredKeeps DEF GraphInv, Take
<1>5. GraphTypeOK'
  BY <1>1, <1>2, <1>4, GraphAssumption DEF GraphInv, GraphTypeOK, Take
<1>6. \A n \in DOMAIN events' : NotAhead(events'[n])
  BY <1>1, <1>2, <1>3
<1>7. Posted'
  <2>1. \A f : NotAhead(f) => NotAhead(f)'
    BY DEF Take, NotAhead, Level
  <2>2. \A f \in flight' : NotAhead(f)'
    BY <2>1 DEF GraphInv, Posted, Take
  <2>3. \A n \in DOMAIN events' : NotAhead(events[n])'
    BY <1>6 DEF Take, NotAhead, Level
  <2>4. ASSUME NEW r \in Reporters, waiting'[r] # None
        PROVE  waiting'[r] = [by |-> r, status |-> stage'[r]]
    BY <1>4, <2>4 DEF GraphInv, Posted, Take
  <2>5. \A x \in Executions : x \notin earlier'[x] /\ \A r \in earlier'[x] : Done(r)'
    BY <1>4, DoneStays DEF Take
  <2> QED
    BY <2>2, <2>3, <2>4, <2>5 DEF Posted
<1>8. TargetsShown'
  <2>1. observed' = observed \cup {Target[TestOf(e.by)]}
    BY DEF Take, Observe
  <2> QED
    BY <1>1, <1>2, <1>3, <2>1 DEF TargetsShown
<1> QED
  BY <1>5, <1>7, <1>8 DEF GraphInv

LEMMA GraphInvStep == GraphInv /\ [Next]_vars => GraphInv'
<1> SUFFICES ASSUME GraphInv, [Next]_vars PROVE GraphInv'
  OBVIOUS
<1>0. /\ earlier \in [Executions -> SUBSET Reporters]
      /\ \A x \in Executions : x \notin earlier[x] /\ \A q \in earlier[x] : Done(q)
  BY DEF GraphInv, GraphTypeOK, Posted
<1>1. ASSUME NEW t \in Tests, Generated(t) PROVE GraphInv'
  <2>1. t \in Reporters /\ Level(t) <= Stages["queued"] /\ ~Done(t)
    BY <1>1 DEF Generated, Reporters, Level, Stages, Ended, Done
  <2> QED
    BY <1>0, <1>1, <2>1, PostKeeps DEF Generated
<1>2. ASSUME NEW x \in Executions, Started(x) PROVE GraphInv'
  <2>1. x \in Reporters /\ Level(x) <= Stages["running"] /\ ~Done(x)
    BY <1>2 DEF Started, Reporters, Level, Stages, Ended, Done
  <2>2. /\ earlier' \in [Executions -> SUBSET Reporters]
        /\ \A y \in Executions : y \notin earlier'[y] /\ \A q \in earlier'[y] : Done(q)
    BY <1>0, <1>2, <2>1 DEF Started
  <2> QED
    BY <1>2, <2>1, <2>2, PostKeeps DEF Started
<1>3. ASSUME NEW x \in Executions, Completed(x) PROVE GraphInv'
  <2>1. PICK status \in Ended : Post(x, status)
    BY <1>3 DEF Completed
  <2>2. x \in Reporters /\ Level(x) <= Stages[status] /\ ~Done(x)
    BY <1>3 DEF Completed, Reporters, Level, Stages, Ended, Done
  <2> QED
    BY <1>0, <1>3, <2>1, <2>2, PostKeeps DEF Completed
<1>4. ASSUME NEW x \in Executions, Stopped(x) PROVE GraphInv'
  <2> USE DEF GraphInv, Stopped
  <2>0. x \in Reporters
    BY DEF Reporters
  <2>1. GraphTypeOK'
    BY <1>4 DEF GraphTypeOK
  <2>2. \A r \in Reporters : Level(r)' = Level(r) /\ (Done(r) => Done(r)')
    BY <1>4, <2>0 DEF Level, GraphTypeOK, Ended, Done
  <2>3. \A f \in Event : NotAhead(f) => NotAhead(f)'
    BY <1>4, <2>2 DEF NotAhead, Event
  <2>4. \A m \in DOMAIN events : events[m] \in Event
    BY DEF GraphTypeOK
  <2>5. Posted'
    <3>1. \A f \in flight' : NotAhead(f)'
      BY <1>4, <2>3 DEF Posted, GraphTypeOK
    <3>2. \A m \in DOMAIN events' : NotAhead(events[m])'
      BY <1>4, <2>3, <2>4 DEF Posted, NotAhead
    <3>3. ASSUME NEW u \in Reporters, waiting'[u] # None
          PROVE  waiting'[u] = [by |-> u, status |-> stage'[u]]
      BY <1>4, <3>3 DEF Posted, GraphTypeOK
    <3>4. \A y \in Executions : y \notin earlier'[y] /\ \A q \in earlier'[y] : Done(q)'
      BY <1>0, <1>4, <2>2
    <3> QED
      BY <3>1, <3>2, <3>3, <3>4 DEF Posted
  <2>6. TargetsShown'
    BY <1>4 DEF TargetsShown
  <2> QED
    BY <2>1, <2>5, <2>6
<1>5. ASSUME NEW r \in Reporters, GoesOn(r) PROVE GraphInv'
  <2>1. /\ waiting' \in [Reporters -> Event \cup {None}]
        /\ \A u \in Reporters : waiting'[u] \in {waiting[u], None}
    BY <1>5 DEF GoesOn, GraphInv, GraphTypeOK
  <2> QED
    BY <1>5, <2>1, FewerEvents DEF GoesOn
<1>6. ASSUME NEW e \in flight, Lost(e) PROVE GraphInv'
  <2>1. e \in Event /\ GraphTypeOK
    BY DEF GraphInv, GraphTypeOK
  <2> QED
    BY <1>6, <2>1, AnsweredKeeps, FewerEvents DEF Lost
<1>7. ASSUME NEW e \in flight, Take(e) PROVE GraphInv'
  BY <1>7, TakeKeeps
<1>8. CASE Restart
  BY <1>8, GraphAssumption
     DEF Restart, GraphInv, GraphTypeOK, Posted, NotAhead, Level, Done, TargetsShown
<1>9. CASE UNCHANGED vars
  BY <1>9, FewerEvents DEF vars, GraphInv, GraphTypeOK
<1> QED
  BY <1>1, <1>2, <1>3, <1>4, <1>5, <1>6, <1>7, <1>8, <1>9 DEF Next, Execution, Deliver

LEMMA GraphInvariant == Spec => []GraphInv
BY GraphInvInit, GraphInvStep, PTL DEF Spec

\* Tests, reporters, events and the buffer keep their types, and the buffer its bound.
THEOREM GraphTypeCorrect == Spec => []GraphTypeOK
<1>1. GraphInv => GraphTypeOK
  BY DEF GraphInv
<1> QED
  BY <1>1, GraphInvariant, PTL

\* The target of every test that is shown is observed, whatever was dropped or forgotten.
THEOREM TargetsAreShown == Spec => []TargetsShown
<1>1. GraphInv => TargetsShown
  BY DEF GraphInv
<1> QED
  BY <1>1, GraphInvariant, PTL

(***************************************************************************)
(* What is shown of a test never goes back in the order in which its       *)
(* events were posted, unless an event came after its reporter had gone    *)
(* on: whatever the buffer shows of another test it showed before, and an  *)
(* event whose reporter waits is of the farthest that this reporter has    *)
(* reached, which therefore is not done.                                   *)
(***************************************************************************)
THEOREM StatusGoes == Spec => StatusGoesForward
<1> DEFINE Goes(n, m) == LET old == events[n]
                             new == events'[m]
                         IN  TestOf(old.by) = TestOf(new.by) => ~Before(new, old) \/ Late(new)
           A == \A n \in Newest(events), m \in Newest(events') : Goes(n, m)
<1>0. ASSUME GraphInv, NEW f \in Event PROVE ~Before(f, f)
  BY <1>0 DEF GraphInv, Posted, Before, Event, Stages, Ended
<1>1. ASSUME GraphInv, NEW e \in flight, Take(e), NEW n \in Newest(events), NEW m \in Newest(events')
      PROVE  Goes(n, m)
  <2>1. /\ e \in Event /\ events \in Seq(Event) /\ Len(events) <= MaxEvents
        /\ n \in DOMAIN events /\ m \in DOMAIN events'
    BY <1>1 DEF GraphInv, GraphTypeOK, Newest
  <2>2. /\ events' \in Seq(Event) /\ Len(events') \in 1 .. MaxEvents
        /\ events'[1] = e
        /\ \A k \in 2 .. Len(events') : k - 1 \in DOMAIN events /\ events'[k] = events[k - 1]
    <3>1. events' = AppendLeft(e)
      BY <1>1 DEF Take
    <3> QED
      BY <2>1, <3>1, AppendLeftProperties
  <2>4. CASE m = 1
    <3>1. CASE waiting[e.by] = e
      <4>1. events[n] \in Event /\ NotAhead(events[n])
        BY <1>1, <2>1 DEF GraphInv, Posted
      <4>2. e.by \in Reporters /\ e # None
        BY <2>1, GraphAssumption DEF Event
      <4>3. e = [by |-> e.by, status |-> stage[e.by]]
        BY <1>1, <3>1, <4>2 DEF GraphInv, Posted
      <4>4. e.status = stage[e.by] /\ ~Done(e.by)
        BY <3>1, <4>2, <4>3 DEF Done
      <4>5. Stages[e.status] = Level(e.by)
        BY <2>1, <4>4 DEF Stages, Level, Event, Ended
      <4>6. Stages[e.status] \in Nat /\ Stages[events[n].status] \in Nat
        BY <2>1, <4>1 DEF Stages, Event, Ended
      <4>7. ~Before(e, events[n])
        BY <1>1, <4>1, <4>4, <4>5, <4>6 DEF GraphInv, Posted, NotAhead, Before
      <4> QED
        BY <2>2, <2>4, <4>7
    <3>2. CASE waiting[e.by] # e
      BY <2>2, <2>4, <3>2 DEF Late
    <3> QED
      BY <3>1, <3>2
  <2>5. CASE m # 1
    <3>1. m \in 2 .. Len(events') /\ m - 1 \in DOMAIN events /\ events'[m] = events[m - 1]
      BY <2>1, <2>2, <2>5
    <3>2. SUFFICES ASSUME TestOf(events[n].by) = TestOf(events'[m].by) PROVE n = m - 1
      <4>1. events[n] \in Event
        BY <2>1
      <4> QED
        BY <1>0, <1>1, <3>1, <4>1
    <3>3. \A k \in 1 .. m - 1 : TestOf(events'[k].by) # TestOf(events'[m].by)
      BY DEF Newest
    <3>4. CASE n < m - 1
      <4>1. n + 1 \in 2 .. Len(events') /\ n + 1 \in 1 .. m - 1 /\ n \in Nat
        BY <2>1, <2>2, <3>1, <3>4
      <4>2. events'[n + 1] = events[n]
        BY <2>2, <4>1
      <4> QED
        BY <3>2, <3>3, <4>1, <4>2
    <3>5. CASE m - 1 < n
      <4>1. m - 1 \in 1 .. n - 1
        BY <2>1, <3>1, <3>5
      <4> QED
        BY <3>1, <3>2, <4>1 DEF Newest
    <3> QED
      BY <2>1, <3>1, <3>4, <3>5
  <2> QED
    BY <2>4, <2>5
<1>2. ASSUME UNCHANGED events, GraphInv, NEW n \in Newest(events), NEW m \in Newest(events')
      PROVE  Goes(n, m)
  <2>1. events \in Seq(Event) /\ n \in DOMAIN events /\ m \in DOMAIN events /\ events' = events
    BY <1>2 DEF GraphInv, GraphTypeOK, Newest
  <2>2. SUFFICES ASSUME TestOf(events[n].by) = TestOf(events[m].by) PROVE n = m
    <3>1. events[n] \in Event
      BY <2>1
    <3> QED
      BY <1>0, <1>2, <2>1, <3>1
  <2>3. n \in Nat /\ m \in Nat /\ n >= 1 /\ m >= 1
    BY <2>1
  <2> QED
    BY <1>2, <2>1, <2>2, <2>3 DEF Newest
<1>3. GraphInv /\ [Next]_vars => A
  <2> SUFFICES ASSUME GraphInv, [Next]_vars, NEW n \in Newest(events), NEW m \in Newest(events')
               PROVE  Goes(n, m)
    OBVIOUS
  <2>1. ASSUME NEW e \in flight, Take(e) PROVE Goes(n, m)
    BY <1>1, <2>1
  <2>2. CASE Restart
    BY <2>2 DEF Restart, Newest
  <2>3. CASE UNCHANGED events
    BY <1>2, <2>3
  <2> QED
    BY <2>1, <2>2, <2>3 DEF Next, Execution, Deliver, Generated, Started, Completed, Stopped, Post, GoesOn,
                            Lost, vars
<1> QED
  BY <1>3, GraphInvariant, PTL DEF Spec, StatusGoesForward

-----------------------------------------------------------------------------
(* Induction over natural numbers, and functions that are defined by it *)

NatLess == {ss \in Nat \X Nat : ss[1] < ss[2]}

\* A set that holds 0, and with a number the next one, up to n, holds all up to n.
LEMMA Induction ==
  ASSUME NEW n \in Nat, NEW S, 0 \in S, \A k \in 0 .. n - 1 : k \in S => k + 1 \in S
  PROVE  0 .. n \subseteq S
<1> DEFINE T == {k \in 0 .. n : k \notin S}
<1>1. SUFFICES ASSUME T # {} PROVE FALSE
  OBVIOUS
<1>2. IsWellFoundedOn(NatLess, Nat)
  <2>1. OpToRel(<, Nat) = NatLess
    BY Zenon DEF OpToRel, NatLess
  <2> QED
    BY <2>1, NatLessThanWellFounded, Zenon
<1>3. T \subseteq Nat
  OBVIOUS
<1>4. \E x \in T : \A y \in T : ~ (<<y, x>> \in NatLess)
  BY <1>1, <1>2, <1>3, WFMin, Zenon
<1>5. PICK x \in T : \A y \in T : ~ (y < x)
  BY <1>3, <1>4 DEF NatLess
<1>6. x # 0 /\ x - 1 \in 0 .. n - 1
  BY <1>5
<1>7. x - 1 \in S
  BY <1>5, <1>6
<1> QED
  BY <1>5, <1>6, <1>7

\* What f may go on with in each of n steps, and that it does.
StepsOn(X, n) == [1 .. n -> [X -> X]]

GoesOnWith(step, n, f) == \A k \in 1 .. n : f[k] = step[k][f[k - 1]]

\* There is a function that starts with base and goes on with step.
LEMMA Recursion ==
  ASSUME NEW n \in Nat, NEW X, NEW base \in X, NEW step \in StepsOn(X, n)
  PROVE  \E f \in [0 .. n -> X] : f[0] = base /\ GoesOnWith(step, n, f)
<1> USE DEF StepsOn, GoesOnWith
<1> DEFINE Goes(f, m) == f[0] = base /\ \A k \in 1 .. m : f[k] = step[k][f[k - 1]]
           S == {m \in 0 .. n : \E f \in [0 .. m -> X] : Goes(f, m)}
<1>1. 0 \in S
  <2> DEFINE f == [k \in 0 .. 0 |-> base]
  <2>1. f \in [0 .. 0 -> X] /\ f[0] = base
    OBVIOUS
  <2> HIDE DEF f
  <2> QED
    BY <2>1
<1>2. ASSUME NEW m \in 0 .. n - 1, m \in S PROVE m + 1 \in S
  <2>1. PICK f \in [0 .. m -> X] : Goes(f, m)
    BY <1>2
  <2> DEFINE next == step[m + 1][f[m]]
             g == [k \in 0 .. m + 1 |-> IF k = m + 1 THEN next ELSE f[k]]
  <2>2. m \in Nat /\ m \in 0 .. m /\ m + 1 \in 1 .. n /\ m + 1 \in 0 .. n
    OBVIOUS
  <2>3. next \in X
    BY <2>2
  <2> HIDE DEF next
  <2>4. /\ g \in [0 .. m + 1 -> X] /\ g[m + 1] = next
        /\ \A k \in 0 .. m : g[k] = f[k]
    BY <2>2, <2>3
  <2> HIDE DEF g
  <2>5. ASSUME NEW k \in 1 .. m + 1 PROVE g[k] = step[k][g[k - 1]]
    <3>1. CASE k = m + 1
      <4>1. k - 1 = m /\ g[m] = f[m]
        BY <2>2, <2>4, <3>1
      <4> QED
        BY <2>4, <3>1, <4>1 DEF next
    <3>2. CASE k # m + 1
      <4>1. k \in 1 .. m /\ k - 1 \in 0 .. m /\ k \in 0 .. m
        BY <2>2, <3>2
      <4> QED
        BY <2>1, <2>4, <4>1
    <3> QED
      BY <3>1, <3>2
  <2>6. g[0] = base
    BY <2>1, <2>2, <2>4
  <2>7. Goes(g, m + 1)
    BY <2>5, <2>6
  <2> HIDE DEF Goes
  <2> QED
    BY <2>2, <2>4, <2>7
<1> HIDE DEF S
<1>3. 0 .. n \subseteq S
  BY <1>1, <1>2, Induction
<1>4. n \in S
  BY <1>3
<1> QED
  BY <1>4 DEF S

-----------------------------------------------------------------------------
(* Discovery *)

LEMMA MembersOfAppend ==
  ASSUME NEW urls \in Seq(Urls), NEW u \in Urls
  PROVE  Append(urls, u) \in Seq(Urls) /\ Members(Append(urls, u)) = Members(urls) \cup {u}
<1> DEFINE more == Append(urls, u)
<1>1. /\ more \in Seq(Urls) /\ Len(more) = Len(urls) + 1
      /\ more[Len(urls) + 1] = u /\ \A n \in 1 .. Len(urls) : more[n] = urls[n]
  OBVIOUS
<1>2. Members(more) = {more[n] : n \in 1 .. Len(urls) + 1} /\ Members(urls) = {urls[n] : n \in 1 .. Len(urls)}
  BY <1>1 DEF Members
<1> QED
  BY <1>1, <1>2

\* The loop over the peers of an agent keeps those that were not seen.
LEMMA UnseenMembers ==
  ASSUME NEW urls \in Seq(Urls), NEW seen
  PROVE  Unseen(urls, seen) \in Seq(Urls) /\ Members(Unseen(urls, seen)) = Members(urls) \ seen
<1> DEFINE L == Len(urls)
           After(n, s) == IF urls[n] \in seen THEN s ELSE Append(s, urls[n])
           Loops(F) == F = [n \in 0 .. L |-> IF n = 0 THEN << >>
                                             ELSE IF urls[n] \in seen THEN F[n - 1]
                                             ELSE Append(F[n - 1], urls[n])]
           Loop == CHOOSE F : Loops(F)
<1>1. L \in Nat /\ \A n \in 1 .. L : urls[n] \in Urls
  OBVIOUS
<1>2. \E F : Loops(F)
  <2> DEFINE step == [n \in 1 .. L |-> [s \in Seq(Urls) |-> After(n, s)]]
  <2>1. ASSUME NEW n \in 1 .. L, NEW s \in Seq(Urls) PROVE After(n, s) \in Seq(Urls)
    BY <1>1
  <2>2. step \in StepsOn(Seq(Urls), L)
    BY <2>1 DEF StepsOn
  <2>3. \A n \in 1 .. L, s \in Seq(Urls) : step[n][s] = After(n, s)
    OBVIOUS
  <2>4. << >> \in Seq(Urls)
    OBVIOUS
  <2> HIDE DEF step, L
  <2>5. PICK f \in [0 .. L -> Seq(Urls)] : f[0] = << >> /\ GoesOnWith(step, L, f)
    BY <1>1, <2>2, <2>4, Recursion
  <2>6. ASSUME NEW k \in 1 .. L PROVE f[k] = After(k, f[k - 1])
    <3>1. f[k - 1] \in Seq(Urls)
      BY <1>1
    <3> QED
      BY <2>3, <2>5, <3>1 DEF GoesOnWith
  <2>7. \A k \in 0 .. L : k = 0 \/ k \in 1 .. L
    BY <1>1
  <2>8. Loops(f)
    BY <2>5, <2>6, <2>7
  <2> QED
    BY <2>8
<1>3. Loops(Loop)
  BY <1>2, Zenon
<1>4. Unseen(urls, seen) = Loop[L]
  BY Zenon DEF Unseen
<1> HIDE DEF Loop
<1>5. /\ Loop[0] = << >>
      /\ \A n \in 0 .. L - 1 : n + 1 \in 1 .. L /\ Loop[n + 1] = After(n + 1, Loop[n])
  <2>0. \A k \in 0 .. L : Loop[k] = IF k = 0 THEN << >> ELSE After(k, Loop[k - 1])
    BY <1>3
  <2> HIDE DEF After, Loops
  <2>1. Loop[0] = << >>
    BY <1>1, <2>0
  <2>2. ASSUME NEW n \in 0 .. L - 1
        PROVE  n + 1 \in 1 .. L /\ Loop[n + 1] = After(n + 1, Loop[n])
    <3>1. n + 1 \in 0 .. L /\ n + 1 # 0 /\ n + 1 - 1 = n
      BY <1>1
    <3> QED
      BY <1>1, <2>0, <3>1
  <2> QED
    BY <2>1, <2>2
<1> HIDE DEF Loops, L
<1> DEFINE First(n) == {urls[m] : m \in 1 .. n}
           S == {n \in 0 .. L : Loop[n] \in Seq(Urls) /\ Members(Loop[n]) = First(n) \ seen}
<1>6. 0 \in S
  <2>1. First(0) = {} /\ 0 \in 0 .. L
    BY <1>1
  <2>2. << >> \in Seq(Urls) /\ Members(<< >>) = {}
    BY DEF Members
  <2> QED
    BY <1>5, <2>1, <2>2
<1>7. ASSUME NEW n \in 0 .. L - 1, n \in S PROVE n + 1 \in S
  <2>1. n + 1 \in 1 .. L /\ n + 1 \in 0 .. L /\ urls[n + 1] \in Urls
        /\ Loop[n + 1] = After(n + 1, Loop[n])
    BY <1>1, <1>5
  <2>2. First(n + 1) = First(n) \cup {urls[n + 1]}
    BY <2>1
  <2>3. Loop[n] \in Seq(Urls) /\ Members(Loop[n]) = First(n) \ seen
    BY <1>7
  <2> HIDE DEF First
  <2>4. Loop[n + 1] \in Seq(Urls) /\ Members(Loop[n + 1]) = First(n + 1) \ seen
    <3>1. CASE urls[n + 1] \in seen
      BY <2>1, <2>2, <2>3, <3>1
    <3>2. CASE urls[n + 1] \notin seen
      BY <2>1, <2>2, <2>3, <3>2, MembersOfAppend
    <3> QED
      BY <3>1, <3>2
  <2> QED
    BY <2>1, <2>4
<1>8. L \in S
  <2> HIDE DEF S
  <2>1. 0 .. L \subseteq S
    BY <1>1, <1>6, <1>7, Induction
  <2> QED
    BY <1>1, <2>1
<1>9. First(L) = Members(urls)
  BY DEF Members, L
<1> QED
  BY <1>4, <1>8, <1>9

\* What is reached by no link, and by one more.
LEMMA ReachedSteps ==
  ASSUME NEW roots \in SUBSET Urls, NEW links,
         \A u \in DOMAIN links : links[u] \subseteq Urls
  PROVE  /\ Reached(roots, links) \in [0 .. MaxDepth -> SUBSET Urls]
         /\ Reached(roots, links)[0] = roots
         /\ \A k \in 1 .. MaxDepth :
              Reached(roots, links)[k] =
                Reached(roots, links)[k - 1]
                \cup UNION {links[u] : u \in Reached(roots, links)[k - 1] \cap DOMAIN links}
<1> DEFINE More(W) == W \cup UNION {links[u] : u \in W \cap DOMAIN links}
           Goes(F) == F = [k \in 0 .. MaxDepth |-> IF k = 0 THEN roots ELSE
                             F[k - 1] \cup UNION {links[u] : u \in F[k - 1] \cap DOMAIN links}]
           W == CHOOSE F : Goes(F)
<1>1. MaxDepth \in Nat
  BY DiscoveryAssumption
<1>2. \A V \in SUBSET Urls : More(V) \in SUBSET Urls
  OBVIOUS
<1>3. \A F : Goes(F) <=> F = [k \in 0 .. MaxDepth |-> IF k = 0 THEN roots ELSE More(F[k - 1])]
  BY Zenon
<1>4. Goes(W) /\ Reached(roots, links) = W
  <2>1. \E f : Goes(f)
    <3> DEFINE step == [k \in 1 .. MaxDepth |-> [V \in SUBSET Urls |-> More(V)]]
    <3>1. step \in StepsOn(SUBSET Urls, MaxDepth)
      BY <1>2 DEF StepsOn
    <3>2. \A k \in 1 .. MaxDepth, V \in SUBSET Urls : step[k][V] = More(V)
      OBVIOUS
    <3> HIDE DEF step, More, Goes
    <3>3. PICK f \in [0 .. MaxDepth -> SUBSET Urls] : f[0] = roots /\ GoesOnWith(step, MaxDepth, f)
      BY <1>1, <3>1, Recursion
    <3>4. ASSUME NEW k \in 1 .. MaxDepth PROVE f[k] = More(f[k - 1])
      <4>1. f[k - 1] \in SUBSET Urls
        BY <1>1
      <4> QED
        BY <3>2, <3>3, <4>1 DEF GoesOnWith
    <3>5. \A k \in 0 .. MaxDepth : k = 0 \/ k \in 1 .. MaxDepth
      BY <1>1
    <3>6. f = [k \in 0 .. MaxDepth |-> IF k = 0 THEN roots ELSE More(f[k - 1])]
      BY <3>3, <3>4, <3>5
    <3> QED
      BY <1>3, <3>6
  <2>2. Goes(W)
    BY <2>1, Zenon
  <2>3. Reached(roots, links) = W
    BY Zenon DEF Reached
  <2> QED
    BY <2>2, <2>3
<1> HIDE DEF W
<1>5. W = [k \in 0 .. MaxDepth |-> IF k = 0 THEN roots ELSE More(W[k - 1])]
  BY <1>3, <1>4
<1> HIDE DEF Goes, More
<1>6. W[0] = roots /\ \A k \in 1 .. MaxDepth : W[k] = More(W[k - 1])
  BY <1>1, <1>5
<1>7. DOMAIN W = 0 .. MaxDepth
  BY <1>5
<1>8. \A k \in 0 .. MaxDepth : W[k] \in SUBSET Urls
  <2> DEFINE S == {k \in 0 .. MaxDepth : W[k] \in SUBSET Urls}
  <2>1. 0 \in S
    BY <1>1, <1>6
  <2>2. ASSUME NEW k \in 0 .. MaxDepth - 1, k \in S PROVE k + 1 \in S
    <3>1. k + 1 \in 1 .. MaxDepth /\ k + 1 \in 0 .. MaxDepth /\ k + 1 - 1 = k
      BY <1>1
    <3> QED
      BY <1>2, <1>6, <2>2, <3>1
  <2> HIDE DEF S
  <2>3. 0 .. MaxDepth \subseteq S
    BY <1>1, <2>1, <2>2, Induction
  <2> QED
    BY <2>3 DEF S
<1>9. W \in [0 .. MaxDepth -> SUBSET Urls]
  BY <1>5, <1>7, <1>8
<1> QED
  BY <1>4, <1>6, <1>9 DEF More

\* More links reach more, and so do more of the same.
LEMMA ReachedGrows ==
  ASSUME NEW roots \in SUBSET Urls, NEW links,
         \A u \in DOMAIN links : links[u] \subseteq Urls
  PROVE  \A j, k \in 0 .. MaxDepth : j <= k => Reached(roots, links)[j] \subseteq Reached(roots, links)[k]
<1> DEFINE W == Reached(roots, links)
<1>1. MaxDepth \in Nat
  BY DiscoveryAssumption
<1>2. \A k \in 0 .. MaxDepth - 1 : W[k] \subseteq W[k + 1]
  <2>1. \A k \in 1 .. MaxDepth : W[k] = W[k - 1] \cup UNION {links[u] : u \in W[k - 1] \cap DOMAIN links}
    BY ReachedSteps
  <2> HIDE DEF W
  <2>2. ASSUME NEW k \in 0 .. MaxDepth - 1 PROVE W[k] \subseteq W[k + 1]
    <3>1. k + 1 \in 1 .. MaxDepth /\ k + 1 - 1 = k
      BY <1>1
    <3> QED
      BY <2>1, <3>1
  <2> QED
    BY <2>2
<1> HIDE DEF W
<1>3. ASSUME NEW j \in 0 .. MaxDepth PROVE \A k \in 0 .. MaxDepth : j <= k => W[j] \subseteq W[k]
  <2> DEFINE S == {k \in 0 .. MaxDepth : j <= k => W[j] \subseteq W[k]}
  <2>1. 0 \in S
    BY <1>1
  <2>2. ASSUME NEW k \in 0 .. MaxDepth - 1, k \in S PROVE k + 1 \in S
    <3>1. k + 1 \in 0 .. MaxDepth
      BY <1>1
    <3>2. CASE j <= k
      BY <1>2, <2>2, <3>1, <3>2
    <3>3. CASE ~(j <= k)
      <4>1. j <= k + 1 => j = k + 1
        BY <3>1, <3>3
      <4> QED
        BY <3>1, <4>1
    <3> QED
      BY <3>2, <3>3
  <2> HIDE DEF S
  <2>3. 0 .. MaxDepth \subseteq S
    BY <1>1, <2>1, <2>2, Induction
  <2> QED
    BY <2>3 DEF S
<1> QED
  BY <1>3 DEF W

\* Sets that hold where one starts, and where their links lead to, hold what is reached.
LEMMA ReachedIsLeast ==
  ASSUME NEW roots \in SUBSET Urls, NEW links,
         \A u \in DOMAIN links : links[u] \subseteq Urls,
         NEW V \in [0 .. MaxDepth -> SUBSET Urls],
         roots \subseteq V[0],
         \A k \in 1 .. MaxDepth : V[k - 1] \subseteq V[k],
         \A k \in 1 .. MaxDepth, u \in DOMAIN links : u \in V[k - 1] => links[u] \subseteq V[k]
  PROVE  \A k \in 0 .. MaxDepth : Reached(roots, links)[k] \subseteq V[k]
<1> DEFINE W == Reached(roots, links)
           S == {k \in 0 .. MaxDepth : W[k] \subseteq V[k]}
<1>1. MaxDepth \in Nat
  BY DiscoveryAssumption
<1>2. /\ W[0] = roots
      /\ \A k \in 1 .. MaxDepth : W[k] = W[k - 1] \cup UNION {links[u] : u \in W[k - 1] \cap DOMAIN links}
  BY ReachedSteps
<1> HIDE DEF W
<1>3. 0 \in S
  BY <1>1, <1>2
<1>4. ASSUME NEW k \in 0 .. MaxDepth - 1, k \in S PROVE k + 1 \in S
  <2>1. k + 1 \in 1 .. MaxDepth /\ k + 1 \in 0 .. MaxDepth /\ k + 1 - 1 = k
    BY <1>1
  <2>2. W[k] \subseteq V[k]
    BY <1>4
  <2>3. W[k + 1] = W[k] \cup UNION {links[u] : u \in W[k] \cap DOMAIN links}
    BY <1>2, <2>1
  <2>4. V[k] \subseteq V[k + 1] /\ \A u \in W[k] \cap DOMAIN links : links[u] \subseteq V[k + 1]
    BY <2>1, <2>2
  <2> QED
    BY <2>1, <2>2, <2>3, <2>4
<1> HIDE DEF S
<1>5. 0 .. MaxDepth \subseteq S
  BY <1>1, <1>3, <1>4, Induction
<1> QED
  BY <1>5 DEF S, W

LEMMA ReachedByMore ==
  ASSUME NEW roots \in SUBSET Urls, NEW links, NEW more,
         \A u \in DOMAIN more : more[u] \subseteq Urls,
         \A u \in DOMAIN links : u \in DOMAIN more /\ more[u] = links[u]
  PROVE  \A k \in 0 .. MaxDepth : Reached(roots, links)[k] \subseteq Reached(roots, more)[k]
<1> DEFINE V == Reached(roots, more)
<1>1. /\ V \in [0 .. MaxDepth -> SUBSET Urls]
      /\ V[0] = roots
      /\ \A k \in 1 .. MaxDepth : V[k] = V[k - 1] \cup UNION {more[u] : u \in V[k - 1] \cap DOMAIN more}
  BY ReachedSteps, ZenonT(30)
<1> HIDE DEF V
<1>2. \A u \in DOMAIN links : links[u] \subseteq Urls
  OBVIOUS
<1>3. roots \subseteq V[0] /\ \A k \in 1 .. MaxDepth : V[k - 1] \subseteq V[k]
  BY <1>1
<1>4. ASSUME NEW k \in 1 .. MaxDepth, NEW u \in DOMAIN links, u \in V[k - 1]
      PROVE  links[u] \subseteq V[k]
  <2>1. u \in V[k - 1] \cap DOMAIN more /\ more[u] = links[u]
    BY <1>4
  <2> QED
    BY <1>1, <2>1
<1>5. \A k \in 0 .. MaxDepth : Reached(roots, links)[k] \subseteq V[k]
  BY <1>1, <1>2, <1>3, <1>4, ReachedIsLeast
<1> QED
  BY <1>5 DEF V

Entry == [url : Urls, depth : 0 .. MaxDepth]

DiscoveryTypeOK ==
  /\ peers \in [Urls -> Seq(Urls)]
  /\ request \in Seq(Urls)
  /\ queue \in Seq(Entry)
  /\ visited \subseteq Urls
  /\ agents \in [visited -> Found]

\* The queue is in the order of depths, and holds no more than two of them.
InOrder ==
  \A i, j \in DOMAIN queue : i <= j =>
    queue[i].depth <= queue[j].depth /\ queue[j].depth <= queue[i].depth + 1

\* What is queued is reached by as many links as its depth says.
QueuedInReach == \A i \in DOMAIN queue : queue[i].url \in Within[queue[i].depth]

\* An agent was visited at depth k or less, or will be.
Due(u, k, depths) ==
  \/ u \in visited /\ depths[u] <= k
  \/ \E i \in DOMAIN queue : queue[i].url = u /\ queue[i].depth <= k

(***************************************************************************)
(* The depths at which agents were visited: each is reached by that many   *)
(* links; none was visited deeper than what is queued; and where the       *)
(* discovery starts, and what follows an agent that it visited at a depth  *)
(* that is not the last, is visited or queued no deeper than that says.    *)
(***************************************************************************)
VisitedAt(depths) ==
  /\ \A v \in visited : v \in Within[depths[v]]
  /\ \A v \in visited, i \in DOMAIN queue : depths[v] <= queue[i].depth
  /\ \A u \in Members(request) : Due(u, 0, depths)
  /\ \A v \in DOMAIN Links : depths[v] < MaxDepth =>
       \A u \in Links[v] : Due(u, depths[v] + 1, depths)

DiscoveryInv ==
  /\ DiscoveryTypeOK
  /\ InOrder
  /\ QueuedInReach
  /\ \E depths \in [visited -> 0 .. MaxDepth] : VisitedAt(depths)

LEMMA LinksTyped == DiscoveryTypeOK => /\ Members(request) \in SUBSET Urls
                                       /\ \A u \in DOMAIN Links : Links[u] \subseteq Urls
BY DiscoveryAssumption DEF DiscoveryTypeOK, Members, Links

LEMMA AtProperties ==
  ASSUME NEW urls \in Seq(Urls), NEW depth \in 0 .. MaxDepth
  PROVE  /\ At(urls, depth) \in Seq(Entry) /\ DOMAIN At(urls, depth) = DOMAIN urls
         /\ \A n \in DOMAIN urls : At(urls, depth)[n] = [url |-> urls[n], depth |-> depth]
<1> DEFINE s == At(urls, depth)
<1>1. Len(urls) \in Nat /\ DOMAIN urls = 1 .. Len(urls) /\ \A n \in DOMAIN urls : urls[n] \in Urls
  OBVIOUS
<1>2. s = [n \in 1 .. Len(urls) |-> [url |-> urls[n], depth |-> depth]]
  BY <1>1 DEF At
<1>3. s \in [1 .. Len(urls) -> Entry]
  BY <1>1, <1>2 DEF Entry
<1>4. s \in Seq(Entry)
  BY <1>1, <1>3, SeqDef
<1> QED
  BY <1>1, <1>2, <1>4

LEMMA DiscoveryInvInit == DiscoveryInit => DiscoveryInv
<1> SUFFICES ASSUME DiscoveryInit PROVE DiscoveryInv
  OBVIOUS
<1>1. MaxDepth \in Nat /\ peers \in [Urls -> Seq(Urls)] /\ request \in Seq(Urls)
  BY DiscoveryAssumption DEF DiscoveryInit
<1>2. /\ queue \in Seq(Entry) /\ DOMAIN queue = DOMAIN request
      /\ \A i \in DOMAIN queue : queue[i].url = request[i] /\ queue[i].depth = 0
  <2>1. queue = At(request, 0) /\ 0 \in 0 .. MaxDepth
    BY <1>1 DEF DiscoveryInit
  <2>2. /\ queue \in Seq(Entry) /\ DOMAIN queue = DOMAIN request
        /\ \A i \in DOMAIN request : queue[i] = [url |-> request[i], depth |-> 0]
    BY <1>1, <2>1, AtProperties, Zenon
  <2> QED
    BY <2>2
<1>3. DiscoveryTypeOK
  BY <1>1, <1>2 DEF DiscoveryInit, DiscoveryTypeOK
<1>4. Within[0] = Members(request)
  BY <1>3, LinksTyped, ReachedSteps DEF Within
<1>5. InOrder /\ QueuedInReach
  BY <1>2, <1>4 DEF InOrder, QueuedInReach, Members
<1>6. \E depths \in [visited -> 0 .. MaxDepth] : VisitedAt(depths)
  <2> DEFINE depths == [v \in {} |-> 0]
  <2>1. visited = {} /\ DOMAIN Links = {}
    BY DEF DiscoveryInit, Links
  <2>2. depths \in [visited -> 0 .. MaxDepth]
    BY <2>1
  <2> HIDE DEF depths
  <2>3. \A u \in Members(request) : Due(u, 0, depths)
    BY <1>2 DEF Due, Members
  <2>4. VisitedAt(depths)
    BY <2>1, <2>3 DEF VisitedAt
  <2> QED
    BY <2>2, <2>4
<1> QED
  BY <1>3, <1>5, <1>6 DEF DiscoveryInv

\* The queue after a turn: without its first entry, and with new ones at its end.
Shifted(q, new, r) ==
  /\ 1 \in DOMAIN q /\ Head(q) = q[1] /\ q[1] \in Entry
  /\ r \in Seq(Entry)
  /\ \A i \in DOMAIN r :
       \/ i + 1 \in DOMAIN q /\ r[i] = q[i + 1]
       \/ \E n \in DOMAIN new : r[i] = new[n] /\ i >= Len(q)
  /\ \A i \in DOMAIN q : i # 1 => \E j \in DOMAIN r : r[j] = q[i]
  /\ \A n \in DOMAIN new : \E j \in DOMAIN r : r[j] = new[n]

LEMMA QueueAfter ==
  ASSUME NEW q \in Seq(Entry), q # << >>, NEW new \in Seq(Entry)
  PROVE  Shifted(q, new, Tail(q) \o new)
<1> DEFINE r == Tail(q) \o new
<1>1. /\ Len(q) \in Nat /\ Len(q) >= 1 /\ Len(new) \in Nat
      /\ Tail(q) \in Seq(Entry) /\ Len(Tail(q)) = Len(q) - 1
      /\ \A i \in 1 .. Len(q) - 1 : Tail(q)[i] = q[i + 1]
  OBVIOUS
<1>2. /\ r \in Seq(Entry) /\ Len(r) = Len(q) - 1 + Len(new)
      /\ \A i \in 1 .. Len(q) - 1 : r[i] = q[i + 1]
      /\ \A n \in 1 .. Len(new) : r[Len(q) - 1 + n] = new[n]
  BY <1>1
<1>3. 1 \in DOMAIN q /\ Head(q) = q[1] /\ q[1] \in Entry
  BY <1>1
<1>4. ASSUME NEW i \in DOMAIN r
      PROVE  \/ i + 1 \in DOMAIN q /\ r[i] = q[i + 1]
             \/ \E n \in DOMAIN new : r[i] = new[n] /\ i >= Len(q)
  <2>1. CASE i <= Len(q) - 1
    BY <1>1, <1>2, <2>1
  <2>2. CASE ~(i <= Len(q) - 1)
    <3>1. i - (Len(q) - 1) \in 1 .. Len(new) /\ Len(q) - 1 + (i - (Len(q) - 1)) = i /\ i >= Len(q)
      BY <1>1, <1>2, <2>2
    <3> QED
      BY <1>2, <3>1
  <2> QED
    BY <2>1, <2>2
<1>5. ASSUME NEW i \in DOMAIN q, i # 1 PROVE \E j \in DOMAIN r : r[j] = q[i]
  <2>1. i - 1 \in 1 .. Len(q) - 1 /\ i - 1 \in DOMAIN r /\ i - 1 + 1 = i
    BY <1>1, <1>2, <1>5
  <2> QED
    BY <1>2, <2>1
<1>6. ASSUME NEW n \in DOMAIN new PROVE \E j \in DOMAIN r : r[j] = new[n]
  <2>1. Len(q) - 1 + n \in DOMAIN r /\ n \in 1 .. Len(new)
    BY <1>1, <1>2
  <2> QED
    BY <1>2, <2>1
<1> QED
  BY <1>2, <1>3, <1>4, <1>5, <1>6 DEF Shifted

(***************************************************************************)
(* A turn takes the first entry of the queue, and its agent was or is      *)
(* visited; only the turn that describes an agent whose depth is not the   *)
(* last adds entries, for the links of the agent that were not visited.    *)
(***************************************************************************)
Turn(next, new) ==
  /\ queue # << >> /\ next = Head(queue)
  /\ queue' = Tail(queue) \o new
  /\ visited' = visited \cup {next.url}
  /\ agents' \in [visited' -> Found]
  /\ \A u \in visited : agents'[u] = agents[u]
  /\ UNCHANGED <<peers, request>>
  /\ \A n \in DOMAIN new : new[n].depth = next.depth + 1 /\ next.depth < MaxDepth
                           /\ next.url \in DOMAIN Links' /\ new[n].url \in Links'[next.url]
  /\ next.url \notin visited /\ next.url \in DOMAIN Links' /\ next.depth < MaxDepth =>
       \A u \in Links'[next.url] : u \in visited' \/ \E n \in DOMAIN new : new[n].url = u

LEMMA TurnKeeps ==
  ASSUME DiscoveryInv, NEW next, NEW new \in Seq(Entry), Turn(next, new)
  PROVE  DiscoveryInv'
<1>0. /\ queue # << >> /\ next = Head(queue) /\ queue' = Tail(queue) \o new
      /\ visited' = visited \cup {next.url} /\ agents' \in [visited' -> Found]
      /\ \A u \in visited : agents'[u] = agents[u]
      /\ peers' = peers /\ request' = request
  BY DEF Turn
<1>1. DiscoveryTypeOK
  BY DEF DiscoveryInv
<1>2. /\ 1 \in DOMAIN queue /\ next = queue[1] /\ next \in Entry
      /\ queue' \in Seq(Entry)
      /\ \A i \in DOMAIN queue' :
           \/ i + 1 \in DOMAIN queue /\ queue'[i] = queue[i + 1]
           \/ \E n \in DOMAIN new : queue'[i] = new[n] /\ i >= Len(queue)
      /\ \A i \in DOMAIN queue : i # 1 => \E j \in DOMAIN queue' : queue'[j] = queue[i]
      /\ \A n \in DOMAIN new : \E j \in DOMAIN queue' : queue'[j] = new[n]
  <2>1. queue \in Seq(Entry)
    BY <1>1 DEF DiscoveryTypeOK
  <2>2. Shifted(queue, new, queue')
    BY <1>0, <2>1, QueueAfter
  <2> QED
    BY <1>0, <2>2 DEF Shifted
<1>3. MaxDepth \in Nat /\ next.url \in Urls /\ next.depth \in 0 .. MaxDepth
  BY <1>2, DiscoveryAssumption DEF Entry
<1>4. DiscoveryTypeOK'
  BY <1>0, <1>1, <1>2, <1>3 DEF DiscoveryTypeOK
<1>5. /\ Members(request) \in SUBSET Urls /\ request' = request
      /\ \A u \in DOMAIN Links : Links[u] \subseteq Urls
  BY <1>0, <1>1, LinksTyped
<1>6. \A u \in DOMAIN Links' : Links'[u] \subseteq Urls /\ u \in visited'
  BY <1>4, DiscoveryAssumption DEF DiscoveryTypeOK, Members, Links
<1>7. \A u \in DOMAIN Links : u \in DOMAIN Links' /\ Links'[u] = Links[u] /\ u \in visited
  BY <1>0 DEF Links
<1>8. \A u \in DOMAIN Links' : u \in visited => u \in DOMAIN Links
  BY <1>0 DEF Links
<1>9. \A k \in 0 .. MaxDepth : Within[k] \subseteq Within'[k]
  BY <1>5, <1>6, <1>7, ReachedByMore DEF Within
<1>10. \A k \in 0 .. MaxDepth - 1, u \in DOMAIN Links' : u \in Within'[k] => Links'[u] \subseteq Within'[k + 1]
  <2> DEFINE links == Links'
             W == Reached(Members(request), links)
  <2>1. Within' = W /\ \A u \in DOMAIN links : links[u] \subseteq Urls
    BY <1>5, <1>6 DEF Within
  <2> HIDE DEF links
  <2>2. \A k \in 1 .. MaxDepth : W[k] = W[k - 1] \cup UNION {links[u] : u \in W[k - 1] \cap DOMAIN links}
    BY <1>5, <2>1, ReachedSteps
  <2> HIDE DEF W
  <2>3. ASSUME NEW k \in 0 .. MaxDepth - 1, NEW u \in DOMAIN links, u \in W[k]
        PROVE  links[u] \subseteq W[k + 1]
    <3>1. k + 1 \in 1 .. MaxDepth /\ k + 1 - 1 = k
      BY <1>3
    <3> QED
      BY <2>2, <2>3, <3>1
  <2> QED
    BY <2>1, <2>3 DEF links
<1>11. \A i, j \in DOMAIN queue : i <= j =>
         /\ queue[i].depth <= queue[j].depth
         /\ queue[j].depth <= queue[i].depth + 1
  BY DEF DiscoveryInv, InOrder
<1>12. \A i \in DOMAIN queue : /\ queue[i].depth \in 0 .. MaxDepth
                              /\ next.depth <= queue[i].depth
                              /\ queue[i].depth <= next.depth + 1
  <2> SUFFICES ASSUME NEW i \in DOMAIN queue
               PROVE  /\ queue[i].depth \in 0 .. MaxDepth
                      /\ next.depth <= queue[i].depth
                      /\ queue[i].depth <= next.depth + 1
    OBVIOUS
  <2>1. queue[i] \in Entry /\ 1 <= i
    BY <1>1 DEF DiscoveryTypeOK
  <2>2. queue[1].depth <= queue[i].depth /\ queue[i].depth <= queue[1].depth + 1
    BY <1>2, <1>11, <2>1
  <2> QED
    BY <1>2, <2>1, <2>2 DEF Entry
<1>13. InOrder'
  <2> SUFFICES ASSUME NEW i \in DOMAIN queue', NEW j \in DOMAIN queue', i <= j
               PROVE  queue'[i].depth <= queue'[j].depth /\ queue'[j].depth <= queue'[i].depth + 1
    BY DEF InOrder
  <2>1. i \in Nat /\ j \in Nat /\ Len(queue) \in Nat /\ DOMAIN queue = 1 .. Len(queue)
    BY <1>1, <1>2 DEF DiscoveryTypeOK
  <2>2. CASE j + 1 \in DOMAIN queue /\ queue'[j] = queue[j + 1]
    <3>1. i + 1 \in DOMAIN queue /\ queue'[i] = queue[i + 1]
      <4>1. ~(i >= Len(queue))
        BY <2>1, <2>2
      <4> QED
        BY <1>2, <4>1
    <3> QED
      BY <1>11, <2>1, <2>2, <3>1
  <2>3. CASE \E n \in DOMAIN new : queue'[j] = new[n]
    <3>1. queue'[j].depth = next.depth + 1
      BY <2>3 DEF Turn
    <3>2. CASE i + 1 \in DOMAIN queue /\ queue'[i] = queue[i + 1]
      BY <1>3, <1>12, <3>1, <3>2
    <3>3. CASE \E n \in DOMAIN new : queue'[i] = new[n]
      <4>1. queue'[i].depth = next.depth + 1
        BY <3>3 DEF Turn
      <4> QED
        BY <1>3, <3>1, <4>1
    <3> QED
      BY <1>2, <3>2, <3>3
  <2> QED
    BY <1>2, <2>2, <2>3
<1>14. next.url \in Within'[next.depth]
  BY <1>2, <1>3, <1>9 DEF DiscoveryInv, QueuedInReach
<1>15. QueuedInReach'
  <2> SUFFICES ASSUME NEW i \in DOMAIN queue' PROVE queue'[i].url \in Within'[queue'[i].depth]
    BY DEF QueuedInReach
  <2>1. CASE i + 1 \in DOMAIN queue /\ queue'[i] = queue[i + 1]
    BY <1>9, <1>12, <2>1 DEF DiscoveryInv, QueuedInReach
  <2>2. CASE \E n \in DOMAIN new : queue'[i] = new[n]
    <3>1. /\ queue'[i].depth = next.depth + 1 /\ next.depth < MaxDepth
          /\ next.url \in DOMAIN Links' /\ queue'[i].url \in Links'[next.url]
      BY <2>2 DEF Turn
    <3>2. next.depth \in 0 .. MaxDepth - 1
      BY <1>3, <3>1
    <3>3. Links'[next.url] \subseteq Within'[next.depth + 1]
      BY <1>10, <1>14, <3>1, <3>2
    <3> QED
      BY <3>1, <3>3
  <2> QED
    BY <1>2, <2>1, <2>2
<1>16. PICK depths \in [visited -> 0 .. MaxDepth] : VisitedAt(depths)
  BY DEF DiscoveryInv
<1>17. \A v \in visited : depths[v] <= next.depth
  BY <1>2, <1>16 DEF VisitedAt
<1>18. PICK now \in [visited' -> 0 .. MaxDepth] :
         /\ \A v \in visited : now[v] = depths[v]
         /\ next.url \notin visited => now[next.url] = next.depth
  <2> DEFINE now == [v \in visited' |-> IF v \in visited THEN depths[v] ELSE next.depth]
  <2>1. /\ now \in [visited' -> 0 .. MaxDepth]
        /\ \A v \in visited : now[v] = depths[v]
        /\ next.url \notin visited => now[next.url] = next.depth
    BY <1>0, <1>3, <1>16
  <2> QED
    BY <2>1
<1>19. \A v \in visited' : now[v] \in Nat /\ now[v] <= next.depth
  <2>1. \A v \in visited' : v \in visited \/ v = next.url
    BY <1>0
  <2> QED
    BY <1>3, <1>17, <1>18, <2>1
<1>20. ASSUME NEW u, NEW k \in Nat, Due(u, k, depths) PROVE Due(u, k, now)'
  <2>1. CASE u \in visited /\ depths[u] <= k
    BY <1>0, <1>18, <2>1 DEF Due
  <2>2. ASSUME NEW i \in DOMAIN queue, queue[i].url = u, queue[i].depth <= k PROVE Due(u, k, now)'
    <3>1. CASE i = 1
      <4>1. u \in visited' /\ now[u] \in Nat /\ now[u] <= next.depth /\ next.depth <= k
        BY <1>0, <1>2, <1>19, <2>2, <3>1
      <4>2. now[u] <= k
        BY <1>3, <4>1
      <4> QED
        BY <4>1, <4>2 DEF Due
    <3>2. CASE i # 1
      BY <1>2, <2>2, <3>2 DEF Due
    <3> QED
      BY <3>1, <3>2
  <2> QED
    BY <1>20, <2>1, <2>2 DEF Due
<1>21. VisitedAt(now)'
  <2>1. ASSUME NEW v \in visited' PROVE v \in Within'[now[v]]
    <3>1. CASE v \in visited
      BY <1>9, <1>16, <1>18, <3>1 DEF VisitedAt
    <3>2. CASE v \notin visited
      BY <1>0, <1>14, <1>18, <3>2
    <3> QED
      BY <3>1, <3>2
  <2>2. ASSUME NEW v \in visited', NEW i \in DOMAIN queue' PROVE now[v] <= queue'[i].depth
    <3>1. CASE i + 1 \in DOMAIN queue /\ queue'[i] = queue[i + 1]
      BY <1>3, <1>12, <1>19, <3>1
    <3>2. CASE \E n \in DOMAIN new : queue'[i] = new[n]
      <4>1. queue'[i].depth = next.depth + 1
        BY <3>2 DEF Turn
      <4> QED
        BY <1>3, <1>19, <4>1
    <3> QED
      BY <1>2, <3>1, <3>2
  <2>3. \A u \in Members(request') : Due(u, 0, now)'
    BY <1>5, <1>16, <1>20 DEF VisitedAt
  <2>4. ASSUME NEW v \in DOMAIN Links', now[v] < MaxDepth, NEW u \in Links'[v]
        PROVE  Due(u, now[v] + 1, now)'
    <3>1. CASE v \in visited
      <4>1. v \in DOMAIN Links /\ now[v] = depths[v] /\ u \in Links[v] /\ now[v] + 1 \in Nat
        BY <1>6, <1>7, <1>8, <1>18, <1>19, <2>4, <3>1
      <4> QED
        BY <1>16, <1>20, <2>4, <4>1 DEF VisitedAt
    <3>2. CASE v \notin visited
      <4>1. v = next.url /\ now[v] = next.depth
        BY <1>0, <1>6, <1>18, <3>2
      <4>2. u \in visited' \/ \E n \in DOMAIN new : new[n].url = u
        BY <2>4, <3>2, <4>1 DEF Turn
      <4>3. CASE u \in visited'
        <5>1. now[u] <= now[v] + 1
          BY <1>3, <1>19, <4>1, <4>3
        <5> QED
          BY <4>3, <5>1 DEF Due
      <4>4. ASSUME NEW n \in DOMAIN new, new[n].url = u PROVE Due(u, now[v] + 1, now)'
        <5>1. PICK j \in DOMAIN queue' : queue'[j] = new[n]
          BY <1>2
        <5>2. queue'[j].url = u /\ queue'[j].depth <= now[v] + 1
          BY <1>3, <4>1, <4>4, <5>1 DEF Turn
        <5> QED
          BY <5>2 DEF Due
      <4> QED
        BY <4>2, <4>3, <4>4
    <3> QED
      BY <3>1, <3>2
  <2> QED
    BY <2>1, <2>2, <2>3, <2>4 DEF VisitedAt
<1> QED
  BY <1>4, <1>13, <1>15, <1>18, <1>21 DEF DiscoveryInv


LEMMA DiscoveryInvStep == DiscoveryInv /\ [DiscoveryNext]_discoveryVars => DiscoveryInv'
<1> SUFFICES ASSUME DiscoveryInv, [DiscoveryNext]_discoveryVars PROVE DiscoveryInv'
  OBVIOUS
<1> DEFINE next == Head(queue)
<1>1. DiscoveryTypeOK
  BY DEF DiscoveryInv
<1>2. queue # << >> => next \in Entry /\ next.url \in Urls /\ next.depth \in 0 .. MaxDepth
                       /\ Tail(queue) \in Seq(Entry) /\ << >> \in Seq(Entry)
                       /\ Tail(queue) \o << >> = Tail(queue)
  <2> SUFFICES ASSUME queue # << >>
               PROVE  /\ next \in Entry /\ Tail(queue) \in Seq(Entry) /\ << >> \in Seq(Entry)
                      /\ Tail(queue) \o << >> = Tail(queue)
    BY DEF Entry
  <2>1. queue \in Seq(Entry) /\ next \in Entry /\ Tail(queue) \in Seq(Entry)
    BY <1>1 DEF DiscoveryTypeOK
  <2> QED
    BY <2>1, ConcatEmptySeq, EmptySeq
<1> HIDE DEF next
<1>3. ASSUME NEW status \in Found, Working, next.url \notin visited, Record(next.url, status)
      PROVE  /\ visited' = visited \cup {next.url}
             /\ agents' \in [visited' -> Found]
             /\ \A u \in visited : agents'[u] = agents[u]
             /\ agents'[next.url] = status
  BY <1>1, <1>2, <1>3 DEF Record, DiscoveryTypeOK
<1>4. CASE Skip
  <2>1. Turn(next, << >>)
    BY <1>1, <1>2, <1>4 DEF Skip, Turn, Working, DiscoveryTypeOK, next
  <2> QED
    BY <1>2, <1>4, <2>1, TurnKeeps DEF Skip, Working
<1>5. CASE Refuse
  <2>1. PICK status \in {"unhealthy", "blocked"} :
          /\ Working /\ next.url \notin visited /\ Record(next.url, status)
          /\ status = "blocked" <=> next.url \notin Allowed
    BY <1>5 DEF Refuse, next
  <2>2. next.url \notin DOMAIN Links'
    BY <1>3, <2>1 DEF Links, Found
  <2>3. Turn(next, << >>)
    BY <1>2, <1>3, <1>5, <2>1, <2>2 DEF Refuse, Turn, Working, Found, next
  <2> QED
    BY <1>2, <2>1, <2>3, TurnKeeps DEF Working
<1>6. CASE Describe
  <2> DEFINE new == Peers(next.url, next.depth)
  <2>1. /\ Working /\ next.url \notin visited /\ next.url \in Allowed /\ Record(next.url, "described")
        /\ queue' = Tail(queue) \o new /\ UNCHANGED <<peers, request>>
    BY <1>6 DEF Describe, next
  <2>2. /\ next = Head(queue) /\ visited' = visited \cup {next.url}
        /\ agents' \in [visited' -> Found]
        /\ \A u \in visited : agents'[u] = agents[u]
        /\ agents'[next.url] = "described"
    BY <1>3, <2>1 DEF Found, next
  <2>3. next.url \in DOMAIN Links' /\ Links'[next.url] = Members(peers[next.url])
    BY <2>1, <2>2 DEF Links
  <2>4. queue # << >> /\ peers[next.url] \in Seq(Urls) /\ MaxDepth \in Nat
    BY <1>1, <1>2, <2>1, DiscoveryAssumption DEF Working, DiscoveryTypeOK
  <2>5. CASE next.depth >= MaxDepth
    <3>1. new = << >>
      BY <2>5 DEF Peers
    <3>2. Turn(next, << >>)
      BY <1>2, <2>1, <2>2, <2>4, <2>5, <3>1 DEF Turn
    <3> QED
      BY <1>2, <2>4, <3>2, TurnKeeps
  <2>6. CASE ~(next.depth >= MaxDepth)
    <3> DEFINE urls == Unseen(peers[next.url], visited \cup {next.url})
    <3>1. urls \in Seq(Urls) /\ Members(urls) = Links'[next.url] \ visited'
      BY <2>2, <2>3, <2>4, UnseenMembers
    <3>2. new = At(urls, next.depth + 1)
      BY <2>6 DEF Peers
    <3>3. next.depth + 1 \in 0 .. MaxDepth /\ next.depth < MaxDepth
      BY <1>2, <2>4, <2>6
    <3> HIDE DEF urls, new
    <3>4. /\ new \in Seq(Entry) /\ DOMAIN new = DOMAIN urls
          /\ \A n \in DOMAIN urls : new[n] = [url |-> urls[n], depth |-> next.depth + 1]
      BY <3>1, <3>2, <3>3, AtProperties, Zenon
    <3>5. \A n \in DOMAIN new : new[n].depth = next.depth + 1 /\ new[n].url \in Links'[next.url]
      BY <3>1, <3>4 DEF Members
    <3>6. \A u \in Links'[next.url] : u \in visited' \/ \E n \in DOMAIN new : new[n].url = u
      BY <3>1, <3>4 DEF Members
    <3>7. Turn(next, new)
      BY <2>1, <2>2, <2>3, <2>4, <3>3, <3>5, <3>6 DEF Turn
    <3> QED
      BY <3>4, <3>7, TurnKeeps
  <2> QED
    BY <2>5, <2>6
<1>7. CASE Abort \/ UNCHANGED discoveryVars
  <2>1. peers' = peers /\ request' = request /\ queue' = queue /\ visited' = visited /\ agents' = agents
    BY <1>7 DEF Abort, discoveryVars
  <2>2. Links' = Links
    BY <2>1 DEF Links
  <2>3. Within' = Within
    BY <2>1, <2>2 DEF Within
  <2>4. PICK depths \in [visited -> 0 .. MaxDepth] : VisitedAt(depths)
    BY DEF DiscoveryInv
  <2>5. VisitedAt(depths)'
    BY <2>1, <2>2, <2>3, <2>4 DEF VisitedAt, Due
  <2>6. DiscoveryTypeOK' /\ InOrder' /\ QueuedInReach'
    BY <1>1, <2>1, <2>3 DEF DiscoveryInv, DiscoveryTypeOK, InOrder, QueuedInReach
  <2> QED
    BY <2>1, <2>4, <2>5, <2>6 DEF DiscoveryInv
<1> QED
  BY <1>4, <1>5, <1>6, <1>7 DEF DiscoveryNext

\* A discovery that stopped before its last entry had visited as many agents as it may.
LEMMA DiscoveryInvFinds == DiscoveryInv => FindsAllWithin
<1> SUFFICES ASSUME DiscoveryInv, ~Working, ~aborted
             PROVE  /\ visited \subseteq Within[MaxDepth]
                    /\ Cardinality(visited) < MaxAgents => visited = Within[MaxDepth]
  BY DEF FindsAllWithin
<1>1. DiscoveryTypeOK /\ MaxDepth \in Nat
  BY DiscoveryAssumption DEF DiscoveryInv
<1>2. PICK depths \in [visited -> 0 .. MaxDepth] : VisitedAt(depths)
  BY DEF DiscoveryInv
<1>3. Members(request) \in SUBSET Urls /\ \A u \in DOMAIN Links : Links[u] \subseteq Urls /\ u \in visited
  BY <1>1, LinksTyped DEF Links
<1>4. visited \subseteq Within[MaxDepth]
  <2>1. \A j, k \in 0 .. MaxDepth : j <= k => Within[j] \subseteq Within[k]
    BY <1>3, ReachedGrows DEF Within
  <2> SUFFICES ASSUME NEW v \in visited PROVE v \in Within[MaxDepth]
    OBVIOUS
  <2>2. depths[v] \in 0 .. MaxDepth /\ depths[v] <= MaxDepth /\ MaxDepth \in 0 .. MaxDepth
    BY <1>1
  <2>3. v \in Within[depths[v]]
    BY <1>2 DEF VisitedAt
  <2> QED
    BY <2>1, <2>2, <2>3
<1>5. ASSUME Cardinality(visited) < MaxAgents PROVE Within[MaxDepth] \subseteq visited
  <2>1. queue = << >>
    BY <1>5 DEF Working
  <2>2. \A u, k : Due(u, k, depths) => u \in visited /\ depths[u] <= k
    BY <2>1 DEF Due
  <2> DEFINE V == [k \in 0 .. MaxDepth |-> {v \in visited : depths[v] <= k}]
  <2>3. /\ V \in [0 .. MaxDepth -> SUBSET Urls]
        /\ \A k \in 0 .. MaxDepth : V[k] = {v \in visited : depths[v] <= k}
    BY <1>1 DEF DiscoveryTypeOK
  <2> HIDE DEF V
  <2>4. 0 \in 0 .. MaxDepth /\ \A k \in 1 .. MaxDepth : k \in 0 .. MaxDepth /\ k - 1 \in 0 .. MaxDepth
    BY <1>1
  <2>5. Members(request) \subseteq V[0]
    BY <1>2, <2>2, <2>3, <2>4 DEF VisitedAt
  <2>6. \A k \in 1 .. MaxDepth : V[k - 1] \subseteq V[k]
    BY <1>2, <2>3, <2>4
  <2>7. ASSUME NEW k \in 1 .. MaxDepth, NEW u \in DOMAIN Links, u \in V[k - 1]
        PROVE  Links[u] \subseteq V[k]
    <3>1. depths[u] \in 0 .. MaxDepth /\ depths[u] <= k - 1 /\ depths[u] < MaxDepth
      BY <1>1, <1>3, <2>3, <2>4, <2>7
    <3>2. \A v \in Links[u] : v \in visited /\ depths[v] \in 0 .. MaxDepth /\ depths[v] <= depths[u] + 1
      BY <1>2, <2>2, <3>1 DEF VisitedAt
    <3>3. \A v \in Links[u] : v \in visited /\ depths[v] <= k
      BY <3>1, <3>2
    <3> QED
      BY <2>3, <2>4, <3>3
  <2>8. \A k \in 0 .. MaxDepth : Within[k] \subseteq V[k]
    BY <1>3, <2>3, <2>5, <2>6, <2>7, ReachedIsLeast DEF Within
  <2>9. MaxDepth \in 0 .. MaxDepth
    BY <1>1
  <2> QED
    BY <2>3, <2>8, <2>9
<1> QED
  BY <1>4, <1>5

LEMMA DiscoveryInvariant == DiscoverySpec => []DiscoveryInv
BY DiscoveryInvInit, DiscoveryInvStep, PTL DEF DiscoverySpec

(***************************************************************************)
(* A discovery that was not cut short found exactly the agents within the  *)
(* depth, for any graph of cards, any request and any bounds: its queue is *)
(* in the order of depths, so the first visit of an agent is by one of the *)
(* shortest ways to it, and skipping the others loses no agent.            *)
(***************************************************************************)
THEOREM FindsAll == DiscoverySpec => []FindsAllWithin
BY DiscoveryInvariant, DiscoveryInvFinds, PTL

\* A turn visits one agent more, of at most MaxAgents, or visits none and shortens the queue, or
\* ends the discovery with an error.
DiscoveryAdvances ==
  [][\/ /\ Cardinality(visited') = Cardinality(visited) + 1
        /\ Cardinality(visited') <= MaxAgents
     \/ visited' = visited /\ Len(queue') = Len(queue) - 1
     \/ ~aborted /\ aborted']_discoveryVars

(***************************************************************************)
(* However the cards refer to each other, a discovery does not go on for   *)
(* ever: what it queues again it does not visit again                      *)
(* (diagnostics/app.py:177-216).  Together with fairness this is           *)
(* DiscoveryEnds.                                                          *)
(***************************************************************************)
THEOREM Advances == DiscoverySpec => DiscoveryAdvances
<1> DEFINE Finite == IsFiniteSet(visited)
           A == \/ /\ Cardinality(visited') = Cardinality(visited) + 1
                   /\ Cardinality(visited') <= MaxAgents
                \/ visited' = visited /\ Len(queue') = Len(queue) - 1
                \/ ~aborted /\ aborted'
<1>1. DiscoveryInit => Finite
  BY FS_EmptySet DEF DiscoveryInit
<1>2. ASSUME DiscoveryTypeOK, Finite, DiscoveryNext PROVE Finite' /\ A
  <2>1. CASE Skip
    BY <1>2, <2>1 DEF Skip, Working, DiscoveryTypeOK
  <2>2. CASE Refuse \/ Describe
    <3>1. PICK url : /\ url \notin visited /\ visited' = visited \cup {url}
                     /\ Cardinality(visited) < MaxAgents
      BY <2>2 DEF Refuse, Describe, Record, Working
    <3>2. /\ IsFiniteSet(visited') /\ Cardinality(visited') = Cardinality(visited) + 1
          /\ Cardinality(visited) \in Nat
      BY <1>2, <3>1, FS_AddElement, FS_CardinalityType
    <3> QED
      BY <3>1, <3>2, DiscoveryAssumption
  <2>3. CASE Abort
    BY <1>2, <2>3 DEF Abort, Working
  <2> QED
    BY <1>2, <2>1, <2>2, <2>3 DEF DiscoveryNext
<1>3. DiscoveryInv /\ Finite /\ [DiscoveryNext]_discoveryVars => Finite' /\ [A]_discoveryVars
  BY <1>2 DEF DiscoveryInv, discoveryVars
<1> QED
  BY <1>1, <1>3, DiscoveryInvariant, PTL DEF DiscoverySpec, DiscoveryAdvances

=============================================================================
