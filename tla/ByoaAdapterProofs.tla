------------------------- MODULE ByoaAdapterProofs -------------------------
(***************************************************************************)
(* Theorems about ByoaAdapter, for any number of adapters, any tasks and   *)
(* any bound on disruptions.                                               *)
(***************************************************************************)
EXTENDS ByoaAdapter, FiniteSetTheorems, TLAPS

\* A consumer that works on a message never works beyond the first uncommitted one.
HandInv ==
  \A a \in Adapters :
    /\ pc[a] \in {"handling", "sending", "committing"} =>
         message[a] \in 1..N /\ message[a] <= committed + 1
    /\ pc[a] = "committing" => answers[message[a]] > 0

\* The owner has read up to the committed offset, or is busy with the next message.
PositionInv ==
  owner # None =>
    \/ position[owner] = committed
    \/ /\ position[owner] = committed + 1
       /\ pc[owner] \in {"handling", "sending", "committing"}
       /\ message[owner] = position[owner]

\* Tasks get their first answers in order.
OrderInv == \A i, j \in 1..N : answers[j] > 0 /\ i <= j => answers[i] > 0

Inv == TypeOK /\ HandInv /\ PositionInv /\ OrderInv /\ NothingSkipped

-----------------------------------------------------------------------------
LEMMA InitInv == ASSUME ConstantsAssumption, Init PROVE Inv
  BY DEF ConstantsAssumption, Init, Inv, TypeOK, Places, Workflows, HandInv, PositionInv,
     OrderInv, NothingSkipped

\* What a step means for the queue: it stutters, or it publishes the answer in hand, or
\* it commits the offset of a message that its owner has answered.
Publishes(a) ==
  /\ pc[a] = "sending"
  /\ answers' = [answers EXCEPT ![message[a]] = @ + 1]
  /\ UNCHANGED committed

Commits(a) ==
  /\ pc[a] = "committing"
  /\ owner = a
  /\ committed' = position[a]
  /\ UNCHANGED answers

Effect == UNCHANGED <<answers, committed>> \/ \E a \in Adapters : Publishes(a) \/ Commits(a)

LEMMA StepEffect ==
  ASSUME TypeOK, ConstantsAssumption, [Next]_vars
  PROVE  Effect
<1> USE DEF TypeOK, Effect, Publishes, Commits
<1>1. CASE UNCHANGED vars
  BY <1>1 DEF vars
<1>2. ASSUME NEW a \in Adapters, Assign(a) \/ Consume(a) \/ Crash(a) \/ Restart(a)
      PROVE  Effect
  <2>1. CASE Send(a)
    BY <2>1 DEF Send, broker
  <2>2. CASE SendFails(a)
    <3>1. PICK published \in {0, 1} : answers' = [answers EXCEPT ![message[a]] = @ + published]
      BY <2>2 DEF SendFails
    <3>2. CASE published = 0
      <4>1. answers' = answers
        <5>1. message[a] \in 1..N => answers[message[a]] \in Nat
          OBVIOUS
        <5> QED BY <5>1, <3>1, <3>2
      <4> QED BY <4>1, <2>2 DEF SendFails
    <3>3. CASE published = 1
      BY <3>1, <3>3, <2>2 DEF SendFails
    <3> QED BY <3>2, <3>3
  <2>3. CASE Commit(a)
    BY <2>3 DEF Commit
  <2>4. CASE \/ Assign(a) \/ Fetch(a) \/ FetchPoison(a) \/ StartRun(a) \/ Handled(a)
             \/ CommitFails(a) \/ Crash(a) \/ Restart(a)
    BY <2>4 DEF Assign, Fetch, FetchPoison, StartRun, Handled, CommitFails, Crash, Restart,
       broker
  <2> QED BY <1>2, <2>1, <2>2, <2>3, <2>4 DEF Consume
<1>3. CASE Rebalance
  BY <1>3 DEF Rebalance
<1>4. ASSUME NEW i \in 1..N, WorkflowCloses(i)
      PROVE  Effect
  BY <1>4 DEF WorkflowCloses, broker
<1> QED BY <1>1, <1>2, <1>3, <1>4 DEF Next

-----------------------------------------------------------------------------
LEMMA TypeStep ==
  ASSUME TypeOK, HandInv, ConstantsAssumption, [Next]_vars
  PROVE  TypeOK'
<1> USE DEF TypeOK, Places, Workflows, Goto, Disrupt, Stop, broker, ConstantsAssumption
<1>1. CASE UNCHANGED vars
  BY <1>1 DEF vars
<1>2. ASSUME NEW a \in Adapters, Assign(a) \/ Consume(a) \/ Crash(a) \/ Restart(a)
      PROVE  TypeOK'
  <2>1. CASE Assign(a)
    BY <2>1 DEF Assign
  <2>2. CASE Fetch(a)
    BY <2>2 DEF Fetch
  <2>3. CASE FetchPoison(a)
    BY <2>3 DEF FetchPoison
  <2>4. CASE StartRun(a)
    <3>1. workflow' \in [1..N -> Workflows]
      <4>1. message[a] \in 1..N
        BY <2>4 DEF StartRun, HandInv
      <4>2. [open |-> TRUE, starts |-> workflow[message[a]].starts + 1] \in Workflows
        BY <4>1
      <4> QED BY <2>4, <4>2 DEF StartRun
    <3> QED BY <2>4, <3>1 DEF StartRun
  <2>5. CASE Handled(a)
    BY <2>5 DEF Handled
  <2>6. CASE Send(a)
    <3>1. answers' \in [1..N -> Nat]
      BY <2>6 DEF Send, HandInv
    <3> QED BY <2>6, <3>1 DEF Send
  <2>7. CASE SendFails(a)
    <3>1. answers' \in [1..N -> Nat]
      <4>1. PICK published \in {0, 1} :
              answers' = [answers EXCEPT ![message[a]] = @ + published]
        BY <2>7 DEF SendFails
      <4>2. answers[message[a]] + published \in Nat
        BY <2>7 DEF SendFails, HandInv
      <4> QED BY <4>1, <4>2
    <3> QED BY <2>7, <3>1, SMTT(30) DEF SendFails
  <2>8. CASE Commit(a)
    BY <2>8 DEF Commit
  <2>9. CASE CommitFails(a)
    BY <2>9, SMTT(30) DEF CommitFails
  <2>10. CASE Crash(a)
    BY <2>10 DEF Crash
  <2>11. CASE Restart(a)
    BY <2>11 DEF Restart
  <2> QED BY <1>2, <2>1, <2>2, <2>3, <2>4, <2>5, <2>6, <2>7, <2>8, <2>9, <2>10, <2>11
          DEF Consume
<1>3. CASE Rebalance
  BY <1>3 DEF Rebalance
<1>4. ASSUME NEW i \in 1..N, WorkflowCloses(i)
      PROVE  TypeOK'
  BY <1>4 DEF WorkflowCloses
<1> QED BY <1>1, <1>2, <1>3, <1>4 DEF Next

\* Answers are not taken back, and the committed offset moves by at most one, past a
\* task that is answered.
LEMMA Monotone ==
  ASSUME Inv, TypeOK', ConstantsAssumption, [Next]_vars
  PROVE  /\ \A i \in 1..N : answers[i] > 0 => answers'[i] > 0
         /\ committed' \in {committed, committed + 1}
         /\ committed' # committed => answers[committed + 1] > 0
<1>1. Effect
  BY StepEffect DEF Inv
<1>2. CASE UNCHANGED <<answers, committed>>
  BY <1>2 DEF Inv, TypeOK
<1>3. ASSUME NEW a \in Adapters, Publishes(a)
      PROVE  /\ \A i \in 1..N : answers[i] > 0 => answers'[i] > 0
             /\ committed' = committed
  BY <1>3 DEF Inv, TypeOK, Publishes
<1>4. ASSUME NEW a \in Adapters, Commits(a)
      PROVE  /\ answers' = answers
             /\ committed' \in {committed, committed + 1}
             /\ committed' # committed => answers[committed + 1] > 0
  BY <1>4 DEF Inv, TypeOK, Commits, HandInv, PositionInv, ConstantsAssumption
<1> QED BY <1>1, <1>2, <1>3, <1>4 DEF Effect

LEMMA OrderStep ==
  ASSUME Inv, TypeOK', ConstantsAssumption, [Next]_vars
  PROVE  OrderInv' /\ NothingSkipped'
<1>1. NothingSkipped'
  BY Monotone, SMTT(30) DEF Inv, TypeOK, NothingSkipped
<1>2. OrderInv'
  <2>1. Effect
    BY StepEffect DEF Inv
  <2>2. CASE answers' = answers
    BY <2>2 DEF Inv, OrderInv
  <2>3. ASSUME NEW a \in Adapters, Publishes(a)
        PROVE  OrderInv'
    <3>1. message[a] \in 1..N /\ message[a] <= committed + 1
      BY <2>3 DEF Inv, HandInv, Publishes
    <3>2. \A i \in 1..N : i < message[a] => answers[i] > 0
      BY <3>1 DEF Inv, TypeOK, NothingSkipped
    <3> QED BY <2>3, <3>1, <3>2 DEF Inv, TypeOK, OrderInv, Publishes
  <2> QED BY <2>1, <2>2, <2>3 DEF Effect, Commits
<1> QED BY <1>1, <1>2

LEMMA HandStep ==
  ASSUME Inv, TypeOK', ConstantsAssumption, [Next]_vars
  PROVE  HandInv' /\ PositionInv'
<1> USE DEF Inv, TypeOK, HandInv, PositionInv, Goto, Disrupt, Stop, broker,
        ConstantsAssumption
<1>1. CASE UNCHANGED vars
  BY <1>1 DEF vars
<1>2. ASSUME NEW a \in Adapters, Assign(a) \/ Consume(a) \/ Crash(a) \/ Restart(a)
      PROVE  HandInv' /\ PositionInv'
  <2>1. CASE Assign(a)
    BY <2>1 DEF Assign, Consuming
  <2>2. CASE Fetch(a)
    BY <2>2 DEF Fetch
  <2>3. CASE FetchPoison(a)
    BY <2>3 DEF FetchPoison
  <2>4. CASE StartRun(a)
    BY <2>4 DEF StartRun
  <2>5. CASE Handled(a)
    BY <2>5 DEF Handled
  <2>6. CASE Send(a)
    BY <2>6 DEF Send
  <2>7. CASE SendFails(a)
    <3>1. /\ UNCHANGED <<committed, position, message>>
          /\ pc' = [pc EXCEPT ![a] = "stopped"]
          /\ owner' = IF owner = a THEN None ELSE owner
      BY <2>7 DEF SendFails
    <3>2. \A i \in 1..N : answers[i] > 0 => answers'[i] > 0
      BY Monotone
    <3> QED BY <3>1, <3>2
  <2>8. CASE Commit(a)
    BY <2>8 DEF Commit
  <2>9. CASE CommitFails(a)
    BY <2>9 DEF CommitFails
  <2>10. CASE Crash(a)
    BY <2>10 DEF Crash
  <2>11. CASE Restart(a)
    BY <2>11 DEF Restart
  <2> QED BY <1>2, <2>1, <2>2, <2>3, <2>4, <2>5, <2>6, <2>7, <2>8, <2>9, <2>10, <2>11
          DEF Consume
<1>3. CASE Rebalance
  BY <1>3 DEF Rebalance
<1>4. ASSUME NEW i \in 1..N, WorkflowCloses(i)
      PROVE  HandInv' /\ PositionInv'
  BY <1>4 DEF WorkflowCloses
<1> QED BY <1>1, <1>2, <1>3, <1>4 DEF Next

LEMMA Invariance == ASSUME ConstantsAssumption PROVE Spec => []Inv
<1>1. Init => Inv
  BY InitInv
<1>2. Inv /\ [Next]_vars => Inv'
  BY TypeStep, HandStep, OrderStep DEF Inv
<1> QED BY <1>1, <1>2, PTL DEF Spec

-----------------------------------------------------------------------------
(***************************************************************************)
(* The committed offset never passes an unanswered task: delivery is at    *)
(* least once, for any number of adapters (byoa_adapter/app.py:134-135).   *)
(***************************************************************************)
THEOREM AtLeastOnce == Spec => []NothingSkipped
<1>1. Inv => NothingSkipped
  BY DEF Inv
<1> QED BY <1>1, Invariance, ConstantsAssumption, PTL

(***************************************************************************)
(* The adapters implement an ordered task queue with acknowledgements.     *)
(***************************************************************************)
THEOREM Refinement == Spec => RefinesTaskQueue
<1> DEFINE done == {i \in 1..N : answers[i] > 0}
<1>1. Init => Queue!Init
  BY ConstantsAssumption DEF Init, Queue!Init
<1>2. ASSUME Inv, TypeOK', [Next]_vars
      PROVE  [Queue!Next]_Queue!queueVars
  <2> USE ConstantsAssumption
  <2>1. Effect
    BY <1>2, StepEffect DEF Inv
  <2>2. CASE UNCHANGED <<answers, committed>>
    BY <2>2 DEF Queue!queueVars
  <2>3. ASSUME NEW a \in Adapters, Publishes(a)
        PROVE  [Queue!Next]_Queue!queueVars
    <3>0. PICK m \in 1..N : m = message[a]
      BY <2>3, <1>2 DEF Inv, HandInv, Publishes
    <3>1. m <= committed + 1 /\ committed' = committed
      BY <2>3, <1>2, <3>0 DEF Inv, HandInv, Publishes
    <3>2. done' = done \cup {m}
      BY <2>3, <1>2, <3>0, <3>1, SMTT(30) DEF Inv, TypeOK, Publishes
    <3>3. \A i \in 1..(m - 1) : i \in done
      BY <1>2, <3>1 DEF Inv, TypeOK, NothingSkipped, ConstantsAssumption
    <3>4. CASE m \in done
      BY <3>1, <3>2, <3>4 DEF Queue!queueVars
    <3>5. CASE m \notin done
      <4>1. Queue!Answer(m)
        BY <3>1, <3>2, <3>3, <3>5 DEF Queue!Answer
      <4>2. \E i \in 1..N : Queue!Answer(i)
        BY <4>1, <3>1
      <4> QED BY <4>2 DEF Queue!Next
    <3> QED BY <3>4, <3>5
  <2>4. ASSUME NEW a \in Adapters, Commits(a)
        PROVE  [Queue!Next]_Queue!queueVars
    <3>1. done' = done
      BY <2>4 DEF Commits
    <3>2. CASE committed' = committed
      BY <3>1, <3>2 DEF Queue!queueVars
    <3>3. CASE committed' # committed
      <4>1. committed' = committed + 1 /\ answers[committed + 1] > 0
        BY <1>2, <3>3, Monotone
      <4>2. committed + 1 \in 1..N
        BY <4>1, <1>2 DEF Inv, TypeOK, ConstantsAssumption
      <4>3. Queue!Acknowledge
        BY <3>1, <4>1, <4>2 DEF Queue!Acknowledge
      <4> QED BY <4>3 DEF Queue!Next
    <3> QED BY <3>2, <3>3
  <2> QED BY <2>1, <2>2, <2>3, <2>4 DEF Effect
<1>3. Inv => TypeOK
  BY DEF Inv
<1> QED BY <1>1, <1>2, <1>3, Invariance, ConstantsAssumption, PTL
        DEF Spec, RefinesTaskQueue, Queue!Spec

-----------------------------------------------------------------------------
(***************************************************************************)
(* DuplicatesBounded counts: an answer of task i, or an adapter that is    *)
(* still about to give one, is paid for by a disruption or by the one      *)
(* reading of i that the offset, or the position of the owner, records.    *)
(* An owner that goes away before it commits gives its reading back, and   *)
(* only a disruption makes it go away with a task.                         *)
(***************************************************************************)
InHand(i) == {a \in Adapters : pc[a] \in {"handling", "sending"} /\ message[a] = i}

Claimed(i) == i <= committed \/ (owner # None /\ i <= position[owner])

Paid(i) == answers[i] + Cardinality(InHand(i)) <= disruptions + IF Claimed(i) THEN 1 ELSE 0

Tally == \A i \in 1..N : Paid(i)

LEMMA HandCounts ==
  ASSUME ConstantsAssumption, NEW S \in SUBSET Adapters
  PROVE  /\ Cardinality(S) \in Nat
         /\ \A T \in SUBSET S : Cardinality(T) <= Cardinality(S)
         /\ \A a \in S : Cardinality(S \ {a}) = Cardinality(S) - 1
         /\ \A a \in Adapters \ S : Cardinality(S \cup {a}) = Cardinality(S) + 1
<1>1. IsFiniteSet(S)
  BY FS_Subset DEF ConstantsAssumption
<1>2. Cardinality(S) \in Nat
  BY <1>1, FS_CardinalityType
<1>3. ASSUME NEW T \in SUBSET S PROVE Cardinality(T) <= Cardinality(S)
  BY <1>1, <1>3, FS_Subset
<1>4. ASSUME NEW a \in S PROVE Cardinality(S \ {a}) = Cardinality(S) - 1
  BY <1>1, <1>4, FS_RemoveElement
<1>5. ASSUME NEW a \in Adapters \ S PROVE Cardinality(S \cup {a}) = Cardinality(S) + 1
  BY <1>1, <1>5, FS_AddElement
<1> QED BY <1>2, <1>3, <1>4, <1>5

LEMMA TallyStep ==
  ASSUME Inv, Inv', Tally, ConstantsAssumption, [Next]_vars
  PROVE  Tally'
<1> SUFFICES ASSUME NEW i \in 1..N PROVE Paid(i)'
  BY DEF Tally
<1> USE DEF Inv, TypeOK, Goto, Disrupt, Stop, broker, ConstantsAssumption
<1> DEFINE c == Cardinality(InHand(i))
<1>0. /\ Paid(i) /\ c \in Nat /\ c' \in Nat
      /\ answers[i] \in Nat /\ disruptions \in Nat /\ disruptions' \in Nat
  BY HandCounts DEF Tally, InHand
\* A step by which nobody takes up the task, and which pays for what it may give back.
<1>1. ASSUME InHand(i)' \subseteq InHand(i), answers'[i] = answers[i],
             \/ disruptions' = disruptions /\ (Claimed(i) => Claimed(i)')
             \/ disruptions' = disruptions + 1
      PROVE  Paid(i)'
  <2>1. c' <= c
    BY <1>1, HandCounts DEF InHand
  <2> HIDE DEF c
  <2>2. answers[i] + c <= disruptions + IF Claimed(i) THEN 1 ELSE 0
    BY <1>0 DEF Paid, c
  <2>3. answers'[i] + c' <= disruptions' + IF Claimed(i)' THEN 1 ELSE 0
    BY <1>0, <1>1, <2>1, <2>2
  <2> QED BY <2>3 DEF Paid, c
<1>2. CASE UNCHANGED vars
  BY <1>1, <1>2 DEF vars, InHand, Claimed
<1>3. ASSUME NEW a \in Adapters, Assign(a) \/ Consume(a) \/ Crash(a) \/ Restart(a)
      PROVE  Paid(i)'
  <2>1. CASE Assign(a)
    BY <1>1, <2>1 DEF Assign, InHand, Claimed
  <2>2. CASE Fetch(a)
    <3>1. CASE i # position[a] + 1
      <4>1. InHand(i)' \subseteq InHand(i)
        BY <2>2, <3>1 DEF Fetch, InHand
      <4>2. Claimed(i) => Claimed(i)'
        BY <2>2 DEF Fetch, Claimed
      <4> QED BY <1>1, <2>2, <4>1, <4>2 DEF Fetch
    <3>2. CASE i = position[a] + 1
      <4>1. position[a] = committed
        BY <2>2 DEF Fetch, PositionInv
      <4>2. ~Claimed(i) /\ Claimed(i)'
        BY <2>2, <3>2, <4>1 DEF Fetch, Claimed
      <4>3. InHand(i)' = InHand(i) \cup {a} /\ a \notin InHand(i)
        BY <2>2, <3>2 DEF Fetch, InHand
      <4>4. c' = c + 1
        BY <4>3, HandCounts DEF InHand
      <4> HIDE DEF c
      <4>5. answers[i] + c <= disruptions
        BY <1>0, <4>2 DEF Paid, c
      <4>6. answers'[i] + c' <= disruptions' + 1
        BY <1>0, <2>2, <4>4, <4>5 DEF Fetch
      <4> QED BY <4>2, <4>6 DEF Paid, c
    <3> QED BY <3>1, <3>2
  <2>3. CASE FetchPoison(a)
    <3>1. position[a] = committed /\ owner = a
      BY <2>3 DEF FetchPoison, PositionInv
    <3>2. Claimed(i) => Claimed(i)'
      BY <2>3, <3>1 DEF FetchPoison, Claimed
    <3>3. InHand(i)' \subseteq InHand(i)
      BY <2>3 DEF FetchPoison, InHand
    <3> QED BY <1>1, <2>3, <3>2, <3>3 DEF FetchPoison
  <2>4. CASE StartRun(a) \/ Handled(a)
    BY <1>1, <2>4 DEF StartRun, Handled, InHand, Claimed
  <2>5. ASSUME pc[a] = "sending", pc'[a] \notin {"handling", "sending"}, message' = message,
               \A b \in Adapters \ {a} : pc'[b] = pc[b]
        PROVE  IF i = message[a] THEN c' = c - 1 ELSE c' = c
    <3>1. CASE i = message[a]
      <4>1. InHand(i)' = InHand(i) \ {a} /\ a \in InHand(i)
        BY <2>5, <3>1 DEF InHand
      <4> QED BY <3>1, <4>1, HandCounts DEF InHand
    <3>2. CASE i # message[a]
      <4>1. InHand(i)' = InHand(i)
        BY <2>5, <3>2 DEF InHand
      <4> QED BY <3>2, <4>1
    <3> QED BY <3>1, <3>2
  <2>6. CASE Send(a)
    <3>1. IF i = message[a] THEN c' = c - 1 /\ answers'[i] = answers[i] + 1
                            ELSE c' = c /\ answers'[i] = answers[i]
      BY <2>5, <2>6 DEF Send
    <3>2. Claimed(i)' <=> Claimed(i)
      BY <2>6 DEF Send, Claimed
    <3> HIDE DEF c
    <3>3. answers[i] + c <= disruptions + IF Claimed(i) THEN 1 ELSE 0
      BY <1>0 DEF Paid, c
    <3>4. answers'[i] + c' <= disruptions' + IF Claimed(i)' THEN 1 ELSE 0
      BY <1>0, <2>6, <3>1, <3>2, <3>3 DEF Send
    <3> QED BY <3>4 DEF Paid, c
  <2>7. CASE SendFails(a)
    <3>1. PICK published \in {0, 1} :
            answers' = [answers EXCEPT ![message[a]] = @ + published]
      BY <2>7 DEF SendFails
    <3>2. IF i = message[a] THEN c' = c - 1 ELSE c' = c
      BY <2>5, <2>7 DEF SendFails
    <3> HIDE DEF c
    <3>3. answers'[i] + c' <= answers[i] + c
      <4>1. answers'[i] = IF i = message[a] THEN answers[i] + published ELSE answers[i]
        BY <3>1
      <4>2. c \in Nat /\ c' \in Nat
        BY <1>0 DEF c
      <4> QED BY <1>0, <3>2, <4>1, <4>2, SMTT(30)
    <3>4. answers[i] + c <= disruptions + 1
      BY <1>0, SMTT(30) DEF Paid, c
    <3>5. answers'[i] \in Nat /\ disruptions' = disruptions + 1
      BY <2>7 DEF SendFails
    <3>6. c \in Nat /\ c' \in Nat
      BY <1>0 DEF c
    <3> HIDE DEF Inv, TypeOK
    <3>7. answers'[i] + c' <= disruptions'
      BY <1>0, <3>3, <3>4, <3>5, <3>6
    <3>8. answers'[i] + c' <= disruptions' + IF Claimed(i)' THEN 1 ELSE 0
      BY <1>0, <3>5, <3>6, <3>7
    <3> QED BY <3>8 DEF Paid, c
  <2>8. CASE Commit(a)
    BY <1>1, <2>8 DEF Commit, InHand, Claimed, PositionInv
  <2>9. CASE CommitFails(a)
    <3>1. InHand(i)' \subseteq InHand(i)
      BY <2>9 DEF CommitFails, InHand
    <3> QED BY <1>1, <2>9, <3>1 DEF CommitFails, Claimed
  <2>10. CASE Crash(a)
    <3>1. InHand(i)' \subseteq InHand(i)
      BY <2>10 DEF Crash, InHand
    <3> QED BY <1>1, <2>10, <3>1 DEF Crash
  <2>11. CASE Restart(a)
    BY <1>1, <2>11 DEF Restart, InHand, Claimed
  <2> QED BY <1>3, <2>1, <2>2, <2>3, <2>4, <2>6, <2>7, <2>8, <2>9, <2>10, <2>11 DEF Consume
<1>4. CASE Rebalance
  BY <1>1, <1>4 DEF Rebalance, InHand
<1>5. ASSUME NEW j \in 1..N, WorkflowCloses(j)
      PROVE  Paid(i)'
  BY <1>1, <1>5 DEF WorkflowCloses, InHand, Claimed
<1> QED BY <1>2, <1>3, <1>4, <1>5 DEF Next

(***************************************************************************)
(* A task is answered at most once more for each crash, rebalance or       *)
(* broker error, for any number of adapters (byoa_adapter/app.py:115-127). *)
(***************************************************************************)
THEOREM Duplicates == Spec => []DuplicatesBounded
<1> USE ConstantsAssumption
<1>1. Init => Tally
  <2>1. SUFFICES ASSUME Init, NEW i \in 1..N PROVE Paid(i)
    BY DEF Tally
  <2>2. InHand(i) = {}
    BY <2>1 DEF Init, InHand
  <2> QED BY <2>1, <2>2, FS_EmptySet DEF Init, Paid, Claimed
<1>2. Inv /\ Inv' /\ Tally /\ [Next]_vars => Tally'
  BY TallyStep
<1>3. Inv /\ Tally => DuplicatesBounded
  <2>1. SUFFICES ASSUME Inv, Tally, NEW i \in 1..N PROVE answers[i] <= 1 + disruptions
    BY DEF DuplicatesBounded
  <2>2. Cardinality(InHand(i)) \in Nat
    BY HandCounts DEF InHand
  <2> QED BY <2>1, <2>2 DEF Tally, Paid, Inv, TypeOK, ConstantsAssumption
<1> QED BY <1>1, <1>2, <1>3, Invariance, PTL DEF Spec

=============================================================================
