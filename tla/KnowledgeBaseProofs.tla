------------------------- MODULE KnowledgeBaseProofs --------------------------
(***************************************************************************)
(* The safety properties of KnowledgeBase, for any number of requests of   *)
(* any kinds and any numbers of records.                                   *)
(*                                                                         *)
(* Rows and answers rest on Kept, which says of every request what is      *)
(* stored of it at each of its steps; WholeVersions and SourcesKeptApart   *)
(* need no more than the types.                                            *)
(***************************************************************************)
EXTENDS KnowledgeBase, TLAPS

\* A product ingestion has deleted the records of the product.
Replaced == \E j \in Ingestions : /\ Kind[j] = "product"
                                  /\ pc[j] \notin {"received", "check", "create", "delete"}

KeptOf(i) ==
  /\ pc[i] \in {"register", "unregister"} => i \in objects
  /\ pc[i] = "remove" => i \notin active
  /\ i \in active => i \in objects
  /\ pc[i] = "succeeded" /\ Kind[i] \in Versioned => i \in objects
  /\ pc[i] = "succeeded" /\ Kind[i] \in Disposable => i \notin objects \cup active \cup collections
  /\ Kind[i] = "document" /\ pc[i] \in {"upload", "register", "succeeded"} => i \in sources

FoundOf(i) ==
  Kind[i] = "document" /\ pc[i] \in {"source", "upload", "register", "succeeded"} =>
    Records(i) \subseteq points \/ Replaced

Kept == \A i \in Ingestions : KeptOf(i)

Found == \A i \in Ingestions : FoundOf(i)

OneRow == \A i, j \in active : SameRow(i, j) => i = j

IInv == TypeOK /\ Kept /\ Found /\ OneRow

-----------------------------------------------------------------------------
(* Types *)

LEMMA InitTypes == Init => TypeOK
BY IngestionsAssumption DEF Init, TypeOK, Places, Versioned, Disposable

LEMMA NextTypes == TypeOK /\ [Next]_vars => TypeOK'
<1> SUFFICES ASSUME TypeOK, [Next]_vars
             PROVE  TypeOK'
  OBVIOUS
<1> USE IngestionsAssumption
<1>1. CASE UNCHANGED vars
  BY <1>1 DEF TypeOK, Places, vars, vectors, store, Steps
<1>2. ASSUME NEW i \in Ingestions, Ingest(i)
      PROVE  TypeOK'
  <2>1. CASE Begin(i)
    BY <2>1 DEF TypeOK, Places, Begin, Goto, Steps, Writing, vectors, store, Versioned, Disposable
  <2>2. CASE Check(i)
    BY <2>2 DEF TypeOK, Places, Check, Goto, Steps, Writing, vectors, store, Versioned, Disposable
  <2>3. CASE Create(i)
    BY <2>3 DEF TypeOK, Places, Create, Goto, Steps, Writing, vectors, store, Versioned, Disposable
  <2>4. CASE Delete(i)
    BY <2>4 DEF TypeOK, Places, Delete, Goto, Steps, Writing, vectors, store, Versioned, Disposable
  <2>5. CASE Upsert(i)
    BY <2>5 DEF TypeOK, Places, Upsert, Goto, Steps, Writing, vectors, store, Versioned, Disposable, Records
  <2>6. CASE StoreSource(i)
    BY <2>6 DEF TypeOK, Places, StoreSource, Goto, Steps, Writing, vectors, store, Versioned, Disposable
  <2>7. CASE Upload(i)
    BY <2>7 DEF TypeOK, Places, Upload, Goto, Steps, Writing, vectors, store, Versioned, Disposable
  <2>8. CASE Register(i)
    BY <2>8 DEF TypeOK, Places, Register, Goto, Steps, Writing, vectors, store, Versioned, Disposable
  <2>9. CASE Unregister(i)
    BY <2>9 DEF TypeOK, Places, Unregister, Goto, Steps, Writing, vectors, store, Versioned, Disposable
  <2>10. CASE Remove(i)
    BY <2>10 DEF TypeOK, Places, Remove, Goto, Steps, Writing, vectors, store, Versioned, Disposable
  <2>11. CASE Make(i)
    BY <2>11 DEF TypeOK, Places, Make, Goto, Steps, Writing, vectors, store, Versioned, Disposable
  <2>12. CASE Fill(i)
    BY <2>12 DEF TypeOK, Places, Fill, Goto, Steps, Writing, vectors, store, Versioned, Disposable
  <2>13. CASE Drop(i)
    BY <2>13 DEF TypeOK, Places, Drop, Goto, Steps, Writing, vectors, store, Versioned, Disposable
  <2>14. CASE Fails(i)
    BY <2>14 DEF TypeOK, Places, Fails, Steps, Writing, vectors, store, Versioned, Disposable
  <2>15. CASE Disrupted(i)
    BY <2>15 DEF TypeOK, Places, Disrupted, Steps, Writing, vectors, store, Versioned, Disposable
  <2>16. CASE Withdraw(i)
    BY <2>16 DEF TypeOK, Places, Withdraw, Goto, Steps, Writing, vectors, store, Versioned, Disposable
  <2> QED
    BY <1>2, <2>1, <2>2, <2>3, <2>4, <2>5, <2>6, <2>7, <2>8, <2>9, <2>10, <2>11, <2>12, <2>13,
       <2>14, <2>15, <2>16 DEF Ingest, Proceed
<1> QED
  BY <1>1, <1>2 DEF Next

\* The stores and the requests keep their types (knowledge_ingestion/app.py:191-375).
THEOREM TypeCorrect == Spec => []TypeOK
<1>1. Init => TypeOK
  BY InitTypes
<1>2. TypeOK /\ [Next]_vars => TypeOK'
  BY NextTypes
<1> QED
  BY <1>1, <1>2, PTL DEF Spec

-----------------------------------------------------------------------------
(* What is stored of a request *)

LEMMA NextKept == TypeOK /\ Kept /\ [Next]_vars => Kept'
<1> SUFFICES ASSUME TypeOK, Kept, [Next]_vars, NEW q \in Ingestions
             PROVE  KeptOf(q)'
  BY DEF Kept
<1> USE IngestionsAssumption DEF Versioned, Disposable
<1>0. KeptOf(q)
  BY DEF Kept
<1>1. CASE UNCHANGED vars
  BY <1>0, <1>1 DEF KeptOf, vars, vectors, store
<1>2. ASSUME NEW i \in Ingestions, Ingest(i)
      PROVE  KeptOf(q)'
  <2>1. CASE Begin(i)
    BY <1>0, <2>1 DEF Begin, Goto, KeptOf, TypeOK, Steps, Writing, Places, vectors, store
  <2>2. CASE Check(i)
    BY <1>0, <2>2 DEF Check, Goto, KeptOf, TypeOK, Steps, Writing, Places, vectors, store
  <2>3. CASE Create(i)
    BY <1>0, <2>3 DEF Create, Goto, KeptOf, TypeOK, Steps, Writing, Places, vectors, store
  <2>4. CASE Delete(i)
    BY <1>0, <2>4 DEF Delete, Goto, KeptOf, TypeOK, Steps, Writing, Places, vectors, store
  <2>5. CASE Upsert(i)
    BY <1>0, <2>5 DEF Upsert, Goto, KeptOf, TypeOK, Steps, Writing, Places, vectors, store
  <2>6. CASE StoreSource(i)
    BY <1>0, <2>6 DEF StoreSource, Goto, KeptOf, TypeOK, Steps, Writing, Places, vectors, store
  <2>7. CASE Upload(i)
    BY <1>0, <2>7 DEF Upload, Goto, KeptOf, TypeOK, Steps, Writing, Places, vectors, store
  <2>8. CASE Register(i)
    BY <1>0, <2>8 DEF Register, Goto, KeptOf, TypeOK, Steps, Writing, Places, vectors, store
  <2>9. CASE Unregister(i)
    BY <1>0, <2>9 DEF Unregister, Goto, KeptOf, TypeOK, Steps, Writing, Places, vectors, store
  <2>10. CASE Remove(i)
    BY <1>0, <2>10 DEF Remove, Goto, KeptOf, TypeOK, Steps, Writing, Places, vectors, store
  <2>11. CASE Make(i)
    BY <1>0, <2>11 DEF Make, Goto, KeptOf, TypeOK, Steps, Writing, Places, vectors, store
  <2>12. CASE Fill(i)
    BY <1>0, <2>12 DEF Fill, Goto, KeptOf, TypeOK, Steps, Writing, Places, vectors, store
  <2>13. CASE Drop(i)
    BY <1>0, <2>13 DEF Drop, Goto, KeptOf, TypeOK, Steps, Writing, Places, vectors, store
  <2>14. CASE Fails(i)
    BY <1>0, <2>14 DEF Fails, KeptOf, TypeOK, Steps, Writing, Places, vectors, store
  <2>15. CASE Disrupted(i)
    BY <1>0, <2>15 DEF Disrupted, KeptOf, TypeOK, Steps, Writing, Places, vectors, store
  <2>16. CASE Withdraw(i)
    BY <1>0, <2>16 DEF Withdraw, Goto, KeptOf, TypeOK, Steps, Writing, Places, vectors, store
  <2> QED
    BY <1>2, <2>1, <2>2, <2>3, <2>4, <2>5, <2>6, <2>7, <2>8, <2>9, <2>10, <2>11, <2>12, <2>13, <2>14, <2>15, <2>16
       DEF Ingest, Proceed
<1> QED
  BY <1>1, <1>2 DEF Next

LEMMA NextOneRow == TypeOK /\ OneRow /\ [Next]_vars => OneRow'
<1> SUFFICES ASSUME TypeOK, OneRow, [Next]_vars
             PROVE  OneRow'
  OBVIOUS
<1>1. CASE UNCHANGED active
  BY <1>1 DEF OneRow, SameRow, Type
<1>2. ASSUME NEW i \in Ingestions, Register(i)
      PROVE  OneRow'
  <2> SUFFICES ASSUME NEW j \in active', NEW k \in active', SameRow(j, k)
               PROVE  j = k
    BY DEF OneRow, SameRow, Type
  <2>1. active' = {m \in active : ~SameRow(i, m)} \cup {i}
    BY <1>2 DEF Register
  <2>2. CASE j = i \/ k = i
    BY <2>1, <2>2 DEF SameRow
  <2>3. CASE j # i /\ k # i
    BY <2>1, <2>3 DEF OneRow
  <2> QED
    BY <2>2, <2>3
<1>3. ASSUME NEW i \in Ingestions, active' = active \ {i}
      PROVE  OneRow'
  BY <1>3 DEF OneRow, SameRow, Type
<1> QED
  BY <1>1, <1>2, <1>3
     DEF Next, Ingest, Proceed, vars, vectors, store, Begin, Check, Create, Delete, Upsert, StoreSource,
         Upload, Unregister, Remove, Make, Fill, Drop, Fails, Disrupted, Withdraw

-----------------------------------------------------------------------------
(* What is found in the collection *)

\* Once a product ingestion has deleted, it stays so.
LEMMA NextReplaced == TypeOK /\ Replaced /\ [Next]_vars => Replaced'
<1> SUFFICES ASSUME TypeOK, [Next]_vars, NEW j \in Ingestions, Kind[j] = "product",
                    pc[j] \notin {"received", "check", "create", "delete"}
             PROVE  pc'[j] \notin {"received", "check", "create", "delete"}
  BY DEF Replaced
<1>1. CASE UNCHANGED vars
  BY <1>1 DEF vars
<1>2. ASSUME NEW i \in Ingestions, Ingest(i)
      PROVE  pc'[j] \notin {"received", "check", "create", "delete"}
  <2>1. CASE Begin(i)
    BY <2>1 DEF Begin, Goto, TypeOK, Steps, Writing, Places
  <2>2. CASE Check(i)
    BY <2>2 DEF Check, Goto, TypeOK, Steps, Writing, Places
  <2>3. CASE Create(i)
    BY <2>3 DEF Create, Goto, TypeOK, Steps, Writing, Places
  <2>4. CASE Delete(i)
    BY <2>4 DEF Delete, Goto, TypeOK, Steps, Writing, Places
  <2>5. CASE Upsert(i)
    BY <2>5 DEF Upsert, Goto, TypeOK, Steps, Writing, Places
  <2>6. CASE StoreSource(i)
    BY <2>6 DEF StoreSource, Goto, TypeOK, Steps, Writing, Places
  <2>7. CASE Upload(i)
    BY <2>7 DEF Upload, Goto, TypeOK, Steps, Writing, Places
  <2>8. CASE Register(i)
    BY <2>8 DEF Register, Goto, TypeOK, Steps, Writing, Places
  <2>9. CASE Unregister(i)
    BY <2>9 DEF Unregister, Goto, TypeOK, Steps, Writing, Places
  <2>10. CASE Remove(i)
    BY <2>10 DEF Remove, Goto, TypeOK, Steps, Writing, Places
  <2>11. CASE Make(i)
    BY <2>11 DEF Make, Goto, TypeOK, Steps, Writing, Places
  <2>12. CASE Fill(i)
    BY <2>12 DEF Fill, Goto, TypeOK, Steps, Writing, Places
  <2>13. CASE Drop(i)
    BY <2>13 DEF Drop, Goto, TypeOK, Steps, Writing, Places
  <2>14. CASE Fails(i)
    BY <2>14 DEF Fails, TypeOK, Steps, Writing, Places
  <2>15. CASE Disrupted(i)
    BY <2>15 DEF Disrupted, TypeOK, Steps, Writing, Places
  <2>16. CASE Withdraw(i)
    BY <2>16 DEF Withdraw, Goto, TypeOK, Steps, Writing, Places
  <2> QED
    BY <1>2, <2>1, <2>2, <2>3, <2>4, <2>5, <2>6, <2>7, <2>8, <2>9, <2>10, <2>11, <2>12, <2>13, <2>14, <2>15, <2>16
       DEF Ingest, Proceed
<1> QED
  BY <1>1, <1>2 DEF Next

\* What a step does to the points.
LEMMA PointsStep ==
  ASSUME TypeOK, [Next]_vars, points' # points
  PROVE  \E i \in Ingestions : Delete(i) \/ Upsert(i)
BY DEF Next, Ingest, Proceed, vars, vectors, store, Begin, Check, Create, StoreSource,
       Upload, Register, Unregister, Remove, Make, Fill, Drop, Fails, Disrupted, Withdraw

\* The request that deletes or puts.
LEMMA PointsOf ==
  ASSUME TypeOK, NEW i \in Ingestions, Delete(i) \/ Upsert(i)
  PROVE  /\ Kind[i] \in {"product", "ontology", "document"}
         /\ pc'[i] \notin {"received", "check", "create", "delete"}
         /\ \A q \in Ingestions : q # i => pc'[q] = pc[q]
         /\ Delete(i) => pc[i] = "delete" /\ pc'[i] = "upsert"
BY IngestionsAssumption
   DEF TypeOK, Delete, Upsert, Goto, Steps, Writing, Places, Versioned, Disposable

LEMMA NextFound == TypeOK /\ Found /\ [Next]_vars => Found'
<1> SUFFICES ASSUME TypeOK, Found, [Next]_vars, NEW q \in Ingestions, Kind[q] = "document",
                    pc'[q] \in {"source", "upload", "register", "succeeded"}
             PROVE  Records(q) \subseteq points' \/ Replaced'
  BY DEF Found, FoundOf, Records, Replaced
<1> USE IngestionsAssumption
<1>1. ASSUME Replaced
      PROVE  Replaced'
  BY <1>1, NextReplaced
<1>2. CASE \E i \in Ingestions : Delete(i) \/ Upsert(i)
  <2> PICK i \in Ingestions : Delete(i) \/ Upsert(i)
    BY <1>2
  <2>1. CASE Kind[i] = "product"
    BY <2>1, PointsOf DEF Replaced
  <2>2. CASE q = i
    <3>1. Upsert(i)
      BY <2>2, PointsOf
    <3> QED
      BY <2>2, <3>1 DEF Upsert
  <2>3. CASE q # i /\ Kind[i] # "product"
    <3>1. Records(q) \subseteq points \/ Replaced
      BY <2>3, PointsOf DEF Found, FoundOf
    <3>2. \A p \in Records(q) : p.by = q
      BY DEF Records
    <3>3. \A p \in Records(q) : p \in points => p \in points'
      <4> SUFFICES ASSUME NEW p \in Records(q), p \in points
                   PROVE  p \in points'
        OBVIOUS
      <4>1. CASE Delete(i)
        BY <2>3, <3>2, <4>1, PointsOf DEF Delete, Selected, Source
      <4>2. CASE Upsert(i)
        BY <2>3, <3>2, <4>2 DEF Upsert, SamePoints
      <4> QED
        BY <4>1, <4>2
    <3> QED
      BY <1>1, <3>1, <3>3
  <2> QED
    BY <2>1, <2>2, <2>3
<1>3. CASE ~\E i \in Ingestions : Delete(i) \/ Upsert(i)
  <2>1. points' = points
    BY <1>3, PointsStep
  <2>2. pc[q] \in {"source", "upload", "register", "succeeded"}
    <3>1. CASE UNCHANGED vars
      BY <3>1 DEF vars
    <3>2. ASSUME NEW i \in Ingestions, Ingest(i)
          PROVE  pc[q] \in {"source", "upload", "register", "succeeded"}
      BY <1>3, <3>2 DEF Ingest, Proceed, TypeOK, Steps, Writing, Places, Goto, Begin, Check, Create, StoreSource,
         Upload, Register, Unregister, Remove, Make, Fill, Drop, Fails, Disrupted, Withdraw
    <3> QED
      BY <3>1, <3>2 DEF Next
  <2> QED
    BY <1>1, <2>1, <2>2 DEF Found, FoundOf
<1> QED
  BY <1>2, <1>3

-----------------------------------------------------------------------------
LEMMA Inductive == Spec => []IInv
<1>1. Init => IInv
  BY InitTypes, IngestionsAssumption
     DEF Init, IInv, Kept, KeptOf, Found, FoundOf, OneRow, Versioned, Disposable
<1>2. IInv /\ [Next]_vars => IInv'
  BY NextTypes, NextKept, NextFound, NextOneRow DEF IInv
<1> QED
  BY <1>1, <1>2, PTL DEF Spec

\* A row names a stored version, and a type has one row
\* (knowledge_ingestion/app.py:142-173, artifact_management/app.py:91-140).
THEOREM RowsName == Spec => []ActiveResolves
<1>1. IInv => ActiveResolves
  BY DEF IInv, TypeOK, Kept, KeptOf, OneRow, ActiveResolves
<1> QED
  BY <1>1, Inductive, PTL

\* What an answer of SUCCESS promises (knowledge_ingestion/app.py:258-294, 336-353).
THEOREM Promised == Spec => []SuccessIsComplete
<1>1. IInv => SuccessIsComplete
  BY DEF IInv, Kept, KeptOf, Found, FoundOf, Replaced, SuccessIsComplete
<1> QED
  BY <1>1, Inductive, PTL

-----------------------------------------------------------------------------
LEMMA NextWhole == TypeOK /\ WholeVersions /\ [Next]_vars => WholeVersions'
<1> SUFFICES ASSUME TypeOK, WholeVersions, [Next]_vars, NEW p \in points'
             PROVE  \E j \in Ingestions : SamePoints(p.by, j) /\ Records(j) \subseteq points'
  BY DEF WholeVersions, SamePoints, Records
<1> USE IngestionsAssumption
<1>1. CASE points' = points
  BY <1>1 DEF WholeVersions
<1>2. ASSUME NEW i \in Ingestions, Delete(i)
      PROVE  \E j \in Ingestions : SamePoints(p.by, j) /\ Records(j) \subseteq points'
  <2>1. points' = points \ Selected(i)
    BY <1>2 DEF Delete
  <2>2. PICK j \in Ingestions : SamePoints(p.by, j) /\ Records(j) \subseteq points
    BY <2>1 DEF WholeVersions
  <2>3. p.by \in Ingestions /\ Kind[i] \in {"product", "ontology", "document"}
    BY <1>2, <2>1, PointsOf DEF TypeOK
  <2>4. \A r \in Records(j) : r.by = j
    BY DEF Records
  <2>5. Records(j) \cap Selected(i) = {}
    BY <2>1, <2>2, <2>3, <2>4 DEF Selected, Source, SamePoints
  <2> QED
    BY <2>1, <2>2, <2>5
<1>3. ASSUME NEW i \in Ingestions, Upsert(i)
      PROVE  \E j \in Ingestions : SamePoints(p.by, j) /\ Records(j) \subseteq points'
  <2>1. points' = {r \in points : ~(SamePoints(r.by, i) /\ r.index <= Size[i])} \cup Records(i)
    BY <1>3 DEF Upsert
  <2>2. CASE SamePoints(p.by, i)
    BY <2>1, <2>2
  <2>3. CASE ~SamePoints(p.by, i)
    <3>1. p \in points
      BY <2>1, <2>3 DEF Records, SamePoints
    <3>2. PICK j \in Ingestions : SamePoints(p.by, j) /\ Records(j) \subseteq points
      BY <3>1 DEF WholeVersions
    <3>3. \A r \in Records(j) : r.by = j
      BY DEF Records
    <3>4. ~SamePoints(j, i)
      BY <2>3, <3>2 DEF SamePoints
    <3> QED
      BY <2>1, <3>2, <3>3, <3>4
  <2> QED
    BY <2>2, <2>3
<1> QED
  BY <1>1, <1>2, <1>3, PointsStep

\* A search finds nothing of a source or the whole of one ingestion of it
\* (knowledge_ingestion/app.py:198-221).
THEOREM Whole == Spec => []WholeVersions
<1>1. Init => WholeVersions
  BY DEF Init, WholeVersions
<1>2. TypeOK /\ WholeVersions /\ [Next]_vars => WholeVersions'
  BY NextWhole
<1> QED
  BY <1>1, <1>2, TypeCorrect, PTL DEF Spec

\* An ontology's ingestion and any other change only points of their own source
\* (knowledge_ingestion/app.py:198-221, 231-256).
THEOREM KeptApart == Spec => SourcesKeptApart
<1>1. TypeOK /\ [Next]_vars =>
        [\A i \in Ingestions : pc'[i] # pc[i] =>
           IF Kind[i] = "ontology" THEN points' \ Ontology(points') = points \ Ontology(points)
                                   ELSE Ontology(points') = Ontology(points)]_vars
  <2> SUFFICES ASSUME TypeOK, [Next]_vars, NEW i \in Ingestions, pc'[i] # pc[i]
               PROVE  IF Kind[i] = "ontology"
                        THEN points' \ Ontology(points') = points \ Ontology(points)
                        ELSE Ontology(points') = Ontology(points)
    OBVIOUS
  <2>1. CASE points' = points
    BY <2>1 DEF Ontology
  <2>2. CASE points' # points
    <3>1. Delete(i) \/ Upsert(i)
      BY <2>2, PointsStep, PointsOf
    <3>2. Kind[i] \in {"product", "ontology", "document"}
      BY <3>1, PointsOf
    <3>3. \A r \in Records(i) : r.by = i
      BY DEF Records
    <3>4. CASE Delete(i)
      BY <3>2, <3>4 DEF Delete, Selected, Source, Ontology, TypeOK
    <3>5. CASE Upsert(i)
      BY <3>2, <3>3, <3>5 DEF Upsert, SamePoints, Source, Ontology, TypeOK
    <3> QED
      BY <3>1, <3>4, <3>5
  <2> QED
    BY <2>1, <2>2
<1> QED
  BY <1>1, TypeCorrect, PTL DEF Spec, SourcesKeptApart
===============================================================================
