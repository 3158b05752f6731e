------------------------------ MODULE KnowledgeBase ------------------------------
(***************************************************************************)
(* The stores of AQE's knowledge and the agents that write them: the       *)
(* knowledge ingestion agent (agents/knowledge_ingestion/app.py) and the   *)
(* artifact management agent (agents/artifact_management/app.py).          *)
(*                                                                         *)
(* An ingestion is one request. It writes up to three stores, one call     *)
(* after the other and under no lock: the points of one shared Qdrant      *)
(* collection, objects of one RustFS bucket (utils/object_store.py), and   *)
(* the table active_artifacts, whose row of an artifact type names the     *)
(* version in use. Requests run concurrently: the blocking clients are     *)
(* called in worker threads, and the two agents are two processes. Every   *)
(* identifier an ingestion makes up is fresh, so its version, its source   *)
(* object and its own collection are all named by the ingestion.           *)
(***************************************************************************)
EXTENDS Naturals

CONSTANTS Ingestions, \* the requests
          Kind,       \* what each of them asks for
          Size,       \* the number of records each of them stores
          Width       \* the width of the column artifact_type

Versioned == {"product", "ontology", "document", "artifact"}
Disposable == {"smoke", "candidate"}

ASSUME IngestionsAssumption ==
  /\ Kind \in [Ingestions -> Versioned \cup Disposable]
  /\ Size \in [Ingestions -> Nat \ {0}]
  /\ Width \in Nat

VARIABLES exists,      \* the shared collection was created
          points,      \* its points
          collections, \* the ingestions that have a collection of their own
          bucket,      \* the bucket was created
          sources,     \* the ingestions whose uploaded document is stored
          objects,     \* the ingestions whose version is stored
          active,      \* the ingestions whose version a row of active_artifacts names
          pc

vectors == <<exists, points, collections>>
store == <<bucket, sources, objects>>
vars == <<vectors, store, active, pc>>

Places == {"received", "check", "create", "delete", "upsert", "source", "upload", "register",
           "unregister", "remove", "make", "fill", "drop", "withdraw", "succeeded", "failed"}

Writing == {"check", "create", "delete", "upsert"}

Steps(i) == CASE Kind[i] \in {"product", "ontology"} -> Writing \cup {"upload", "register"}
              [] Kind[i] = "document"  -> Writing \cup {"source", "upload", "register"}
              [] Kind[i] = "artifact"  -> {"upload", "register"}
              [] Kind[i] = "smoke"     -> {"upload", "register", "unregister", "remove", "withdraw"}
              [] Kind[i] = "candidate" -> {"make", "fill", "drop", "withdraw"}

Init == /\ exists = FALSE
        /\ points = {}
        /\ collections = {}
        /\ bucket = FALSE
        /\ sources = {}
        /\ objects = {}
        /\ active = {}
        /\ pc = [i \in Ingestions |-> "received"]

Goto(i, here, there) == /\ pc[i] = here
                        /\ pc' = [pc EXCEPT ![i] = there]

-----------------------------------------------------------------------------
(***************************************************************************)
(* A point is identified by its source, its document when it has one, and  *)
(* its index, so two ingestions of one source write the same points. The   *)
(* records of a document are labelled with the source of the product.      *)
(***************************************************************************)
Source(i) == IF Kind[i] = "ontology" THEN "agent_ontology" ELSE "product_knowledge"

SamePoints(i, j) == \/ i = j
                    \/ (Kind[i] = Kind[j] /\ Kind[i] \in {"product", "ontology"})

Records(i) == [by : {i}, index : 1 .. Size[i]]

\* Mutant: the records of the source are not asked for.
BugSelectsAll(i) == points

\* The points an ingestion replaces.
Selected(i) == {p \in points : IF Kind[i] = "document" THEN p.by = i
                                                       ELSE Source(p.by) = Source(i)}

\* The artifact upload of the agent's own card names the type of the product knowledge.
Type(i) == CASE Kind[i] \in {"product", "artifact"} -> "RAG_KNOWLEDGE_BASE"
             [] Kind[i] = "ontology"                -> "AGENT_ONTOLOGY"
             [] Kind[i] = "document"                -> "REQUIREMENTS_DOCUMENT"
             [] OTHER                               -> "unique"

SameRow(i, j) == i = j \/ (Type(i) = Type(j) /\ Type(i) # "unique")

\* A smoke's type is aqe-candidate-smoke-artifact, a dash and 32 digits.
Fits(i) == Kind[i] = "smoke" => 61 <= Width

-----------------------------------------------------------------------------
Begin(i) == /\ Goto(i, "received", CASE Kind[i] \in {"product", "ontology", "document"} -> "check"
                                     [] Kind[i] \in {"artifact", "smoke"}               -> "upload"
                                     [] OTHER                                           -> "make")
            /\ UNCHANGED <<vectors, store, active>>

(***************************************************************************)
(* The shared collection: created when it was not there a call ago, then   *)
(* the records the ingestion replaces deleted and its own put, all of them *)
(* in one call.                                                            *)
(***************************************************************************)
Check(i) == /\ Goto(i, "check", IF exists THEN "delete" ELSE "create")
            /\ UNCHANGED <<vectors, store, active>>

Create(i) == /\ Goto(i, "create", "delete")
             /\ ~exists
             /\ exists' = TRUE
             /\ UNCHANGED <<points, collections, store, active>>

Delete(i) == /\ Goto(i, "delete", "upsert")
             /\ points' = points \ Selected(i)
             /\ UNCHANGED <<exists, collections, store, active>>

\* Mutant: the records are put one by one.
BugPutsOneByOne(i) ==
  /\ pc[i] = "upsert"
  /\ \E r \in Records(i) \ points :
       points' = {p \in points : ~(SamePoints(p.by, i) /\ p.index = r.index)} \cup {r}
  /\ pc' = [pc EXCEPT ![i] = IF Records(i) \subseteq points' THEN "upload" ELSE "upsert"]
  /\ UNCHANGED <<exists, collections, store, active>>

Upsert(i) == /\ Goto(i, "upsert", IF Kind[i] = "document" THEN "source" ELSE "upload")
             /\ points' = {p \in points : ~(SamePoints(p.by, i) /\ p.index <= Size[i])}
                            \cup Records(i)
             /\ UNCHANGED <<exists, collections, store, active>>

\* Mutant: a document that cannot be stored is skipped.
BugSkipsSource(i) == /\ Goto(i, "source", "upload")
                     /\ UNCHANGED <<vectors, store, active>>

\* The uploaded document is put without a look at the bucket.
StoreSource(i) == /\ Goto(i, "source", "upload")
                  /\ bucket
                  /\ sources' = sources \cup {i}
                  /\ UNCHANGED <<vectors, bucket, objects, active>>

(***************************************************************************)
(* A version: its object is put, then the row of its type names it.        *)
(* The artifact agent looked for the bucket when it started only; a smoke  *)
(* makes a client of its own.                                              *)
(***************************************************************************)
Upload(i) == /\ Goto(i, "upload", "register")
             /\ Kind[i] = "artifact" => bucket
             /\ bucket' = TRUE
             /\ objects' = objects \cup {i}
             /\ UNCHANGED <<vectors, sources, active>>

Register(i) == /\ Goto(i, "register", IF Kind[i] = "smoke" THEN "unregister" ELSE "succeeded")
               /\ Fits(i)
               /\ active' = {j \in active : ~SameRow(i, j)} \cup {i}
               /\ UNCHANGED <<vectors, store>>

\* Mutant: the object of a smoke is deleted, its row is not.
BugRemovesFirst(i) == /\ Goto(i, "unregister", "remove")
                      /\ objects' = objects \ {i}
                      /\ UNCHANGED <<vectors, bucket, sources, active>>

\* What a smoke does after its registration returned, before it answers.
Unregister(i) == /\ Goto(i, "unregister", "remove")
                 /\ active' = active \ {i}
                 /\ UNCHANGED <<vectors, store>>

Remove(i) == /\ Goto(i, "remove", "succeeded")
             /\ objects' = objects \ {i}
             /\ UNCHANGED <<vectors, bucket, sources, active>>

(***************************************************************************)
(* A candidate ingestion fills a collection of its own and drops it.       *)
(***************************************************************************)
Make(i) == /\ Goto(i, "make", "fill")
           /\ collections' = collections \cup {i}
           /\ UNCHANGED <<exists, points, store, active>>

Fill(i) == /\ Goto(i, "fill", "drop")
           /\ UNCHANGED <<vectors, store, active>>

Drop(i) == /\ Goto(i, "drop", "succeeded")
           /\ collections' = collections \ {i}
           /\ UNCHANGED <<exists, points, store, active>>

(***************************************************************************)
(* A call raises, whether it took effect or not, or the agent's process    *)
(* dies: the ingestion ends where it is, and nothing is undone. Only a     *)
(* disposable one has a finally clause, which drops the collection or the  *)
(* row; it knows the object only when the registration returned.           *)
(***************************************************************************)
Fails(i) == /\ pc[i] \in Steps(i) \cup {"received"}
            /\ pc' = [pc EXCEPT ![i] = "failed"]
            /\ UNCHANGED <<vectors, store, active>>

Disrupted(i) == /\ \/ (Kind[i] = "smoke" /\ pc[i] \in {"upload", "register", "unregister"})
                   \/ pc[i] \in {"make", "fill", "drop"}
                /\ pc' = [pc EXCEPT ![i] = "withdraw"]
                /\ UNCHANGED <<vectors, store, active>>

Withdraw(i) == /\ Goto(i, "withdraw", "failed")
               /\ active' = active \ {i}
               /\ collections' = collections \ {i}
               /\ UNCHANGED <<exists, points, store>>

-----------------------------------------------------------------------------
Proceed(i) == \/ Begin(i) \/ Check(i) \/ Create(i) \/ Delete(i) \/ Upsert(i)
              \/ StoreSource(i) \/ Upload(i) \/ Register(i)
              \/ Unregister(i) \/ Remove(i)
              \/ Make(i) \/ Fill(i) \/ Drop(i)

Ingest(i) == Proceed(i) \/ Fails(i) \/ Disrupted(i) \/ Withdraw(i)

Next == \E i \in Ingestions : Ingest(i)

Spec == Init /\ [][Next]_vars

-----------------------------------------------------------------------------
(* Properties *)

AtRest == \A i \in Ingestions : pc[i] \in {"received", "succeeded", "failed"}

\* The points, the collections, the objects and the rows belong to requests that may write
\* them, and every request is at a step of its own kind (knowledge_ingestion/app.py:191-375).
TypeOK ==
  /\ exists \in BOOLEAN
  /\ bucket \in BOOLEAN
  /\ \A p \in points : /\ Kind[p.by] \in {"product", "ontology", "document"}
                        /\ p \in [by : Ingestions, index : Nat]
  /\ collections \subseteq {i \in Ingestions : Kind[i] = "candidate"}
  /\ sources \subseteq {i \in Ingestions : Kind[i] = "document"}
  /\ objects \subseteq {i \in Ingestions : Kind[i] # "candidate"}
  /\ active \subseteq {i \in Ingestions : Kind[i] # "candidate"}
  /\ pc \in [Ingestions -> Places]
  /\ \A i \in Ingestions : pc[i] \in Steps(i) \cup {"received", "succeeded", "failed"}

(***************************************************************************)
(* Every row of active_artifacts names a version that is stored, and a     *)
(* type has one row, whatever fails and however the uploads of a type and  *)
(* the cleaning of a smoke interleave: the generation agent reads the row  *)
(* and then the object (knowledge_ingestion/app.py:142-173,                *)
(* artifact_management/app.py:91-140, 256-265).                            *)
(***************************************************************************)
ActiveResolves ==
  \A i \in active : i \in objects /\ \A j \in active : SameRow(i, j) => i = j

(***************************************************************************)
(* A search of the shared collection finds nothing of a source or the      *)
(* whole of one ingestion of it, never only a part: the records are put by *)
(* one call, and those of another ingestion are replaced or left as they   *)
(* are (knowledge_ingestion/app.py:198-221).                               *)
(***************************************************************************)
WholeVersions ==
  \A p \in points :
    \E i \in Ingestions : SamePoints(p.by, i) /\ Records(i) \subseteq points

(***************************************************************************)
(* What an answer of SUCCESS promises: the version is stored; a document   *)
(* itself is stored too, and its records are found unless the product was  *)
(* ingested; and of a disposable request nothing is left                   *)
(* (knowledge_ingestion/app.py:258-294, 336-353,                           *)
(* artifact_management/app.py:238-266).                                    *)
(***************************************************************************)
SuccessIsComplete ==
  \A i \in Ingestions :
    pc[i] = "succeeded" =>
      /\ Kind[i] \in Versioned => i \in objects
      /\ Kind[i] \in Disposable => i \notin objects \cup active \cup collections
      /\ Kind[i] = "document" =>
           /\ i \in sources
           /\ \/ Records(i) \subseteq points
              \/ \E j \in Ingestions : /\ Kind[j] = "product"
                                       /\ pc[j] \notin {"received", "check", "create", "delete"}

(***************************************************************************)
(* "ontology ingestion replaces only source=agent_ontology"                *)
(* (docs/architecture.md:390): what is found of the ontology changes only  *)
(* when an ontology ingestion deletes or puts it, and what is found of the *)
(* rest only when another one does.                                        *)
(***************************************************************************)
Ontology(v) == {p \in v : Source(p.by) = "agent_ontology"}

SourcesKeptApart ==
  [][\A i \in Ingestions : pc'[i] # pc[i] =>
       IF Kind[i] = "ontology" THEN points' \ Ontology(points') = points \ Ontology(points)
                               ELSE Ontology(points') = Ontology(points)]_vars

-----------------------------------------------------------------------------
(* What documents of the repository say, and the code does not do. *)

(***************************************************************************)
(* "Replace one evidence source" (knowledge_ingestion/app.py:192): when no *)
(* request is under way the collection holds one ingestion of a source.    *)
(* Two that overlap both delete, then both put: the longer one's last      *)
(* records stay.                                                           *)
(***************************************************************************)
OneVersionPerSource ==
  AtRest => \A p, q \in points : SamePoints(p.by, q.by) => p.by = q.by

(***************************************************************************)
(* "Replace one evidence source without deleting other RAG or ontology     *)
(* records" (knowledge_ingestion/app.py:192): the records of a document    *)
(* that was ingested stay.  They carry the label of the product, and go    *)
(* with the next product ingestion.                                        *)
(***************************************************************************)
DocumentsSurvive ==
  \A i \in Ingestions :
    pc[i] = "succeeded" /\ Kind[i] = "document" => Records(i) \subseteq points

(***************************************************************************)
(* "Register the new RAG knowledge version (for auditability by            *)
(* TestGenerationAgent)" (knowledge_ingestion/app.py:318): when no request *)
(* is under way, the version in use is the one the collection holds.       *)
(***************************************************************************)
VersionDescribesContents ==
  AtRest => \A i \in active : Kind[i] \in {"product", "ontology"} => Records(i) \subseteq points

=============================================================================
