----------------------------- MODULE MCKnowledgeBase -----------------------------
(* Requests of KnowledgeBase for model checking. *)
EXTENDS KnowledgeBase, TLC

CONSTANTS o1, o2, d, p, s, t

MCKind == (o1 :> "ontology") @@ (o2 :> "ontology") @@ (d :> "document")
            @@ (p :> "product") @@ (s :> "smoke") @@ (t :> "candidate")

KindOf == [i \in Ingestions |-> MCKind[i]]

\* Of two ingestions of one source, the first has more records.
SizeOf == [i \in Ingestions |-> IF i \in {o1, d} THEN 2 ELSE 1]

=============================================================================
