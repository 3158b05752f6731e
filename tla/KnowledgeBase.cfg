\* Two ingestions of the ontology, one of the product and a document, a smoke of the artifact
\* agent and a candidate ingestion, all at once.
SPECIFICATION Spec
CONSTANTS
  o1 = o1
  o2 = o2
  d = d
  p = p
  s = s
  t = t
  Ingestions = {o1, o2, d, p, s, t}
  Kind <- KindOf
  Size <- SizeOf
  Width = 255
INVARIANTS
  ActiveResolves
  WholeVersions
  SuccessIsComplete
PROPERTY SourcesKeptApart
CHECK_DEADLOCK FALSE
