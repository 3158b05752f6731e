------------------------ MODULE MCReviewedGeneration ------------------------
(* Two reviews of one task, the first of high impact, after its generation. *)
EXTENDS ReviewedGeneration

CONSTANTS r1, r2

MCTask == [r \in Callers |-> "suite"]

SelfHosted ==
  [generatorProvider |-> "SELF_HOSTED", generatorEndpoint |-> "local", generatorModel |-> "qwen",
   geminiModel |-> "flash", provider |-> None, endpoint |-> None, model |-> None,
   requireIndependent |-> TRUE]

\* The model of the generator, which the Oracle names explicitly.
SameGemini ==
  [SelfHosted EXCEPT !.generatorProvider = "GEMINI", !.generatorEndpoint = None,
                     !.generatorModel = None, !.model = "flash"]

MCEnvironments ==
  {SelfHosted, SameGemini, [SelfHosted EXCEPT !.endpoint = "other"],
   [SelfHosted EXCEPT !.provider = "GEMINI"], [SelfHosted EXCEPT !.requireIndependent = FALSE]}

Approval ==
  [decision |-> "APPROVED", typed |-> TRUE, summary |-> TRUE, issues |-> FALSE, gaps |-> FALSE,
   citations |-> TRUE]

\* Approvals, each with one thing wrong, and a rejection.
MCTexts ==
  {Approval, [Approval EXCEPT !.gaps = TRUE], [Approval EXCEPT !.citations = FALSE],
   [Approval EXCEPT !.decision = "REJECTED", !.issues = TRUE]}

=============================================================================
