------------------------ MODULE MCExplanationPipeline ------------------------
(* Instances of ExplanationPipeline for TLC.                               *)
EXTENDS ExplanationPipeline, TLC

\* Ids that the sanitiser keeps apart: a file is named after its request.
OwnFile == [r \in Requests |-> r]

\* One request has a file of its own; the ids of the others differ only in characters
\* that the sanitiser drops.
Lone == CHOOSE r \in Requests : TRUE
LoneFile == CHOOSE f \in FileIds : TRUE
SharedFile == [r \in Requests |-> IF r = Lone THEN LoneFile
                                  ELSE CHOOSE f \in FileIds \ {LoneFile} : TRUE]

\* Requests are interchangeable where each has its own file, and those of one file.
ProcessSymmetry == Permutations(Scorings) \cup Permutations(Workers)
SafetySymmetry == ProcessSymmetry \cup Permutations(Requests) \cup Permutations(Payloads)
SharedSymmetry == ProcessSymmetry \cup Permutations(Requests \ {Lone})
=============================================================================
