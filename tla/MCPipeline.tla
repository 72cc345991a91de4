----------------------------- MODULE MCPipeline -----------------------------
(***************************************************************************)
(* The pipeline as it runs by default.  Its statements with fencing off,   *)
(* in three processes (LegacyProcessing), and the computations from a PDF  *)
(* to an answer, each over every small input and against what it should    *)
(* compute by definition: text is accepted (Parsing), cut into passages    *)
(* (Chunking), sampled and batched (GraphBatches), the answers about it    *)
(* merged (GraphMerge); concepts are read (GraphReads), passages fused and *)
(* ranked (Ranking), and sources chosen (Evidence).  Each behaviour is of  *)
(* one "part", and the variables of the others stay as they are at first.  *)
(***************************************************************************)
EXTENDS LegacyProcessing, TLC

CONSTANTS a, b, c

VARIABLES part,
          texts, attempted, failure,
          pages, chunks, rows, merged, edges, found,
          question, provider, at, dense, identified, candidates, groups, ranking, said

\* Three processes: two may go down one after the other.
ThreeWorkers == {a, b, c}
Symmetry == Permutations(ThreeWorkers)

\* Three pages, of which two may be recognised.
textVars == <<texts, attempted, failure>>
Accepting == INSTANCE Parsing WITH
  pages <- texts, PageCount <- 3, OcrPages <- 2, OcrEnabled <- TRUE, MixedEnabled <- TRUE,
  RetryEnabled <- TRUE

Cutting == INSTANCE MCChunking WITH
  ChunkSize <- 3, ChunkOverlap <- 1, MaxPages <- 2, MaxLines <- 3,
  Normal <- ("1" :> "#") @@ ("2" :> "#") @@ ("Trees" :> "trees") @@ ("text" :> "text")

Sampling == INSTANCE MCGraphBatches WITH
  MaxSamples <- 3, BatchSize <- 2, SectionNames <- {"first", "second", "third"}, MaxChunks <- 8

Merging == INSTANCE MCGraphMerge WITH
  graph <- merged,
  Normal <- ("Stack" :> "stack") @@ ("stack" :> "stack") @@ ("queue" :> "queue") @@ ("list" :> "list"),
  Types <- {"RELATED_TO", "PART_OF"}, Symmetric <- {"RELATED_TO"},
  MaxConcepts <- 2, MaxRelationships <- 2, MaxAnswers <- 3

\* Two of the four concepts have the same name.
Reading == INSTANCE MCGraphReads WITH
  Scope <- 1 .. 4, Name <- <<7, 8, 8, 9>>, NameLimit <- 1, MaxNodes <- 3, MaxEdges <- 2, EdgeCount <- 4

Choosing == INSTANCE MCEvidence WITH SourceLimit <- 2, MinScore <- 1, MaxFound <- 3

rankVars == <<question, provider, at, dense, identified, candidates, groups, ranking, said>>
\* A point with what is asked for at its end, one that mostly names another thing, two short ones.
Ordering == INSTANCE Ranking WITH
  Text <- <<<<{"pump"}>>, <<{"z"}, {"y"}, {"PX-1", "pump"}>>, <<{"PX-2"}, {"pump"}, {"seal"}>>, <<{"PX-1"}>>>>,
  Names <- {"PX-1", "PX-2"},
  Questions <- {<<{"pump", "seal"}>>, <<{"PX-1", "pump"}>>, <<{"PX-1"}, {"PX-2", "seal"}>>},
  Providers <- {"cohere", "local"}, Scores <- {0, 1},
  CandidateLimit <- 2, IdentifierLimit <- 2, ExcerptSize <- 2

ASSUME /\ Accepting!ParsingAssumption /\ Cutting!ChunkingAssumption /\ Sampling!BatchSizes
       /\ Merging!MergeAssumption /\ Reading!GraphReadsAssumption /\ Choosing!EvidenceAssumption /\ Ordering!RankingAssumption

Unused == <<>>

MCInit ==
  /\ part \in {"statements", "text", "pages", "chunks", "rows", "edges", "found", "ranking"}
  /\ Init /\ Accepting!Init /\ Cutting!Init /\ Sampling!Init
  /\ Merging!Init /\ Reading!Init /\ Choosing!Init
  /\ IF part = "ranking" THEN Ordering!Init
     ELSE /\ question = Unused /\ provider = Unused /\ at = Unused /\ dense = Unused /\ said = Unused
          /\ identified = Unused /\ candidates = Unused /\ groups = Unused /\ ranking = Unused

computed == <<textVars, pages, chunks, rows, merged, edges, found, rankVars>>
MCNext ==
  \/ part = "statements" /\ Next /\ UNCHANGED <<part, computed>>
  \/ /\ part = "text" /\ Accepting!Next
     /\ UNCHANGED <<part, vars, pages, chunks, rows, merged, edges, found, rankVars>>
  \/ /\ part = "pages" /\ Cutting!Next
     /\ UNCHANGED <<part, vars, textVars, chunks, rows, merged, edges, found, rankVars>>
  \/ /\ part = "chunks" /\ Sampling!Next
     /\ UNCHANGED <<part, vars, textVars, pages, rows, merged, edges, found, rankVars>>
  \/ /\ part = "rows" /\ Merging!Next
     /\ UNCHANGED <<part, vars, textVars, pages, chunks, edges, found, rankVars>>
  \/ /\ part = "edges" /\ Reading!Next
     /\ UNCHANGED <<part, vars, textVars, pages, chunks, rows, merged, found, rankVars>>
  \/ /\ part = "found" /\ Choosing!Next
     /\ UNCHANGED <<part, vars, textVars, pages, chunks, rows, merged, edges, rankVars>>
  \/ /\ part = "ranking" /\ Ordering!Next
     /\ UNCHANGED <<part, vars, textVars, pages, chunks, rows, merged, edges, found>>

MCSpec == MCInit /\ [][MCNext]_<<part, vars, computed>>

\* Parsing: readable text is not lost to recognition, nor replaced by what is worse.
AcceptedText == part = "text" => Accepting!AcceptedText

\* Chunking: what is visible of a page is in its chunks.
ChunksHoldThePage == part = "pages" => Cutting!ChunksHoldThePage

\* GraphBatches: what a build sends covers every section.
BatchesAreChosen == part = "chunks" => Sampling!BatchesAreChosen

\* GraphMerge: the graph is the union of the answers, which can be read again.
MergeIsFaithful == part = "rows" => Merging!MergeIsFaithful

\* GraphReads: what a search is extended by, and what is shown within the bounds.
GraphShown == part = "edges" => Reading!GraphShown

\* Evidence: a question is answered exactly when some choice of sources shows what it asks for.
CitesWhatIsAsked == part = "found" => Choosing!CitesWhatIsAsked

\* Ranking: nothing better is left out, and each candidate is ranked with its own best passage.
RankedAsScored == part = "ranking" => Ordering!RankedAsScored
=============================================================================
