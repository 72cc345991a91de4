---------------------------- MODULE MCGraphBatches ----------------------------
(***************************************************************************)
(* Every document of up to MaxChunks passages in the given sections, built *)
(* one passage at a time, and every limit on the batches of a build.       *)
(***************************************************************************)
EXTENDS GraphBatches

CONSTANTS SectionNames, MaxChunks

VARIABLE chunks

Init == chunks = <<>>
Next == /\ Len(chunks) < MaxChunks
        /\ \E s \in SectionNames : chunks' = Append(chunks, s)
Spec == Init /\ [][Next]_chunks

Members(batch) == { batch.chunks[j] : j \in DOMAIN batch.chunks }

(***************************************************************************)
(* What a build sends: the batches of the document hold the sample of each *)
(* section, in batches of their own section and no passage twice, and      *)
(* under a limit every section it can reach is sent something.  Both,      *)
(* because the second is of no use for batches that leave a part of a      *)
(* section out (_graph_section_batches, _select_graph_batches).            *)
(***************************************************************************)
BatchesAreChosen ==
  LET batches == SectionBatches(chunks)
      section == [ n \in DOMAIN batches |-> batches[n].section ]
      sent    == UNION { Members(batches[n]) : n \in DOMAIN batches }
  IN  /\ \A s \in SectionsOf(chunks) :
           CoversSection(chunks, s) /\ sent \cap ChunksOf(chunks, s) = Sampled(chunks, s)
      /\ \A n \in DOMAIN batches :
           /\ Len(batches[n].chunks) \in 1 .. BatchSize
           /\ \A i \in Members(batches[n]) : chunks[i] = batches[n].section
           /\ \A m \in DOMAIN batches \ {n} : Members(batches[m]) \cap Members(batches[n]) = {}
      /\ \A missing \in SUBSET DOMAIN batches : \A limit \in 1 .. 4 :
           SpreadsBudget(missing, section, limit)

=============================================================================
