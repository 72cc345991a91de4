----------------------------- MODULE MCGraphMerge -----------------------------
(***************************************************************************)
(* Every sequence of answers to the batches of a small document: each      *)
(* batch has one passage, an answer has up to two concepts under two names *)
(* that normalise alike and one that does not, cites the batch's passage   *)
(* or another, and reuses the identifiers of the other answers.  The last  *)
(* answer is that of the relationship pass, merged into the graph.         *)
(***************************************************************************)
EXTENDS GraphMerge, TLC

CONSTANTS MaxAnswers

VARIABLES rows,       \* the saved answers
          graph       \* their graph

Chunks(i) == {i}
Node(id, name, chunk) == [id |-> id, name |-> name, chunk |-> chunk, chunks |-> {}]
Answer(nodes, rels) == [shape |-> "graph", nodes |-> nodes, rels |-> rels]

Edge(id1, id2, type) == <<<<id1>>, <<id2>>, type>>
EdgeSets == { {}, {Edge("1", "2", "PART_OF")}, {Edge("2", "1", "RELATED_TO")},
              {Edge("1", "2", "RELATED_TO"), Edge("2", "1", "RELATED_TO")},
              {Edge("2", "1", "PART_OF"), Edge("1", "2", "RELATED_TO")},
              {Edge("1", "3", "PART_OF")}, {Edge("1", "2", "IS_A")} }
Answers(i) ==
  LET Cited == {i, i + 1}
      Named == {"Stack", "stack", "queue"}
  IN  {Answer(<<>>, {}), [Answer(<<>>, {}) EXCEPT !.shape = "malformed_json"]}
      \cup { Answer(<<Node(<<"1">>, n, c)>>, {}) : n \in Named \cup {"list"}, c \in Cited }
      \cup { Answer(<<Node(<<"1">>, m, c), Node(<<"2">>, n, i)>>, e) :
               m \in Named, n \in Named, c \in Cited, e \in EdgeSets }
      \cup { Answer(<<Node(<<"1">>, "list", i), Node(<<"2">>, n, c)>>, e) :
               n \in Named, c \in Cited, e \in EdgeSets }
      \cup { Answer(<<Node(<<"1">>, "queue", i), Node(<<"1">>, "list", i)>>, {}),
              Answer(<<Node(<<"1">>, "queue", i), Node(<<"2">>, "list", i), Node(<<"3">>, "stack", i)>>, {}) }

Init == rows = <<>> /\ graph = Merge(<<>>)

\* An answer that is refused leaves nothing; another is saved, and joins the graph.
Next ==
  LET i == Len(rows) + 1 IN
  /\ i <= MaxAnswers
  /\ \E answer \in Answers(i) :
       /\ Accepted(answer, Chunks(i))
       /\ rows' = Append(rows, Bound(Validated(answer), Chunks(i)))
       /\ graph' = IF i = MaxAnswers THEN Merge(<<graph, rows'[i]>>) ELSE Merge(rows')
Spec == Init /\ [][Next]_<<rows, graph>>

-----------------------------------------------------------------------------
\* A graph by names: what the reader of the graph sees.
BothWays(rels) == rels \cup { <<r[2], r[1], r[3]>> : r \in { q \in rels : q[3] \in Symmetric } }
NamedRels(g) == BothWays({ <<NameIn(g.nodes, r[1]), NameIn(g.nodes, r[2]), r[3]>> : r \in g.rels })
ChunksOf(g, name) == UNION { g.nodes[i].chunks : i \in { j \in DOMAIN g.nodes : g.nodes[j].name = name } }

(***************************************************************************)
(* What is written has exactly the concepts, their passages and the        *)
(* relationships of the saved answers.                                     *)
(***************************************************************************)
MergedIsUnion ==
  LET shown == Written(graph) IN
  /\ NamesOf(shown.nodes) = UNION { NamesOf(rows[i].nodes) : i \in DOMAIN rows }
  /\ \A name \in NamesOf(shown.nodes) :
       ChunksOf(shown, name) = UNION { ChunksOf(rows[i], name) : i \in DOMAIN rows }
  /\ NamedRels(shown) = UNION { NamedRels(rows[i]) : i \in DOMAIN rows }

(***************************************************************************)
(* A row that was written passes its own checks when the next build loads  *)
(* it and means the same, and the graph of such rows passes the check      *)
(* before publication.                                                     *)
(***************************************************************************)
SavedIsAccepted ==
  /\ \A i \in DOMAIN rows : /\ Reloadable(rows[i], Chunks(i))
                            /\ Reloaded(rows[i], Chunks(i)) = rows[i]
  /\ Publishable(graph, 1 .. MaxAnswers)

(***************************************************************************)
(* "Merge section graphs by normalized name with stable first-seen IDs":   *)
(* nothing that was paid for is lost or joined to something else, whatever *)
(* identifiers the answers shared, and whether they came together or the   *)
(* last one was merged into the graph of the others: saved rows can be     *)
(* read again and published, and the graph written is their union.         *)
(***************************************************************************)
MergeIsFaithful == SavedIsAccepted /\ MergedIsUnion
===============================================================================
