------------------------------ MODULE GraphMerge ------------------------------
(***************************************************************************)
(* What becomes of one answer of a provider: the checks that refuse it,    *)
(* the normalisation of GraphExtractionResponse, the binding to the        *)
(* batch's passages, the row that is saved, the merge of several answers   *)
(* into one graph and the check before its publication                     *)
(* (IngestionService._parse_provider_graph .. _merge_graph_extractions,    *)
(* prepare_graph_publication).  An answer's identifiers mean something in  *)
(* that answer only: they are tuples here, longer by one suffix each time. *)
(* A relationship is <<source, target, type>>.                             *)
(***************************************************************************)
EXTENDS Integers, Sequences, FiniteSets, SequencesExt

CONSTANTS Normal,           \* normalize_concept_name of each name
          Types,            \* ALLOWED_RELATIONSHIP_TYPES
          Symmetric,        \* those without a direction: RELATED_TO
          MaxConcepts, MaxRelationships   \* limits of one answer, 8 and 10

MergeAssumption ==
  /\ Symmetric \subseteq Types
  /\ \A name \in DOMAIN Normal : Normal[name] \in DOMAIN Normal /\ Normal[Normal[name]] = Normal[name]
  /\ MaxConcepts \in Nat /\ MaxRelationships \in Nat

-----------------------------------------------------------------------------
\* One answer.

IdsOf(nodes) == { nodes[i].id : i \in DOMAIN nodes }
NamesOf(nodes) == { nodes[i].name : i \in DOMAIN nodes }
Between(rels, ids) == { r \in rels : r[1] \in ids /\ r[2] \in ids }
\* relationship_key: one without a direction is the same from either end, and is kept once.
SameKey(q, r) == q = r \/ (r[3] \in Symmetric /\ q = <<r[2], r[1], r[3]>>)
OnceEach(rels) == { r \in rels : r[1] # r[2] /\ r = CHOOSE q \in rels : SameKey(q, r) }

\* _parse_provider_graph: why an answer is refused, looked at in this order.
Refusal(answer) ==
  CASE answer.shape # "graph"                                -> answer.shape
    [] \/ Len(answer.nodes) > MaxConcepts
       \/ Cardinality(answer.rels) > MaxRelationships         -> "batch_limit"
    [] \E r \in answer.rels : r[3] \notin Types               -> "unsupported_relationship"
    [] Cardinality(IdsOf(answer.nodes)) < Len(answer.nodes)   -> "duplicate_ids"
    [] Between(answer.rels, IdsOf(answer.nodes)) # answer.rels -> "invalid_endpoints"
    [] OTHER                                                  -> "none"

\* validate_graph_integrity: a name keeps its first concept, which takes over the ends of
\* the others' relationships.
Validated(answer) ==
  LET nodes == answer.nodes
      FirstOf(id) == LET i == CHOOSE k \in DOMAIN nodes : nodes[k].id = id
                     IN  CHOOSE j \in 1 .. i : /\ Normal[nodes[j].name] = Normal[nodes[i].name]
                                               /\ \A k \in 1 .. j - 1 : Normal[nodes[k].name] # Normal[nodes[j].name]
      kept == SelectSeq(nodes, LAMBDA n : nodes[FirstOf(n.id)].id = n.id)
  IN  [answer EXCEPT !.nodes = [ i \in DOMAIN kept |-> [kept[i] EXCEPT !.name = Normal[@]] ],
                     !.rels = OnceEach({ <<nodes[FirstOf(r[1])].id, nodes[FirstOf(r[2])].id, r[3]>> :
                                         r \in answer.rels })]

\* _attach_provenance: concepts that cite none of the batch's passages are dropped.
Bound(answer, chunks) ==
  LET cited == SelectSeq(answer.nodes, LAMBDA n : n.chunk \in chunks)
  IN  [answer EXCEPT !.nodes = [ i \in DOMAIN cited |-> [cited[i] EXCEPT !.chunks = {cited[i].chunk}] ],
                     !.rels = Between(answer.rels, IdsOf(cited))]

\* A graph without concepts is an answer; one whose concepts all cite nothing is refused.
Accepted(answer, chunks) ==
  /\ Refusal(answer) = "none"
  /\ answer.nodes # <<>> => Bound(Validated(answer), chunks).nodes # <<>>

\* _validated_checkpoint: a saved row is read as strictly as an answer is.
Reloadable(row, chunks) ==
  /\ Refusal(row) = "none"
  /\ \A i \in DOMAIN row.nodes : row.nodes[i].chunk \in chunks
Reloaded(row, chunks) == Bound(Validated(row), chunks)

-----------------------------------------------------------------------------
\* _merge_graph_extractions.

\* The identifier of a concept whose own one is taken: its name's digest, then ":1" added.
Fresh(id, name, used) ==
  LET Longer(n) == Append(id, name) \o [ i \in 1 .. n |-> ":1" ]
  IN  IF id \notin used THEN id
      ELSE Longer(CHOOSE n \in 0 .. Cardinality(used) :
                    Longer(n) \notin used /\ \A m \in 0 .. n - 1 : Longer(m) \in used)

(* A variant with a plausible bug: identifiers of different answers are     *)
(* taken to be different.                                                   *)
AdmitAsIs(nodes, node) ==
  IF node.name \in NamesOf(nodes)
  THEN [ i \in DOMAIN nodes |-> IF nodes[i].name = node.name
                                THEN [nodes[i] EXCEPT !.chunks = @ \cup node.chunks] ELSE nodes[i] ]
  ELSE Append(nodes, node)

\* A name that was seen gains the passages; a new one gets an identifier of its own.
Admit(nodes, node) ==
  IF node.name \in NamesOf(nodes)
  THEN [ i \in DOMAIN nodes |-> IF nodes[i].name = node.name
                                THEN [nodes[i] EXCEPT !.chunks = @ \cup node.chunks] ELSE nodes[i] ]
  ELSE Append(nodes, [node EXCEPT !.id = Fresh(node.id, node.name, IdsOf(nodes))])

NameIn(nodes, id) == nodes[CHOOSE i \in DOMAIN nodes : nodes[i].id = id].name
IdIn(nodes, name) == nodes[CHOOSE i \in DOMAIN nodes : nodes[i].name = name].id

Merge(parts) ==
  LET nodes == FoldLeft(Admit, <<>>, FlattenSeq([ i \in DOMAIN parts |-> parts[i].nodes ]))
      End(part, id) == IdIn(nodes, NameIn(part.nodes, id))
  IN  [shape |-> "graph", nodes |-> nodes,
       rels  |-> OnceEach(UNION { { <<End(parts[i], r[1]), End(parts[i], r[2]), r[3]>> :
                                      r \in Between(parts[i].rels, IdsOf(parts[i].nodes)) } :
                                  i \in DOMAIN parts })]

\* _write_graph_extraction: what Neo4j keeps.  A concept is found by its identifier, so of two
\* with one identifier the later is kept, and a relationship needs both of its ends.
Written(graph) ==
  LET ids == IdsOf(graph.nodes)
      LastOf(id) == CHOOSE i \in DOMAIN graph.nodes :
                     /\ graph.nodes[i].id = id
                     /\ \A j \in DOMAIN graph.nodes : j > i => graph.nodes[j].id # id
  IN  [graph EXCEPT !.nodes = [ id \in ids |-> graph.nodes[LastOf(id)] ], !.rels = Between(@, ids)]

\* prepare_graph_publication: the graph is normal already and every passage is the document's.
Publishable(graph, chunks) ==
  /\ Cardinality(IdsOf(graph.nodes)) = Len(graph.nodes)
  /\ Between(graph.rels, IdsOf(graph.nodes)) = graph.rels
  /\ Validated(graph) = graph
  /\ \A i \in DOMAIN graph.nodes : /\ graph.nodes[i].chunk \in graph.nodes[i].chunks
                                   /\ graph.nodes[i].chunks \subseteq chunks
===============================================================================
