------------------------------ MODULE GraphReads ------------------------------
(***************************************************************************)
(* What a question reads of the concept graph: the concepts it names with  *)
(* what leads to them, the prerequisites that extend its search, and the   *)
(* part of the graph that is shown (RetrievalService._fallback_cypher,     *)
(* _fetch_course_graph, _build_graph_result, bound_graph_context).  An     *)
(* edge is <<source, target, type>>.                                       *)
(***************************************************************************)
EXTENDS Integers, Sequences, FiniteSets

CONSTANTS Scope,          \* the concepts of the course's READY documents
          Name,           \* their names, numbered in alphabetical order
          NameLimit,      \* names of one distance that extend the search, 6
          MaxNodes, MaxEdges       \* graph_display_max_nodes, graph_display_max_edges

GraphReadsAssumption ==
  /\ IsFiniteSet(Scope) /\ Name \in [Scope -> Nat]
  /\ NameLimit \in Nat /\ MaxNodes \in Nat /\ MaxEdges \in Nat

Prerequisite == "PREREQUISITE_OF"
Ends(e) == {e[1], e[2]}
Least(m, n) == IF m < n THEN m ELSE n

-----------------------------------------------------------------------------
\* The reads.

Adjacent(edges, c) == { e \in edges : c \in Ends(e) /\ Ends(e) \subseteq Scope }

\* The prerequisite paths of length 1 .. hops that end in c, as sequences of edges.
Paths(edges, c, hops) ==
  LET links == { e \in edges : e[3] = Prerequisite /\ Ends(e) \subseteq Scope }
      one   == { <<e>> : e \in { f \in links : f[2] = c } }
      two   == { <<e, f>> : e \in links, f \in { g \in links : g[2] = c } }
  IN  one \cup (IF hops = 2 THEN { p \in two : p[1] # p[2] /\ p[1][2] = p[2][1] } ELSE {})

\* A concept with its neighbours, and with what leads to it.
Record(edges, c, hops) ==
  LET paths == Paths(edges, c, hops)
      near  == Adjacent(edges, c)
      rels  == near \cup UNION { { p[i] : i \in DOMAIN p } : p \in paths }
  IN  [concept |-> c, rels |-> rels,
       related |-> { d \in Scope \ {c} : \E e \in near : Ends(e) = {c, d} }
                   \cup { e[1] : e \in { f \in near : f[1] = f[2] } }
                   \cup UNION { { p[i][1] : i \in DOMAIN p } : p \in paths }]

\* concepts is in the order of the read: by score and name, or by name.
Records(edges, concepts, hops) == [ i \in DOMAIN concepts |-> Record(edges, concepts[i], hops) ]

-----------------------------------------------------------------------------
\* The distances.

Inbound(rels, targets) ==
  { e[1] : e \in { f \in rels : f[3] = Prerequisite /\ f[1] # f[2] /\ f[2] \in targets } }

(* A variant with a plausible bug: what the first hop found may be found   *)
(* again by the second.                                                    *)
HopsRevisited(record, hops) ==
  LET one == Inbound(record.rels, {record.concept}) \ {record.concept}
      two == IF hops = 2 THEN Inbound(record.rels, one) \ {record.concept} ELSE {}
  IN  [ d \in one \cup two |-> IF d \in two THEN 2 ELSE 1 ]

\* _prerequisite_hops: breadth first from the concept, each at its first distance.
Hops(record, hops) ==
  LET one == Inbound(record.rels, {record.concept}) \ {record.concept}
      two == IF hops = 2 THEN Inbound(record.rels, one) \ ({record.concept} \cup one) ELSE {}
  IN  [ d \in one \cup two |-> IF d \in one THEN 1 ELSE 2 ]

At(record, hops, distance) ==
  { d \in record.related \cap DOMAIN Hops(record, hops) : Hops(record, hops)[d] = distance }

NamesAt(records, hops, distance) ==
  UNION { { Name[d] : d \in At(records[i], hops, distance) } : i \in DOMAIN records }

\* A name at both distances is a direct one.
OneHopNames(records, hops) == NamesAt(records, hops, 1)
TwoHopNames(records, hops) == NamesAt(records, hops, 2) \ NamesAt(records, hops, 1)

FirstNames(names) == { n \in names : Cardinality({ m \in names : m < n }) < NameLimit }

\* _build_expanded_query.
Expansion(records, hops) ==
  [direct     |-> FirstNames(OneHopNames(records, hops)),
   background |-> FirstNames(TwoHopNames(records, hops))]

-----------------------------------------------------------------------------
\* The display.

\* S can be the first `limit` members when the groups come one after the other, each in any order.
FirstOf(S, groups, limit) ==
  LET all == UNION { groups[i] : i \in DOMAIN groups }
  IN  /\ S \subseteq all
      /\ Cardinality(S) = Least(limit, Cardinality(all))
      /\ \A j \in DOMAIN groups : \A i \in 1 .. (j - 1) :
           S \cap (groups[j] \ UNION { groups[k] : k \in 1 .. (j - 1) }) # {} => groups[i] \subseteq S

\* The concepts of the records first, then what is related to each.
NodeGroups(records) ==
  [ i \in DOMAIN records |-> {records[i].concept} ] \o [ i \in DOMAIN records |-> records[i].related ]

EdgeGroups(records, nodes) ==
  [ i \in DOMAIN records |-> { e \in records[i].rels : Ends(e) \subseteq nodes } ]

\* bound_graph_context with one choice of the nodes and edges that are kept: the records by place.
Shown(records, nodes, edges) ==
  [ i \in { j \in DOMAIN records : records[j].concept \in nodes } |->
      [concept |-> records[i].concept,
       related |-> records[i].related \cap nodes,
       rels    |-> records[i].rels \cap edges] ]

-----------------------------------------------------------------------------
\* By definition: a chain of prerequisites to c within the scope, which leaves c once.
Leads(edges, c, d) == <<d, c, Prerequisite>> \in edges /\ {c, d} \subseteq Scope /\ c # d
Distance1(edges, c) == { d \in Scope : Leads(edges, c, d) }
Distance2(edges, c) ==
  { d \in Scope \ (Distance1(edges, c) \cup {c}) : \E m \in Distance1(edges, c) : Leads(edges, m, d) }

DirectNames(edges, asked) ==
  UNION { { Name[d] : d \in Distance1(edges, asked[i]) } : i \in DOMAIN asked }
FurtherNames(edges, asked) ==
  (UNION { { Name[d] : d \in Distance2(edges, asked[i]) } : i \in DOMAIN asked }) \ DirectNames(edges, asked)

(***************************************************************************)
(* A search is extended by the names of the direct prerequisites of the    *)
(* concepts it names and by those one step further, each name once, at its *)
(* shortest distance and in scope (_prerequisite_hops,                     *)
(* _build_expanded_query).                                                 *)
(***************************************************************************)
SearchExtended(edges, asked, hops) ==
  LET direct  == DirectNames(edges, asked)
      further == FurtherNames(edges, asked)
      names   == Expansion(Records(edges, asked, hops), hops)
  IN  /\ names.direct \subseteq direct
      /\ Cardinality(names.direct) = Least(NameLimit, Cardinality(direct))
      /\ names.background \subseteq further
      /\ hops = 2 => Cardinality(names.background) = Least(NameLimit, Cardinality(further))
      /\ hops = 1 => names.background = {}

(***************************************************************************)
(* Whatever is kept of a graph to show it (bound_graph_context) is within  *)
(* its bounds, is counted as it is shown, has both ends of every edge      *)
(* beside the concept that it is shown with, and no edge is invented.      *)
(***************************************************************************)
DisplayBounded(edges, asked, hops) ==
  LET records == Records(edges, asked, hops) IN
  \A nodes \in SUBSET Scope : FirstOf(nodes, NodeGroups(records), MaxNodes) =>
    \A kept \in SUBSET edges : FirstOf(kept, EdgeGroups(records, nodes), MaxEdges) =>
      LET shown == Shown(records, nodes, kept)
          here(i) == {shown[i].concept} \cup shown[i].related
      IN  /\ Cardinality(nodes) <= MaxNodes /\ Cardinality(kept) <= MaxEdges
          /\ nodes = UNION { here(i) : i \in DOMAIN shown }
          /\ kept = UNION { shown[i].rels : i \in DOMAIN shown }
          /\ \A i \in DOMAIN shown : \A e \in shown[i].rels : e \in edges /\ Ends(e) \subseteq here(i)
===============================================================================
