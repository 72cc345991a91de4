----------------------------- MODULE MCGraphReads -----------------------------
(***************************************************************************)
(* Every graph of up to EdgeCount edges between four concepts, of which    *)
(* one is of a document that is not READY and two have the same name, and  *)
(* every one or two concepts that a question names.                        *)
(***************************************************************************)
EXTENDS GraphReads, TLC

CONSTANTS EdgeCount

Concepts == Scope \cup {5}
Edges == { <<c, d, t>> \in Concepts \X Concepts \X {Prerequisite, "RELATED_TO"} :
             (t = "RELATED_TO" => c < d) /\ (5 \in {c, d} => c # d /\ t = Prerequisite /\ {c, d} \cap {1, 2} # {}) }

VARIABLE edges

Init == edges = {}
Next == /\ Cardinality(edges) < EdgeCount
        /\ \E e \in Edges \ edges : edges' = edges \cup {e}
Spec == Init /\ [][Next]_edges

\* The concepts a question may name: two, since the others are like them.
Asked == {<<1>>, <<1, 2>>, <<2, 1>>}

(***************************************************************************)
(* What a question is given of the graph: its search is extended by the    *)
(* prerequisites at their distances (RetrievalService), and what is shown  *)
(* beside the answer is bounded and whole (graph_display_service).  Both,  *)
(* because they are read from the same records.                            *)
(***************************************************************************)
GraphShown ==
  \A asked \in Asked : \A hops \in 1 .. 2 :
    SearchExtended(edges, asked, hops) /\ DisplayBounded(edges, asked, hops)
=============================================================================
