------------------------------- MODULE Evidence -------------------------------
(***************************************************************************)
(* From the passages that were found to those an answer cites: the window  *)
(* of each passage that ranks best, the passages with enough evidence, the *)
(* ones that cover what the question asks for (RerankService._rank_windows *)
(* and _tag_facets, citation_service.prepare_evidence).  A text is the set *)
(* of the identifiers it names.  A chunk is its windows, each with its     *)
(* names, the key of its excerpt and its score for each side of the        *)
(* question, of which a plain question has one.                            *)
(***************************************************************************)
EXTENDS Integers, Sequences, FiniteSets, SequencesExt

CONSTANTS SourceLimit,      \* sources of an answer, 5
          MinScore          \* evidence_min_score

EvidenceAssumption == SourceLimit \in Nat \ {0} /\ MinScore \in Nat

Insufficient == <<>>
Sides == <<"first side", "second side">>

\* Python's sorted(..., reverse = True): descending, equal ones as they were.
Descending(s) ==
  LET before(i, j) == s[i].score > s[j].score \/ (s[i].score = s[j].score /\ i < j)
  IN  [ n \in DOMAIN s |->
          s[CHOOSE i \in DOMAIN s : Cardinality({ j \in DOMAIN s : before(j, i) }) = n - 1] ]

Pick(s, S) ==
  LET places == SetToSortSeq(S, LAMBDA i, j : i < j)
  IN  [ n \in DOMAIN places |-> s[places[n]] ]

-----------------------------------------------------------------------------
\* Rank.

\* The first of the best windows of a chunk, for one side.
BestWindow(chunk, side) ==
  LET w == chunk.windows
  IN  CHOOSE i \in DOMAIN w : \A j \in DOMAIN w :
        w[j].score[side] < w[i].score[side] \/ (w[j].score[side] = w[i].score[side] /\ i <= j)

Ranked(chunks, side) ==
  Descending([ n \in DOMAIN chunks |->
    LET w == chunks[n].windows
        best == w[BestWindow(chunks[n], side)]
    IN  [names |-> best.names, key |-> best.key, score |-> best.score[side],
         text  |-> UNION { w[i].names : i \in DOMAIN w }] ])

-----------------------------------------------------------------------------
\* Accept and cite.

\* A passage that names identifiers, but none that is asked for, is about something else.
Elsewhere(chunk, required) ==
  required # {} /\ chunk.names # {} /\ chunk.names \cap required = {}

\* assess_evidence: nothing, when what is asked for is not in the texts.
Accepted(ranked, required) ==
  LET Enough(c) == c.score >= MinScore /\ ~Elsewhere(c, required)
      scored == SelectSeq(ranked, Enough)
  IN  IF required \subseteq UNION { scored[i].text : i \in DOMAIN scored } THEN scored ELSE Insufficient

\* build_sources cites an excerpt once, and reads on past the limit only to find identifiers.
Excerpts(chunks, limit, required) ==
  LET Fresh(i) == \A j \in 1 .. (i - 1) : chunks[j].key # chunks[i].key
      fresh == Pick(chunks, { i \in DOMAIN chunks : Fresh(i) })
  IN  IF required = {} /\ Len(fresh) > limit THEN SubSeq(fresh, 1, limit) ELSE fresh

\* What a set of sources shows: the identifiers they name, the sides they were accepted for.
Shows(source) == source.names \cup source.sides
Shown(sources, S) == UNION { Shows(sources[i]) : i \in S }

\* Of two sets of places the smaller is before the other, or the one that has the first place in
\* which they differ.
Before(S, T) ==
  \/ Cardinality(S) < Cardinality(T)
  \/ /\ Cardinality(S) = Cardinality(T) /\ S # T
     /\ LET differ == (S \ T) \cup (T \ S)
        IN  (CHOOSE i \in differ : \A j \in differ : i <= j) \in S

\* One step of the search: the covers found so far, each with the next source if it adds to it.
Extend(covers, index, gain, limit) ==
  LET extended == { k \in DOMAIN covers : ~(gain \subseteq k) /\ Cardinality(covers[k]) < limit }
      Ways(c) == { covers[k] \cup {index} : k \in { m \in extended : m \cup gain = c } }
                 \cup (IF c \in DOMAIN covers THEN {covers[c]} ELSE {})
  IN  [ c \in DOMAIN covers \cup { k \cup gain : k \in extended } |->
          CHOOSE S \in Ways(c) : \A T \in Ways(c) : S = T \/ Before(S, T) ]

(* A variant with a plausible bug: each source that adds something takes a *)
(* place.                                                                  *)
SmallestCoverGreedily(sources, limit, target) ==
  LET Takes(S, i) == IF Shows(sources[i]) \cap target \subseteq Shown(sources, S) \/ Cardinality(S) = limit
                     THEN S ELSE S \cup {i}
  IN  FoldLeftDomain(Takes, {}, sources)

\* The smallest set of places that shows the target; none if there is none.
SmallestCover(sources, limit, target) ==
  LET Search(covers, i) == Extend(covers, i, Shows(sources[i]) \cap target, limit)
      covers == FoldLeftDomain(Search, [ c \in {{}} |-> {} ], sources)
  IN  IF target \in DOMAIN covers THEN covers[target] ELSE {}

\* _select_sources: the first ones if they show the target, else the smallest cover, filled up
\* with the first of the others; in the order of rank.
Select(sources, limit, target) ==
  LET first == { i \in DOMAIN sources : i <= limit }
      reserved == SmallestCover(sources, limit, target)
      others == DOMAIN sources \ reserved
      rest == { i \in others : Cardinality({ j \in others : j < i }) < limit - Cardinality(reserved) }
  IN  IF target \subseteq Shown(sources, first) THEN Pick(sources, first)
      ELSE Pick(sources, reserved \cup rest)

OnSide(excerpts, sides) ==
  [ i \in DOMAIN excerpts |-> [names |-> excerpts[i].names, key |-> excerpts[i].key,
                               score |-> excerpts[i].score, sides |-> sides] ]

IfShown(sources, target) ==
  IF target \subseteq Shown(sources, DOMAIN sources) THEN sources ELSE Insufficient

\* prepare_evidence for a question that is not a comparison.
Plain(chunks, required) ==
  LET accepted == Accepted(Ranked(chunks, 1), required)
      sources  == OnSide(Excerpts(accepted, SourceLimit, required), {})
  IN  IfShown(Select(sources, SourceLimit, required), required)

\* An excerpt accepted for both sides is one candidate, with its better score.
Merged(one, two) ==
  LET all == one \o two
      Best(i) == /\ \A j \in DOMAIN all : all[j].key = all[i].key =>
                      all[j].score < all[i].score \/ (all[j].score = all[i].score /\ i <= j)
      SidesOf(key) == UNION { all[j].sides : j \in { k \in DOMAIN all : all[k].key = key } }
      \* The dictionary keeps the place of the first.
      firsts == Pick(all, { i \in DOMAIN all : \A j \in 1 .. (i - 1) : all[j].key # all[i].key })
  IN  Descending([ n \in DOMAIN firsts |->
        [all[CHOOSE i \in DOMAIN all : all[i].key = firsts[n].key /\ Best(i)]
           EXCEPT !.sides = SidesOf(firsts[n].key)] ])

\* _comparison_evidence: evidence for each side by itself, and then a selection of both.
Comparison(chunks, asked) ==
  LET side(f) == IfShown(OnSide(Accepted(Ranked(chunks, f), asked[f]), {Sides[f]}), asked[f])
      unique(f) == Excerpts(side(f), Len(side(f)), asked[f])
      target == asked[1] \cup asked[2] \cup ToSet(Sides)
  IN  IF side(1) = Insufficient \/ side(2) = Insufficient THEN Insufficient
      ELSE IfShown(Select(Merged(unique(1), unique(2)), SourceLimit, target), target)
===============================================================================
