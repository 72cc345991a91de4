-------------------------------- MODULE Ranking --------------------------------
(***************************************************************************)
(* From the points of the stores to ranked passages: the nearest points    *)
(* and those with an identifier of the question, fused into a bounded list *)
(* (search_qdrant, fuse_candidates); the literal windows of each that a    *)
(* reranker is sent (rerank_passages); the scores that it answers, for     *)
(* each side of a comparison, and the order they give (RerankService).     *)
(* A text is a sequence of sentences, a sentence and a question a set of   *)
(* words, some of which name something: an excerpt is a number of          *)
(* sentences, where the code counts characters.                            *)
(***************************************************************************)
EXTENDS Integers, Sequences, FiniteSets, SequencesExt

CONSTANTS Text,            \* of each point: points are numbers, in the order of their ids
          Names,           \* the words that are named identifiers
          Questions,       \* one side, or two of a comparison: each a set of words
          Providers,       \* of the reranker
          Scores,          \* that it gives, as numbers
          CandidateLimit, IdentifierLimit,
          ExcerptSize      \* in sentences, EVIDENCE_PASSAGE_LIMIT

Points == DOMAIN Text
Words(passage) == UNION { passage[i] : i \in DOMAIN passage }

RankingAssumption ==
  /\ Points \subseteq Nat /\ IsFiniteSet(Points)
  /\ Providers \subseteq {"cohere", "local"} /\ Scores \subseteq Int
  /\ \A q \in Questions : Len(q) \in 1 .. 2
  /\ CandidateLimit \in 1 .. 100 /\ IdentifierLimit \in Nat \ {0}
  /\ ExcerptSize \in Nat /\ ExcerptSize >= 2

VARIABLES question, provider,
          at,
          dense,           \* the nearest points
          identified,      \* those with an identifier of the question
          candidates,      \* [point, cosine: whether a nearest point's score came with it]
          groups,          \* the sides that are ranked, each a sequence of ranked passages
          ranking,
          said             \* history: for each side, the scores the reranker gave

vars == <<question, provider, at, dense, identified, candidates, groups, ranking, said>>

Least(m, n) == IF m < n THEN m ELSE n

\* Sorted by a score, descending, equal ones as they were.
Descending(s) ==
  LET order == SetToSortSeq(DOMAIN s, LAMBDA i, j : s[i].score > s[j].score \/ (s[i].score = s[j].score /\ i < j))
  IN  [ n \in DOMAIN s |-> s[order[n]] ]

-----------------------------------------------------------------------------
\* Candidates.

Lists(S, limit) == UNION { { s \in [1 .. n -> S] : IsInjective(s) } : n \in 0 .. limit }

Place(list, p) == IF p \in ToSet(list) THEN 60 + (CHOOSE i \in DOMAIN list : list[i] = p) ELSE 0

\* 1 / (60 + rank) in each list, added: as a fraction.
FusionScore(near, named, p) ==
  LET m == Place(near, p)
      n == Place(named, p)
  IN  IF m = 0 THEN <<1, n>> ELSE IF n = 0 THEN <<1, m>> ELSE <<m + n, m * n>>

Fuse(near, named, limit) ==
  LET score == [ p \in ToSet(near) \cup ToSet(named) |-> FusionScore(near, named, p) ]
      Before(p, q) == \/ score[p][1] * score[q][2] > score[q][1] * score[p][2]
                      \/ score[p][1] * score[q][2] = score[q][1] * score[p][2] /\ p < q
      order == SetToSortSeq(DOMAIN score, Before)
  IN  SubSeq(order, 1, Least(limit, Len(order)))

Candidate(p) == [point |-> p, cosine |-> p \in ToSet(dense)]

-----------------------------------------------------------------------------
\* Windows.

\* What a window shows of what is asked; identifiers count more.
Focus(passage, asked) ==
  LET shown == Words(passage) \cap asked IN Cardinality(shown) + 2 * Cardinality(shown \cap Names)

First(S, Better(_, _)) == CHOOSE x \in S : \A y \in S \ {x} : Better(x, y)

\* passage_excerpt: the first of the best windows that begin where something asked for is.
Excerpt(text, asked) ==
  LET Window(i) == SubSeq(text, i, i + ExcerptSize - 1)
      starts == { Least(i, Len(text) - ExcerptSize + 1) : i \in { j \in DOMAIN text : text[j] \cap asked # {} } }
      Better(i, j) == \/ Focus(Window(i), asked) > Focus(Window(j), asked)
                      \/ Focus(Window(i), asked) = Focus(Window(j), asked) /\ i < j
  IN  IF Len(text) <= ExcerptSize THEN text
      ELSE IF starts = {} THEN Window(1) ELSE Window(First(starts, Better))

\* rerank_passages: the excerpt, and the best pairs of neighbouring sentences if they are focused
\* and the text is not about another named thing.
RerankPassages(text, asked) ==
  LET whole == Excerpt(text, asked)
      named == asked \cap Names
      elsewhere == named # {} /\ Words(text) \cap Names # {} /\ Words(text) \cap named = {}
      pairs == [ i \in 1 .. Len(text) - 1 |-> [score |-> Focus(<<text[i], text[i + 1]>>, asked),
                                               passage |-> <<text[i], text[i + 1]>>] ]
      focused == Descending(SelectSeq(pairs, LAMBDA w : w.score >= 2 /\ w.passage # whole))
      best == { focused[i].passage : i \in 1 .. Least(2, Len(focused)) }
  IN  IF elsewhere \/ Len(text) < 3 \/ best = {} THEN <<whole>>
      ELSE IF Cardinality(best) = 1 THEN <<whole, focused[1].passage>>
      ELSE <<whole, focused[1].passage, focused[2].passage>>

\* What the reranker is sent for one side.
Windows(side) ==
  FlattenSeq([ c \in DOMAIN candidates |->
    LET passages == RerankPassages(Text[candidates[c].point], question[side])
    IN  [ i \in DOMAIN passages |-> [chunk |-> c, passage |-> passages[i]] ] ])

-----------------------------------------------------------------------------
\* Scores.

\* Cohere's answer: each window by its index, in any order; or a broken one.
Orders(n) == { [ i \in 1 .. n |-> i ], [ i \in 1 .. n |-> n + 1 - i ], [ i \in 1 .. n |-> (i % n) + 1 ] }
Complete(n) == { [ i \in 1 .. n |-> [index |-> order[i], score |-> s[order[i]]] ] :
                   order \in Orders(n), s \in [1 .. n -> Scores] }
Broken(n) ==
  LET one == CHOOSE x \in Scores : TRUE
  IN  { [ i \in 1 .. n |-> [index |-> IF i = n THEN last ELSE i, score |-> one] ] : last \in {1, n + 1} }
      \cup { [ i \in 1 .. n - 1 |-> [index |-> i, score |-> one] ] }

Valid(results, n) ==
  /\ Len(results) = n
  /\ { results[i].index : i \in DOMAIN results } = 1 .. n

(* A variant with a plausible bug: results are taken in the order of the   *)
(* answer.                                                                 *)
ScoresByPlace(results) == [ i \in DOMAIN results |-> results[i].score ]

\* Each window's score, whatever the order of the answer.
ScoresOf(results) ==
  [ w \in DOMAIN results |-> results[CHOOSE i \in DOMAIN results : results[i].index = w].score ]

\* A candidate stands where its first best window puts it.
RankWindows(windows, scores) ==
  LET Best(c) ==
        LET own == { w \in DOMAIN windows : windows[w].chunk = c }
        IN  First(own, LAMBDA v, w : scores[v] > scores[w] \/ (scores[v] = scores[w] /\ v < w))
  IN  Descending([ c \in DOMAIN candidates |->
        [chunk |-> c, passage |-> windows[Best(c)].passage, score |-> scores[Best(c)]] ])

\* The passages of both sides in one order; those of a plain question as they are.
TagFacets(ranked) ==
  IF Len(ranked) = 1 THEN [ n \in DOMAIN ranked[1] |-> [side |-> 1] @@ ranked[1][n] ]
  ELSE Descending(FlattenSeq([ side \in DOMAIN ranked |->
         [ n \in DOMAIN ranked[side] |-> [side |-> side] @@ ranked[side][n] ] ]))

-----------------------------------------------------------------------------
Init ==
  /\ question \in Questions /\ provider \in Providers
  /\ at = "search"
  /\ dense = <<>> /\ identified = <<>> /\ candidates = <<>> /\ groups = <<>> /\ ranking = <<>>
  /\ said = <<>>

Asked == (UNION { question[side] : side \in DOMAIN question }) \cap Names

Refuse == at' = "refused" /\ UNCHANGED <<question, provider, dense, identified, candidates, groups, ranking, said>>

Search(found) ==
  /\ at = "search" /\ at' = "lookup" /\ dense' = found
  /\ UNCHANGED <<question, provider, identified, candidates, groups, ranking, said>>

\* The collection is not there yet, so that nothing is found, or the vector store fails.
SearchFails == at = "search" /\ Refuse

\* The identifier lookup; none for a question without one, or when it fails.
Lookup(found) ==
  /\ at = "lookup" /\ at' = "rank"
  /\ \A i \in DOMAIN found : Words(Text[found[i]]) \cap Asked # {}
  /\ identified' = found
  /\ candidates' = LET merged == IF found = <<>> THEN dense ELSE Fuse(dense, found, CandidateLimit)
                   IN  [ n \in DOMAIN merged |-> Candidate(merged[n]) ]
  /\ UNCHANGED <<question, provider, dense, groups, ranking, said>>

Side == Len(groups) + 1

\* results as Cohere answers, each naming its window by its index.
Said(side, results) ==
  { [chunk |-> Windows(side)[r.index].chunk, passage |-> Windows(side)[r.index].passage, score |-> r.score] :
      r \in ToSet(results) }

Scored(side, results, scores) ==
  /\ said' = Append(said, Said(side, results))
  /\ groups' = Append(groups, RankWindows(Windows(side), scores))
  /\ IF side = Len(question) THEN at' = "ranked" /\ ranking' = TagFacets(groups')
     ELSE at' = "rank" /\ ranking' = ranking
  /\ UNCHANGED <<question, provider, dense, identified, candidates>>

\* A request for each side, with a reservation of its own.
Request ==
  /\ at = "rank" /\ provider = "cohere" /\ candidates # <<>>
  /\ at' = "sent"
  /\ UNCHANGED <<question, provider, dense, identified, candidates, groups, ranking, said>>

Respond(results) ==
  /\ at = "sent"
  /\ IF Valid(results, Len(Windows(Side))) THEN Scored(Side, results, ScoresOf(results)) ELSE Refuse

\* The model scores the pairs of all sides at once; side by side here.
Predict(scores) ==
  /\ at = "rank" /\ provider = "local" /\ candidates # <<>>
  /\ Scored(Side, [ w \in DOMAIN scores |-> [index |-> w, score |-> scores[w]] ], scores)

\* No candidate, no budget, no answer, or scores that are no numbers.
RankFails == at \in {"rank", "sent"} /\ Refuse

Next ==
  \/ \E found \in Lists(Points, CandidateLimit) : Search(found)
  \/ SearchFails
  \/ \E found \in Lists(Points, Least(IdentifierLimit, CandidateLimit)) : Lookup(found)
  \/ Request
  \/ at = "sent" /\ LET n == Len(Windows(Side)) IN \E results \in Complete(n) \cup Broken(n) : Respond(results)
  \/ at = "rank" /\ \E scores \in [1 .. Len(Windows(Side)) -> Scores] : Predict(scores)
  \/ RankFails

Spec == Init /\ [][Next]_vars

-----------------------------------------------------------------------------
\* What the ranking of a question should be, by definition.

Occurs(passage, text) ==
  \E i \in 1 .. Len(text) - Len(passage) + 1 : SubSeq(text, i, i + Len(passage) - 1) = passage

Rank(list, p) == CHOOSE i \in DOMAIN list : list[i] = p
\* In each list that names q, p stands before it.
Precedes(p, q) ==
  \A list \in {dense, identified} :
    q \in ToSet(list) => p \in ToSet(list) /\ Rank(list, p) < Rank(list, q)

(***************************************************************************)
(* However the two searches overlap and in whatever order the reranker     *)
(* answers: no point is left out for one that each search put behind it,   *)
(* none is a candidate twice, and only one of the nearest points has a     *)
(* cosine score; each candidate is ranked once for each side, with a       *)
(* literal passage of its own text and the greatest score that any of its  *)
(* passages was given, best first (fuse_candidates, RerankService).        *)
(***************************************************************************)
RankedAsScored ==
  at = "ranked" =>
    LET chosen == { candidates[c].point : c \in DOMAIN candidates }
    IN  /\ Cardinality(chosen) = Len(candidates) /\ Len(candidates) <= CandidateLimit
        /\ chosen \subseteq ToSet(dense) \cup ToSet(identified)
        /\ \A p \in (ToSet(dense) \cup ToSet(identified)) \ chosen, q \in chosen : ~Precedes(p, q)
        /\ \A c \in DOMAIN candidates : candidates[c].cosine <=> candidates[c].point \in ToSet(dense)
        /\ Len(ranking) = Len(candidates) * Len(question)
        /\ { <<e.chunk, e.side>> : e \in ToSet(ranking) } = (DOMAIN candidates) \X (DOMAIN question)
        /\ \A e \in ToSet(ranking) :
             LET own == { r \in said[e.side] : r.chunk = e.chunk }
             IN  /\ [chunk |-> e.chunk, passage |-> e.passage, score |-> e.score] \in own
                 /\ \A r \in own : r.score <= e.score
                 /\ Occurs(e.passage, Text[candidates[e.chunk].point])
        /\ \A i, j \in DOMAIN ranking : i < j => ranking[i].score >= ranking[j].score
===============================================================================
