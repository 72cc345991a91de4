----------------------------- MODULE GraphBatches -----------------------------
(***************************************************************************)
(* How the passages of a document become requests for concepts: the        *)
(* sampling of a section, its batches, and the choice of the batches one   *)
(* build may send (IngestionService._sample_graph_chunks,                  *)
(* _graph_section_batches, _select_graph_batches).  A batch is known here  *)
(* by its place in the document.                                           *)
(***************************************************************************)
EXTENDS Integers, Sequences, FiniteSets

CONSTANTS MaxSamples,       \* passages of one section that are sent, 9
          BatchSize         \* graph_batch_size

BatchSizes == MaxSamples \in Nat /\ MaxSamples % 2 = 1 /\ BatchSize \in Nat \ {0}

AtLeastOne(n) == IF n < 1 THEN 1 ELSE n
Least(m, n) == IF m < n THEN m ELSE n

\* Python's round() of a / b: the nearest integer, ties to the even one.
RoundHalfEven(a, b) ==
  LET q == a \div b
      r == a % b
  IN  IF 2 * r > b \/ (2 * r = b /\ q % 2 = 1) THEN q + 1 ELSE q

\* The places, from 0, of k of n items spread from the first to the last.
EvenlySpaced(n, k) ==
  IF k >= n THEN 0 .. (n - 1)
  ELSE { RoundHalfEven(i * (n - 1), AtLeastOne(k - 1)) : i \in 0 .. (k - 1) }

\* The member of the finite set S of numbers that has i smaller ones in S.
Nth(S, i) == CHOOSE x \in S : Cardinality({ y \in S : y < x }) = i

InOrder(S) == [ i \in 1 .. Cardinality(S) |-> Nth(S, i - 1) ]

Spread(S, k) == { Nth(S, i) : i \in EvenlySpaced(Cardinality(S), k) }

-----------------------------------------------------------------------------
\* chunks is the document: for each passage, the section its heading or page names.

SectionsOf(chunks) == { chunks[i] : i \in DOMAIN chunks }
ChunksOf(chunks, s) == { i \in DOMAIN chunks : chunks[i] = s }
Sampled(chunks, s) ==
  Spread(ChunksOf(chunks, s), Least(MaxSamples, Cardinality(ChunksOf(chunks, s))))

\* A section comes where its first passage is: the dictionary keeps insertion order.
FirstChunk(chunks, s) == Nth(ChunksOf(chunks, s), 0)
SectionAt(chunks, i) ==
  CHOOSE s \in SectionsOf(chunks) :
    Cardinality({ t \in SectionsOf(chunks) : FirstChunk(chunks, t) < FirstChunk(chunks, s) }) = i - 1

\* Passages offset .. offset + batch_size of the section's sample, for each offset.
BatchesOf(chunks, s) ==
  LET sample == InOrder(Sampled(chunks, s))
      count  == (Len(sample) + BatchSize - 1) \div BatchSize
  IN  [ n \in 1 .. count |->
          [ section |-> s,
            chunks  |-> SubSeq(sample, (n - 1) * BatchSize + 1, Least(n * BatchSize, Len(sample))) ] ]

SectionBatches(chunks) ==
  LET upTo[i \in 0 .. Cardinality(SectionsOf(chunks))] ==
        IF i = 0 THEN <<>> ELSE upTo[i - 1] \o BatchesOf(chunks, SectionAt(chunks, i))
  IN  upTo[Cardinality(SectionsOf(chunks))]

-----------------------------------------------------------------------------
\* missing is the set of batches without a saved result, section[b] the section of batch b.

SectionsFirst(missing, section) ==
  { b \in missing : \A c \in missing : section[c] = section[b] => b <= c }

(* A variant with a plausible bug: the slots left are spread over all      *)
(* batches, the chosen ones among them.                                    *)
SelectTwice(missing, section, limit) ==
  LET firsts == SectionsFirst(missing, section)
  IN  IF Cardinality(missing) <= limit THEN missing
      ELSE IF Cardinality(firsts) >= limit THEN Spread(firsts, limit)
      ELSE firsts \cup Spread(missing, limit - Cardinality(firsts))

Select(missing, section, limit) ==
  LET firsts == SectionsFirst(missing, section)
  IN  IF Cardinality(missing) <= limit THEN missing
      ELSE IF Cardinality(firsts) >= limit THEN Spread(firsts, limit)
      ELSE firsts \cup Spread(missing \ firsts, limit - Cardinality(firsts))

-----------------------------------------------------------------------------
(***************************************************************************)
(* "Cover each section, always including its beginning, middle, and end"   *)
(* (_sample_graph_chunks): of each section the first, a middle and the     *)
(* last passage are sampled, and as many as may be.                        *)
(***************************************************************************)
CoversSection(chunks, s) ==
  LET all    == ChunksOf(chunks, s)
      size   == Cardinality(all)
      sample == Sampled(chunks, s)
  IN  /\ sample \subseteq all
      /\ Cardinality(sample) = Least(MaxSamples, size)
      /\ Nth(all, 0) \in sample
      /\ Nth(all, size - 1) \in sample
      /\ \E m \in { (size - 1) \div 2, size \div 2 } : Nth(all, m) \in sample

(***************************************************************************)
(* "Apply a fair free-tier budget across beginning, middle, and end        *)
(* sections" (_select_graph_batches): a limited build is sent exactly as   *)
(* many batches as it may send, no section gets a second one before every  *)
(* section has one, and with two or more the first and the last section    *)
(* are among them.                                                         *)
(***************************************************************************)
SpreadsBudget(missing, section, limit) ==
  LET chosen == Select(missing, section, limit)
      all    == { section[n] : n \in missing }
      served == { section[n] : n \in chosen }
      firsts == SectionsFirst(missing, section)
  IN  /\ chosen \subseteq missing
      /\ Cardinality(chosen) = Least(limit, Cardinality(missing))
      /\ Cardinality(served) = Least(limit, Cardinality(all))
      /\ limit >= 2 /\ missing # {} =>
           { Nth(firsts, 0), Nth(firsts, Cardinality(firsts) - 1) } \subseteq chosen
=============================================================================
