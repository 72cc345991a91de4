------------------------------ MODULE MCChunking ------------------------------
(***************************************************************************)
(* Every document of up to MaxPages pages of up to MaxLines lines, which   *)
(* are page numbers, a running title, headings and lines of a few words.   *)
(***************************************************************************)
EXTENDS Chunking, TLC

CONSTANTS MaxPages, MaxLines

Line(text, margin, heading, size) == [text |-> text, margin |-> margin, heading |-> heading, size |-> size]
Lines == { Line("1", TRUE, FALSE, 1), Line("2", FALSE, FALSE, 1), Line("Trees", TRUE, TRUE, 1),
           Line("Trees", FALSE, TRUE, 1), Line("text", FALSE, FALSE, 5) }
Recognised == { <<>>, <<Line("text", FALSE, FALSE, 5), Line("Trees", FALSE, TRUE, 1)>>,
                <<Line("Trees", FALSE, TRUE, 1), Line("2", FALSE, FALSE, 1), Line("2", FALSE, FALSE, 1)>> }
Pages == { p \in [native : SeqOf(Lines, MaxLines), ocr : Recognised, source : Sources] :
             /\ p.source \in {"native", "none"} <=> p.ocr = <<>>
             /\ p.source \in {"native", "both"} => p.native # <<>>
             /\ p.source = "ocr" => Len(p.native) <= 1
             /\ p.source = "none" => p.native = <<>> }

VARIABLE pages

Init == pages = <<>>
Next == /\ Len(pages) < MaxPages
        /\ \E p \in Pages : pages' = Append(pages, p)
Spec == Init /\ [][Next]_pages

\* The nearest heading above place j of the lines.
HeadingAbove(lines, j) ==
  LET above == { i \in 1 .. (j - 1) : lines[i].line.heading }
  IN  IF above = {} THEN NoHeading ELSE lines[CHOOSE i \in above : \A k \in above : k <= i].at

Held(chunk) == ToSet(chunk.words)

\* At most ChunkSize words, of which one is in no chunk before it.
Proper(chunks) ==
  \A n \in DOMAIN chunks :
    /\ Len(chunks[n].words) \in 1 .. ChunkSize
    /\ \E w \in Held(chunks[n]) : \A m \in 1 .. (n - 1) :
         chunks[m].id[1] = chunks[n].id[1] => w \notin Held(chunks[m])
    /\ \A m \in DOMAIN chunks \ {n} : chunks[m].id # chunks[n].id

\* Two chunks in a row share nothing, or the end of the first of them in one section.
Overlap(first, second, shared) ==
  first.id[1] = second.id[1] /\ shared # {} =>
    /\ first.heading = second.heading
    /\ shared = ToSet(SubSeq(first.words, ChunkSize - ChunkOverlap + 1, ChunkSize))
    /\ shared = ToSet(SubSeq(second.words, 1, ChunkOverlap))

\* Each word of a body line is in a chunk under the nearest heading above it.
HoldsLines(chunks, i, lines) ==
  \A j \in DOMAIN lines :
    ~lines[j].line.heading =>
      \A k \in 1 .. lines[j].line.size :
        \E n \in DOMAIN chunks : /\ chunks[n].id[1] = i
                                 /\ Append(lines[j].at, k) \in Held(chunks[n])
                                 /\ chunks[n].heading = HeadingAbove(lines, j)

Holds(chunks, repeated) ==
  /\ Proper(chunks)
  /\ \A n \in 1 .. (Len(chunks) - 1) :
       Overlap(chunks[n], chunks[n + 1], Held(chunks[n]) \cap Held(chunks[n + 1]))
  /\ \A i \in DOMAIN pages :
       /\ pages[i].source \in {"native", "both"} => HoldsLines(chunks, i, Visible(pages[i], repeated))
       /\ pages[i].source = "ocr"  => HoldsLines(chunks, i, Place("ocr", pages[i].ocr))
       /\ pages[i].source = "both" => HoldsLines(chunks, i, NewLines(pages[i]))

(***************************************************************************)
(* What is visible of a page is in its chunks: each word of a body line is *)
(* in a chunk that has the nearest heading above it for its own; a chunk   *)
(* is at most ChunkSize words, has the last ChunkOverlap of the one before *)
(* in its section and brings a word that no other has; and no two chunks   *)
(* share an identity (chunk_pages, _iter_text_chunks).                     *)
(***************************************************************************)
ChunksHoldThePage == Holds(Chunks(pages), Repeated(pages))
===============================================================================
