------------------------------- MODULE Chunking -------------------------------
(***************************************************************************)
(* From the lines of a PDF to the passages that are indexed: which lines   *)
(* are running headers, the sections of a page, their chunks               *)
(* (ParserService.chunk_pages and what it calls).  A line is its text,     *)
(* where it stands, whether it scores as a heading and how many words it   *)
(* has; a word is known by where it is.                                    *)
(***************************************************************************)
EXTENDS Integers, Sequences, FiniteSets, SequencesExt

CONSTANTS ChunkSize, ChunkOverlap,
          Normal                    \* _normalized_margin_text, of the texts that occur

\* What ParserService insists on.
ChunkingAssumption == ChunkSize \in Nat \ {0} /\ ChunkOverlap \in 0 .. (ChunkSize - 1)

\* A page: its text layer, and what was recognised on it if the text is from there ("ocr"), or
\* in part from there ("both"); an unreadable page ("none") has no text.
Sources == {"native", "ocr", "both", "none"}

\* Texts in the top or bottom margin of two pages, and of three in ten.
Repeated(pages) ==
  LET Margins(i) == { Normal[pages[i].native[j].text] :
                        j \in { k \in DOMAIN pages[i].native : pages[i].native[k].margin } }
  IN  { t \in UNION { Margins(i) : i \in DOMAIN pages } :
          LET count == Cardinality({ i \in DOMAIN pages : t \in Margins(i) })
          IN  count >= 2 /\ 10 * count >= 3 * Len(pages) }

Place(source, lines) == [ j \in DOMAIN lines |-> [line |-> lines[j], at |-> <<source, j>>] ]

Visible(page, repeated) ==
  LET Shown(l) == Normal[l.line.text] \notin repeated
  IN  SelectSeq(Place("native", page.native), Shown)

\* Lines of the image that the text layer has not, each once.
NewLines(page) ==
  LET Known(j) == \/ \E i \in DOMAIN page.native : page.native[i].text = page.ocr[j].text
                  \/ \E i \in 1 .. (j - 1) : page.ocr[i].text = page.ocr[j].text
      New(l)   == ~Known(l.at[2])
  IN  SelectSeq(Place("ocr", page.ocr), New)

WordsOf(lines) ==
  FlattenSeq([ j \in DOMAIN lines |-> [ k \in 1 .. lines[j].line.size |-> Append(lines[j].at, k) ] ])

NoHeading == <<>>
Section(heading, lines) == [heading |-> heading, words |-> WordsOf(lines)]

\* _layout_heading_score, by size, weight, length and distance, for a line of recognised text
\* _looks_like_heading: either is told of the line.
IsHeading(l) == l.line.heading

\* A heading line names the lines up to the next one.  A page of headings only is a section of
\* its own, under title.
Sections(lines, title) ==
  LET Close(s) == IF s.body = <<>> THEN s.done ELSE Append(s.done, Section(s.heading, s.body))
      Read(s, l) == IF IsHeading(l)
                    THEN [done |-> Close(s), heading |-> l.at, body |-> <<>>]
                    ELSE [s EXCEPT !.body = Append(@, l)]
      end == Close(FoldLeft(Read, [done |-> <<>>, heading |-> NoHeading, body |-> <<>>], lines))
  IN  IF end # <<>> \/ lines = <<>> THEN end ELSE <<Section(title, lines)>>

\* _split_layout_sections and _split_sections: the latter names the page by its first line.
LayoutSections(page, repeated) == Sections(Visible(page, repeated), NoHeading)
TextSections(lines) == Sections(lines, IF lines = <<>> THEN NoHeading ELSE lines[1].at)

PageSections(page, repeated) ==
  CASE page.source = "native" -> LayoutSections(page, repeated)
    [] page.source = "ocr"    -> TextSections(Place("ocr", page.ocr))
    [] page.source = "both"   -> LayoutSections(page, repeated) \o TextSections(NewLines(page))
    [] page.source = "none"   -> <<>>

(* A variant with a plausible bug: what is left is always a chunk.         *)
PiecesAlways(words) ==
  LET Read(s, w) ==
        LET held == Append(s.held, w)
        IN  IF Len(held) < ChunkSize THEN [s EXCEPT !.held = held]
            ELSE [done |-> Append(s.done, held),
                  held |-> SubSeq(held, ChunkSize - ChunkOverlap + 1, ChunkSize)]
      end == FoldLeft(Read, [done |-> <<>>, held |-> <<>>], words)
  IN  IF end.held = <<>> THEN end.done ELSE Append(end.done, end.held)

\* _iter_text_chunks: a window of ChunkSize words, moved on by all but ChunkOverlap of them; what
\* is left is a chunk if it has a new word.
Pieces(words) ==
  LET Read(s, w) ==
        LET held == Append(s.held, w)
        IN  IF Len(held) < ChunkSize THEN [s EXCEPT !.held = held, !.new = @ + 1]
            ELSE [done |-> Append(s.done, held), new |-> 0,
                  held |-> SubSeq(held, ChunkSize - ChunkOverlap + 1, ChunkSize)]
      end == FoldLeft(Read, [done |-> <<>>, held |-> <<>>, new |-> 0], words)
  IN  IF end.new = 0 THEN end.done ELSE Append(end.done, end.held)

Headed(heading, pieces) == [ n \in DOMAIN pieces |-> [heading |-> heading, words |-> pieces[n]] ]
SectionChunks(sections) ==
  FlattenSeq([ s \in DOMAIN sections |-> Headed(sections[s].heading, Pieces(sections[s].words)) ])

\* The chunks of a page are numbered over its sections.
Numbered(i, chunks) ==
  [ n \in DOMAIN chunks |-> [id |-> <<i, n - 1>>, heading |-> chunks[n].heading, words |-> chunks[n].words] ]

PagesChunks(pages, repeated) ==
  FlattenSeq([ i \in DOMAIN pages |-> Numbered(i, SectionChunks(PageSections(pages[i], repeated))) ])

Chunks(pages) == PagesChunks(pages, Repeated(pages))
===============================================================================
