------------------------------- MODULE Parsing -------------------------------
(***************************************************************************)
(* The text of a PDF, page by page (ParserService.extract_pages_from_bytes *)
(* and _ocr_page): when a page is recognised, within the number of pages a *)
(* document may have recognised, and which text is accepted for the index. *)
(***************************************************************************)
EXTENDS Integers, Sequences

CONSTANTS PageCount,
          OcrEnabled, MixedEnabled, RetryEnabled,   \* ocr_enabled, ocr_mixed_pages_enabled, ocr_retry_enabled
          OcrPages                                  \* ocr_max_pages_per_document

ParsingAssumption ==
  /\ PageCount \in Nat /\ OcrPages \in Nat
  /\ OcrEnabled \in BOOLEAN /\ MixedEnabled \in BOOLEAN /\ RetryEnabled \in BOOLEAN

VARIABLES pages,      \* the pages so far, with what was found on them
          attempted,  \* ocr_attempts: pages that were recognised
          failure     \* why the document fails, and the layer of the page it fails at

vars == <<pages, attempted, failure>>

\* The text layer: none, readable but short, readable, or corrupt.
Layers == {"none", "sparse", "good", "poor"}

\* A large image without text over it: no, yes, or it cannot be told.
Regions == {"none", "image", "unknown"}

\* What recognition gives: nothing, a text below the thresholds, one above them, and one
\* that also improves on the text layer.
Readings == {"empty", "rejected", "usable", "better"}
Usable(reading) == reading \in {"usable", "better"}

(* A variant with a plausible bug: more characters are enough.             *)
PreferredLonger(layer, reading) ==
  \/ reading = "better" \/ (layer = "none" /\ Usable(reading))
  \/ layer = "sparse" /\ reading # "empty"

\* _prefer_ocr; anything usable improves on no text.
Preferred(layer, reading) == reading = "better" \/ (layer = "none" /\ Usable(reading))

\* Recognition that this page needs, or would profit from.
Needed(layer) == OcrEnabled /\ layer # "good"
Wanted(layer, region) == OcrEnabled /\ MixedEnabled /\ ~Needed(layer) /\ region = "image"

NoFailure == [why |-> "", layer |-> "none"]
FailAt(layer, why) == failure' = [why |-> why, layer |-> layer] /\ UNCHANGED pages

Init == pages = <<>> /\ attempted = 0 /\ failure = NoFailure

Going == failure = NoFailure /\ Len(pages) < PageCount

Page(layer, text, reading, warned) ==
  [layer |-> layer, text |-> text, reading |-> reading, warned |-> warned]

\* A page that is not recognised; one without text is left out, its place kept here.
Keep(layer, region) ==
  /\ Going /\ ~Needed(layer)
  /\ Wanted(layer, region) => attempted >= OcrPages
  /\ pages' = Append(pages, Page(layer, IF layer = "none" THEN {} ELSE {"native"}, "none",
                                 \/ Wanted(layer, region) \/ layer = "poor"
                                 \/ OcrEnabled /\ MixedEnabled /\ region = "unknown"))
  /\ UNCHANGED <<attempted, failure>>

OverLimit(layer) ==
  /\ Going /\ Needed(layer) /\ attempted >= OcrPages
  /\ FailAt(layer, "limit") /\ UNCHANGED attempted

Recognises(layer, region) ==
  /\ Going /\ attempted < OcrPages
  /\ Needed(layer) \/ Wanted(layer, region)
  /\ attempted' = attempted + 1

\* _ocr_page: an unusable reading may be tried once more, if there is time; the retry may fail,
\* or be no better.
Recognised(first, retry) ==
  IF ~Usable(first) /\ RetryEnabled /\ (Usable(retry) \/ (first = "empty" /\ retry = "rejected"))
  THEN retry ELSE first

\* A replacement for the text layer, or lines of an image that it has not.
Recognise(layer, region, first, retry) ==
  LET reading == Recognised(first, retry)
      text    == CASE Needed(layer) /\ Preferred(layer, reading)         -> {"ocr"}
                   [] Needed(layer) /\ ~Preferred(layer, reading)        -> IF layer = "none" THEN {} ELSE {"native"}
                   [] ~Needed(layer) /\ Usable(reading)                  -> {"native", "image"}
                   [] OTHER                                              -> {"native"}
  IN  /\ Recognises(layer, region)
      /\ pages' = Append(pages, Page(layer, text, reading,
                    ~Usable(reading) \/ (Needed(layer) /\ ~Preferred(layer, reading))))
      /\ UNCHANGED failure

\* The engine is missing, fails, or takes too long: readable text is kept, the rest fails.
RecognitionFails(layer, region) ==
  /\ Recognises(layer, region)
  /\ IF layer \in {"none", "poor"}
     THEN FailAt(layer, "ocr")
     ELSE pages' = Append(pages, Page(layer, {"native"}, "none", TRUE)) /\ UNCHANGED failure

Next ==
  \E layer \in Layers :
    \/ OverLimit(layer)
    \/ \E region \in Regions :
         \/ Keep(layer, region)
         \/ \E first \in Readings, retry \in Readings : Recognise(layer, region, first, retry)
         \/ RecognitionFails(layer, region)

Spec == Init /\ [][Next]_vars

-----------------------------------------------------------------------------
TypeOK ==
  /\ pages \in Seq([layer : Layers, text : SUBSET {"native", "ocr", "image"},
                    reading : Readings \cup {"none"}, warned : BOOLEAN])
  /\ Len(pages) <= PageCount
  /\ attempted \in 0 .. OcrPages
  /\ failure \in [why : {"", "limit", "ocr"}, layer : Layers]

(***************************************************************************)
(* Readable text is never lost to recognition, and text below the          *)
(* thresholds never replaces or joins it: a page keeps its readable layer  *)
(* unless a usable reading improved on it; what was recognised is indexed  *)
(* only if usable; a corrupt layer is indexed only under a warning; and a  *)
(* failing engine fails the document only at a page without readable text. *)
(***************************************************************************)
AcceptedText ==
  /\ TypeOK
  /\ \A i \in DOMAIN pages : LET p == pages[i] IN
       /\ p.layer \in {"sparse", "good"} => "native" \in p.text \/ p.reading = "better"
       /\ p.layer = "good" => "native" \in p.text
       /\ p.text \cap {"ocr", "image"} # {} => Usable(p.reading)
       /\ p.layer = "poor" /\ "native" \in p.text => p.warned
  /\ failure.why = "ocr" => failure.layer \in {"none", "poor"}
===============================================================================
