------------------------------- MODULE Content -------------------------------
(***************************************************************************)
(* The content of one stored notice and everything that writes it: the     *)
(* crawl (a new or retitled row, or a notice without content), the update  *)
(* checker, and the two repair commands, which an operator runs beside     *)
(* them.  All but the attachment repair derive the five content fields     *)
(* with one pipeline of stages; the repair of dimensions runs its tail on  *)
(* what is stored.                                                         *)
(*                                                                         *)
(* A body is its words, at most one image with the size its markup gives,  *)
(* whether it holds junk and relative addresses, and its bulk.  An image   *)
(* probe may fail, a page may be edited, fail, or parse to nothing.        *)
(***************************************************************************)
EXTENDS Naturals

CONSTANTS
  None,            \* null
  Urls,            \* addresses of images
  Pages,           \* what the notice's page may show
  Boards,          \* strategies of the board: "custom-php", "jsp-dorm", "other"
  MaxBytes,        \* MAX_CONTENT_BYTES, in units of bulk
  MaxEdits, MaxFailures, MaxRepairs  \* bounds

ASSUME BoundsAssumption == {MaxBytes, MaxEdits, MaxFailures, MaxRepairs} \subseteq Nat

VARIABLES
  board,           \* the strategy, fixed
  page,            \* what the page shows
  retitled,        \* the list row differs from what is stored
  doc,             \* the stored notice, or None
  crawl, tier, repair, links,  \* what each writer holds between read and write
  blame,           \* history: why the stored fields may disagree
  edits, failures, repairs

vars == <<board, page, retitled, doc, crawl, tier, repair, links, blame,
          edits, failures, repairs>>
world == <<board, page, edits>>

-----------------------------------------------------------------------------
(* Bodies, and the stages of DEFAULT_PIPELINE.                             *)

\* An image without a size, with one dimension only, or with both: the site's
\* own or the measured ones.
Known == {"author", "measured"}
NoImage == "no image"

Bytes(html) == html.bulk + (IF html.size \in Known THEN 1 ELSE 0)

NoDims == [u \in {} |-> "none"]
DimsOf(url, size) == IF url # NoImage /\ size \in Known THEN [u \in {url} |-> size] ELSE NoDims

\* dimensions_from_html reads two integer attributes, dimensions_from_markdown
\* the {WxH} hint; half a size is none.
DimensionsFromHtml(html) == IF html = None THEN NoDims ELSE DimsOf(html.url, html.size)

\* Mutation: the hint is not found behind an alternative text with brackets.
NoDimensionsFromMarkdown(markdown) == NoDims

DimensionsFromMarkdown(markdown) ==
  IF markdown = None THEN NoDims ELSE DimsOf(markdown.url, markdown.hint)

ContentDoc(raw, known) ==
  [raw |-> raw, content |-> None, clean |-> None, text |-> None, markdown |-> None,
   hash |-> None, dims |-> known, oversized |-> FALSE]

NormalizeUrls(d) ==
  [d EXCEPT !.content = IF d.raw = None THEN None ELSE [d.raw EXCEPT !.absolute = TRUE]]

\* From raw; a body without words or image sanitises to nothing.
CleanHtml(d) ==
  [d EXCEPT !.clean =
     IF d.raw = None \/ (d.raw.words = 0 /\ d.raw.url = NoImage) THEN None
     ELSE [d.raw EXCEPT !.absolute = TRUE, !.junk = FALSE]]

\* verify_notice_images probes absolute addresses only, never raises, and may
\* come back without a size for any reason.
Probes(content) ==
  {NoDims} \cup (IF content # None /\ content.url # NoImage /\ content.absolute
                 THEN {DimsOf(content.url, "measured")} ELSE {})

\* A live measurement wins over a known one.
VerifyImages(d, live) ==
  [d EXCEPT !.dims = [u \in DOMAIN live \cup DOMAIN d.dims |->
                        IF u \in DOMAIN live THEN live[u] ELSE d.dims[u]]]

InjectImageDimensions(d) ==
  IF d.clean # None /\ d.clean.url \in DOMAIN d.dims /\ d.clean.size = "bare"
  THEN [d EXCEPT !.clean.size = d.dims[d.clean.url]] ELSE d

SizeGuard(d) ==
  IF d.clean # None /\ Bytes(d.clean) > MaxBytes
  THEN [d EXCEPT !.clean = None, !.content = None, !.oversized = TRUE] ELSE d

TextOf(html) == [words |-> html.words, junk |-> html.junk]
ExtractText(d) == [d EXCEPT !.text = IF d.clean = None THEN None ELSE TextOf(d.clean)]

MarkdownOf(html) ==
  IF html = None THEN None ELSE [words |-> html.words, url |-> html.url, hint |-> html.size]
ToMarkdown(d) == [d EXCEPT !.markdown = MarkdownOf(d.clean)]

\* The hash identifies the sanitised body.
HashOf(html) == html
ContentHash(d) == [d EXCEPT !.hash = HashOf(d.clean)]

\* REPAIR_PIPELINE, and the end of every other one.
RepairPipeline(d) == ContentHash(ToMarkdown(ExtractText(SizeGuard(InjectImageDimensions(d)))))

\* Mutation: contentText is what the strategy extracted.
StrategyText(d, fallback) ==
  [content |-> d.content, text |-> fallback, clean |-> d.clean,
   markdown |-> d.markdown, hash |-> d.hash]

\* ContentFields.from_doc, and build_notice: text of a dropped body is not kept.
Fields(d, fallback) ==
  [content |-> d.content, text |-> IF d.clean = None THEN fallback ELSE d.text,
   clean |-> d.clean, markdown |-> d.markdown, hash |-> d.hash]

\* derive_content_fields for what a probe came back with.
Derive(detail, known, live) ==
  RepairPipeline(VerifyImages(CleanHtml(NormalizeUrls(ContentDoc(detail.raw, known))), live))

-----------------------------------------------------------------------------

Files == {0, 1, 2}      \* no attachment, or the one the board numbers 1 or 2
Size == {"bare", "half"} \cup Known
Body == {b \in [words : Nat, url : Urls \cup {NoImage}, size : Size,
                absolute : BOOLEAN, junk : BOOLEAN, bulk : Nat] :
           b.url = NoImage => b.size = "bare"}
Bodies == Body \cup {None}
Texts == [words : Nat, junk : BOOLEAN] \cup {None}
Markdowns == [words : Nat, url : Urls \cup {NoImage}, hint : Size] \cup {None}

ASSUME UrlsAssumption == Urls # {} /\ NoImage \notin Urls
ASSUME PagesAssumption == Pages \subseteq [body : Bodies, files : Files]

\* The content fields, and the notice that stores them.
ContentFields ==
  [content : Bodies, text : Texts, clean : Bodies, markdown : Markdowns, hash : Bodies]
Notice == [content : Bodies, text : Texts, clean : Bodies, markdown : Markdowns, hash : Bodies,
           files : Files, referer : BOOLEAN, byTier : BOOLEAN]

TypeOK ==
  /\ board \in Boards /\ page \in Pages /\ retitled \in BOOLEAN
  /\ doc \in Notice \cup {None}
  /\ crawl \in [fields : ContentFields, files : Files] \cup {None}
  /\ tier \in [seen : [clean : Bodies, hash : Bodies], fields : ContentFields,
               files : Files, oversized : BOOLEAN] \cup {None}
  /\ repair \in [seen : ContentFields, fields : ContentFields] \cup {None}
  /\ links \in [files : Files, referer : BOOLEAN] \cup {None}
  /\ blame \in {"none", "legacy", "repair", "backfill"}
  /\ edits \in 0 .. MaxEdits /\ failures \in 0 .. MaxFailures /\ repairs \in 0 .. MaxRepairs

\* The content fields of a notice, as a writer reads them.
FieldsOf(d) ==
  [content |-> d.content, text |-> d.text, clean |-> d.clean,
   markdown |-> d.markdown, hash |-> d.hash]

\* What crawl_detail stores beside an attachment on this board.
Referer(files) == board = "custom-php" /\ files # 0

\* as_set: all five fields and the attachments, whatever was stored.
Updated(fields, files, byTier) ==
  [content |-> fields.content, text |-> fields.text, clean |-> fields.clean,
   markdown |-> fields.markdown, hash |-> fields.hash,
   files |-> files, referer |-> Referer(files), byTier |-> byTier]

\* A notice as the update checker left it when it derived fields by hand: no
\* size, the strategy's text, no referer, and the markdown of the crawl.
Legacy ==
  LET html == [words |-> 1, url |-> CHOOSE u \in Urls : TRUE, size |-> "bare", absolute |-> TRUE,
               junk |-> FALSE, bulk |-> 1]
  IN  [content |-> [html EXCEPT !.junk = TRUE], text |-> [words |-> 1, junk |-> TRUE],
       clean |-> html, markdown |-> MarkdownOf([html EXCEPT !.size = "measured"]),
       hash |-> HashOf(html), files |-> 1, referer |-> FALSE, byTier |-> TRUE]

Init ==
  /\ board \in Boards /\ page \in Pages /\ retitled = FALSE
  /\ \/ doc = None /\ blame = "none"
     \/ doc = Legacy /\ blame = "legacy"
  /\ crawl = None /\ tier = None /\ repair = None /\ links = None
  /\ edits = 0 /\ failures = 0 /\ repairs = 0

EditPage ==
  /\ edits < MaxEdits /\ edits' = edits + 1
  /\ page' \in Pages \ {page}
  /\ retitled' \in {retitled, doc # None}
  /\ UNCHANGED <<board, doc, crawl, tier, repair, links, blame, failures, repairs>>

\* crawl_detail: the page, nothing after a failure, or an empty detail off a
\* page that does not hold what the selectors look for.
DetailOf(p) == [raw |-> p.body, text |-> IF p.body = None \/ p.body.words = 0 THEN None ELSE TextOf(p.body),
                files |-> p.files]
\* Mutation: without a detail the attachments are null.
NullFiles == [raw |-> None, text |-> None, files |-> None]

EmptyDetail == [raw |-> None, text |-> None, files |-> 0]

Answers(detail) ==
  \/ detail = DetailOf(page) /\ UNCHANGED failures
  \/ failures < MaxFailures /\ failures' = failures + 1 /\ detail \in {None, EmptyDetail}

CanAnswer == {DetailOf(page), None, EmptyDetail}

-----------------------------------------------------------------------------
(* The crawl.                                                              *)

\* A new or retitled row: no known dimensions are passed, and without a detail
\* every field is null.
CrawlItem ==
  /\ crawl = None /\ (doc = None \/ retitled)
  /\ \E detail \in CanAnswer :
       /\ Answers(detail)
       /\ LET got == IF detail = None THEN EmptyDetail ELSE detail
          IN  \E live \in Probes(NormalizeUrls(ContentDoc(got.raw, NoDims)).content) :
                crawl' = [files |-> got.files, fields |-> Fields(Derive(got, NoDims, live), got.text)]
  /\ retitled' = FALSE
  /\ UNCHANGED <<world, doc, tier, repair, links, blame, repairs>>

\* A notice without content, before the list: only a detail is stored.
CrawlPending ==
  /\ crawl = None /\ doc # None /\ doc.content = None
  /\ \E detail \in CanAnswer \ {None} :
       /\ Answers(detail)
       /\ \E live \in Probes(NormalizeUrls(ContentDoc(detail.raw, NoDims)).content) :
            crawl' = [files |-> detail.files,
                      fields |-> Fields(Derive(detail, NoDims, live), detail.text)]
  /\ UNCHANGED <<world, retitled, doc, tier, repair, links, blame, repairs>>

\* The upsert, the update and the refresh set all five fields and the
\* attachments, and leave the history of edits.
CrawlStore ==
  /\ crawl # None
  /\ doc' = Updated(crawl.fields, crawl.files, doc # None /\ doc.byTier)
  /\ crawl' = None /\ blame' = "none"
  /\ UNCHANGED <<world, retitled, tier, repair, links, failures, repairs>>

-----------------------------------------------------------------------------
(* The update checker.                                                     *)

\* Mutation: nothing is known of the images.
NothingKnown(seen) == NoDims

KnownDimensions(seen) == DimensionsFromHtml(seen.clean)

\* A failed or empty detail is a fetch error.
TierCheck ==
  /\ tier = None /\ doc # None
  /\ page.body # None
  /\ LET seen == [clean |-> doc.clean, hash |-> doc.hash]
         detail == DetailOf(page)
     IN  \E live \in Probes(NormalizeUrls(ContentDoc(detail.raw, NoDims)).content) :
           LET d == Derive(detail, KnownDimensions(seen), live)
           IN  tier' = [seen |-> seen, fields |-> Fields(d, detail.text),
                        files |-> detail.files, oversized |-> d.oversized]
  /\ UNCHANGED <<world, retitled, doc, crawl, repair, links, blame, failures, repairs>>

\* A body that vanished is left alone, a missing hash is filled in by itself.
TierStore ==
  /\ tier # None /\ tier' = None
  /\ LET old == tier.seen.hash
         new == tier.fields.hash
     IN  \/ /\ old # None /\ (new = old \/ (new = None /\ ~tier.oversized))
            /\ UNCHANGED <<doc, blame>>
         \/ /\ old = None
            /\ doc' = [doc EXCEPT !.hash = new]
            /\ blame' = IF new = doc.hash THEN blame ELSE "backfill"
         \/ /\ old # None /\ new # old /\ (new # None \/ tier.oversized)
            /\ doc' = Updated(tier.fields, tier.files, TRUE)
            /\ blame' = "none"
  /\ UNCHANGED <<world, retitled, crawl, repair, links, failures, repairs>>

-----------------------------------------------------------------------------
(* The repair commands, with --apply.                                      *)

\* repair_lost_dimensions on a document of DAMAGED_QUERY.
RepairRead ==
  /\ repair = None /\ repairs < MaxRepairs /\ repairs' = repairs + 1
  /\ doc # None /\ doc.byTier /\ doc.clean # None
  /\ repair' =
       [seen |-> FieldsOf(doc),
        fields |-> Fields(RepairPipeline(
          [ContentDoc(None, DimensionsFromMarkdown(doc.markdown)) EXCEPT
             !.content = doc.content, !.clean = doc.clean]), doc.text)]
  /\ UNCHANGED <<world, retitled, doc, crawl, tier, links, blame, failures>>

Patch(new, old, now) == IF new # old THEN new ELSE now

\* Only the fields that differ are set, on whatever is stored by now.
RepairWrite ==
  /\ repair # None /\ repair' = None
  /\ LET new == repair.fields
         old == repair.seen
     IN  /\ doc' = [doc EXCEPT !.content = Patch(new.content, old.content, @),
                               !.text = Patch(new.text, old.text, @),
                               !.clean = Patch(new.clean, old.clean, @),
                               !.markdown = Patch(new.markdown, old.markdown, @),
                               !.hash = Patch(new.hash, old.hash, @)]
         /\ blame' = IF new = old THEN blame ELSE IF FieldsOf(doc) = old THEN "none" ELSE "repair"
  /\ UNCHANGED <<world, retitled, crawl, tier, links, failures, repairs>>

\* repair_attachments on a notice of a board it has a mode for: the missing
\* referer is filled in from stored data, or the list is read off the page.  A
\* list that would not change is not written.
LinksRead ==
  /\ links = None /\ repairs < MaxRepairs /\ repairs' = repairs + 1
  /\ doc # None /\ doc.files # 0
  /\ \/ /\ board = "custom-php"
        /\ ~doc.referer
        /\ links' = [files |-> doc.files, referer |-> TRUE]
        /\ UNCHANGED failures
     \/ /\ board \in {"custom-php", "jsp-dorm"}
        /\ \E detail \in CanAnswer \ {None} :
             /\ Answers(detail)
             /\ links' = [files |-> detail.files, referer |-> Referer(detail.files)]
             /\ links'.files # doc.files \/ links'.referer # doc.referer
  /\ UNCHANGED <<world, retitled, doc, crawl, tier, repair, blame>>

LinksWrite ==
  /\ links # None /\ links' = None
  /\ doc' = [doc EXCEPT !.files = links.files, !.referer = links.referer]
  /\ UNCHANGED <<world, retitled, crawl, tier, repair, blame, failures, repairs>>

Next ==
  \/ EditPage
  \/ CrawlItem \/ CrawlPending \/ CrawlStore
  \/ TierCheck \/ TierStore
  \/ RepairRead \/ RepairWrite \/ LinksRead \/ LinksWrite

Spec == Init /\ [][Next]_vars

-----------------------------------------------------------------------------

Agree(d) ==
  /\ d.markdown = MarkdownOf(d.clean) /\ d.hash = HashOf(d.clean)
  /\ d.clean # None => d.text = TextOf(d.clean) /\ Bytes(d.clean) <= MaxBytes

\* stages.py: whichever writer was last and however the probes went, text,
\* markdown and hash describe the stored cleanHtml, and it fits; but for a
\* notice not repaired yet, a repair that wrote over a newer body, and a hash
\* filled in for a body that was not stored.
FieldsAgree == doc # None /\ blame = "none" => Agree(doc)

\* The size the markdown had kept is back on the image the body still has.
SizeIsBack ==
  doc'.clean # None /\ doc.clean.size = "bare" /\ doc.clean.url # NoImage
    /\ doc.markdown # None /\ doc.markdown.url = doc.clean.url /\ doc.markdown.hint \in Known
    => doc'.clean.size = doc.markdown.hint

\* repair.py: a repair that wrote what it read leaves fields that agree, and
\* the image, if the body still has it, at the size the old markdown had kept.
RepairRestores ==
  [][RepairWrite /\ FieldsOf(doc) = repair.seen => Agree(doc') /\ SizeIsBack]_vars

Undisturbed == doc # None /\ tier.seen = [clean |-> doc.clean, hash |-> doc.hash]
SameImage == doc.clean # None /\ doc'.clean # None /\ doc'.clean.url = doc.clean.url

\* update_checker.py: a check of the notice it read never takes the size off an
\* image that stayed, however slow the image's host is.
TierTwoKeepsSizes ==
  [][TierStore /\ Undisturbed /\ SameImage /\ doc.clean.size \in Known
       => doc'.clean.size # "bare"]_vars
=============================================================================
