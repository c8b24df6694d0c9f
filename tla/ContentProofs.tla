---------------------------- MODULE ContentProofs ----------------------------
(***************************************************************************)
(* Proofs about Content, for any pages, images and size limit: whichever   *)
(* writer comes last, what is stored goes together, and no writer loses    *)
(* the size of an image it knew.                                           *)
(*                                                                         *)
(* One lemma per stage, then what a whole pipeline returns; the invariant  *)
(* says of each writer, between its read and its write, what it holds.     *)
(***************************************************************************)
EXTENDS Content, TLAPS

\* Sizes known of images, by address.
Dims == UNION {[U -> Known] : U \in SUBSET Urls}

\* What the stages hand on.
PipelineDoc ==
  [raw : Bodies, content : Bodies, clean : Bodies, text : Texts, markdown : Markdowns,
   hash : Bodies, dims : Dims, oversized : BOOLEAN]

-----------------------------------------------------------------------------
(* Bodies and sizes.                                                       *)

\* A known size is a size, and bare is not a known one.
LEMMA KnownFacts == Known \subseteq Size /\ "bare" \in Size /\ "bare" \notin Known
BY DEF Known, Size

\* The fields of a body; one without an image carries no size.
LEMMA BodyFacts ==
  ASSUME NEW b \in Body
  PROVE  /\ b.words \in Nat /\ b.bulk \in Nat /\ b.size \in Size /\ b.url \in Urls \cup {NoImage}
         /\ b.absolute \in BOOLEAN /\ b.junk \in BOOLEAN
         /\ b.url = NoImage => b.size = "bare"
         /\ Bytes(b) \in Nat
BY DEF Body, Bytes

\* An image takes another size.
LEMMA SetSize ==
  ASSUME NEW b \in Body, b.url # NoImage, NEW size \in Size
  PROVE  /\ [b EXCEPT !.size = size] \in Body
         /\ [b EXCEPT !.size = size].url = b.url
         /\ [b EXCEPT !.size = size].size = size
BY DEF Body

\* A body with its addresses resolved, or cleaned, is a body with the same image.
LEMMA SetAbsolute ==
  ASSUME NEW b \in Body
  PROVE  /\ [b EXCEPT !.absolute = TRUE] \in Body
         /\ [b EXCEPT !.absolute = TRUE, !.junk = FALSE] \in Body
         /\ [b EXCEPT !.absolute = TRUE, !.junk = FALSE].url = b.url
BY DEF Body

\* Sizes known of images are known sizes of addresses.
LEMMA DimsFacts ==
  /\ NoDims \in Dims
  /\ \A url \in Urls \cup {NoImage}, size \in Size : DimsOf(url, size) \in Dims
  /\ \A url \in Urls, size \in Known :
       url \in DOMAIN DimsOf(url, size) /\ DimsOf(url, size)[url] = size
  /\ \A dims \in Dims : DOMAIN dims \subseteq Urls /\ \A u \in DOMAIN dims : dims[u] \in Known
<1>1. NoDims \in [{} -> Known] BY DEF NoDims
<1>2. NoDims \in Dims BY <1>1 DEF Dims
<1>3. ASSUME NEW url \in Urls \cup {NoImage}, NEW size \in Size
      PROVE  DimsOf(url, size) \in Dims
  <2>1. CASE url # NoImage /\ size \in Known
    <3>1. DimsOf(url, size) \in [{url} -> Known] BY <2>1 DEF DimsOf
    <3>2. {url} \in SUBSET Urls BY <2>1
    <3> QED BY <3>1, <3>2 DEF Dims
  <2>2. CASE ~(url # NoImage /\ size \in Known) BY <1>2, <2>2 DEF DimsOf
  <2> QED BY <2>1, <2>2
<1>4. \A url \in Urls, size \in Known :
        url \in DOMAIN DimsOf(url, size) /\ DimsOf(url, size)[url] = size
  BY UrlsAssumption DEF DimsOf
<1>5. \A dims \in Dims : DOMAIN dims \subseteq Urls /\ \A u \in DOMAIN dims : dims[u] \in Known
  BY DEF Dims
<1> QED BY <1>2, <1>3, <1>4, <1>5

\* A stage that sets the known sizes keeps the body.
LEMMA SetDims ==
  ASSUME NEW d \in PipelineDoc, NEW dims \in Dims
  PROVE  /\ [d EXCEPT !.dims = dims] \in PipelineDoc
         /\ [d EXCEPT !.dims = dims].dims = dims
         /\ [d EXCEPT !.dims = dims].clean = d.clean
BY DEF PipelineDoc

\* A stage that sets cleanHtml keeps the known sizes.
LEMMA SetClean ==
  ASSUME NEW d \in PipelineDoc, NEW html \in Bodies
  PROVE  /\ [d EXCEPT !.clean = html] \in PipelineDoc
         /\ [d EXCEPT !.clean = html].clean = html
         /\ [d EXCEPT !.clean = html].dims = d.dims
BY DEF PipelineDoc

\* A stage that sets content keeps the body and the known sizes.
LEMMA SetContent ==
  ASSUME NEW d \in PipelineDoc, NEW html \in Bodies
  PROVE  /\ [d EXCEPT !.content = html] \in PipelineDoc
         /\ [d EXCEPT !.content = html].clean = d.clean
         /\ [d EXCEPT !.content = html].raw = d.raw
         /\ [d EXCEPT !.content = html].dims = d.dims
BY DEF PipelineDoc

\* A stage that sets the text keeps the body.
LEMMA SetText ==
  ASSUME NEW d \in PipelineDoc, NEW text \in Texts
  PROVE  /\ [d EXCEPT !.text = text] \in PipelineDoc
         /\ [d EXCEPT !.text = text].text = text
         /\ [d EXCEPT !.text = text].clean = d.clean
BY DEF PipelineDoc

\* A stage that sets the Markdown keeps text and body.
LEMMA SetMarkdown ==
  ASSUME NEW d \in PipelineDoc, NEW markdown \in Markdowns
  PROVE  /\ [d EXCEPT !.markdown = markdown] \in PipelineDoc
         /\ [d EXCEPT !.markdown = markdown].markdown = markdown
         /\ [d EXCEPT !.markdown = markdown].text = d.text
         /\ [d EXCEPT !.markdown = markdown].clean = d.clean
BY DEF PipelineDoc

\* A stage that sets the hash keeps text, Markdown and body.
LEMMA SetHash ==
  ASSUME NEW d \in PipelineDoc, NEW hash \in Bodies
  PROVE  /\ [d EXCEPT !.hash = hash] \in PipelineDoc
         /\ [d EXCEPT !.hash = hash].hash = hash
         /\ [d EXCEPT !.hash = hash].text = d.text
         /\ [d EXCEPT !.hash = hash].markdown = d.markdown
         /\ [d EXCEPT !.hash = hash].clean = d.clean
BY DEF PipelineDoc

-----------------------------------------------------------------------------
(* The stages.                                                             *)

\* A pipeline starts from a typed document.
LEMMA NewDoc ==
  ASSUME NEW raw \in Bodies, NEW known \in Dims
  PROVE  /\ ContentDoc(raw, known) \in PipelineDoc
         /\ ContentDoc(raw, known).raw = raw /\ ContentDoc(raw, known).dims = known
<1>1. None \in Bodies /\ None \in Texts /\ None \in Markdowns BY DEF Bodies, Texts, Markdowns
<1> QED BY <1>1 DEF ContentDoc, PipelineDoc

\* The fields of a document between stages.
LEMMA DocFields ==
  ASSUME NEW d \in PipelineDoc
  PROVE  /\ d.raw \in Bodies /\ d.content \in Bodies /\ d.clean \in Bodies
         /\ d.text \in Texts /\ d.markdown \in Markdowns /\ d.hash \in Bodies
         /\ d.dims \in Dims /\ d.oversized \in BOOLEAN
BY DEF PipelineDoc

\* A body that is not null is a body.
LEMMA BodyOrNone ==
  /\ None \in Bodies
  /\ \A b \in Bodies : b # None => b \in Body
  /\ Body \subseteq Bodies
BY DEF Bodies

\* NormalizeUrls keeps the types, the raw body and the known sizes.
LEMMA NormalizeUrlsStage ==
  ASSUME NEW d \in PipelineDoc
  PROVE  /\ NormalizeUrls(d) \in PipelineDoc
         /\ NormalizeUrls(d).raw = d.raw /\ NormalizeUrls(d).dims = d.dims
<1> DEFINE html == IF d.raw = None THEN None ELSE [d.raw EXCEPT !.absolute = TRUE]
<1>1. html \in Bodies BY DocFields, BodyOrNone, SetAbsolute
<1>2. NormalizeUrls(d) = [d EXCEPT !.content = html] BY DEF NormalizeUrls
<1> HIDE DEF html
<1> QED BY <1>1, <1>2, SetContent

\* CleanHtml keeps the types and the known sizes.
LEMMA CleanHtmlStage ==
  ASSUME NEW d \in PipelineDoc
  PROVE  /\ CleanHtml(d) \in PipelineDoc
         /\ CleanHtml(d).dims = d.dims
<1> DEFINE html == IF d.raw = None \/ (d.raw.words = 0 /\ d.raw.url = NoImage) THEN None
                   ELSE [d.raw EXCEPT !.absolute = TRUE, !.junk = FALSE]
<1>1. html \in Bodies BY DocFields, BodyOrNone, SetAbsolute
<1>2. CleanHtml(d) = [d EXCEPT !.clean = html] BY DEF CleanHtml
<1> HIDE DEF html
<1> QED BY <1>1, <1>2, SetClean

\* What a probe brings back are measured sizes of addresses.
LEMMA ProbesType ==
  ASSUME NEW content \in Bodies, NEW live \in Probes(content)
  PROVE  live \in Dims
<1>1. CASE live = NoDims BY <1>1, DimsFacts
<1>2. CASE content # None /\ live = DimsOf(content.url, "measured")
  <2>1. content.url \in Urls \cup {NoImage} BY <1>2, BodyOrNone, BodyFacts
  <2>2. "measured" \in Size BY DEF Size, Known
  <2> QED BY <1>2, <2>1, <2>2, DimsFacts
<1> QED BY <1>1, <1>2 DEF Probes

\* A size that was known stays known, though a measured one replaces it.
LEMMA VerifyImagesStage ==
  ASSUME NEW d \in PipelineDoc, NEW live \in Dims
  PROVE  /\ VerifyImages(d, live) \in PipelineDoc
         /\ VerifyImages(d, live).clean = d.clean
         /\ DOMAIN d.dims \subseteq DOMAIN VerifyImages(d, live).dims
<1> DEFINE both == [u \in DOMAIN live \cup DOMAIN d.dims |->
                      IF u \in DOMAIN live THEN live[u] ELSE d.dims[u]]
<1>1. d.dims \in Dims BY DocFields
<1>2. DOMAIN live \cup DOMAIN d.dims \in SUBSET Urls BY <1>1, DimsFacts
<1>3. both \in [DOMAIN live \cup DOMAIN d.dims -> Known] BY <1>1, DimsFacts
<1>4. both \in Dims BY <1>2, <1>3 DEF Dims
<1>5. DOMAIN d.dims \subseteq DOMAIN both OBVIOUS
<1>6. VerifyImages(d, live) = [d EXCEPT !.dims = both] BY DEF VerifyImages
<1> HIDE DEF both
<1> QED BY <1>4, <1>5, <1>6, SetDims

\* The body keeps its image; a bare one takes the size that is known of it.
LEMMA InjectStage ==
  ASSUME NEW d \in PipelineDoc
  PROVE  LET e == InjectImageDimensions(d)
         IN /\ e \in PipelineDoc
            /\ e.clean # None =>
                 /\ d.clean # None /\ e.clean.url = d.clean.url
                 /\ IF d.clean.size = "bare" /\ d.clean.url \in DOMAIN d.dims
                    THEN e.clean.size = d.dims[d.clean.url]
                    ELSE e.clean = d.clean
<1>1. CASE d.clean # None /\ d.clean.url \in DOMAIN d.dims /\ d.clean.size = "bare"
  <2> DEFINE html == [d.clean EXCEPT !.size = d.dims[d.clean.url]]
  <2>1. d.clean \in Body /\ d.dims \in Dims BY <1>1, DocFields, BodyOrNone
  <2>2. d.dims[d.clean.url] \in Known /\ d.clean.url \in Urls BY <1>1, <2>1, DimsFacts
  <2>3. d.clean.url # NoImage BY <2>2, UrlsAssumption
  <2>4. html \in Body /\ html.url = d.clean.url /\ html.size = d.dims[d.clean.url]
    BY <2>1, <2>2, <2>3, SetSize, KnownFacts
  <2>5. InjectImageDimensions(d) = [d EXCEPT !.clean = html]
    BY <1>1 DEF InjectImageDimensions
  <2> HIDE DEF html
  <2> QED BY <1>1, <2>4, <2>5, SetClean, BodyOrNone
<1>2. CASE ~(d.clean # None /\ d.clean.url \in DOMAIN d.dims /\ d.clean.size = "bare")
  BY <1>2 DEF InjectImageDimensions
<1> QED BY <1>1, <1>2

\* What passes the size guard is unchanged and fits.
LEMMA SizeGuardStage ==
  ASSUME NEW d \in PipelineDoc
  PROVE  LET e == SizeGuard(d)
         IN /\ e \in PipelineDoc
            /\ e.clean # None => e.clean = d.clean /\ Bytes(e.clean) <= MaxBytes
<1>1. CASE d.clean # None /\ Bytes(d.clean) > MaxBytes
  <2>1. SizeGuard(d) = [d EXCEPT !.clean = None, !.content = None, !.oversized = TRUE]
    BY <1>1 DEF SizeGuard
  <2>2. None \in Bodies BY BodyOrNone
  <2>3. SizeGuard(d) \in PipelineDoc /\ SizeGuard(d).clean = None
    BY <2>1, <2>2 DEF PipelineDoc
  <2> QED BY <2>3
<1>2. CASE ~(d.clean # None /\ Bytes(d.clean) > MaxBytes)
  <2>1. SizeGuard(d) = d BY <1>2 DEF SizeGuard
  <2>2. d.clean # None => Bytes(d.clean) \in Nat BY DocFields, BodyOrNone, BodyFacts
  <2>3. MaxBytes \in Nat BY BoundsAssumption
  <2> QED BY <1>2, <2>1, <2>2, <2>3
<1> QED BY <1>1, <1>2

\* The text of a body is a text.
LEMMA TextType ==
  ASSUME NEW html \in Body
  PROVE  TextOf(html) \in Texts
BY BodyFacts DEF TextOf, Texts

\* The Markdown of a body, or of none, is Markdown.
LEMMA MarkdownType ==
  ASSUME NEW html \in Bodies
  PROVE  MarkdownOf(html) \in Markdowns
BY BodyFacts, BodyOrNone DEF MarkdownOf, Markdowns

\* ExtractText sets the text of the body.
LEMMA ExtractTextStage ==
  ASSUME NEW d \in PipelineDoc
  PROVE  /\ ExtractText(d) \in PipelineDoc /\ ExtractText(d).clean = d.clean
         /\ d.clean # None => ExtractText(d).text = TextOf(d.clean)
<1> DEFINE text == IF d.clean = None THEN None ELSE TextOf(d.clean)
<1>1. text \in Texts BY DocFields, BodyOrNone, TextType DEF Texts
<1>2. ExtractText(d) = [d EXCEPT !.text = text] BY DEF ExtractText
<1>3. d.clean # None => text = TextOf(d.clean) OBVIOUS
<1> HIDE DEF text
<1> QED BY <1>1, <1>2, <1>3, SetText

\* ToMarkdown sets the Markdown of the body.
LEMMA ToMarkdownStage ==
  ASSUME NEW d \in PipelineDoc
  PROVE  /\ ToMarkdown(d) \in PipelineDoc
         /\ ToMarkdown(d).clean = d.clean /\ ToMarkdown(d).text = d.text
         /\ ToMarkdown(d).markdown = MarkdownOf(d.clean)
BY DocFields, MarkdownType, SetMarkdown DEF ToMarkdown

\* ContentHash sets the hash of the body.
LEMMA ContentHashStage ==
  ASSUME NEW d \in PipelineDoc
  PROVE  /\ ContentHash(d) \in PipelineDoc
         /\ ContentHash(d).clean = d.clean /\ ContentHash(d).text = d.text
         /\ ContentHash(d).markdown = d.markdown
         /\ ContentHash(d).hash = HashOf(d.clean)
<1>1. HashOf(d.clean) \in Bodies BY DocFields DEF HashOf
<1> QED BY <1>1, SetHash DEF ContentHash

\* The end of every pipeline: text, markdown and hash are those of the body,
\* which fits; the body has its image, at the size that was known if it had none.
LEMMA RepairPipelineResult ==
  ASSUME NEW d \in PipelineDoc
  PROVE  LET e == RepairPipeline(d)
         IN /\ e \in PipelineDoc
            /\ e.markdown = MarkdownOf(e.clean) /\ e.hash = HashOf(e.clean)
            /\ e.clean # None =>
                 /\ e.text = TextOf(e.clean) /\ Bytes(e.clean) <= MaxBytes
                 /\ d.clean # None /\ e.clean.url = d.clean.url
                 /\ IF d.clean.size = "bare" /\ d.clean.url \in DOMAIN d.dims
                    THEN e.clean.size = d.dims[d.clean.url]
                    ELSE e.clean = d.clean
<1> DEFINE i == InjectImageDimensions(d)
           g == SizeGuard(i)
           t == ExtractText(g)
           m == ToMarkdown(t)
           e == ContentHash(m)
<1>1. i \in PipelineDoc BY InjectStage
<1>2. g \in PipelineDoc /\ (g.clean # None => g.clean = i.clean /\ Bytes(g.clean) <= MaxBytes)
  BY <1>1, SizeGuardStage
<1>3. g.clean # None =>
        /\ d.clean # None /\ g.clean.url = d.clean.url
        /\ IF d.clean.size = "bare" /\ d.clean.url \in DOMAIN d.dims
           THEN g.clean.size = d.dims[d.clean.url]
           ELSE g.clean = d.clean
  BY <1>2, InjectStage
<1>4. RepairPipeline(d) = e BY DEF RepairPipeline
<1> HIDE DEF i, g
<1>5. /\ t \in PipelineDoc /\ t.clean = g.clean
      /\ g.clean # None => t.text = TextOf(g.clean)
  BY <1>2, ExtractTextStage
<1> HIDE DEF t
<1>6. /\ m \in PipelineDoc /\ m.clean = g.clean /\ m.text = t.text
      /\ m.markdown = MarkdownOf(g.clean)
  BY <1>5, ToMarkdownStage
<1> HIDE DEF m
<1>7. /\ e \in PipelineDoc /\ e.clean = g.clean /\ e.text = t.text
      /\ e.markdown = MarkdownOf(g.clean) /\ e.hash = HashOf(g.clean)
  BY <1>6, ContentHashStage
<1> HIDE DEF e
<1> QED BY <1>2, <1>3, <1>4, <1>5, <1>7

\* The fields of a fresh derivation: they agree, and an image whose size was
\* known before is not left without one.
LEMMA DeriveResult ==
  ASSUME NEW detail, detail.raw \in Bodies, NEW known \in Dims,
         NEW live \in Probes(NormalizeUrls(ContentDoc(detail.raw, NoDims)).content)
  PROVE  LET e == Derive(detail, known, live)
         IN /\ e \in PipelineDoc
            /\ Agree(e)
            /\ e.clean # None /\ e.clean.url \in DOMAIN known => e.clean.size # "bare"
<1> DEFINE n == NormalizeUrls(ContentDoc(detail.raw, known))
           c == CleanHtml(n)
           v == VerifyImages(c, live)
           e == RepairPipeline(v)
<1>1. live \in Dims
  <2>1. NormalizeUrls(ContentDoc(detail.raw, NoDims)) \in PipelineDoc
    BY NewDoc, NormalizeUrlsStage, DimsFacts
  <2> QED BY <2>1, DocFields, ProbesType
<1>2. n \in PipelineDoc /\ n.dims = known BY NewDoc, NormalizeUrlsStage
<1>3. Derive(detail, known, live) = e BY DEF Derive
<1> HIDE DEF n
<1>4. c \in PipelineDoc /\ c.dims = known BY <1>2, CleanHtmlStage
<1> HIDE DEF c
<1>5. v \in PipelineDoc /\ DOMAIN known \subseteq DOMAIN v.dims
  BY <1>1, <1>4, VerifyImagesStage
<1> HIDE DEF v
<1>6. /\ e \in PipelineDoc
      /\ e.markdown = MarkdownOf(e.clean) /\ e.hash = HashOf(e.clean)
      /\ e.clean # None =>
           /\ e.text = TextOf(e.clean) /\ Bytes(e.clean) <= MaxBytes
           /\ e.clean.url = v.clean.url
           /\ IF v.clean.size = "bare" /\ v.clean.url \in DOMAIN v.dims
              THEN e.clean.size = v.dims[v.clean.url]
              ELSE e.clean = v.clean
  BY <1>5, RepairPipelineResult
<1> HIDE DEF e
<1>7. Agree(e) BY <1>6 DEF Agree
<1>8. ASSUME e.clean # None, e.clean.url \in DOMAIN known PROVE e.clean.size # "bare"
  <2>1. v.clean.url \in DOMAIN v.dims BY <1>5, <1>6, <1>8
  <2>2. v.dims[v.clean.url] \in Known BY <1>5, <2>1, DocFields, DimsFacts
  <2> QED BY <1>6, <1>8, <2>1, <2>2, KnownFacts
<1> QED BY <1>3, <1>6, <1>7, <1>8

\* The fields a writer takes from a document agree if the document does.
LEMMA FieldsResult ==
  ASSUME NEW d \in PipelineDoc, Agree(d), NEW fallback \in Texts
  PROVE  /\ Fields(d, fallback) \in ContentFields
         /\ Agree(Fields(d, fallback))
         /\ Fields(d, fallback).clean = d.clean
<1>1. Fields(d, fallback) \in ContentFields BY DocFields DEF Fields, ContentFields
<1>2. /\ Fields(d, fallback).clean = d.clean /\ Fields(d, fallback).hash = d.hash
      /\ Fields(d, fallback).markdown = d.markdown
      /\ d.clean # None => Fields(d, fallback).text = d.text
  BY DEF Fields
<1> QED BY <1>1, <1>2 DEF Agree

-----------------------------------------------------------------------------
(* The invariant.                                                          *)

\* What a writer holds was derived in one go.
WritersAgree ==
  /\ crawl # None => Agree(crawl.fields)
  /\ tier # None => Agree(tier.fields)
  /\ repair # None => Agree(repair.fields)

\* A notice that somebody read is still there, and FieldsAgree of it: the next
\* write does not look whether there is one.
NoticeStays ==
  tier # None \/ repair # None \/ links # None =>
    doc \in Notice /\ (blame = "none" => Agree(doc))

\* A check keeps a size for the image it knew one of.
TierSizes ==
  tier # None =>
    (/\ tier.seen.clean # None /\ tier.seen.clean.size \in Known
     /\ tier.fields.clean # None /\ tier.fields.clean.url = tier.seen.clean.url
     => tier.fields.clean.size # "bare")

\* A repair gives the image the size the markdown had kept.
RepairSizes ==
  repair # None =>
    (/\ repair.fields.clean # None
     /\ repair.seen.clean.size = "bare" /\ repair.seen.clean.url # NoImage
     /\ repair.seen.markdown # None /\ repair.seen.markdown.url = repair.seen.clean.url
     /\ repair.seen.markdown.hint \in Known
     => repair.fields.clean.size = repair.seen.markdown.hint)

IInv == TypeOK /\ WritersAgree /\ NoticeStays /\ TierSizes /\ RepairSizes /\ FieldsAgree

\* The fields of a stored notice.
LEMMA NoticeFacts ==
  ASSUME NEW d \in Notice
  PROVE  /\ d.content \in Bodies /\ d.text \in Texts /\ d.clean \in Bodies
         /\ d.markdown \in Markdowns /\ d.hash \in Bodies
         /\ d.files \in Files /\ d.referer \in BOOLEAN /\ d.byTier \in BOOLEAN
         /\ FieldsOf(d) \in ContentFields
BY DEF Notice, FieldsOf, ContentFields

\* A notice set from fields that agree agrees.
LEMMA UpdatedFacts ==
  ASSUME NEW fields \in ContentFields, NEW files \in Files, NEW byTier \in BOOLEAN
  PROVE  /\ Updated(fields, files, byTier) \in Notice
         /\ Updated(fields, files, byTier).clean = fields.clean
         /\ Agree(fields) => Agree(Updated(fields, files, byTier))
<1>1. Updated(fields, files, byTier) \in Notice
  BY DEF Updated, ContentFields, Notice, Referer
<1>2. /\ Updated(fields, files, byTier).clean = fields.clean
      /\ Updated(fields, files, byTier).text = fields.text
      /\ Updated(fields, files, byTier).markdown = fields.markdown
      /\ Updated(fields, files, byTier).hash = fields.hash
  BY DEF Updated
<1> QED BY <1>1, <1>2 DEF Agree

\* A page parses to a typed detail.
LEMMA DetailFacts ==
  ASSUME TypeOK
  PROVE  /\ DetailOf(page).raw \in Bodies /\ DetailOf(page).text \in Texts
         /\ DetailOf(page).files \in Files
         /\ EmptyDetail.raw \in Bodies /\ EmptyDetail.text \in Texts
         /\ EmptyDetail.files \in Files
<1>1. page.body \in Bodies /\ page.files \in Files BY PagesAssumption DEF TypeOK
<1>2. None \in Texts /\ 0 \in Files BY DEF Texts, Files
<1>3. page.body # None => TextOf(page.body) \in Texts BY <1>1, BodyOrNone, TextType
<1> QED BY <1>1, <1>2, <1>3, BodyOrNone DEF DetailOf, EmptyDetail

\* Nothing is stored at first, or a notice that is to blame.
LEMMA InitIInv == Init => IInv
<1> SUFFICES ASSUME Init PROVE IInv
  OBVIOUS
<1>1. 0 \in 0 .. MaxEdits /\ 0 \in 0 .. MaxFailures /\ 0 \in 0 .. MaxRepairs
  BY BoundsAssumption
<1>2. ASSUME doc \in Notice \cup {None}, doc = None \/ blame # "none",
             blame \in {"none", "legacy", "repair", "backfill"}
      PROVE  IInv
  <2>1. TypeOK BY <1>1, <1>2 DEF Init, TypeOK
  <2> QED
    BY <1>2, <2>1
    DEF Init, IInv, WritersAgree, NoticeStays, TierSizes, RepairSizes, FieldsAgree
<1>3. CASE doc = None /\ blame = "none" BY <1>2, <1>3
<1>4. CASE doc = Legacy /\ blame = "legacy"
  <2> DEFINE url == CHOOSE u \in Urls : TRUE
             html == [words |-> 1, url |-> url, size |-> "bare", absolute |-> TRUE,
                      junk |-> FALSE, bulk |-> 1]
  <2>1. url \in Urls BY UrlsAssumption
  <2> HIDE DEF url
  <2>2. /\ html \in Body /\ [html EXCEPT !.junk = TRUE] \in Body
        /\ [html EXCEPT !.size = "measured"] \in Body
    BY <2>1, UrlsAssumption DEF Body, Size, Known
  <2>3. /\ MarkdownOf([html EXCEPT !.size = "measured"]) \in Markdowns
        /\ HashOf(html) \in Bodies /\ html \in Bodies /\ [html EXCEPT !.junk = TRUE] \in Bodies
    BY <2>2, BodyOrNone, MarkdownType DEF HashOf
  <2>4. [words |-> 1, junk |-> TRUE] \in Texts BY DEF Texts
  <2>5. Legacy = [content |-> [html EXCEPT !.junk = TRUE], text |-> [words |-> 1, junk |-> TRUE],
                  clean |-> html, markdown |-> MarkdownOf([html EXCEPT !.size = "measured"]),
                  hash |-> HashOf(html), files |-> 1, referer |-> FALSE, byTier |-> TRUE]
    BY DEF Legacy, url
  <2> HIDE DEF html
  <2>6. 1 \in Files BY DEF Files
  <2>7. doc \in Notice BY <1>4, <2>3, <2>4, <2>5, <2>6 DEF Notice
  <2> QED BY <1>2, <1>4, <2>7
<1> QED BY <1>3, <1>4 DEF Init

\* A detail that crawl_detail answers with is typed, the empty one included.
LEMMA AnswerType ==
  ASSUME TypeOK, NEW detail \in CanAnswer, Answers(detail)
  PROVE  /\ failures' \in 0 .. MaxFailures
         /\ detail # None => /\ detail.raw \in Bodies /\ detail.text \in Texts
                             /\ detail.files \in Files
<1>1. failures' \in 0 .. MaxFailures BY BoundsAssumption DEF Answers, TypeOK
<1> QED BY <1>1, DetailFacts DEF CanAnswer

\* The read of the crawl, whichever detail it got.
LEMMA CrawlReads ==
  ASSUME IInv, NEW got, got.raw \in Bodies, got.text \in Texts, got.files \in Files,
         NEW live \in Probes(NormalizeUrls(ContentDoc(got.raw, NoDims)).content),
         crawl' = [files |-> got.files, fields |-> Fields(Derive(got, NoDims, live), got.text)],
         failures' \in 0 .. MaxFailures, retitled' \in BOOLEAN,
         UNCHANGED <<world, doc, tier, repair, links, blame, repairs>>
  PROVE  IInv'
<1> DEFINE d == Derive(got, NoDims, live)
<1>1. d \in PipelineDoc /\ Agree(d) BY DimsFacts, DeriveResult
<1> HIDE DEF d
<1>2. Fields(d, got.text) \in ContentFields /\ Agree(Fields(d, got.text))
  BY <1>1, FieldsResult
<1>3. crawl' = [files |-> got.files, fields |-> Fields(d, got.text)] BY DEF d
<1>4. crawl' \in [fields : ContentFields, files : Files] /\ Agree(crawl'.fields)
  BY <1>2, <1>3
<1>5. TypeOK' BY <1>4 DEF IInv, TypeOK, world
<1> QED
  BY <1>4, <1>5
  DEF IInv, WritersAgree, NoticeStays, TierSizes, RepairSizes, FieldsAgree, world, Agree

\* The crawl reads a new or retitled row.
LEMMA CrawlItemStep ==
  ASSUME IInv, CrawlItem
  PROVE  IInv'
<1>1. PICK detail \in CanAnswer :
        /\ Answers(detail)
        /\ LET got == IF detail = None THEN EmptyDetail ELSE detail
           IN  \E live \in Probes(NormalizeUrls(ContentDoc(got.raw, NoDims)).content) :
                 crawl' = [files |-> got.files, fields |-> Fields(Derive(got, NoDims, live), got.text)]
  BY DEF CrawlItem
<1> DEFINE got == IF detail = None THEN EmptyDetail ELSE detail
<1>2. got.raw \in Bodies /\ got.text \in Texts /\ got.files \in Files
  BY <1>1, AnswerType, DetailFacts DEF IInv
<1>3. PICK live \in Probes(NormalizeUrls(ContentDoc(got.raw, NoDims)).content) :
        crawl' = [files |-> got.files, fields |-> Fields(Derive(got, NoDims, live), got.text)]
  BY <1>1
<1> HIDE DEF got
<1>4. failures' \in 0 .. MaxFailures BY <1>1, AnswerType DEF IInv
<1>5. retitled' \in BOOLEAN /\ UNCHANGED <<world, doc, tier, repair, links, blame, repairs>>
  BY DEF CrawlItem
<1> QED BY <1>2, <1>3, <1>4, <1>5, CrawlReads

\* The crawl reads a notice without content.
LEMMA CrawlPendingStep ==
  ASSUME IInv, CrawlPending
  PROVE  IInv'
<1>1. PICK detail \in CanAnswer \ {None} :
        /\ Answers(detail)
        /\ \E live \in Probes(NormalizeUrls(ContentDoc(detail.raw, NoDims)).content) :
             crawl' = [files |-> detail.files,
                       fields |-> Fields(Derive(detail, NoDims, live), detail.text)]
  BY DEF CrawlPending
<1>2. /\ detail.raw \in Bodies /\ detail.text \in Texts /\ detail.files \in Files
      /\ failures' \in 0 .. MaxFailures
  BY <1>1, AnswerType DEF IInv
<1>3. retitled' \in BOOLEAN /\ UNCHANGED <<world, doc, tier, repair, links, blame, repairs>>
  BY DEF CrawlPending, IInv, TypeOK
<1> QED BY <1>1, <1>2, <1>3, CrawlReads

\* The crawl stores what it derived.
LEMMA CrawlStoreStep ==
  ASSUME IInv, CrawlStore
  PROVE  IInv'
<1>1. crawl \in [fields : ContentFields, files : Files] /\ Agree(crawl.fields)
  BY DEF CrawlStore, IInv, TypeOK, WritersAgree
<1>2. (doc # None /\ doc.byTier) \in BOOLEAN OBVIOUS
<1>3. doc' \in Notice /\ Agree(doc')
  BY <1>1, <1>2, UpdatedFacts DEF CrawlStore
<1>4. TypeOK' BY <1>3 DEF CrawlStore, IInv, TypeOK, world
<1> QED
  BY <1>3, <1>4
  DEF CrawlStore, IInv, WritersAgree, NoticeStays, TierSizes, RepairSizes, FieldsAgree, world

\* An edit of the page touches nothing that is stored or held.
LEMMA EditPageStep ==
  ASSUME IInv, EditPage
  PROVE  IInv'
<1>1. edits' \in 0 .. MaxEdits BY BoundsAssumption DEF EditPage, IInv, TypeOK
<1>2. page' \in Pages /\ retitled' \in BOOLEAN BY DEF EditPage, IInv, TypeOK
<1>3. TypeOK' BY <1>1, <1>2 DEF EditPage, IInv, TypeOK
<1> QED
  BY <1>3
  DEF EditPage, IInv, WritersAgree, NoticeStays, TierSizes, RepairSizes, FieldsAgree, Agree

\* The update checker derives fields, with the sizes it knows.
LEMMA TierCheckStep ==
  ASSUME IInv, TierCheck
  PROVE  IInv'
<1> DEFINE seen == [clean |-> doc.clean, hash |-> doc.hash]
           detail == DetailOf(page)
<1>1. PICK live \in Probes(NormalizeUrls(ContentDoc(detail.raw, NoDims)).content) :
        tier' = [seen |-> seen,
                 fields |-> Fields(Derive(detail, KnownDimensions(seen), live), detail.text),
                 files |-> detail.files,
                 oversized |-> Derive(detail, KnownDimensions(seen), live).oversized]
  BY DEF TierCheck
<1>2. detail.raw \in Bodies /\ detail.text \in Texts /\ detail.files \in Files
  BY DetailFacts DEF IInv
<1>3. doc \in Notice /\ doc.clean \in Bodies /\ doc.hash \in Bodies
  BY NoticeFacts DEF TierCheck, IInv, TypeOK
<1>4. seen \in [clean : Bodies, hash : Bodies] /\ seen.clean = doc.clean BY <1>3
<1> HIDE DEF detail, seen
<1> DEFINE known == KnownDimensions(seen)
           d == Derive(detail, known, live)
<1>5. known = IF seen.clean = None THEN NoDims ELSE DimsOf(seen.clean.url, seen.clean.size)
  BY DEF KnownDimensions, DimensionsFromHtml
<1>6. seen.clean # None => seen.clean \in Body BY <1>3, <1>4, BodyOrNone
<1>7. known \in Dims BY <1>5, <1>6, BodyFacts, DimsFacts
<1>8. seen.clean # None /\ seen.clean.size \in Known => seen.clean.url \in DOMAIN known
  BY <1>5, <1>6, BodyFacts, DimsFacts, KnownFacts
<1> HIDE DEF known
<1>9. /\ d \in PipelineDoc /\ Agree(d)
      /\ d.clean # None /\ d.clean.url \in DOMAIN known => d.clean.size # "bare"
  BY <1>1, <1>2, <1>7, DeriveResult
<1>10. tier' = [seen |-> seen, fields |-> Fields(d, detail.text),
                files |-> detail.files, oversized |-> d.oversized]
  BY <1>1 DEF known
<1> HIDE DEF d
<1>11. /\ Fields(d, detail.text) \in ContentFields /\ Agree(Fields(d, detail.text))
       /\ Fields(d, detail.text).clean = d.clean
  BY <1>2, <1>9, FieldsResult
<1>12. d.oversized \in BOOLEAN BY <1>9, DocFields
<1>13. /\ tier' \in [seen : [clean : Bodies, hash : Bodies], fields : ContentFields,
                     files : Files, oversized : BOOLEAN]
       /\ tier'.seen = seen /\ tier'.fields = Fields(d, detail.text)
  BY <1>2, <1>4, <1>10, <1>11, <1>12
<1>14. TypeOK' BY <1>13 DEF TierCheck, IInv, TypeOK, world
<1>15. TierSizes' BY <1>8, <1>9, <1>11, <1>13 DEF TierSizes
<1>16. WritersAgree' BY <1>11, <1>13 DEF TierCheck, IInv, WritersAgree, Agree
<1> QED
  BY <1>3, <1>14, <1>15, <1>16
  DEF TierCheck, IInv, NoticeStays, RepairSizes, FieldsAgree, world, Agree

\* A write that keeps the types, and leaves the notice in agreement or to blame.
LEMMA DocWrite ==
  ASSUME IInv, doc' \in Notice, blame' \in {"none", "legacy", "repair", "backfill"},
         blame' = "none" => Agree(doc'),
         crawl' \in {crawl, None}, tier' \in {tier, None},
         repair' \in {repair, None}, links' \in {links, None},
         retitled' \in BOOLEAN, UNCHANGED <<world, failures, repairs>>
  PROVE  IInv'
<1>1. TypeOK' BY DEF IInv, TypeOK, world
<1>2. WritersAgree' BY DEF IInv, WritersAgree, Agree
<1> QED
  BY <1>1, <1>2 DEF IInv, NoticeStays, TierSizes, RepairSizes, FieldsAgree

\* Filling in the hash keeps the rest of the notice.
LEMMA SetNoticeHash ==
  ASSUME NEW d \in Notice, NEW hash \in Bodies
  PROVE  /\ [d EXCEPT !.hash = hash] \in Notice
         /\ [d EXCEPT !.hash = hash].clean = d.clean
         /\ hash = d.hash /\ Agree(d) => Agree([d EXCEPT !.hash = hash])
<1>1. /\ [d EXCEPT !.hash = hash] \in Notice
      /\ [d EXCEPT !.hash = hash].clean = d.clean
      /\ [d EXCEPT !.hash = hash].text = d.text
      /\ [d EXCEPT !.hash = hash].markdown = d.markdown
      /\ [d EXCEPT !.hash = hash].hash = hash
  BY DEF Notice
<1> QED BY <1>1 DEF Agree

\* The update checker leaves the notice, fills in a hash or stores what it derived.
LEMMA TierStoreStep ==
  ASSUME IInv, TierStore
  PROVE  IInv'
<1>1. /\ tier.fields \in ContentFields /\ tier.files \in Files /\ Agree(tier.fields)
      /\ tier.fields.hash \in Bodies
      /\ doc \in Notice
  BY DEF TierStore, IInv, TypeOK, WritersAgree, NoticeStays, ContentFields
<1>2. /\ tier' = None /\ UNCHANGED <<world, retitled, crawl, repair, links, failures, repairs>>
      /\ blame \in {"none", "legacy", "repair", "backfill"} /\ retitled \in BOOLEAN
      /\ blame = "none" => Agree(doc)
  BY DEF TierStore, IInv, TypeOK, NoticeStays
<1>3. CASE UNCHANGED <<doc, blame>>
  <2>1. TypeOK' BY <1>2, <1>3 DEF IInv, TypeOK, world
  <2> QED
    BY <1>2, <1>3, <2>1
    DEF IInv, WritersAgree, NoticeStays, TierSizes, RepairSizes, FieldsAgree, Agree
<1>4. CASE /\ doc' = [doc EXCEPT !.hash = tier.fields.hash]
           /\ blame' = IF tier.fields.hash = doc.hash THEN blame ELSE "backfill"
  BY <1>1, <1>2, <1>4, SetNoticeHash, DocWrite
<1>5. CASE doc' = Updated(tier.fields, tier.files, TRUE) /\ blame' = "none"
  BY <1>1, <1>2, <1>5, UpdatedFacts, DocWrite
<1> QED BY <1>3, <1>4, <1>5 DEF TierStore

\* The attachment repair leaves the content fields alone.
LEMMA LinksStep ==
  ASSUME IInv, LinksRead \/ LinksWrite
  PROVE  IInv'
<1>1. CASE LinksRead
  <2>1. repairs' \in 0 .. MaxRepairs BY <1>1, BoundsAssumption DEF LinksRead, IInv, TypeOK
  <2>2. doc \in Notice /\ doc.files \in Files
    BY <1>1, NoticeFacts DEF LinksRead, IInv, TypeOK
  <2>3. links' \in [files : Files, referer : BOOLEAN] /\ failures' \in 0 .. MaxFailures
    <3>1. CASE links' = [files |-> doc.files, referer |-> TRUE] /\ UNCHANGED failures
      BY <2>2, <3>1 DEF IInv, TypeOK
    <3>2. ASSUME NEW detail \in CanAnswer \ {None}, Answers(detail),
                 links' = [files |-> detail.files, referer |-> Referer(detail.files)]
          PROVE  links' \in [files : Files, referer : BOOLEAN] /\ failures' \in 0 .. MaxFailures
      BY <3>2, AnswerType DEF IInv, Referer
    <3> QED BY <1>1, <3>1, <3>2 DEF LinksRead
  <2>4. TypeOK' BY <1>1, <2>1, <2>3 DEF LinksRead, IInv, TypeOK, world
  <2> QED
    BY <1>1, <2>2, <2>4
    DEF LinksRead, IInv, WritersAgree, NoticeStays, TierSizes, RepairSizes, FieldsAgree,
        Agree, world
<1>2. CASE LinksWrite
  <2> DEFINE d == [doc EXCEPT !.files = links.files, !.referer = links.referer]
  <2>1. doc \in Notice /\ links.files \in Files /\ links.referer \in BOOLEAN
    BY <1>2 DEF LinksWrite, IInv, TypeOK, NoticeStays
  <2>2. /\ d \in Notice /\ d.clean = doc.clean /\ d.text = doc.text
        /\ d.markdown = doc.markdown /\ d.hash = doc.hash
    BY <2>1 DEF Notice
  <2>3. doc' = d BY <1>2 DEF LinksWrite
  <2> HIDE DEF d
  <2>4. /\ blame \in {"none", "legacy", "repair", "backfill"} /\ retitled \in BOOLEAN
        /\ blame = "none" => Agree(doc)
    BY <1>2 DEF LinksWrite, IInv, TypeOK, NoticeStays
  <2>5. Agree(doc) => Agree(d) BY <2>2 DEF Agree
  <2> QED BY <1>2, <2>2, <2>3, <2>4, <2>5, DocWrite DEF LinksWrite
<1> QED BY <1>1, <1>2

\* The repair of dimensions derives from what is stored.
LEMMA RepairReadStep ==
  ASSUME IInv, RepairRead
  PROVE  IInv'
<1> DEFINE known == DimensionsFromMarkdown(doc.markdown)
           read == [ContentDoc(None, known) EXCEPT !.content = doc.content, !.clean = doc.clean]
           d == RepairPipeline(read)
<1>1. repairs' \in 0 .. MaxRepairs BY BoundsAssumption DEF RepairRead, IInv, TypeOK
<1>2. doc \in Notice /\ doc.content \in Bodies /\ doc.clean \in Bodies
      /\ doc.markdown \in Markdowns /\ doc.text \in Texts /\ FieldsOf(doc) \in ContentFields
  BY NoticeFacts DEF RepairRead, IInv, TypeOK
<1>3. doc.markdown # None =>
        doc.markdown.url \in Urls \cup {NoImage} /\ doc.markdown.hint \in Size
  BY <1>2 DEF Markdowns
<1>4. /\ known \in Dims
      /\ doc.markdown # None /\ doc.markdown.url # NoImage /\ doc.markdown.hint \in Known =>
           doc.markdown.url \in DOMAIN known /\ known[doc.markdown.url] = doc.markdown.hint
  BY <1>3, DimsFacts DEF DimensionsFromMarkdown
<1>5. repair' = [seen |-> FieldsOf(doc), fields |-> Fields(d, doc.text)]
  BY DEF RepairRead
<1> HIDE DEF known
<1>6. read \in PipelineDoc /\ read.clean = doc.clean /\ read.dims = known
  <2> DEFINE c == [ContentDoc(None, known) EXCEPT !.content = doc.content]
  <2>1. c \in PipelineDoc /\ c.dims = known BY <1>2, <1>4, NewDoc, BodyOrNone, SetContent
  <2>2. read = [c EXCEPT !.clean = doc.clean] OBVIOUS
  <2> HIDE DEF c
  <2> QED BY <1>2, <2>1, <2>2, SetClean
<1> HIDE DEF read
<1>7. /\ d \in PipelineDoc
      /\ d.markdown = MarkdownOf(d.clean) /\ d.hash = HashOf(d.clean)
      /\ d.clean # None =>
           /\ d.text = TextOf(d.clean) /\ Bytes(d.clean) <= MaxBytes
           /\ IF doc.clean.size = "bare" /\ doc.clean.url \in DOMAIN known
              THEN d.clean.size = known[doc.clean.url]
              ELSE d.clean = doc.clean
  BY <1>6, RepairPipelineResult
<1> HIDE DEF d
<1>8. Agree(d) BY <1>7 DEF Agree
<1>9. /\ Fields(d, doc.text) \in ContentFields /\ Agree(Fields(d, doc.text))
      /\ Fields(d, doc.text).clean = d.clean
  BY <1>2, <1>7, <1>8, FieldsResult
<1>10. /\ repair' \in [seen : ContentFields, fields : ContentFields]
       /\ repair'.seen = FieldsOf(doc) /\ repair'.fields = Fields(d, doc.text)
  BY <1>2, <1>5, <1>9
<1>11. repair'.seen.clean = doc.clean /\ repair'.seen.markdown = doc.markdown
  BY <1>10 DEF FieldsOf
<1>12. TypeOK' BY <1>1, <1>10 DEF RepairRead, IInv, TypeOK, world
<1>13. WritersAgree' BY <1>9, <1>10 DEF RepairRead, IInv, WritersAgree, Agree
<1>14. RepairSizes' BY <1>4, <1>7, <1>9, <1>10, <1>11 DEF RepairSizes
<1> QED
  BY <1>2, <1>12, <1>13, <1>14
  DEF RepairRead, IInv, NoticeStays, TierSizes, FieldsAgree, Agree

\* The write sets a field to what was derived, or leaves it alone.
LEMMA RepairWriteFields ==
  ASSUME IInv, RepairWrite
  PROVE  /\ doc \in Notice /\ doc' \in Notice
         /\ repair.seen \in ContentFields /\ repair.fields \in ContentFields
         /\ doc'.text = Patch(repair.fields.text, repair.seen.text, doc.text)
         /\ doc'.clean = Patch(repair.fields.clean, repair.seen.clean, doc.clean)
         /\ doc'.markdown = Patch(repair.fields.markdown, repair.seen.markdown, doc.markdown)
         /\ doc'.hash = Patch(repair.fields.hash, repair.seen.hash, doc.hash)
<1> DEFINE new == repair.fields
           old == repair.seen
           content == Patch(new.content, old.content, doc.content)
           text == Patch(new.text, old.text, doc.text)
           clean == Patch(new.clean, old.clean, doc.clean)
           markdown == Patch(new.markdown, old.markdown, doc.markdown)
           hash == Patch(new.hash, old.hash, doc.hash)
<1>1. doc \in Notice /\ new \in ContentFields /\ old \in ContentFields
  BY DEF RepairWrite, IInv, TypeOK, NoticeStays
<1>2. /\ content \in Bodies /\ text \in Texts /\ clean \in Bodies
      /\ markdown \in Markdowns /\ hash \in Bodies
  BY <1>1, NoticeFacts DEF Patch, ContentFields
<1>3. doc' = [doc EXCEPT !.content = content, !.text = text, !.clean = clean,
                         !.markdown = markdown, !.hash = hash]
  BY DEF RepairWrite
<1> HIDE DEF content, text, clean, markdown, hash
<1>4. /\ doc' \in Notice
      /\ doc'.text = text /\ doc'.clean = clean /\ doc'.markdown = markdown /\ doc'.hash = hash
  BY <1>1, <1>2, <1>3 DEF Notice
<1> QED BY <1>1, <1>4 DEF text, clean, markdown, hash

\* On the notice it read, the repair writes what it derived.
LEMMA RepairWriteUndisturbed ==
  ASSUME IInv, RepairWrite, FieldsOf(doc) = repair.seen
  PROVE  /\ doc'.clean = repair.fields.clean
         /\ Agree(doc')
<1>1. /\ doc.text = repair.seen.text /\ doc.clean = repair.seen.clean
      /\ doc.markdown = repair.seen.markdown /\ doc.hash = repair.seen.hash
  BY DEF FieldsOf
<1>2. /\ doc'.text = repair.fields.text /\ doc'.clean = repair.fields.clean
      /\ doc'.markdown = repair.fields.markdown /\ doc'.hash = repair.fields.hash
  BY <1>1, RepairWriteFields DEF Patch
<1>3. Agree(repair.fields) BY DEF IInv, WritersAgree, RepairWrite
<1> QED BY <1>2, <1>3 DEF Agree

\* The repair of dimensions leaves fields that agree, or is to blame.
LEMMA RepairWriteStep ==
  ASSUME IInv, RepairWrite
  PROVE  IInv'
<1>1. /\ doc' \in Notice
      /\ repair' = None /\ UNCHANGED <<world, retitled, crawl, tier, links, failures, repairs>>
      /\ blame \in {"none", "legacy", "repair", "backfill"} /\ retitled \in BOOLEAN
      /\ blame = "none" => Agree(doc)
  BY RepairWriteFields DEF RepairWrite, IInv, TypeOK, NoticeStays
<1>2. blame' = IF repair.fields = repair.seen THEN blame
               ELSE IF FieldsOf(doc) = repair.seen THEN "none" ELSE "repair"
  BY DEF RepairWrite
<1>3. CASE repair.fields = repair.seen
  <2>1. /\ doc'.text = doc.text /\ doc'.clean = doc.clean
        /\ doc'.markdown = doc.markdown /\ doc'.hash = doc.hash
    BY <1>3, RepairWriteFields DEF Patch
  <2>2. Agree(doc) => Agree(doc') BY <2>1 DEF Agree
  <2> QED BY <1>1, <1>2, <1>3, <2>2, DocWrite
<1>4. CASE repair.fields # repair.seen /\ FieldsOf(doc) = repair.seen
  BY <1>1, <1>2, <1>4, RepairWriteUndisturbed, DocWrite
<1>5. CASE repair.fields # repair.seen /\ FieldsOf(doc) # repair.seen
  BY <1>1, <1>2, <1>5, DocWrite
<1> QED BY <1>3, <1>4, <1>5

\* Every step keeps the invariant.
LEMMA NextStep ==
  ASSUME IInv, [Next]_vars
  PROVE  IInv'
<1>1. CASE UNCHANGED vars
  BY <1>1
  DEF vars, IInv, TypeOK, WritersAgree, NoticeStays, TierSizes, RepairSizes, FieldsAgree, Agree
<1> QED
  BY <1>1, EditPageStep, CrawlItemStep, CrawlPendingStep, CrawlStoreStep, TierCheckStep,
     TierStoreStep, RepairReadStep, RepairWriteStep, LinksStep
  DEF Next

\* The invariant holds in every reachable state.
THEOREM Invariance == Spec => []IInv
<1>1. IInv /\ [Next]_vars => IInv' BY NextStep
<1> QED BY <1>1, InitIInv, PTL DEF Spec

-----------------------------------------------------------------------------
(* The properties.                                                         *)

\* What each writer holds and what is stored has its type, with every field of
\* the notice there whichever of the writers wrote last.
THEOREM TypeCorrect == Spec => []TypeOK
<1>1. IInv => TypeOK BY DEF IInv
<1> QED BY <1>1, Invariance, PTL

\* stages.py: text, markdown and hash describe the stored cleanHtml and it fits,
\* whichever writer was last and however the probes went.
THEOREM StoredFieldsAgree == Spec => []FieldsAgree
<1>1. IInv => FieldsAgree BY DEF IInv
<1> QED BY <1>1, Invariance, PTL

\* repair.py: a repair that wrote what it read leaves fields that agree, and the
\* image at the size the old markdown had kept.
THEOREM RepairIsRight == Spec => RepairRestores
<1>1. ASSUME IInv, RepairWrite, FieldsOf(doc) = repair.seen
      PROVE  Agree(doc') /\ SizeIsBack
  <2>1. doc'.clean = repair.fields.clean /\ Agree(doc')
    BY <1>1, RepairWriteUndisturbed
  <2>2. repair.seen.clean = doc.clean /\ repair.seen.markdown = doc.markdown
    BY <1>1 DEF FieldsOf
  <2>3. SizeIsBack BY <1>1, <2>1, <2>2 DEF IInv, RepairSizes, RepairWrite, SizeIsBack
  <2> QED BY <2>1, <2>3
<1>2. IInv /\ [Next]_vars =>
        [RepairWrite /\ FieldsOf(doc) = repair.seen => Agree(doc') /\ SizeIsBack]_vars
  BY <1>1
<1> QED BY <1>2, Invariance, PTL DEF Spec, RepairRestores

\* update_checker.py: a check of the notice it read never takes the size off an
\* image that stayed, however slow the image's host is.
THEOREM SizesAreKept == Spec => TierTwoKeepsSizes
<1>1. ASSUME IInv, TierStore, Undisturbed, SameImage, doc.clean.size \in Known
      PROVE  doc'.clean.size # "bare"
  <2>1. tier # None /\ tier.seen.clean = doc.clean /\ doc \in Notice
    BY <1>1 DEF TierStore, Undisturbed, IInv, NoticeStays
  <2>2. \/ doc'.clean = doc.clean
        \/ doc'.clean = tier.fields.clean
    BY <1>1, <2>1 DEF TierStore, Updated, Notice
  <2>3. CASE doc'.clean = doc.clean BY <1>1, <2>3, KnownFacts
  <2>4. CASE doc'.clean = tier.fields.clean
    BY <1>1, <2>1, <2>4 DEF SameImage, IInv, TierSizes
  <2> QED BY <2>2, <2>3, <2>4
<1>2. IInv /\ [Next]_vars =>
        [TierStore /\ Undisturbed /\ SameImage /\ doc.clean.size \in Known
           => doc'.clean.size # "bare"]_vars
  BY <1>1
<1> QED BY <1>2, Invariance, PTL DEF Spec, TierTwoKeepsSizes
==============================================================================
