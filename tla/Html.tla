-------------------------------- MODULE Html --------------------------------
(***************************************************************************)
(* How the raw HTML of a notice becomes its two siblings: content, which   *)
(* only has its addresses made absolute, and cleanHtml, which runs through *)
(* the stages of clean_html.  A body is a forest of nodes; text is cut     *)
(* into tokens, and attributes are reduced to what a stage looks at.       *)
(***************************************************************************)
EXTENDS Naturals, SequencesExt

CONSTANTS
  None,            \* null
  Pages,           \* the raw bodies
  MaxPasses,       \* MAX_EMPTY_PASSES: rounds of the empty and of the merge loop
  MaxDivPasses     \* max_passes of the div collapse

ASSUME PassesAssumption == {MaxPasses, MaxDivPasses} \subseteq Nat \ {0}

VARIABLES
  page,            \* raw_html
  content,         \* what normalize_content_urls returned, or None
  at,              \* the stage that runs next
  tree,            \* soup, later clean_soup
  passes,          \* rounds the running loop has made
  clean            \* what clean_html returned, or None

vars == <<page, content, at, tree, passes, clean>>

-----------------------------------------------------------------------------
(* Nodes.  A token is a word, digits, punctuation or white space: a blank  *)
(* run, a line break or an empty line.                                     *)

Blank == {"space", "newline", "gap"}
Token == Blank \cup {"word", "digits", "point"}

Text(kind, n) == [tag |-> kind, n |-> n, at |-> {}, kids |-> <<>>]
El(tag, attrs, kids) == [tag |-> tag, n |-> 0, at |-> attrs, kids |-> kids]

IsText(x) == x.tag \in Token
IsBlank(x) == x.tag \in Blank
Bare(x) == \A i \in DOMAIN x.kids : IsText(x.kids[i])  \* not tag.find(True)
Solid(kids) == SelectSeq(kids, LAMBDA x : ~IsBlank(x))

RECURSIVE Nodes(_), Tokens(_)

Nodes(forest) ==
  UNION {{forest[i]} \cup Nodes(forest[i].kids) : i \in DOMAIN forest}

\* get_text, token by token.
Tokens(forest) ==
  FlattenSeq([i \in DOMAIN forest |->
    IF IsText(forest[i]) THEN <<forest[i]>> ELSE Tokens(forest[i].kids)])

AllBlank(forest) == \A i \in DOMAIN Tokens(forest) : IsBlank(Tokens(forest)[i])

-----------------------------------------------------------------------------
(* The rules: what one stage makes of one node, as the nodes that replace  *)
(* it.  Junk stands for every selector of REMOVE_SELECTORS.                *)

Junk == {"script", "style", "form", "title", "w3eden"}
InlineElements == {"span", "a", "font", "b", "i", "em", "strong", "mark"}
Emphasis == {"strong", "b", "em", "i"}
AllowedTags ==
  {"p", "br", "div", "span", "strong", "b", "em", "i", "mark", "table", "tr", "td",
   "th", "img", "a"}
AllowedStyles == {"bold", "italic", "underline", "colour"}
RemovableEmptyTags == AllowedTags \ {"br", "img"}

RemoveSelectors(x) == IF x.tag \in Junk THEN <<>> ELSE <<x>>

StripDataUriImages(x) == IF x.tag = "img" /\ "tiny" \in x.at THEN <<>> ELSE <<x>>

\* table.find_all(["td", "th"]) in document order.  A cell of a table inside a
\* cell stands later in that list: its contents leave the outer cell by then.
RECURSIVE Cells(_), Hollow(_)

Cells(forest) ==
  FlattenSeq([i \in DOMAIN forest |->
    (IF forest[i].tag \in {"td", "th"} THEN <<forest[i]>> ELSE <<>>) \o Cells(forest[i].kids)])

Hollow(forest) ==
  [i \in DOMAIN forest |->
    [forest[i] EXCEPT !.kids = IF forest[i].tag \in {"td", "th"} THEN <<>> ELSE Hollow(@)]]

\* Mutation: only the first cell is taken out before the table goes.
FirstCellOnly(x) ==
  IF x.tag = "table" /\ "smarteditor" \in x.at THEN Hollow(Cells(x.kids)[1].kids) ELSE <<x>>

UnwrapNaverTables(x) ==
  LET cells == Cells(x.kids)
  IN IF x.tag = "table" /\ "smarteditor" \in x.at
     THEN FlattenSeq([i \in DOMAIN cells |-> Hollow(cells[i].kids)])
     ELSE <<x>>

\* text.split("\n\n"), each part stripped, empty parts dropped.
Trim(tokens) ==
  LET solid == {i \in DOMAIN tokens : ~IsBlank(tokens[i])}
  IN IF solid = {} THEN <<>>
     ELSE SubSeq(tokens, CHOOSE i \in solid : \A j \in solid : i <= j,
                         CHOOSE i \in solid : \A j \in solid : i >= j)

SplitAtGaps(tokens) ==
  FoldLeft(LAMBDA parts, t : IF t.tag = "gap" THEN Append(parts, <<>>)
                             ELSE [parts EXCEPT ![Len(parts)] = Append(@, t)],
           <<<<>>>>, tokens)

Paragraphs(tokens) ==
  SelectSeq([i \in DOMAIN SplitAtGaps(tokens) |-> Trim(SplitAtGaps(tokens)[i])],
            LAMBDA part : part # <<>>)

Paragraph(tokens) ==
  El("p", {}, [i \in DOMAIN tokens |->
                IF tokens[i].tag = "newline" THEN El("br", {}, <<>>) ELSE tokens[i]])

\* The text is read with that of the child elements, which also follow it.  A <br>
\* among them parts no words: tokens that meet here may come out as one word.
ConvertPre(x) ==
  LET parts == Paragraphs(Tokens(x.kids))
  IN IF x.tag # "pre" THEN <<x>>
     ELSE IF AllBlank(x.kids) THEN x.kids
     ELSE [i \in DOMAIN parts |-> Paragraph(parts[i])] \o SelectSeq(x.kids, LAMBDA k : ~IsText(k))

\* Bold and italic declarations of an inline element become elements in it.
NormalizeStyle(x) ==
  LET strong == IF "bold" \in x.at THEN <<El("strong", {}, x.kids)>> ELSE x.kids
      em == IF "italic" \in x.at THEN <<El("em", {}, strong)>> ELSE strong
  IN IF x.tag \in InlineElements
     THEN <<[x EXCEPT !.kids = em, !.at = @ \ {"bold", "italic"}]>>
     ELSE <<x>>

UnwrapUnderline(x) ==
  IF x.tag \in {"em", "i"} /\ "underline" \in x.at THEN x.kids ELSE <<x>>

ResolveUrls(x) ==
  <<IF x.tag \in {"img", "a"} THEN [x EXCEPT !.at = @ \ {"relative"}] ELSE x>>

\* nh3.clean (ammonia): a tag outside the list goes and its contents stay,
\* classes go, and a style of which nothing is left stays as an empty one.
AllowedAttributes == AllowedStyles \cup {"relative", "tiny", "large"}

AllowList(x) ==
  LET styled == x.at \cap (AllowedStyles \cup {"face", "no style"}) # {}
      bare == IF styled /\ x.at \cap AllowedStyles = {} THEN {"no style"} ELSE {}
  IN IF IsText(x) THEN <<x>>
     ELSE IF x.tag \notin AllowedTags THEN x.kids
     ELSE <<[x EXCEPT !.at = (@ \cap AllowedAttributes) \cup bare]>>

IsEffectivelyEmpty(x) == Bare(x) /\ AllBlank(x.kids)

RemoveEmpty(x) ==
  IF x.tag \in RemovableEmptyTags /\ IsEffectivelyEmpty(x) THEN <<>> ELSE <<x>>

UnwrapEmptySpans(x) ==
  IF x.tag = "span" /\ x.at \subseteq {"no style"} THEN x.kids ELSE <<x>>

CollapseDivs(x) ==
  LET children == Solid(x.kids)
  IN IF x.tag = "div" /\ Len(children) = 1 /\ children[1].tag = "div" THEN x.kids ELSE <<x>>

\* Only punctuation, digits and blanks; digits alone may be meant.
StripPunctuation(x) ==
  LET kinds == {x.kids[i].tag : i \in DOMAIN x.kids}
      skipped == /\ kinds # {} /\ kinds \subseteq Blank \cup {"point", "digits"}
                 /\ kinds \ Blank # {"digits"}
  IN IF x.tag \in Emphasis /\ skipped THEN x.kids ELSE <<x>>

-----------------------------------------------------------------------------
(* Sweeps: a stage walks the nodes it found in document order; what takes  *)
(* the place of a node is walked in turn.                                  *)

Rule(stage, x) ==
  CASE stage = "junk" -> RemoveSelectors(x)
    [] stage \in {"images", "images again"} -> StripDataUriImages(x)
    [] stage = "tables" -> UnwrapNaverTables(x)
    [] stage = "pre" -> ConvertPre(x)
    [] stage = "styles" -> NormalizeStyle(x)
    [] stage = "underline" -> UnwrapUnderline(x)
    [] stage = "urls" -> ResolveUrls(x)
    [] stage = "allow list" -> AllowList(x)
    [] stage = "empty" -> RemoveEmpty(x)
    [] stage = "spans" -> UnwrapEmptySpans(x)
    [] stage = "divs" -> CollapseDivs(x)
    [] stage = "punctuation" -> StripPunctuation(x)

RECURSIVE Sweep(_, _)
Sweep(stage, forest) ==
  IF forest = <<>> THEN <<>>
  ELSE LET x == Head(forest)
           new == Rule(stage, x)
       IN IF new = <<x>>
          THEN <<[x EXCEPT !.kids = Sweep(stage, @)]>> \o Sweep(stage, Tail(forest))
          ELSE Sweep(stage, new \o Tail(forest))

-----------------------------------------------------------------------------
(* Stages that look at siblings.                                           *)

MinRun == 3

IsSoleBold(x) ==
  x.tag \in {"p", "div"} /\ Len(Solid(x.kids)) = 1 /\ Solid(x.kids)[1].tag \in {"strong", "b"}

\* The blocks of the run of all-bold siblings around i, blank text between them.
BoldRun(row, i) ==
  {j \in DOMAIN row : /\ IsSoleBold(row[j])
                      /\ \A k \in (i..j) \cup (j..i) : IsSoleBold(row[k]) \/ IsBlank(row[k])}

Unbold(x) ==
  [x EXCEPT !.kids = FlattenSeq([i \in DOMAIN x.kids |->
     IF IsBlank(x.kids[i]) THEN <<x.kids[i]>> ELSE x.kids[i].kids])]

StripSoleBold(row) ==
  [i \in DOMAIN row |->
    IF IsSoleBold(row[i]) /\ Cardinality(BoldRun(row, i)) >= MinRun
    THEN Unbold(row[i]) ELSE row[i]]

\* One round: an element takes in the next one of its name; what was taken in
\* is passed over, so a row of four needs two rounds.
RECURSIVE MergeAdjacent(_)
MergeAdjacent(row) ==
  IF Len(row) < 2 THEN row
  ELSE LET a == row[1]
           n == IF IsBlank(row[2]) THEN 3 ELSE 2
       IN IF a.tag \in Emphasis /\ Len(row) >= n /\ row[n].tag = a.tag
          THEN <<[a EXCEPT !.kids = @ \o SubSeq(row, 2, n - 1) \o row[n].kids]>>
               \o MergeAdjacent(SubSeq(row, n + 1, Len(row)))
          ELSE <<a>> \o MergeAdjacent(Tail(row))

RECURSIVE Unbolded(_), Merged(_)

Unbolded(forest) ==
  LET row == StripSoleBold(forest)
  IN [i \in DOMAIN row |-> [row[i] EXCEPT !.kids = Unbolded(@)]]

Merged(forest) ==
  LET row == MergeAdjacent(forest)
  IN [i \in DOMAIN row |-> [row[i] EXCEPT !.kids = Merged(@)]]

-----------------------------------------------------------------------------
(* The pipeline: one action per stage.                                     *)

Init ==
  /\ page \in Pages
  /\ content = None /\ clean = None
  /\ at = "content" /\ tree = <<>> /\ passes = 0

\* normalize_content_urls works on a soup of its own; an exception leaves raw.
NormalizeContentUrls ==
  /\ at = "content"
  /\ content' \in {page, Sweep("urls", page)}
  /\ at' = "start"
  /\ UNCHANGED <<page, tree, passes, clean>>

CleanHtml ==
  /\ at = "start"
  /\ IF page = <<>> \/ (AllBlank(page) /\ \A x \in Nodes(page) : IsText(x))
     THEN at' = "done" /\ UNCHANGED tree
     ELSE at' = "junk" /\ tree' = page
  /\ UNCHANGED <<page, content, passes, clean>>

\* A stage that runs once.
Once(stage, next) ==
  /\ at = stage
  /\ tree' = Sweep(stage, tree)
  /\ at' = next
  /\ UNCHANGED <<page, content, passes, clean>>

\* A round of a loop: the last one is the one that changes nothing, or the
\* last there may be.
Round(stage, new, max, next) ==
  /\ at = stage
  /\ tree' = new
  /\ IF new = tree \/ passes + 1 = max
     THEN at' = next /\ passes' = 0
     ELSE passes' = passes + 1 /\ UNCHANGED at
  /\ UNCHANGED <<page, content, clean>>

JunkRemoval == Once("junk", "images")
StripImages == Once("images", "tables")
UnwrapTables == Once("tables", "pre")
ConvertPres == Once("pre", "styles")
NormalizeStyles == Once("styles", "underline")
UnwrapUnderlines == Once("underline", "urls")
AbsoluteUrls == Once("urls", "allow list")
Sanitize == Once("allow list", "empty")

\* Mutation: one round less.
RemoveEmptyOnceLess ==
  Round("empty", Sweep("empty", tree), MaxPasses - 1, "spans")

RemoveEmptyElements == Round("empty", Sweep("empty", tree), MaxPasses, "spans")
UnwrapSpans == Once("spans", "divs")
CollapseDivChains == Round("divs", Sweep("divs", tree), MaxDivPasses, "images again")
StripImagesAgain == Once("images again", "punctuation")
StripPunctuationOnly == Once("punctuation", "bold")

StripBoldRuns ==
  /\ at = "bold"
  /\ tree' = Unbolded(tree)
  /\ at' = "merge"
  /\ UNCHANGED <<page, content, passes, clean>>

MergeNeighbours == Round("merge", Merged(tree), MaxPasses, "result")

Result ==
  /\ at = "result"
  /\ clean' = IF AllBlank(tree) /\ \A x \in Nodes(tree) : IsText(x) THEN None ELSE tree
  /\ at' = "done"
  /\ UNCHANGED <<page, content, tree, passes>>

\* Mutation: what was cleaned so far is returned.
RaiseReturnsTheRest ==
  /\ at \notin {"content", "start", "done"}
  /\ at' = "done" /\ clean' = tree /\ passes' = 0
  /\ UNCHANGED <<page, content, tree>>

\* An exception in any stage: the notice has no cleanHtml.
Raise ==
  /\ at \notin {"content", "start", "done"}
  /\ at' = "done" /\ tree' = <<>> /\ passes' = 0
  /\ UNCHANGED <<page, content, clean>>

Next ==
  \/ NormalizeContentUrls \/ CleanHtml \/ JunkRemoval \/ StripImages \/ UnwrapTables
  \/ ConvertPres \/ NormalizeStyles \/ UnwrapUnderlines \/ AbsoluteUrls \/ Sanitize
  \/ RemoveEmptyElements \/ UnwrapSpans \/ CollapseDivChains \/ StripImagesAgain
  \/ StripPunctuationOnly \/ StripBoldRuns \/ MergeNeighbours \/ Result \/ Raise

Spec == Init /\ [][Next]_vars

-----------------------------------------------------------------------------
(* Properties.                                                             *)

Early == <<"junk", "images", "tables", "pre", "styles", "underline", "urls", "allow list">>
Late == <<"empty", "spans", "divs", "images again", "punctuation", "bold", "merge", "result">>

\* Type invariant: the stages run in order, a loop makes at most its rounds,
\* and from the allow-list on no other tag appears.
TypeOK ==
  /\ page \in Pages
  /\ at \in {"content", "start", "done"} \cup Range(Early) \cup Range(Late)
  /\ passes \in 0..(IF at = "divs" THEN MaxDivPasses ELSE MaxPasses) - 1
  /\ at \notin {"empty", "divs", "merge"} => passes = 0
  /\ at \in Range(Late) \cup {"done"} =>
       \A x \in Nodes(tree) : x.tag \in Token \cup AllowedTags
  /\ clean # None => at = "done" /\ clean = tree

Words(forest) == SelectSeq(Tokens(forest), LAMBDA t : ~IsBlank(t))

\* A page on which two stages keep the reading order: no <pre> has text in a child
\* element, and no layout table has another table in it.
Regular(forest) ==
  \A x \in Nodes(forest) :
    /\ x.tag = "pre" => \A i \in DOMAIN x.kids : IsText(x.kids[i]) \/ AllBlank(<<x.kids[i]>>)
    /\ x.tag = "table" /\ "smarteditor" \in x.at => \A y \in Nodes(x.kids) : y.tag # "table"

\* Every stage keeps every word of the page outside its junk; and on a regular
\* page each of them once, in the order the page has them.  A stage that takes
\* elements apart, merges or drops them could lose or move a word unnoticed.  (No
\* page has words of a layout table outside its cells; those are lost.)
WordsSurvive ==
  at \in Range(Tail(Early)) \cup Range(Late) =>
    LET kept == Words(Sweep("junk", page))
    IN /\ Range(kept) \subseteq Range(Words(tree))
       /\ Regular(page) => Words(tree) = kept

\* The body as the cleanup meets it, and how high its empty elements stack.
Sanitized == FoldLeft(LAMBDA t, stage : Sweep(stage, t), page, Early)

Hulls(forest) ==
  {x \in Nodes(forest) : /\ AllBlank(x.kids) /\ x.tag \in RemovableEmptyTags
                         /\ \A y \in Nodes(x.kids) : IsText(y) \/ y.tag \in RemovableEmptyTags}

RECURSIVE Height(_)
Height(forest) ==
  IF \A i \in DOMAIN forest : IsText(forest[i]) THEN 0
  ELSE 1 + Max({Height(forest[i].kids) : i \in DOMAIN forest})

\* A body that comes out whole is one that no stage would change again, although
\* later stages take apart and join what earlier ones have passed: not the
\* sanitising ones, not the cleanup of spans, divs, images and punctuation, and
\* not the merge.  Two exceptions: empty elements stacked higher than the rounds
\* reach, and runs of bold blocks, which the merge may complete after the stage
\* that looks for them.  (Rows and div chains of the pages are within the rounds.)
NothingLeftOver ==
  at = "done" /\ clean # None =>
    /\ \A stage \in Range(Early) \cup {"spans", "divs", "images again", "punctuation"} :
         Sweep(stage, clean) = clean
    /\ (\A x \in Hulls(Sanitized) : Height(<<x>>) <= MaxPasses) => Sweep("empty", clean) = clean
    /\ Merged(clean) = clean
=============================================================================
