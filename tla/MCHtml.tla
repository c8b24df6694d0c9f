------------------------------- MODULE MCHtml -------------------------------
(* Instances of Html for TLC: a paragraph of up to four inline fragments,   *)
(* pairs of blocks, and runs of bold blocks.                                *)
EXTENDS Html

Word(n) == Text("word", n)
Space == Text("space", 0)
Point == Text("point", 0)

\* The inline fragments, numbered words in them.
Inline(n) ==
  {Word(n), El("strong", {}, <<Word(n)>>), El("strong", {}, <<Point>>),
   El("strong", {}, <<Text("digits", n), Point>>), El("strong", {}, <<Text("digits", n)>>),
   El("em", {"underline"}, <<Word(n)>>), El("span", {"bold", "italic"}, <<Word(n)>>),
   El("span", {"colour"}, <<Word(n)>>), El("font", {"face"}, <<Word(n)>>),
   El("a", {"relative"}, <<El("span", {"face"}, <<Word(n)>>)>>),
   El("img", {"tiny"}, <<>>), El("img", {"relative"}, <<>>), El("script", {}, <<Word(n)>>)}

Strong(n) == El("strong", {}, <<Word(n)>>)
Bold(n) == El("p", {}, <<Strong(n)>>)

Cell(kids) == El("td", {}, kids)
Table(attrs, cells) == El("table", attrs, <<El("tr", {}, cells)>>)

BoldBlock(n) == {Bold(n), El("div", {}, <<Space, El("b", {}, <<Word(n)>>)>>)}

Block(n) ==
  BoldBlock(n) \cup
  {Space,
   El("pre", {}, <<Word(n), Text("newline", 0), Word(n + 1), Text("gap", 0), Word(n + 2)>>),
   El("pre", {}, <<Word(n), El("a", {"relative"}, <<Word(n + 1)>>), Word(n + 2)>>),
   El("pre", {}, <<Space, El("img", {"large"}, <<>>)>>),
   Table({"smarteditor"}, <<Cell(<<Bold(n)>>), Cell(<<Word(n + 1)>>)>>),
   Table({"smarteditor"}, <<Cell(<<Word(n), Table({}, <<Cell(<<Word(n + 1)>>)>>), Word(n + 2)>>)>>),
   Table({}, <<Cell(<<Word(n)>>), Cell(<<>>), Cell(<<El("span", {"face"}, <<>>)>>)>>),
   El("div", {}, <<El("div", {}, <<Space, El("div", {}, <<Bold(n)>>)>>)>>),
   El("div", {"colour"}, <<El("p", {}, <<El("span", {}, <<Space>>)>>)>>),
   El("w3eden", {}, <<Word(n)>>)}

MCPages ==
  {<<El("p", {}, <<a>> \o gap \o <<b>>)>> :
     a \in Inline(1), b \in Inline(2), gap \in {<<>>, <<Space>>}}
  \cup {<<El("p", {}, <<Strong(1), Strong(2)>> \o gap \o <<Strong(3), x>>)>> :
           x \in Inline(4), gap \in {<<>>, <<Space>>}}
  \cup {<<a, b>> : a \in Block(1), b \in Block(4)}
  \cup {<<a, b, c, d>> : a \in BoldBlock(1), b \in BoldBlock(2) \cup {Space},
                         c \in {Bold(3), Space}, d \in {Bold(4), El("p", {}, <<Word(4)>>)}}
  \cup {[i \in 1..3 |-> El("p", {}, <<Strong(2 * i), Strong(2 * i + 1)>>)]}
  \cup {<<>>, <<Space>>, <<El("p", {}, <<El("img", {"tiny"}, <<>>)>>)>>}
=============================================================================
