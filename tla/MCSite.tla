------------------------------- MODULE MCSite -------------------------------
(* Instances of Site for TLC: every strategy alone on a board of two pages  *)
(* that has each kind of row it may meet, one board with a page of nothing  *)
(* readable, and two sources side by side.                                  *)
EXTENDS Site

CONSTANTS t1, t2

Plan(s, board, limit, skin, token) ==
  [strategy |-> s, board |-> board, limit |-> limit, skin |-> skin, token |-> token]

ApiBoard == <<"plain", "plain", "untitled">>
PlainBoard(odd) == <<"plain", odd, "plain">>
PinnedBoard(odd) == <<"pinned", "plain", odd, "plain">>
Odd == {"unlinked", "untitled", "short"}

HtmlStrategies ==
  {"skku-standard", "gnuboard", "gnuboard-custom", "custom-php", "skkumed-asp", "jsp-dorm"}

Alone ==
  {Plan(s, board, 2, "list", FALSE) :
     s \in HtmlStrategies,
     board \in {PlainBoard(odd) : odd \in Odd} \cup {PinnedBoard("unlinked")}}
  \cup {Plan("gnuboard", PlainBoard("short"), 2, "table", FALSE),
        Plan("skku-standard", ApiBoard, 1, "list", FALSE),
        Plan("skku-standard", PlainBoard("unlinked"), 1, "list", FALSE)}
  \cup {Plan(s, ApiBoard, 2, "list", FALSE) : s \in {"wordpress-api", "pyxis-api"}}
  \cup {Plan("webflow-skku", PlainBoard(odd), 2, "list", token) :
          odd \in Odd, token \in BOOLEAN}

OneRow == Plan("skku-standard", <<"plain">>, 1, "list", FALSE)
TwoPages == Plan("skku-standard", <<"plain", "plain">>, 1, "list", FALSE)
Empty == Plan("webflow-skku", <<>>, 2, "list", FALSE)

MCPlans ==
  {[t \in {t1} |-> p] : p \in Alone}
  \cup {[t \in Task |-> IF t = t1 THEN OneRow ELSE q] :
           q \in {OneRow, TwoPages, Empty}}
=============================================================================
