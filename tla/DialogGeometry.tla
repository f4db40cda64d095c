----------------------------- MODULE DialogGeometry ----------------------------
(***************************************************************************)
(* The rectangles of a dialog: the centred popup and the full-width panel  *)
(* with wrapped choices (Dialog::geometry in                               *)
(* src/crates/kvim-ui/src/dialog.rs).                                      *)
(*                                                                         *)
(* A text is the sequence of the cells of its characters.  A control       *)
(* character, which wrap counts as no cell, is left out, and so is which   *)
(* refusal comes first when two choices of a panel are refused.            *)
(***************************************************************************)
EXTENDS Integers, Sequences, FiniteSets, SequencesExt

CONSTANTS
  Dialogs,       \* records: question, body, choices, icon, panel
  Bodies,        \* the rectangles that a host offers
  U16Max,        \* u16::MAX
  PopupRowsMax,  \* DIALOG_POPUP_ROWS_MAX
  PopupColumnsMax, \* DIALOG_POPUP_COLUMNS_MAX
  PanelColumnsMax, \* DIALOG_VERTICAL_PANEL_COLUMNS_MAX
  ChoiceRowsMax  \* DIALOG_VERTICAL_CHOICE_ROWS_MAX

VARIABLES
  asked,    \* the dialog and the body
  geometry  \* what geometry answered

geometryVars == <<asked, geometry>>

-----------------------------------------------------------------------------
Rect(x, y, width, height) == [x |-> x, y |-> y, width |-> width, height |-> height]
Right(r) == r.x + r.width
Bottom(r) == r.y + r.height

Sum(s) == FoldSeq(LAMBDA cells, total : total + cells, 0, s)
Most(S) == CHOOSE n \in S \cup {0} : \A m \in S : m <= n

\* wrap: a character that does not fit the rest of a line starts the next one.
WrapsIn(text, width) == \A n \in DOMAIN text : text[n] <= width
WrappedRows(text, width) ==
  FoldLeft(LAMBDA at, cells :
             IF at.used > 0 /\ at.used + cells > width
             THEN [rows |-> at.rows + 1, used |-> cells] ELSE [at EXCEPT !.used = @ + cells],
           [rows |-> 1, used |-> 0], text).rows

\* icon_indent: the glyph and one blank cell.
Indent(d) == IF d.icon = 0 THEN 0 ELSE d.icon + 1

\* vertical_choice_label writes the direct key before the label.
PanelLabel(choice) == (IF choice.direct THEN <<1, 1, 1, 1>> ELSE <<>>) \o choice.label

Frame == 5          \* RAIL_COLUMNS + LEAD_PAD_COLUMNS + TRAIL_PAD_COLUMNS
Lead == 3           \* RAIL_COLUMNS + LEAD_PAD_COLUMNS
DescriptionIndent == 2

Unfit(reason) == [error |-> reason]
InvalidBody(body) == Right(body) > U16Max \/ Bottom(body) > U16Max

-----------------------------------------------------------------------------
(* popup_geometry *)

ChipWidth(choice) == Sum(choice.label) + 2
\* Mutant: the gaps between the choices are not measured.
ContentNeedsNoGaps(d) ==
  Most({Sum([n \in DOMAIN d.choices |-> ChipWidth(d.choices[n])]), Indent(d) + 1}
       \cup {Sum(d.body[n]) : n \in DOMAIN d.body})
ContentNeeds(d) ==
  Most({Sum([n \in DOMAIN d.choices |-> ChipWidth(d.choices[n])]) + 2 * (Len(d.choices) - 1), Indent(d) + 1}
       \cup {Sum(d.body[n]) : n \in DOMAIN d.body})

PopupGeometry(d, body) ==
  LET widest == Most({0} \cup {IF body.width < PopupColumnsMax THEN body.width ELSE PopupColumnsMax})
      wanted == Most({Sum(d.question) + Indent(d), ContentNeeds(d)})
      width == IF wanted < widest - Frame THEN wanted ELSE widest - Frame
      questionRows == WrappedRows(d.question, width - Indent(d))
      contentRows == questionRows + (IF d.body = <<>> THEN 0 ELSE Len(d.body) + 1)
      height == contentRows + 5
      popup == Rect(body.x + (body.width - width - Frame) \div 2, body.y + (body.height - height) \div 2,
                    width + Frame, height)
      content == Rect(popup.x + Lead, popup.y + 1, width, contentRows)
      question == Rect(content.x, content.y, width, questionRows)
      footer == Rect(popup.x + 1, Bottom(content) + 1, popup.width - 1, 3)
      ChipX(n) == content.x + Sum([m \in 1..(n - 1) |-> ChipWidth(d.choices[m]) + 2])
  IN CASE InvalidBody(body) -> Unfit("InvalidBodyArea")
       [] ContentNeeds(d) + Frame > widest -> Unfit("BodyTooSmall")
       [] ~WrapsIn(d.question, width - Indent(d)) -> Unfit("BodyTooSmall")
       [] height > body.height \/ height > PopupRowsMax -> Unfit("BodyTooSmall")
       [] OTHER ->
            [error |-> "no", popup |-> popup, rail |-> Rect(popup.x, popup.y, 1, height),
             content |-> content, question |-> question,
             bodyText |-> IF d.body = <<>> THEN Rect(content.x, Bottom(question), width, 0)
                          ELSE Rect(content.x, Bottom(question) + 1, width, Len(d.body)),
             footer |-> footer,
             choices |-> [n \in DOMAIN d.choices |-> Rect(ChipX(n), footer.y + 1, ChipWidth(d.choices[n]), 1)]]

-----------------------------------------------------------------------------
(* vertical_panel_geometry *)

PanelChoiceRows(choice, width) ==
  WrappedRows(PanelLabel(choice), width)
    + (IF choice.description = <<>> THEN 0 ELSE WrappedRows(choice.description, width - DescriptionIndent))
PanelWraps(d, width) ==
  /\ WrapsIn(d.question, width - Indent(d)) /\ width > Indent(d)
  /\ \A n \in DOMAIN d.body : WrapsIn(d.body[n], width)
  /\ \A n \in DOMAIN d.choices : /\ WrapsIn(PanelLabel(d.choices[n]), width)
                                 /\ WrapsIn(d.choices[n].description, width - DescriptionIndent)

PanelGeometry(d, body) ==
  LET width == body.width - Frame
      questionRows == WrappedRows(d.question, width - Indent(d))
      textRows == Sum([n \in DOMAIN d.body |-> WrappedRows(d.body[n], width)])
      contentRows == questionRows + (IF d.body = <<>> THEN 0 ELSE textRows + 1)
      heights == [n \in DOMAIN d.choices |-> PanelChoiceRows(d.choices[n], width)]
      height == contentRows + Sum(heights) + 3
      content == Rect(body.x + Lead, body.y + 1, width, contentRows)
      question == Rect(content.x, content.y, width, questionRows)
      footer == Rect(body.x + 1, Bottom(content) + 1, body.width - 1, Sum(heights) + 1)
  IN CASE InvalidBody(body) -> Unfit("InvalidBodyArea")
       [] body.width > PanelColumnsMax \/ body.width <= Frame + DescriptionIndent -> Unfit("BodyTooSmall")
       [] ~PanelWraps(d, width) -> Unfit("BodyTooSmall")
       [] \E n \in DOMAIN heights : heights[n] > ChoiceRowsMax -> Unfit("VerticalChoiceRows")
       [] height > body.height \/ height > PopupRowsMax -> Unfit("BodyTooSmall")
       [] OTHER ->
            [error |-> "no", popup |-> Rect(body.x, body.y, body.width, height),
             rail |-> Rect(body.x, body.y, 1, height), content |-> content, question |-> question,
             bodyText |-> IF d.body = <<>> THEN Rect(content.x, Bottom(question), width, 0)
                          ELSE Rect(content.x, Bottom(question) + 1, width, textRows),
             footer |-> footer,
             choices |-> [n \in DOMAIN d.choices |->
                            Rect(footer.x, footer.y + Sum(SubSeq(heights, 1, n - 1)), footer.width, heights[n])]]

Geometry(d, body) == IF d.panel THEN PanelGeometry(d, body) ELSE PopupGeometry(d, body)

-----------------------------------------------------------------------------
NotMeasured == Unfit("not yet")
GeometryInit == asked \in [dialog : Dialogs, body : Bodies] /\ geometry = NotMeasured
\* placement_for, render and placement_matches all measure this way.
Measure == geometry = NotMeasured /\ geometry' = Geometry(asked.dialog, asked.body) /\ UNCHANGED asked
GeometryNext == Measure

-----------------------------------------------------------------------------
(* Properties. *)

Within(a, b) == /\ a.x >= b.x /\ a.y >= b.y /\ a.width >= 0 /\ a.height >= 0
                /\ Right(a) <= Right(b) /\ Bottom(a) <= Bottom(b)
Apart(a, b) == Right(a) <= b.x \/ Right(b) <= a.x \/ Bottom(a) <= b.y \/ Bottom(b) <= a.y

\* Whatever is accepted lies inside the body and inside the popup, no part
\* overlaps another and no cell answers two choices: the assertions of both
\* measurements, and what drive_pointer takes for granted.
GeometryIsSound ==
  geometry.error = "no" =>
    LET g == geometry
    IN /\ Within(g.popup, asked.body) /\ Right(g.popup) <= U16Max /\ Bottom(g.popup) <= U16Max
       /\ \A part \in {g.rail, g.content, g.footer} : Within(part, g.popup)
       /\ Within(g.question, g.content) /\ Within(g.bodyText, g.content)
       /\ Apart(g.question, g.bodyText) /\ Apart(g.content, g.footer) /\ Apart(g.rail, g.content)
       /\ Bottom(g.bodyText) = Bottom(g.content) /\ Bottom(g.footer) = Bottom(g.popup)
       /\ \A n \in DOMAIN g.choices :
            /\ Within(g.choices[n], g.footer) /\ (~asked.dialog.panel => Right(g.choices[n]) <= Right(g.content))
            /\ \A m \in DOMAIN g.choices : m # n => Apart(g.choices[m], g.choices[n])
=============================================================================
