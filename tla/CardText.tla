------------------------------ MODULE CardText -----------------------------
(***************************************************************************)
(* The text of a run grows line by line, as codex streams it, and the card *)
(* is rendered from all of it each time: while it streams, and when the    *)
(* run has ended. The text is not longer than the output window here.      *)
(***************************************************************************)
EXTENDS FeishuRichText

CONSTANTS
  LineKinds,   \* the kinds of lines that codex says
  MaxLines     \* bound on the lines

ASSUME LinesAssumption == LineKinds \subseteq Kinds /\ MaxLines \in Nat

VARIABLES text, streamed

vars == <<text, streamed>>

Init == text = <<>> /\ streamed = RenderCard(<<>>, "streaming")

(* updateCard, for a text with a line more.                                *)
UpdateCard(kind) ==
  /\ Len(text) < MaxLines
  /\ text' = Append(text, kind)
  /\ streamed' = RenderCard(text', "streaming")

Next == \E kind \in LineKinds : UpdateCard(kind)

Spec == Init /\ [][Next]_vars

---------------------------------------------------------------------------
(* Properties. What a card shows, the places being those of the text; what *)
(* it must show.                                                           *)

Shown(card) == FlattenSeq([i \in DOMAIN card |-> card[i].block.items])
PlaceIn(lines, item) == Normalize(lines)[item.place]

Terminal == RenderCard(text, "terminal")

IsContent(kind) == kind \in PlainKinds \cup MarkedKinds \cup {"heading", "row"}

(* Every line with content is shown, no line is shown twice, and the lines *)
(* are in the order of the text: whatever stands around them, and an open  *)
(* fence, half a table or a heading at the end included.                   *)
KeepsLines ==
  \A card \in {streamed, Terminal} :
    LET shown == Shown(card) IN
    /\ \A i, j \in DOMAIN shown : i < j => shown[i].place < shown[j].place
    /\ \A place \in DOMAIN text :
         IsContent(text[place]) => \E i \in DOMAIN shown : PlaceIn(text, shown[i]) = place

(* Code and tables are never interpreted as markup, not even when blocks   *)
(* of several sections are merged; a line of text with markup, and every   *)
(* heading, is.                                                            *)
CodeStaysPlain ==
  \A card \in {streamed, Terminal} : \A e \in DOMAIN card :
    LET block == card[e].block IN
    \A i \in DOMAIN block.items :
      LET item == block.items[i]
          kind == text[PlaceIn(text, item)] IN
      /\ item.form \in {"code", "row", "language"} => block.format = "plain_text"
      /\ item.form = "heading" \/ (item.form = "text" /\ kind \in MarkedKinds) =>
           block.format = "lark_md"

RulesOf(card) == Cardinality({e \in DOMAIN card : card[e].tag = "hr"})
HeadingsOf(card) == LET shown == Shown(card) IN
                    Cardinality({i \in DOMAIN shown : shown[i].form = "heading"})

(* The card does not change what it says when the run ends: the same lines *)
(* in the same forms; only rules between the sections are added, at most   *)
(* one for each heading.                                                   *)
ModesAgree ==
  /\ Shown(streamed) = Shown(Terminal)
  /\ RulesOf(Terminal) - RulesOf(streamed) \in 0..HeadingsOf(Terminal)

(* A line that is shown stays, in the form it has, while more text comes:  *)
(* what is incomplete settles without a jump. Only lines with bars turn    *)
(* into a table once its separator is there.                               *)
FormsSettle ==
  [][\A i \in DOMAIN Shown(streamed) :
       LET item == Shown(streamed)[i]
           place == PlaceIn(text, item) IN
       text[place] = "blank" \/ IsTableLine(text[place]) \/
       \E j \in DOMAIN Shown(streamed') :
         LET new == Shown(streamed')[j] IN
         PlaceIn(text', new) = place /\ new.form = item.form]_vars
============================================================================
