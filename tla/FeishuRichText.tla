--------------------------- MODULE FeishuRichText --------------------------
(***************************************************************************)
(* How the text of a run becomes the elements of a Feishu card. A line is  *)
(* looked at by its kind, and told apart from the others by its place in   *)
(* the text. Both modes parse the text into sections alike.                *)
(***************************************************************************)
EXTENDS Integers, Sequences, SequencesExt, FiniteSetsExt

(* The lines that parseSections and renderTextLines tell apart: the words  *)
(* that lark_md is needed for, and the others.                             *)
PlainKinds == {"words", "bullet", "quote", "codespan"}
MarkedKinds == {"emphasis", "link", "url", "image"}
Kinds == PlainKinds \cup MarkedKinds \cup
         {"blank", "heading", "fence", "fenceLang", "rule", "row", "separator"}

IsFence(kind) == kind \in {"fence", "fenceLang"}

(* A separator has the bars of a row, too.                                 *)
IsTableLine(kind) == kind \in {"row", "separator"}

Places(text) == [i \in 1..Len(text) |-> i]

(* From the first of the places that is not blank to the last.             *)
TrimBlankEdges(text, places) ==
  LET solid == {i \in DOMAIN places : text[places[i]] # "blank"} IN
  IF solid = {} THEN <<>> ELSE SubSeq(places, Min(solid), Max(solid))

(* normalizeNewlines: the text without blank lines before and after it.    *)
Normalize(text) == TrimBlankEdges(text, Places(text))

---------------------------------------------------------------------------
(* parseSections.                                                          *)

NoSection == [heading |-> 0, fragments |-> <<>>]
IsEmptySection(section) == section = NoSection

Fragment(kind, lines) == [kind |-> kind, language |-> 0, lines |-> lines]
Code(language) == [Fragment("code", <<>>) EXCEPT !.language = language]

(* open is the kind of the fragment that the next line may go on with.     *)
NothingParsed == [sections |-> <<>>, section |-> NoSection, open |-> "none"]

PushSection(s) ==
  IF IsEmptySection(s.section) THEN s.sections ELSE Append(s.sections, s.section)

AddFragment(s, fragment, open) ==
  [s EXCEPT !.section.fragments = Append(@, fragment), !.open = open]

AddLine(s, place) ==
  [s EXCEPT !.section.fragments[Len(s.section.fragments)].lines = Append(@, place)]

StartsTable(text, place) ==
  /\ IsTableLine(text[place])
  /\ place < Len(text) /\ text[place + 1] = "separator"

(* Mutant of OpensCode: a fence that is not closed yet is a line of text.  *)
OpensCodeOfPair(text, place) ==
  IsFence(text[place]) /\ \E later \in (place + 1)..Len(text) : text[later] = "fence"

OpensCode(text, place) == IsFence(text[place])

(* A line of code is a line of code whatever it looks like, up to a bare   *)
(* fence or the end; a table goes on as long as there are bars.            *)
ParseLine(text, s, place) ==
  LET kind == text[place] IN
  IF s.open = "code"
    THEN IF kind = "fence" THEN [s EXCEPT !.open = "none"] ELSE AddLine(s, place)
  ELSE IF s.open = "tableSeparator" THEN [s EXCEPT !.open = "table"]
  ELSE IF s.open = "table" /\ IsTableLine(kind) THEN AddLine(s, place)
  ELSE IF kind = "heading"
    THEN [sections |-> PushSection(s), section |-> [NoSection EXCEPT !.heading = place],
          open |-> "none"]
  ELSE IF OpensCode(text, place)
    THEN AddFragment(s, Code(IF kind = "fenceLang" THEN place ELSE 0), "code")
  ELSE IF kind = "rule" THEN AddFragment(s, Fragment("rule", <<>>), "none")
  ELSE IF StartsTable(text, place)
    THEN AddFragment(s, Fragment("table", <<place>>), "tableSeparator")
  ELSE IF s.open = "text" THEN AddLine(s, place)
  ELSE AddFragment(s, Fragment("text", <<place>>), "text")

(* Mutant of ParseSections: a fence that is never closed loses its lines.  *)
ParseSectionsClosed(text) ==
  LET s == FoldLeft(LAMBDA t, place : ParseLine(text, t, place), NothingParsed, Places(text))
      last == Len(s.section.fragments) IN
  PushSection(IF s.open = "code" THEN [s EXCEPT !.section.fragments[last].lines = <<>>] ELSE s)

ParseSections(text) ==
  PushSection(FoldLeft(LAMBDA s, place : ParseLine(text, s, place), NothingParsed, Places(text)))

---------------------------------------------------------------------------
(* Rendering. An item is a line that is shown, in the form it is shown in; *)
(* a part is a number of items in one of the two formats.                  *)

Item(place, form) == [place |-> place, form |-> form]
Items(places, form) == [i \in DOMAIN places |-> Item(places[i], form)]
Part(items, format) == [items |-> items, format |-> format]

Rule == [kind |-> "rule", items |-> <<>>, format |-> "none"]
TextBlock(items, format) == [kind |-> "text", items |-> items, format |-> format]

(* normalizeInline and hasMarkdownEmphasis, as far as the format goes.     *)
Format(kind) == IF kind \in MarkedKinds THEN "lark_md" ELSE "plain_text"

FormatOfLines(text, places) ==
  IF \E i \in DOMAIN places : Format(text[places[i]]) = "lark_md" THEN "lark_md" ELSE "plain_text"

(* A fragment of no content is passed over, and the heading stays pending. *)
RenderFragment(text, fragment) ==
  LET lines == TrimBlankEdges(text, fragment.lines) IN
  CASE fragment.kind = "text" -> Part(Items(lines, "text"), FormatOfLines(text, lines))
    [] fragment.kind = "table" -> Part(Items(fragment.lines, "row"), "plain_text")
    [] fragment.kind = "code" ->
         Part((IF fragment.language = 0 THEN <<>> ELSE <<Item(fragment.language, "language")>>)
                \o Items(lines, "code"), "plain_text")

Contents(parts) == FlattenSeq([i \in DOMAIN parts |-> parts[i].items])
FormatOfParts(parts) ==
  IF \E i \in DOMAIN parts : parts[i].format = "lark_md" THEN "lark_md" ELSE "plain_text"

NothingRendered == [blocks |-> <<>>, parts |-> <<>>]

(* flushTextParts.                                                         *)
Flush(r) ==
  IF r.parts = <<>> THEN r
  ELSE [r EXCEPT !.blocks = Append(@, TextBlock(Contents(r.parts), FormatOfParts(r.parts))),
                 !.parts = <<>>]

AddBlock(r, block) == [r EXCEPT !.blocks = Append(@, block)]

(* Mutant of AddPart: parts of both formats share a block.                 *)
AddPartUnflushed(r, part) == [r EXCEPT !.parts = Append(@, part)]

(* Parts of one format share a block.                                      *)
AddPart(r, part) ==
  LET same == r.parts = <<>> \/ Last(r.parts).format = part.format IN
  IF same THEN [r EXCEPT !.parts = Append(@, part)]
  ELSE [Flush(r) EXCEPT !.parts = <<part>>]

Heading(place) == Part(<<Item(place, "heading")>>, "lark_md")

(* The heading goes before the first content, in a block of its own unless *)
(* that is lark_md as well.                                                *)
AppendText(r, heading, part) ==
  IF heading = 0 THEN AddPart(r, part)
  ELSE IF part.format = "lark_md"
    THEN AddPart(r, Part(Heading(heading).items \o part.items, "lark_md"))
    ELSE AddPart(Flush(AddPart(r, Heading(heading))), part)

AppendHeading(r, heading) ==
  IF heading = 0 THEN r ELSE AddBlock(r, TextBlock(Heading(heading).items, "lark_md"))

(* renderSectionBlocks.                                                    *)
RenderSection(text, section) ==
  LET step(s, fragment) ==
        IF fragment.kind = "rule"
          THEN [r |-> AddBlock(AppendHeading(Flush(s.r), s.heading), Rule), heading |-> 0]
          ELSE LET part == RenderFragment(text, fragment) IN
               IF part.items = <<>> THEN s
               ELSE [r |-> AppendText(s.r, s.heading, part), heading |-> 0]
      end == FoldLeft(step, [r |-> NothingRendered, heading |-> section.heading],
                      section.fragments) IN
  AppendHeading(Flush(end.r), end.heading).blocks

NothingToShow == <<TextBlock(<<>>, "plain_text")>>
OrNothing(blocks) == IF blocks = <<>> THEN NothingToShow ELSE blocks

(* renderStreamingBlocks: blocks of one format are merged over sections.   *)
RenderStreaming(text, sections) ==
  LET blocks == FlattenSeq([i \in DOMAIN sections |-> RenderSection(text, sections[i])])
      step(r, block) == IF block.kind = "rule" THEN AddBlock(Flush(r), block)
                        ELSE AddPart(r, Part(block.items, block.format)) IN
  OrNothing(Flush(FoldLeft(step, NothingRendered, blocks)).blocks)

(* Mutant of RenderTerminal: a section of a heading alone is left out.     *)
RenderTerminalWithText(text, sections) ==
  LET step(blocks, section) ==
        LET new == RenderSection(text, section) IN
        IF section.fragments = <<>> THEN blocks
        ELSE blocks \o (IF blocks = <<>> THEN <<>> ELSE <<Rule>>) \o new IN
  OrNothing(FoldLeft(step, <<>>, sections))

(* renderTerminalBlocks: a rule between the sections. Nobody asks for the  *)
(* blocks to be kept short.                                                *)
RenderTerminal(text, sections) ==
  LET step(blocks, section) ==
        LET new == RenderSection(text, section) IN
        IF new = <<>> THEN blocks
        ELSE blocks \o (IF blocks = <<>> THEN <<>> ELSE <<Rule>>) \o new IN
  OrNothing(FoldLeft(step, <<>>, sections))

(* transformFeishuRichText.                                                *)
Transform(text, mode) ==
  LET sections == ParseSections(text) IN
  IF mode = "terminal" THEN RenderTerminal(text, sections) ELSE RenderStreaming(text, sections)

(* mapBlocksToFeishuCardElements: the texts are numbered for their ids.    *)
MapBlocks(blocks) ==
  [i \in DOMAIN blocks |->
     IF blocks[i].kind = "rule" THEN [tag |-> "hr", id |-> -1, block |-> blocks[i]]
     ELSE [tag |-> "div", block |-> blocks[i],
           id |-> Cardinality({j \in 1..(i - 1) : blocks[j].kind = "text"})]]

(* renderCardContent, for a text that has not been trimmed yet.            *)
RenderCard(text, mode) ==
  LET places == Normalize(text) IN
  MapBlocks(Transform([i \in DOMAIN places |-> text[places[i]]], mode))
===========================================================================
