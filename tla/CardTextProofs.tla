--------------------------- MODULE CardTextProofs ---------------------------
(***************************************************************************)
(* Proofs about CardText for every set of kinds of lines and every length  *)
(* of the text: a card shows each line with content once and in order,     *)
(* code stays code, both modes agree, and what is shown does not jump.     *)
(***************************************************************************)
EXTENDS CardText, FoldLemmas

---------------------------------------------------------------------------
(* The types. A fragment of code alone has a language, a rule no lines; a  *)
(* fragment that a line may go on with is there and is the last one.       *)

Line == Nat \ {0}
Forms == {"text", "row", "code", "language", "heading"}
AnItem == [place : Line, form : Forms]

Fragments ==
  {f \in [kind : {"text", "table", "code", "rule"}, language : Nat, lines : Seq(Line)] :
     /\ f.language # 0 => f.kind = "code"
     /\ f.kind = "rule" => f.lines = <<>>}

Sections == [heading : Nat, fragments : Seq(Fragments)]

Opens == {"none", "text", "table", "tableSeparator", "code"}
KindOf(open) == IF open = "tableSeparator" THEN "table" ELSE open

States ==
  {s \in [sections : Seq(Sections), section : Sections,
          open : Opens] :
     s.open # "none" =>
       s.section.fragments # <<>> /\ Last(s.section.fragments).kind = KindOf(s.open)}

(* The items of all lines that a parse has kept, blank ones included.      *)
FormOf(kind) == IF kind = "table" THEN "row" ELSE kind
LanguageItems(f) == IF f.language = 0 THEN <<>> ELSE One(Item(f.language, "language"))
HeadingItems(place) == IF place = 0 THEN <<>> ELSE One(Item(place, "heading"))

AllOfFragment(f) == Cat(LanguageItems(f), Items(f.lines, FormOf(f.kind)))
AllOfFragments(fs) == FlatMap([f \in Fragments |-> AllOfFragment(f)], fs)
AllOfSection(sec) == Cat(HeadingItems(sec.heading), AllOfFragments(sec.fragments))
AllOfSections(secs) == FlatMap([sec \in Sections |-> AllOfSection(sec)], secs)
AllOf(s) == Cat(AllOfSections(s.sections), AllOfSection(s.section))

---------------------------------------------------------------------------
(* What the parts of a text contain.                                       *)

(* A sequence is what stands before its last element, and that.            *)
LEMMA SplitLast ==
  ASSUME NEW T, NEW s \in Seq(T), s # <<>>
  PROVE  /\ Len(s) \in Nat \ {0} /\ Front(s) \in Seq(T) /\ Last(s) \in T
         /\ s = Append(Front(s), Last(s)) /\ Len(Front(s)) = Len(s) - 1
         /\ \A x \in T : [s EXCEPT ![Len(s)] = x] = Append(Front(s), x)
<1> DEFINE n == Len(s) - 1
<1>1. Len(s) \in Nat /\ Len(s) # 0
  BY LenProperties, EmptySeq
<1>2. n \in 0..(Len(s) - 1) /\ n \in 0..Len(s) /\ n + 1 = Len(s) /\ n \in Nat
  BY <1>1
<1>3. SubSeq(s, 1, n) \in Seq(T) /\ s[n + 1] \in T /\ SubSeq(s, 1, n + 1) = Append(SubSeq(s, 1, n), s[n + 1])
  BY <1>2, ByPrefix
<1>4. SubSeq(s, 1, n + 1) = s
  BY <1>2, ByPrefix
<1>5. Front(s) \in Seq(T) /\ Last(s) \in T /\ s = Append(Front(s), Last(s))
  BY <1>2, <1>3, <1>4 DEF Front, Last
<1>6. Len(Front(s)) = n
  BY <1>1, <1>5, AppendProperties
<1>7. ASSUME NEW x \in T PROVE [s EXCEPT ![Len(s)] = x] = Append(Front(s), x)
  <2> DEFINE u == [s EXCEPT ![Len(s)] = x]
             v == Append(Front(s), x)
  <2>1. Len(s) \in 1..Len(s)
    BY <1>1
  <2>2. u \in Seq(T) /\ Len(u) = Len(s) /\ \A j \in 1..Len(s) : u[j] = IF j = Len(s) THEN x ELSE s[j]
    BY <2>1, ExceptSeq
  <2>3. v \in Seq(T) /\ Len(v) = Len(s) /\ v[Len(s)] = x /\ \A j \in 1..n : v[j] = Front(s)[j]
    <3>1. v \in Seq(T) /\ Len(v) = n + 1 /\ v[n + 1] = x /\ \A j \in 1..n : v[j] = Front(s)[j]
      BY <1>5, <1>6, AppendProperties
    <3> QED
      BY <1>2, <3>1
  <2>4. \A j \in 1..n : s[j] = Front(s)[j]
    BY <1>5, <1>6, AppendProperties
  <2>5. \A j \in 1..Len(s) : u[j] = v[j]
    <3> HIDE DEF u, v, n
    <3>1. \A j \in 1..Len(s) : j = Len(s) \/ j \in 1..n
      BY <1>1, <1>2
    <3> QED
      BY <1>1, <2>2, <2>3, <2>4, <3>1
  <2> HIDE DEF u, v
  <2>6. u = v
    BY <2>2, <2>3, <2>5, SeqEqual
  <2> QED
    BY <2>6 DEF u, v
<1> QED
  BY <1>1, <1>2, <1>5, <1>6, <1>7

(* The items of places.                                                    *)
LEMMA ItemsOf ==
  ASSUME NEW lines \in Seq(Line), NEW form \in Forms
  PROVE  /\ Items(lines, form) \in Seq(AnItem) /\ Len(Items(lines, form)) = Len(lines)
         /\ \A i \in 1..Len(lines) : Items(lines, form)[i] = Item(lines[i], form)
         /\ \A place \in Line :
              Items(Append(lines, place), form) = Append(Items(lines, form), Item(place, form))
<1>1. Len(lines) \in Nat /\ DOMAIN lines = 1..Len(lines) /\ \A i \in 1..Len(lines) : lines[i] \in Line
  BY LenProperties, ElementOfSeq
<1>2. \A place \in Line : Item(place, form) \in AnItem
  BY DEF Item, AnItem
<1>3. ASSUME NEW u \in Seq(Line)
      PROVE  /\ Items(u, form) \in Seq(AnItem) /\ Len(Items(u, form)) = Len(u)
             /\ \A i \in 1..Len(u) : Items(u, form)[i] = Item(u[i], form)
  <2>1. Len(u) \in Nat /\ DOMAIN u = 1..Len(u) /\ \A i \in 1..Len(u) : Item(u[i], form) \in AnItem
    BY <1>2, LenProperties, ElementOfSeq
  <2>2. Items(u, form) = [i \in 1..Len(u) |-> Item(u[i], form)]
    BY <2>1 DEF Items
  <2>3. Items(u, form) \in [1..Len(u) -> AnItem]
    BY <2>1, <2>2
  <2>4. Items(u, form) \in Seq(AnItem)
    BY <2>1, <2>3, SeqDef
  <2>5. Len(Items(u, form)) = Len(u)
    BY <2>1, <2>3, <2>4, LenProperties
  <2> QED
    BY <2>2, <2>4, <2>5
<1>4. ASSUME NEW place \in Line
      PROVE  Items(Append(lines, place), form) = Append(Items(lines, form), Item(place, form))
  <2> DEFINE u == Append(lines, place)
             x == Items(u, form)
             y == Append(Items(lines, form), Item(place, form))
  <2>1. /\ u \in Seq(Line) /\ Len(u) = Len(lines) + 1 /\ u[Len(lines) + 1] = place
        /\ \A i \in 1..Len(lines) : u[i] = lines[i]
    BY AppendProperties
  <2> HIDE DEF u
  <2>2. x \in Seq(AnItem) /\ Len(x) = Len(lines) + 1 /\ \A i \in 1..(Len(lines) + 1) : x[i] = Item(u[i], form)
    BY <1>3, <2>1
  <2>3. /\ y \in Seq(AnItem) /\ Len(y) = Len(lines) + 1 /\ y[Len(lines) + 1] = Item(place, form)
        /\ \A i \in 1..Len(lines) : y[i] = Item(lines[i], form)
    BY <1>2, <1>3, AppendProperties
  <2>4. \A i \in 1..(Len(lines) + 1) : x[i] = y[i]
    BY <1>1, <2>1, <2>2, <2>3
  <2> HIDE DEF x, y
  <2>5. x = y
    BY <2>2, <2>3, <2>4, SeqEqual
  <2> QED
    BY <2>5 DEF x, y, u
<1> QED
  BY <1>3, <1>4

LEMMA NoItems == <<>> \in Seq(AnItem) /\ \A x \in Seq(AnItem) : Cat(x, <<>>) = x /\ Cat(<<>>, x) = x
BY EmptySeq, CatNothing

LEMMA AnItemSeq ==
  ASSUME NEW item \in AnItem, NEW x \in Seq(AnItem)
  PROVE  /\ One(item) \in Seq(AnItem) /\ Append(x, item) \in Seq(AnItem)
         /\ Append(x, item) = Cat(x, One(item))
BY CatOne

LEMMA HeadingTyped ==
  ASSUME NEW place \in Nat
  PROVE  HeadingItems(place) \in Seq(AnItem)
BY NoItems, AnItemSeq DEF HeadingItems, Item, AnItem, Line, Forms

(* What the items of fragments, sections and states are.                   *)
LEMMA FragmentTyped ==
  ASSUME NEW f \in Fragments
  PROVE  /\ LanguageItems(f) \in Seq(AnItem) /\ f.lines \in Seq(Line)
         /\ f.kind # "rule" => Items(f.lines, FormOf(f.kind)) \in Seq(AnItem)
         /\ f.kind = "rule" => AllOfFragment(f) = <<>>
         /\ AllOfFragment(f) \in Seq(AnItem)
<1>1. f.language \in Nat /\ f.lines \in Seq(Line) /\ f.kind \in {"text", "table", "code", "rule"}
  BY DEF Fragments
<1>2. LanguageItems(f) \in Seq(AnItem)
  BY <1>1, NoItems, AnItemSeq DEF LanguageItems, Item, AnItem, Line, Forms
<1>3. CASE f.kind # "rule"
  <2>1. FormOf(f.kind) \in Forms
    BY <1>1, <1>3 DEF FormOf, Forms
  <2>2. Items(f.lines, FormOf(f.kind)) \in Seq(AnItem)
    BY <1>1, <2>1, ItemsOf
  <2> QED
    BY <1>1, <1>2, <1>3, <2>2, CatTyped DEF AllOfFragment
<1>4. CASE f.kind = "rule"
  <2>1. f.lines = <<>> /\ f.language = 0
    BY <1>4 DEF Fragments
  <2>2. Items(<<>>, FormOf(f.kind)) = <<>>
    BY DEF Items
  <2>3. AllOfFragment(f) = <<>>
    BY <2>1, <2>2, NoItems DEF AllOfFragment, LanguageItems
  <2> QED
    BY <1>1, <1>2, <1>4, <2>3, NoItems
<1> QED
  BY <1>3, <1>4

LEMMA FragmentsGrow ==
  ASSUME NEW fs \in Seq(Fragments), NEW f \in Fragments
  PROVE  /\ AllOfFragments(<<>>) = <<>> /\ AllOfFragments(fs) \in Seq(AnItem)
         /\ AllOfFragments(Append(fs, f)) = Cat(AllOfFragments(fs), AllOfFragment(f))
<1> DEFINE g == [x \in Fragments |-> AllOfFragment(x)]
<1>1. g \in [Fragments -> Seq(AnItem)] /\ g[f] = AllOfFragment(f)
  BY FragmentTyped
<1>2. \A x : AllOfFragments(x) = FlatMap(g, x)
  BY DEF AllOfFragments
<1> HIDE DEF g
<1>3. FlatMap(g, <<>>) = <<>> /\ FlatMap(g, fs) \in Seq(AnItem)
  BY <1>1, FlatMapGrows
<1>4. FlatMap(g, Append(fs, f)) = Cat(FlatMap(g, fs), g[f])
  BY <1>1, FlatMapAppend
<1> QED
  BY <1>1, <1>2, <1>3, <1>4, Zenon

LEMMA NoFragments == AllOfFragments(<<>>) = <<>> /\ \A fs \in Seq(Fragments) : AllOfFragments(fs) \in Seq(AnItem)
<1>1. Fragment("rule", <<>>) \in Fragments
  BY EmptySeq DEF Fragment, Fragments
<1>2. <<>> \in Seq(Fragments)
  BY EmptySeq
<1> QED
  BY <1>1, <1>2, FragmentsGrow

LEMMA SectionTyped ==
  ASSUME NEW sec \in Sections
  PROVE  /\ AllOfSection(sec) \in Seq(AnItem)
         /\ HeadingItems(sec.heading) \in Seq(AnItem) /\ AllOfFragments(sec.fragments) \in Seq(AnItem)
<1>1. sec.heading \in Nat /\ sec.fragments \in Seq(Fragments)
  BY DEF Sections
<1> QED
  BY <1>1, HeadingTyped, NoFragments, CatTyped DEF AllOfSection

LEMMA SectionsGrow ==
  ASSUME NEW secs \in Seq(Sections), NEW sec \in Sections
  PROVE  /\ AllOfSections(<<>>) = <<>> /\ AllOfSections(secs) \in Seq(AnItem)
         /\ AllOfSections(Append(secs, sec)) = Cat(AllOfSections(secs), AllOfSection(sec))
<1> DEFINE g == [x \in Sections |-> AllOfSection(x)]
<1>1. g \in [Sections -> Seq(AnItem)] /\ g[sec] = AllOfSection(sec)
  BY SectionTyped
<1>2. \A x : AllOfSections(x) = FlatMap(g, x)
  BY DEF AllOfSections
<1> HIDE DEF g
<1>3. FlatMap(g, <<>>) = <<>> /\ FlatMap(g, secs) \in Seq(AnItem)
  BY <1>1, FlatMapGrows
<1>4. FlatMap(g, Append(secs, sec)) = Cat(FlatMap(g, secs), g[sec])
  BY <1>1, FlatMapAppend
<1> QED
  BY <1>1, <1>2, <1>3, <1>4, Zenon

---------------------------------------------------------------------------
(* A line is parsed.                                                       *)

LEMMA NothingParsedYet == NothingParsed \in States /\ AllOf(NothingParsed) = <<>> /\ NoSection \in Sections
                          /\ AllOfSection(NoSection) = <<>>
<1>1. <<>> \in Seq(Fragments) /\ <<>> \in Seq(Sections)
  BY EmptySeq
<1>2. NoSection \in Sections
  BY <1>1 DEF NoSection, Sections
<1>3. AllOfSection(NoSection) = <<>>
  BY NoFragments, NoItems DEF AllOfSection, NoSection, HeadingItems
<1>4. AllOfSections(<<>>) = <<>>
  BY <1>1, <1>2, SectionsGrow
<1> QED
  BY <1>1, <1>2, <1>3, <1>4, NoItems DEF NothingParsed, States, Opens, AllOf

LEMMA StateTyped ==
  ASSUME NEW s \in States
  PROVE  /\ s.sections \in Seq(Sections) /\ s.section \in Sections
         /\ s.section.fragments \in Seq(Fragments) /\ s.section.heading \in Nat
         /\ AllOfSections(s.sections) \in Seq(AnItem) /\ AllOfSection(s.section) \in Seq(AnItem)
         /\ AllOf(s) \in Seq(AnItem)
<1>1. /\ s.sections \in Seq(Sections) /\ s.section \in Sections
      /\ s.section.fragments \in Seq(Fragments) /\ s.section.heading \in Nat
  BY DEF States, Opens, Sections
<1>2. AllOfSections(s.sections) \in Seq(AnItem) /\ AllOfSection(s.section) \in Seq(AnItem)
  BY <1>1, SectionTyped, SectionsGrow
<1> QED
  BY <1>1, <1>2, CatTyped DEF AllOf

(* The items stay when the section is pushed, empty or not.                *)
LEMMA PushedSection ==
  ASSUME NEW s \in States
  PROVE  PushSection(s) \in Seq(Sections) /\ AllOfSections(PushSection(s)) = AllOf(s)
<1>1. CASE s.section = NoSection
  BY <1>1, StateTyped, NothingParsedYet, NoItems DEF PushSection, IsEmptySection, AllOf
<1>2. CASE s.section # NoSection
  BY <1>2, StateTyped, SectionsGrow, AppendProperties DEF PushSection, IsEmptySection, AllOf
<1> QED
  BY <1>1, <1>2

LEMMA Joined == \A x, y, z \in Seq(AnItem) : Cat(Cat(x, y), z) = Cat(x, Cat(y, z))
BY CatJoined

LEMMA JoinedTyped == \A x, y \in Seq(AnItem) : Cat(x, y) \in Seq(AnItem)
BY CatTyped

(* A fragment more has its items at the end.                               *)
LEMMA FragmentAdded ==
  ASSUME NEW s \in States, NEW f \in Fragments,
         NEW open \in Opens,
         open # "none" => f.kind = KindOf(open), NEW u, u = AddFragment(s, f, open)
  PROVE  /\ u \in States /\ AllOf(u) = Cat(AllOf(s), AllOfFragment(f))
         /\ u.open = open /\ u.sections = s.sections /\ u.section.heading = s.section.heading
<1> DEFINE fs == s.section.fragments
<1>1. /\ u.sections = s.sections /\ u.open = open /\ u.section.heading = s.section.heading
      /\ u.section.fragments = Append(fs, f)
  BY DEF AddFragment, States, Opens, Sections
<1>2. fs \in Seq(Fragments) /\ Append(fs, f) \in Seq(Fragments) /\ Append(fs, f) # <<>> /\ Last(Append(fs, f)) = f
  <2>1. fs \in Seq(Fragments)
    BY StateTyped
  <2> HIDE DEF fs
  <2>2. /\ Append(fs, f) \in Seq(Fragments) /\ Append(fs, f) # <<>> /\ Len(Append(fs, f)) = Len(fs) + 1
        /\ Append(fs, f)[Len(fs) + 1] = f
    BY <2>1, AppendProperties
  <2> QED
    BY <2>1, <2>2 DEF Last
<1>3. u \in States
  BY <1>2 DEF AddFragment, States, Opens, Sections
<1>4. AllOf(u) = Cat(AllOfSections(s.sections),
                     Cat(HeadingItems(s.section.heading), AllOfFragments(Append(fs, f))))
  BY <1>1 DEF AllOf, AllOfSection
<1>5. AllOfFragments(Append(fs, f)) = Cat(AllOfFragments(fs), AllOfFragment(f))
  BY <1>2, FragmentsGrow
<1>6. /\ AllOfSections(s.sections) \in Seq(AnItem) /\ HeadingItems(s.section.heading) \in Seq(AnItem)
      /\ AllOfFragments(fs) \in Seq(AnItem) /\ AllOfFragment(f) \in Seq(AnItem)
  BY StateTyped, SectionTyped, FragmentTyped
<1>7. AllOf(u) = Cat(AllOf(s), AllOfFragment(f))
  <2> DEFINE a == AllOfSections(s.sections)
             b == HeadingItems(s.section.heading)
             c == AllOfFragments(fs)
             d == AllOfFragment(f)
  <2>1. AllOf(u) = Cat(a, Cat(b, Cat(c, d)))
    BY <1>4, <1>5
  <2>2. AllOf(s) = Cat(a, Cat(b, c))
    BY DEF AllOf, AllOfSection
  <2>3. a \in Seq(AnItem) /\ b \in Seq(AnItem) /\ c \in Seq(AnItem) /\ d \in Seq(AnItem)
    BY <1>6
  <2> HIDE DEF a, b, c, d
  <2>4. AllOf(u) = Cat(AllOf(s), d)
    <3>1. Cat(a, Cat(b, Cat(c, d))) = Cat(Cat(a, Cat(b, c)), d)
      BY <2>3, Joined, JoinedTyped
    <3> QED
      BY <2>1, <2>2, <3>1
  <2> QED
    BY <2>4 DEF d
<1> QED
  BY <1>1, <1>3, <1>7

(* A line more in the open fragment is an item at the end.                 *)
LEMMA LineAdded ==
  ASSUME NEW s \in States, s.open \in {"text", "table", "code"}, NEW place \in Line
  PROVE  /\ AddLine(s, place) \in States
         /\ AllOf(AddLine(s, place)) = Append(AllOf(s), Item(place, FormOf(s.open)))
         /\ AddLine(s, place).open = s.open
         /\ AddLine(s, place).sections = s.sections
         /\ AddLine(s, place).section.heading = s.section.heading
<1> DEFINE u == AddLine(s, place)
           fs == s.section.fragments
           old == Last(fs)
           new == [old EXCEPT !.lines = Append(@, place)]
           item == Item(place, FormOf(s.open))
<1>1. fs \in Seq(Fragments) /\ fs # <<>> /\ old.kind = s.open
  BY StateTyped DEF States, Opens, KindOf
<1>2. /\ Len(fs) \in Nat \ {0} /\ Front(fs) \in Seq(Fragments) /\ old \in Fragments
      /\ fs = Append(Front(fs), old)
      /\ new \in Fragments => [fs EXCEPT ![Len(fs)] = new] = Append(Front(fs), new)
  <2> HIDE DEF new
  <2> QED
    BY <1>1, SplitLast
<1>3. new \in Fragments /\ new.kind = s.open /\ new.lines = Append(old.lines, place) /\ new.language = old.language
  <2>1. old.kind = s.open /\ old \in Fragments
    BY <1>1, <1>2
  <2>2. Append(old.lines, place) \in Seq(Line)
    BY <2>1, FragmentTyped, AppendProperties
  <2> HIDE DEF old
  <2> QED
    BY <2>1, <2>2 DEF Fragments
<1>4. [fs EXCEPT ![Len(fs)] = new] = Append(Front(fs), new)
  BY <1>2, <1>3
<1>5. /\ u.sections = s.sections /\ u.open = s.open /\ u.section.heading = s.section.heading
      /\ u.section.fragments = Append(Front(fs), new)
  <2>1. u = [s EXCEPT !.section = [s.section EXCEPT !.fragments = [fs EXCEPT ![Len(fs)] = new]]]
    BY <1>1, <1>2 DEF AddLine, Last
  <2> HIDE DEF u, fs, new
  <2> QED
    BY <1>4, <2>1 DEF States, Opens, Sections
<1>6. u = [s EXCEPT !.section = [s.section EXCEPT !.fragments = Append(Front(fs), new)]]
  <2>1. u = [s EXCEPT !.section = [s.section EXCEPT !.fragments = [fs EXCEPT ![Len(fs)] = new]]]
    BY <1>1, <1>2 DEF AddLine, Last
  <2> HIDE DEF u, fs, new
  <2> QED
    BY <1>4, <2>1
<1> HIDE DEF new
<1>7. Append(Front(fs), new) \in Seq(Fragments) /\ Append(Front(fs), new) # <<>> /\ Last(Append(Front(fs), new)) = new
  BY <1>2, <1>3, AppendProperties DEF Last
<1>8. u \in States
  <2> HIDE DEF u, fs
  <2> QED
    BY <1>3, <1>6, <1>7 DEF States, Opens, Sections, KindOf
<1>9. AllOfFragment(new) = Cat(AllOfFragment(old), One(item)) /\ AllOfFragment(old) \in Seq(AnItem) /\ item \in AnItem
  <2> DEFINE form == FormOf(s.open)
             x == Items(old.lines, form)
  <2>1. form \in Forms
    BY DEF FormOf, Forms
  <2>2. item \in AnItem
    BY <2>1 DEF Item, AnItem
  <2>3. old.lines \in Seq(Line) /\ LanguageItems(old) \in Seq(AnItem) /\ AllOfFragment(old) \in Seq(AnItem)
    BY <1>2, FragmentTyped
  <2>4. Items(new.lines, form) = Append(x, item) /\ x \in Seq(AnItem)
    <3> HIDE DEF old, form
    <3> QED
      BY <1>3, <2>1, <2>3, ItemsOf DEF form
  <2>5. /\ AllOfFragment(old) = Cat(LanguageItems(old), x)
        /\ AllOfFragment(new) = Cat(LanguageItems(old), Items(new.lines, form))
    BY <1>1, <1>3 DEF AllOfFragment, LanguageItems
  <2> HIDE DEF form, x, item, old
  <2>6. Append(x, item) = Cat(x, One(item)) /\ One(item) \in Seq(AnItem)
    BY <2>2, <2>4, AnItemSeq
  <2>7. Cat(LanguageItems(old), Cat(x, One(item))) = Cat(Cat(LanguageItems(old), x), One(item))
    BY <2>3, <2>4, <2>6, Joined
  <2> QED
    BY <2>2, <2>3, <2>4, <2>5, <2>6, <2>7
<1> DEFINE a == AllOfSections(s.sections)
           b == HeadingItems(s.section.heading)
           c == AllOfFragments(Front(fs))
           d == AllOfFragment(old)
           e == One(item)
<1>10. /\ a \in Seq(AnItem) /\ b \in Seq(AnItem) /\ c \in Seq(AnItem) /\ d \in Seq(AnItem)
       /\ e \in Seq(AnItem)
  <2>1. a \in Seq(AnItem) /\ b \in Seq(AnItem)
    BY StateTyped, SectionTyped
  <2>2. c \in Seq(AnItem)
    BY <1>2, NoFragments
  <2>3. e \in Seq(AnItem)
    BY <1>9, NoItems, AnItemSeq
  <2> QED
    BY <1>9, <2>1, <2>2, <2>3
<1>11. AllOf(s) = Cat(a, Cat(b, Cat(c, d)))
  <2>1. AllOfFragments(Append(Front(fs), old)) = Cat(c, d)
    BY <1>2, FragmentsGrow
  <2>2. AllOfFragments(fs) = Cat(c, d)
    <3>1. fs = Append(Front(fs), old)
      BY <1>2
    <3> HIDE DEF fs, old, c, d
    <3> QED
      BY <2>1, <3>1
  <2> QED
    BY <2>2 DEF AllOf, AllOfSection
<1>12. AllOf(u) = Cat(a, Cat(b, Cat(c, Cat(d, e))))
  <2>1. AllOfFragments(Append(Front(fs), new)) = Cat(c, Cat(d, e))
    BY <1>2, <1>3, <1>9, FragmentsGrow
  <2> HIDE DEF u
  <2> QED
    BY <1>5, <2>1 DEF AllOf, AllOfSection
<1>13. AllOf(u) = Cat(AllOf(s), e)
  <2> HIDE DEF a, b, c, d, e, u
  <2> QED
    BY <1>10, <1>11, <1>12, Joined, JoinedTyped
<1>14. AllOf(u) = Append(AllOf(s), item)
  <2>1. AllOf(s) \in Seq(AnItem)
    BY StateTyped
  <2> HIDE DEF u, item
  <2> QED
    BY <1>9, <1>13, <2>1, AnItemSeq
<1> QED
  BY <1>5, <1>8, <1>14

(* Only the first section may have no heading.                             *)
HeadedLater(secs) == \A i \in 2..Len(secs) : secs[i].heading # 0
LaterHeaded(s) == (s.section.heading = 0 => s.sections = <<>>) /\ HeadedLater(s.sections)

(* The line at a place is kept, in one of the forms.                       *)
Kept(s, u, place) == \E form \in Forms : AllOf(u) = Append(AllOf(s), Item(place, form))

(* The fragments that a line opens, and their items.                       *)
LEMMA NewFragments ==
  ASSUME NEW place \in Line
  PROVE  /\ \A kind \in {"text", "table"} :
              /\ Fragment(kind, <<place>>) \in Fragments
              /\ AllOfFragment(Fragment(kind, <<place>>)) = One(Item(place, FormOf(kind)))
         /\ Code(place) \in Fragments /\ AllOfFragment(Code(place)) = One(Item(place, "language"))
         /\ Code(0) \in Fragments /\ AllOfFragment(Code(0)) = <<>>
         /\ Fragment("rule", <<>>) \in Fragments /\ AllOfFragment(Fragment("rule", <<>>)) = <<>>
<1>1. ASSUME NEW kind \in {"text", "table"}
      PROVE  /\ Fragment(kind, <<place>>) \in Fragments
             /\ AllOfFragment(Fragment(kind, <<place>>)) = One(Item(place, FormOf(kind)))
  <2>1. <<place>> \in Seq(Line) /\ FormOf(kind) \in Forms
    BY DEF FormOf, Forms
  <2>2. Fragment(kind, <<place>>) \in Fragments
    BY <2>1 DEF Fragment, Fragments
  <2>3. Items(<<place>>, FormOf(kind)) = One(Item(place, FormOf(kind)))
    BY DEF Items, One
  <2>4. AllOfFragment(Fragment(kind, <<place>>)) = Cat(<<>>, One(Item(place, FormOf(kind))))
    BY <2>3 DEF AllOfFragment, Fragment, LanguageItems
  <2>5. One(Item(place, FormOf(kind))) \in Seq(AnItem)
    BY <2>1, NoItems, AnItemSeq DEF Item, AnItem
  <2> QED
    BY <2>2, <2>4, <2>5, NoItems
<1>2. <<>> \in Seq(Line) /\ Items(<<>>, "code") = <<>>
  BY EmptySeq DEF Items
<1>3. Code(0) \in Fragments /\ Code(place) \in Fragments
  BY <1>2 DEF Code, Fragment, Fragments, Line
<1>4. One(Item(place, "language")) \in Seq(AnItem)
  BY NoItems, AnItemSeq DEF Item, AnItem, Forms
<1>5. AllOfFragment(Code(place)) = One(Item(place, "language"))
  BY <1>2, <1>4, NoItems DEF AllOfFragment, Code, Fragment, LanguageItems, FormOf, Line
<1>6. AllOfFragment(Code(0)) = <<>>
  BY <1>2, NoItems DEF AllOfFragment, Code, Fragment, LanguageItems, FormOf
<1>7. Fragment("rule", <<>>) \in Fragments
  BY <1>2 DEF Fragment, Fragments
<1>8. AllOfFragment(Fragment("rule", <<>>)) = <<>>
  BY <1>7, FragmentTyped DEF Fragment
<1> QED
  BY <1>1, <1>3, <1>5, <1>6, <1>7, <1>8

(* A fragment that is opened for a line keeps it, or has no item.          *)
LEMMA FragmentKept ==
  ASSUME NEW s \in States, LaterHeaded(s), NEW place \in Line, NEW f \in Fragments,
         NEW open \in Opens,
         open # "none" => f.kind = KindOf(open),
         NEW form \in Forms, AllOfFragment(f) = One(Item(place, form))
  PROVE  LET u == AddFragment(s, f, open) IN
         u \in States /\ LaterHeaded(u) /\ u.open = open /\ Kept(s, u, place)
<1> DEFINE u == AddFragment(s, f, open)
<1>0. u = AddFragment(s, f, open)
  OBVIOUS
<1> HIDE DEF u
<1>1. /\ u \in States /\ AllOf(u) = Cat(AllOf(s), AllOfFragment(f)) /\ u.open = open
      /\ u.sections = s.sections /\ u.section.heading = s.section.heading
  BY <1>0, FragmentAdded
<1>2. Item(place, form) \in AnItem /\ AllOf(s) \in Seq(AnItem)
  BY StateTyped DEF Item, AnItem
<1>3. Append(AllOf(s), Item(place, form)) = Cat(AllOf(s), One(Item(place, form)))
  BY <1>2, AnItemSeq
<1> QED
  BY <1>1, <1>3 DEF LaterHeaded, Kept, u

LEMMA FragmentWithout ==
  ASSUME NEW s \in States, LaterHeaded(s), NEW f \in Fragments,
         NEW open \in Opens,
         open # "none" => f.kind = KindOf(open),
         AllOfFragment(f) = <<>>
  PROVE  LET u == AddFragment(s, f, open) IN
         u \in States /\ LaterHeaded(u) /\ u.open = open /\ AllOf(u) = AllOf(s)
<1> DEFINE u == AddFragment(s, f, open)
<1>0. u = AddFragment(s, f, open)
  OBVIOUS
<1> HIDE DEF u
<1>1. /\ u \in States /\ AllOf(u) = Cat(AllOf(s), AllOfFragment(f)) /\ u.open = open
      /\ u.sections = s.sections /\ u.section.heading = s.section.heading
  BY <1>0, FragmentAdded
<1>2. AllOf(s) \in Seq(AnItem)
  BY StateTyped
<1> QED
  BY <1>1, <1>2, NoItems DEF LaterHeaded, u

(* Pushing a section leaves all but the first with a heading.              *)
LEMMA PushedHeaded ==
  ASSUME NEW s \in States, LaterHeaded(s)
  PROVE  HeadedLater(PushSection(s))
<1>1. CASE s.section = NoSection
  BY <1>1 DEF PushSection, IsEmptySection, LaterHeaded
<1>2. CASE s.section # NoSection
  <2>1. PushSection(s) = Append(s.sections, s.section)
    BY <1>2 DEF PushSection, IsEmptySection
  <2>2. s.sections \in Seq(Sections) /\ Len(s.sections) \in Nat /\ (Len(s.sections) # 0 => s.section.heading # 0)
    BY StateTyped, LenProperties, EmptySeq DEF LaterHeaded
  <2>3. /\ Len(PushSection(s)) = Len(s.sections) + 1
        /\ PushSection(s)[Len(s.sections) + 1] = s.section
        /\ \A i \in 1..Len(s.sections) : PushSection(s)[i] = s.sections[i]
    BY <2>1, <2>2, StateTyped, AppendProperties
  <2>4. ASSUME NEW i \in 2..Len(PushSection(s)) PROVE PushSection(s)[i].heading # 0
    <3>1. i = Len(s.sections) + 1 \/ i \in 2..Len(s.sections)
      BY <2>2, <2>3
    <3> QED
      BY <2>2, <2>3, <3>1 DEF LaterHeaded, HeadedLater
  <2> QED
    BY <2>4 DEF HeadedLater
<1> QED
  BY <1>1, <1>2

(* A heading begins a section, and is kept.                                *)
LEMMA HeadingKept ==
  ASSUME NEW s \in States, LaterHeaded(s), NEW place \in Line,
         NEW u, u = [sections |-> PushSection(s), section |-> [NoSection EXCEPT !.heading = place],
                     open |-> "none"]
  PROVE  u \in States /\ LaterHeaded(u) /\ u.open = "none" /\ Kept(s, u, place)
<1> DEFINE sec == [NoSection EXCEPT !.heading = place]
<1>1. sec \in Sections /\ sec.heading = place /\ sec.fragments = <<>> /\ place # 0 /\ place \in Nat
  BY NothingParsedYet DEF NoSection, Sections, Line
<1>2. PushSection(s) \in Seq(Sections) /\ AllOfSections(PushSection(s)) = AllOf(s)
  BY PushedSection
<1>3. u \in States /\ u.open = "none" /\ u.section = sec /\ u.sections = PushSection(s)
  BY <1>1, <1>2 DEF States, Opens
<1>4. Item(place, "heading") \in AnItem /\ AllOf(s) \in Seq(AnItem)
  BY StateTyped DEF Item, AnItem, Forms
<1>5. AllOfSection(sec) = One(Item(place, "heading"))
  <2>1. AllOfSection(sec) = Cat(One(Item(place, "heading")), <<>>)
    BY <1>1, NoFragments DEF AllOfSection, HeadingItems
  <2> QED
    BY <1>4, <2>1, NoItems, AnItemSeq
<1> HIDE DEF sec
<1>6. AllOf(u) = Append(AllOf(s), Item(place, "heading"))
  BY <1>2, <1>3, <1>4, <1>5, AnItemSeq DEF AllOf
<1>7. HeadedLater(PushSection(s))
  BY PushedHeaded
<1> QED
  BY <1>1, <1>3, <1>6, <1>7 DEF LaterHeaded, Kept, Forms

(* A line that the open fragment goes on with is kept.                     *)
LEMMA LineKept ==
  ASSUME NEW s \in States, LaterHeaded(s), s.open \in {"text", "table", "code"}, NEW place \in Line
  PROVE  LET u == AddLine(s, place) IN
         u \in States /\ LaterHeaded(u) /\ u.open = s.open /\ Kept(s, u, place)
<1> DEFINE u == AddLine(s, place)
<1>1. /\ u \in States /\ AllOf(u) = Append(AllOf(s), Item(place, FormOf(s.open)))
      /\ u.open = s.open /\ u.sections = s.sections /\ u.section.heading = s.section.heading
  BY LineAdded
<1>2. FormOf(s.open) \in Forms
  BY DEF FormOf, Forms
<1> HIDE DEF u
<1> QED
  BY <1>1, <1>2 DEF LaterHeaded, Kept, u

(* A fragment that is closed, and a table past its separator, keep all.    *)
LEMMA OpenChanged ==
  ASSUME NEW s \in States, LaterHeaded(s), NEW open,
         (s.open = "code" /\ open = "none") \/ (s.open = "tableSeparator" /\ open = "table")
  PROVE  LET u == [s EXCEPT !.open = open] IN
         u \in States /\ LaterHeaded(u) /\ u.open = open /\ AllOf(u) = AllOf(s)
<1> DEFINE u == [s EXCEPT !.open = open]
<1>1. u.sections = s.sections /\ u.section = s.section /\ u.open = open
  BY DEF States, Opens
<1>2. u \in States
  BY DEF States, Opens, KindOf
<1> HIDE DEF u
<1> QED
  BY <1>1, <1>2 DEF LaterHeaded, AllOf, u

(* A line of the text: it is kept, or nothing is; with content it is kept, *)
(* unless it is the separator that a table was opened for.                 *)
LEMMA LineParsed ==
  ASSUME NEW t, NEW place \in Line, NEW s \in States, LaterHeaded(s)
  PROVE  LET u == ParseLine(t, s, place) IN
         /\ u \in States /\ LaterHeaded(u)
         /\ u.open = "tableSeparator" => StartsTable(t, place)
         /\ AllOf(u) = AllOf(s) \/ Kept(s, u, place)
         /\ s.open # "tableSeparator" /\ IsContent(t[place]) => Kept(s, u, place)
<1> DEFINE u == ParseLine(t, s, place)
           kind == t[place]
<1>1. ASSUME s.open = "code", kind = "fence"
      PROVE  /\ u \in States /\ LaterHeaded(u) /\ u.open = "none" /\ AllOf(u) = AllOf(s)
             /\ ~IsContent(kind)
  <2>1. u = [s EXCEPT !.open = "none"]
    BY <1>1 DEF ParseLine
  <2> HIDE DEF u
  <2> QED
    BY <1>1, <2>1, OpenChanged DEF IsContent, PlainKinds, MarkedKinds
<1>2. ASSUME (s.open = "code" /\ kind # "fence") \/ (s.open = "table" /\ IsTableLine(kind))
      PROVE  u \in States /\ LaterHeaded(u) /\ u.open = s.open /\ Kept(s, u, place)
  <2>1. u = AddLine(s, place)
    BY <1>2 DEF ParseLine
  <2> HIDE DEF u
  <2> QED
    BY <1>2, <2>1, LineKept
<1>3. ASSUME s.open = "tableSeparator"
      PROVE  u \in States /\ LaterHeaded(u) /\ u.open = "table" /\ AllOf(u) = AllOf(s)
  <2>1. u = [s EXCEPT !.open = "table"]
    BY <1>3 DEF ParseLine
  <2> HIDE DEF u
  <2> QED
    BY <1>3, <2>1, OpenChanged
<1> DEFINE Fresh == /\ s.open \notin {"code", "tableSeparator"}
                    /\ ~(s.open = "table" /\ IsTableLine(kind))
<1>4. ASSUME Fresh, kind = "heading"
      PROVE  u \in States /\ LaterHeaded(u) /\ u.open = "none" /\ Kept(s, u, place)
  <2>1. u = [sections |-> PushSection(s), section |-> [NoSection EXCEPT !.heading = place],
             open |-> "none"]
    BY <1>4 DEF ParseLine
  <2> HIDE DEF u
  <2> QED
    BY <2>1, HeadingKept
<1>5. ASSUME Fresh, kind \in {"fence", "fenceLang"}
      PROVE  /\ u \in States /\ LaterHeaded(u) /\ u.open = "code"
             /\ AllOf(u) = AllOf(s) \/ Kept(s, u, place)
             /\ ~IsContent(kind)
  <2>1. u = AddFragment(s, Code(IF kind = "fenceLang" THEN place ELSE 0), "code")
    BY <1>5 DEF ParseLine, OpensCode, IsFence
  <2>2. Code(0).kind = "code" /\ Code(place).kind = "code"
    BY DEF Code, Fragment
  <2> HIDE DEF u
  <2>3. ASSUME kind = "fenceLang" PROVE u \in States /\ LaterHeaded(u) /\ u.open = "code" /\ Kept(s, u, place)
    <3>1. u = AddFragment(s, Code(place), "code")
      BY <2>1, <2>3
    <3>2. Code(place) \in Fragments /\ AllOfFragment(Code(place)) = One(Item(place, "language"))
      BY NewFragments
    <3> QED
      BY <2>2, <3>1, <3>2, FragmentKept DEF Opens, KindOf, Forms
  <2>4. ASSUME kind = "fence" PROVE u \in States /\ LaterHeaded(u) /\ u.open = "code" /\ AllOf(u) = AllOf(s)
    <3>1. u = AddFragment(s, Code(0), "code")
      BY <2>1, <2>4
    <3>2. Code(0) \in Fragments /\ AllOfFragment(Code(0)) = <<>>
      BY NewFragments
    <3> QED
      BY <2>2, <3>1, <3>2, FragmentWithout DEF Opens, KindOf
  <2>5. ~IsContent(kind)
    BY <1>5 DEF IsContent, PlainKinds, MarkedKinds
  <2> QED
    BY <1>5, <2>3, <2>4, <2>5
<1>6. ASSUME Fresh, kind = "rule"
      PROVE  /\ u \in States /\ LaterHeaded(u) /\ u.open = "none" /\ AllOf(u) = AllOf(s)
             /\ ~IsContent(kind)
  <2>1. u = AddFragment(s, Fragment("rule", <<>>), "none")
    BY <1>6 DEF ParseLine, OpensCode, IsFence
  <2> HIDE DEF u
  <2> QED
    BY <1>6, <2>1, NewFragments, FragmentWithout DEF Opens, IsContent, PlainKinds, MarkedKinds
<1> DEFINE Rest == Fresh /\ kind \notin {"heading", "fence", "fenceLang", "rule"}
<1>7. ASSUME Rest, StartsTable(t, place)
      PROVE  u \in States /\ LaterHeaded(u) /\ u.open = "tableSeparator" /\ Kept(s, u, place)
  <2>1. u = AddFragment(s, Fragment("table", <<place>>), "tableSeparator")
    BY <1>7 DEF ParseLine, OpensCode, IsFence
  <2>2. Fragment("table", <<place>>).kind = KindOf("tableSeparator") /\ FormOf("table") \in Forms
    BY DEF Fragment, KindOf, FormOf, Forms
  <2> HIDE DEF u
  <2> QED
    BY <2>1, <2>2, NewFragments, FragmentKept DEF Opens
<1>8. ASSUME Rest, ~StartsTable(t, place), s.open = "text"
      PROVE  u \in States /\ LaterHeaded(u) /\ u.open = "text" /\ Kept(s, u, place)
  <2>1. u = AddLine(s, place)
    BY <1>8 DEF ParseLine, OpensCode, IsFence
  <2> HIDE DEF u
  <2> QED
    BY <1>8, <2>1, LineKept
<1>9. ASSUME Rest, ~StartsTable(t, place), s.open # "text"
      PROVE  u \in States /\ LaterHeaded(u) /\ u.open = "text" /\ Kept(s, u, place)
  <2>1. u = AddFragment(s, Fragment("text", <<place>>), "text")
    BY <1>9 DEF ParseLine, OpensCode, IsFence
  <2>2. Fragment("text", <<place>>).kind = KindOf("text") /\ FormOf("text") \in Forms
    BY DEF Fragment, KindOf, FormOf, Forms
  <2> HIDE DEF u
  <2> QED
    BY <2>1, <2>2, NewFragments, FragmentKept DEF Opens
<1> HIDE DEF u, kind
<1>10. /\ u \in States /\ LaterHeaded(u)
       /\ u.open = "tableSeparator" => StartsTable(t, place)
       /\ AllOf(u) = AllOf(s) \/ Kept(s, u, place)
       /\ s.open # "tableSeparator" /\ IsContent(kind) => Kept(s, u, place)
  <2>1. CASE ~Fresh
    <3>1. CASE s.open = "code" /\ kind = "fence"
      BY <1>1, <3>1
    <3>2. CASE (s.open = "code" /\ kind # "fence") \/ (s.open = "table" /\ IsTableLine(kind))
      BY <1>2, <3>2
    <3>3. CASE s.open = "tableSeparator"
      BY <1>3, <3>3
    <3>4. \/ s.open = "code" /\ kind = "fence"
          \/ (s.open = "code" /\ kind # "fence") \/ (s.open = "table" /\ IsTableLine(kind))
          \/ s.open = "tableSeparator"
      BY <2>1
    <3> QED
      BY <3>1, <3>2, <3>3, <3>4, Zenon
  <2>2. CASE Fresh /\ ~Rest
    BY <1>4, <1>5, <1>6, <2>2
  <2>3. CASE Rest
    BY <1>7, <1>8, <1>9, <2>3
  <2> QED
    BY <2>1, <2>2, <2>3
<1> QED
  BY <1>10 DEF u, kind

---------------------------------------------------------------------------
(* The parse, from line to line.                                           *)

Parses == {s \in States : LaterHeaded(s)}

(* A parse goes from line to line.                                         *)
LEMMA ParseRuns ==
  ASSUME NEW t \in Seq(Kinds)
  PROVE  \E h : /\ h[0] = NothingParsed
                /\ \A k \in 0..(Len(t) - 1) : h[k + 1] = ParseLine(t, h[k], k + 1)
                /\ ParseSections(t) = PushSection(h[Len(t)])
<1> DEFINE op(s, place) == ParseLine(t, s, place)
           Eq(it) == it = [s \in SUBSET DOMAIN Places(t) |->
                             IF s = {} THEN NothingParsed
                             ELSE op(it[s \ {Max(s)}], Places(t)[Max(s)])]
           iter == CHOOSE it : Eq(it)
           n == Len(t)
<1>1. ParseSections(t) = PushSection(iter[DOMAIN Places(t)])
  BY DEF ParseSections, FoldLeft, MapThenFoldSet
<1>2. n \in Nat /\ DOMAIN Places(t) = 1..n /\ \A k \in 1..n : Places(t)[k] = k
  BY LenProperties DEF Places
<1> HIDE DEF n
<1>3. \E it : Eq(it)
  <2> DEFINE G == [x \in Parses \X (Nat \ {0}) |-> op(x[1], x[2])]
  <2>1. \A x \in Parses : \A i \in Nat \ {0} : G[<<x, i>>] \in Parses /\ G[<<x, i>>] = op(x, i)
    <3> SUFFICES ASSUME NEW x \in Parses, NEW i \in Nat \ {0} PROVE op(x, i) \in Parses
      OBVIOUS
    <3> QED
      BY LineParsed DEF Parses, Line
  <2>2. NothingParsed \in Parses
    BY NothingParsedYet DEF Parses, LaterHeaded, HeadedLater, NothingParsed
  <2> HIDE DEF G, op
  <2>3. PICK it \in [SUBSET (1..n) -> Parses] : Folds(n, NothingParsed, G, it)
    BY <1>2, <2>1, <2>2, FoldExists
  <2>4. \A s \in SUBSET (1..n) : s # {} => Max(s) \in 1..n /\ s \ {Max(s)} \in SUBSET (1..n)
    BY <1>2, MaxIsIn
  <2>5. it = [s \in SUBSET DOMAIN Places(t) |->
                             IF s = {} THEN NothingParsed
                             ELSE op(it[s \ {Max(s)}], Places(t)[Max(s)])]
    <3>1. ASSUME NEW s \in SUBSET (1..n), s # {}
          PROVE  G[<<it[s \ {Max(s)}], Max(s)>>] = op(it[s \ {Max(s)}], Places(t)[Max(s)])
      <4> DEFINE m == Max(s)
                 x == it[s \ {m}]
      <4>1. m \in 1..n /\ m \in Nat \ {0} /\ x \in Parses /\ Places(t)[m] = m
        BY <1>2, <2>3, <2>4, <3>1
      <4> HIDE DEF m, x
      <4>2. G[<<x, m>>] = op(x, Places(t)[m])
        BY <2>1, <4>1
      <4> QED
        BY <4>2 DEF m, x
    <3> QED
      BY <1>2, <2>3, <3>1 DEF Folds
  <2> QED
    BY <2>5
<1>4. Eq(iter)
  <2> HIDE DEF Eq
  <2> QED
    BY <1>3
<1>5. \A s \in SUBSET (1..n) :
        iter[s] = IF s = {} THEN NothingParsed ELSE op(iter[s \ {Max(s)}], Places(t)[Max(s)])
  <2> HIDE DEF iter, op
  <2> QED
    BY <1>2, <1>4
<1> HIDE DEF iter, op
<1> DEFINE h == [k \in 0..n |-> iter[1..k]]
<1>6. h[0] = NothingParsed
  <2>1. 1..0 = {} /\ 0 \in 0..n /\ {} \in SUBSET (1..n)
    BY <1>2
  <2> QED
    BY <1>5, <2>1
<1>7. ASSUME NEW k \in 0..(n - 1) PROVE h[k + 1] = op(h[k], k + 1)
  <2>1. /\ Max(1..(k + 1)) = k + 1 /\ (1..(k + 1)) \ {k + 1} = 1..k
        /\ 1..(k + 1) # {} /\ 1..(k + 1) \in SUBSET (1..n)
    BY <1>2, UpTo
  <2>2. h[k + 1] = iter[1..(k + 1)] /\ h[k] = iter[1..k] /\ Places(t)[k + 1] = k + 1
    BY <1>2
  <2> HIDE DEF h
  <2> QED
    BY <1>5, <2>1, <2>2
<1>8. ParseSections(t) = PushSection(h[n])
  BY <1>1, <1>2
<1> HIDE DEF h
<1> QED
  BY <1>6, <1>7, <1>8 DEF op, n

---------------------------------------------------------------------------
(* The order of the items, and what a parse has kept so far.               *)

(* The items, and that their places ascend.                                *)
Elems(x) == {x[i] : i \in 1..Len(x)}
Asc(x) == \A i, j \in 1..Len(x) : i < j => x[i].place < x[j].place

(* The items of two sequences, and when they ascend.                       *)
LEMMA ElemsOf ==
  ASSUME NEW x \in Seq(AnItem), NEW y \in Seq(AnItem)
  PROVE  /\ Elems(<<>>) = {} /\ Asc(<<>>)
         /\ Elems(x) \subseteq AnItem
         /\ Elems(Cat(x, y)) = Elems(x) \cup Elems(y)
         /\ Asc(Cat(x, y)) <=> /\ Asc(x) /\ Asc(y)
                               /\ \A a \in Elems(x), b \in Elems(y) : a.place < b.place
<1> DEFINE z == Cat(x, y)
           m == Len(x)
           n == Len(y)
<1>1. /\ m \in Nat /\ n \in Nat /\ Len(z) = m + n
      /\ \A i \in 1..m : z[i] = x[i] /\ x[i] \in AnItem
      /\ \A i \in 1..n : z[m + i] = y[i] /\ y[i] \in AnItem
  BY CatElements, ElementOfSeq
<1>2. Elems(<<>>) = {} /\ Asc(<<>>)
  BY DEF Elems, Asc
<1> HIDE DEF z
<1>3. \A i \in 1..(m + n) : i \in 1..m \/ \E j \in 1..n : i = m + j
  <2> SUFFICES ASSUME NEW i \in 1..(m + n), i \notin 1..m PROVE \E j \in 1..n : i = m + j
    OBVIOUS
  <2>1. i - m \in 1..n /\ i = m + (i - m)
    BY <1>1
  <2> QED
    BY <2>1
<1>4. \A i \in 1..m : i \in 1..(m + n)
  BY <1>1
<1>5. \A i \in 1..n : m + i \in 1..(m + n)
  BY <1>1
<1> HIDE DEF m, n
<1>6. Elems(z) = Elems(x) \cup Elems(y)
  <2>1. \A e \in Elems(z) : e \in Elems(x) \cup Elems(y)
    <3> SUFFICES ASSUME NEW i \in 1..(m + n) PROVE z[i] \in Elems(x) \cup Elems(y)
      BY <1>1 DEF Elems
    <3>1. CASE i \in 1..m
      BY <1>1, <3>1 DEF Elems, m
    <3>2. CASE i \notin 1..m
      <4>1. PICK j \in 1..n : i = m + j
        BY <1>3, <3>2
      <4>2. z[i] = y[j]
        BY <1>1, <4>1
      <4> QED
        BY <4>2 DEF Elems, n
    <3> QED
      BY <3>1, <3>2
  <2>2. \A e \in Elems(x) : e \in Elems(z)
    BY <1>1, <1>4 DEF Elems, m, n
  <2>3. \A e \in Elems(y) : e \in Elems(z)
    <3> SUFFICES ASSUME NEW i \in 1..n PROVE y[i] \in Elems(z)
      BY DEF Elems, n
    <3>1. z[m + i] = y[i] /\ m + i \in 1..Len(z)
      BY <1>1, <1>5
    <3> QED
      BY <3>1 DEF Elems
  <2> QED
    BY <2>1, <2>2, <2>3
<1>7. Elems(x) \subseteq AnItem
  BY <1>1 DEF Elems, m
<1>8. ASSUME Asc(z) PROVE Asc(x) /\ Asc(y) /\ \A a \in Elems(x), b \in Elems(y) : a.place < b.place
  <2>1. \A i, j \in 1..m : i < j => x[i].place < x[j].place
    BY <1>1, <1>4, <1>8 DEF Asc
  <2>2. ASSUME NEW i \in 1..n, NEW j \in 1..n, i < j PROVE y[i].place < y[j].place
    <3>1. m + i < m + j /\ m + i \in 1..Len(z) /\ m + j \in 1..Len(z)
      BY <1>1, <1>5, <2>2
    <3>2. z[m + i].place < z[m + j].place
      BY <1>8, <3>1 DEF Asc
    <3> QED
      BY <1>1, <3>2
  <2>3. ASSUME NEW i \in 1..m, NEW j \in 1..n PROVE x[i].place < y[j].place
    <3>1. i < m + j /\ i \in 1..Len(z) /\ m + j \in 1..Len(z)
      BY <1>1, <1>4, <1>5
    <3>2. z[i].place < z[m + j].place
      BY <1>8, <3>1 DEF Asc
    <3> QED
      BY <1>1, <3>2
  <2> QED
    BY <2>1, <2>2, <2>3 DEF Asc, Elems, m, n
<1>9. ASSUME Asc(x), Asc(y), \A a \in Elems(x), b \in Elems(y) : a.place < b.place PROVE Asc(z)
  <2> SUFFICES ASSUME NEW i \in 1..(m + n), NEW j \in 1..(m + n), i < j
               PROVE  z[i].place < z[j].place
    BY <1>1 DEF Asc
  <2>1. CASE i \in 1..m /\ j \in 1..m
    BY <1>1, <1>9, <2>1 DEF Asc, m
  <2>2. CASE i \in 1..m /\ j \notin 1..m
    <3>1. PICK l \in 1..n : j = m + l
      BY <1>3, <2>2
    <3>2. z[i] = x[i] /\ z[j] = y[l] /\ x[i] \in Elems(x) /\ y[l] \in Elems(y)
      BY <1>1, <2>2, <3>1 DEF Elems, m, n
    <3> QED
      BY <1>9, <3>2
  <2>3. CASE i \notin 1..m
    <3>1. PICK k \in 1..n : i = m + k
      BY <1>3, <2>3
    <3>2. PICK l \in 1..n : j = m + l
      BY <1>1, <1>3, <3>1
    <3>3. k < l /\ z[i] = y[k] /\ z[j] = y[l]
      BY <1>1, <3>1, <3>2
    <3> QED
      BY <1>9, <3>3 DEF Asc, n
  <2> QED
    BY <2>1, <2>2, <2>3
<1> QED
  BY <1>2, <1>6, <1>7, <1>8, <1>9 DEF z

(* One item.                                                               *)
LEMMA OneOf ==
  ASSUME NEW e \in AnItem
  PROVE  One(e) \in Seq(AnItem) /\ Elems(One(e)) = {e} /\ Asc(One(e))
<1>1. Len(One(e)) = 1 /\ One(e)[1] = e /\ One(e) \in Seq(AnItem)
  BY DEF One
<1> QED
  BY <1>1 DEF Elems, Asc

(* A run of a parse over t.                                                *)
ParseRun(t, h) ==
  h[0] = NothingParsed /\ \A k \in 0..(Len(t) - 1) : h[k + 1] = ParseLine(t, h[k], k + 1)

(* What holds of the parse of the first k lines: the items are in the      *)
(* order of the lines, and no line with content is missing.                *)
Parsed(t, k, s) ==
  /\ s \in States /\ LaterHeaded(s)
  /\ s.open = "tableSeparator" => k \in 1..Len(t) /\ StartsTable(t, k)
  /\ Asc(AllOf(s)) /\ \A e \in Elems(AllOf(s)) : e.place \in 1..k
  /\ \A p \in 1..k : IsContent(t[p]) => \E e \in Elems(AllOf(s)) : e.place = p

(* An item with a later place keeps the places ascending.                  *)
LEMMA AppendedItem ==
  ASSUME NEW x \in Seq(AnItem), NEW e \in AnItem, Asc(x), \A d \in Elems(x) : d.place < e.place
  PROVE  Elems(Append(x, e)) = Elems(x) \cup {e} /\ Asc(Append(x, e))
<1>1. One(e) \in Seq(AnItem) /\ Elems(One(e)) = {e} /\ Asc(One(e)) /\ Append(x, e) = Cat(x, One(e))
  BY OneOf, AnItemSeq
<1> DEFINE y == One(e)
<1> HIDE DEF y
<1>2. /\ Elems(Cat(x, y)) = Elems(x) \cup Elems(y)
      /\ Asc(x) /\ Asc(y) /\ (\A a \in Elems(x), b \in Elems(y) : a.place < b.place) => Asc(Cat(x, y))
  <2>1. y \in Seq(AnItem)
    BY <1>1 DEF y
  <2> QED
    BY <2>1, ElemsOf
<1> QED
  BY <1>1, <1>2 DEF y

(* What holds of a parse holds after one line more.                        *)
LEMMA ParseGoesOn ==
  ASSUME NEW t \in Seq(Kinds), NEW k \in 0..(Len(t) - 1), NEW s, Parsed(t, k, s)
  PROVE  Parsed(t, k + 1, ParseLine(t, s, k + 1))
<1> DEFINE u == ParseLine(t, s, k + 1)
<1>1. Len(t) \in Nat /\ k \in Nat /\ k + 1 \in 1..Len(t) /\ k + 1 \in Line
  BY LenProperties DEF Line
<1>2. s \in States /\ LaterHeaded(s) /\ AllOf(s) \in Seq(AnItem)
  BY StateTyped DEF Parsed
<1>3. /\ u \in States /\ LaterHeaded(u)
      /\ u.open = "tableSeparator" => StartsTable(t, k + 1)
      /\ AllOf(u) = AllOf(s) \/ Kept(s, u, k + 1)
      /\ s.open # "tableSeparator" /\ IsContent(t[k + 1]) => Kept(s, u, k + 1)
  BY <1>1, <1>2, LineParsed
<1> HIDE DEF u
<1>4. /\ Asc(AllOf(u)) /\ Elems(AllOf(s)) \subseteq Elems(AllOf(u))
      /\ \A e \in Elems(AllOf(u)) : e.place \in 1..(k + 1)
      /\ Kept(s, u, k + 1) => \E e \in Elems(AllOf(u)) : e.place = k + 1
  <2>1. CASE Kept(s, u, k + 1)
    <3>1. PICK form \in Forms : AllOf(u) = Append(AllOf(s), Item(k + 1, form))
      BY <2>1 DEF Kept
    <3> DEFINE e == Item(k + 1, form)
    <3>2. e \in AnItem /\ e.place = k + 1
      BY <1>1 DEF Item, AnItem
    <3>3. \A d \in Elems(AllOf(s)) : d.place < k + 1
      BY <1>1 DEF Parsed
    <3>4. Asc(AllOf(s)) /\ \A d \in Elems(AllOf(s)) : d.place \in 1..(k + 1)
      BY <1>1 DEF Parsed
    <3> HIDE DEF e
    <3>5. Elems(AllOf(u)) = Elems(AllOf(s)) \cup {e} /\ Asc(AllOf(u))
      BY <1>2, <3>1, <3>2, <3>3, <3>4, AppendedItem DEF e
    <3> QED
      BY <1>1, <3>2, <3>4, <3>5
  <2>2. CASE AllOf(u) = AllOf(s) /\ ~Kept(s, u, k + 1)
    <3>1. Asc(AllOf(s)) /\ \A d \in Elems(AllOf(s)) : d.place \in 1..(k + 1)
      BY <1>1 DEF Parsed
    <3> QED
      BY <2>2, <3>1
  <2> QED
    BY <1>3, <2>1, <2>2
<1>5. ASSUME NEW p \in 1..(k + 1), IsContent(t[p]) PROVE \E e \in Elems(AllOf(u)) : e.place = p
  <2>1. CASE p \in 1..k
    BY <1>4, <1>5, <2>1 DEF Parsed
  <2>2. CASE p = k + 1
    <3>1. s.open # "tableSeparator"
      <4>1. s.open = "tableSeparator" => t[k + 1] = "separator"
        BY DEF Parsed, StartsTable
      <4>2. ~IsContent("separator")
        BY DEF IsContent, PlainKinds, MarkedKinds
      <4> QED
        BY <1>5, <2>2, <4>1, <4>2
    <3> QED
      BY <1>3, <1>4, <1>5, <2>2, <3>1
  <2> QED
    BY <1>1, <2>1, <2>2
<1> QED
  BY <1>1, <1>3, <1>4, <1>5 DEF Parsed, u

(* It holds after every line.                                              *)
LEMMA ParseHolds ==
  ASSUME NEW t \in Seq(Kinds), NEW h, ParseRun(t, h)
  PROVE  \A k \in 0..Len(t) : Parsed(t, k, h[k])
<1> DEFINE K == {k \in 0..Len(t) : Parsed(t, k, h[k])}
<1>1. Len(t) \in Nat
  BY LenProperties
<1>2. Parsed(t, 0, h[0])
  <2>1. h[0] = NothingParsed
    BY DEF ParseRun
  <2>2. NothingParsed.open = "none" /\ NothingParsed.sections = <<>> /\ NothingParsed.section.heading = 0
    BY DEF NothingParsed, NoSection
  <2>3. NothingParsed \in States /\ AllOf(NothingParsed) = <<>>
    BY NothingParsedYet
  <2>4. Elems(<<>>) = {} /\ Asc(<<>>)
    BY DEF Elems, Asc
  <2>5. LaterHeaded(NothingParsed)
    BY <2>2 DEF LaterHeaded, HeadedLater
  <2>6. \A p \in 1..0 : FALSE
    OBVIOUS
  <2> HIDE DEF K
  <2> QED
    BY <2>1, <2>2, <2>3, <2>4, <2>5, <2>6 DEF Parsed
<1>3. ASSUME NEW k \in 0..(Len(t) - 1), k \in K PROVE k + 1 \in K
  <2>1. Parsed(t, k, h[k]) /\ h[k + 1] = ParseLine(t, h[k], k + 1) /\ k + 1 \in 0..Len(t)
    BY <1>1, <1>3 DEF ParseRun
  <2>2. Parsed(t, k + 1, ParseLine(t, h[k], k + 1))
    BY <2>1, ParseGoesOn
  <2> QED
    BY <2>1, <2>2
<1>4. 0 \in K
  BY <1>1, <1>2
<1> HIDE DEF K
<1>5. \A k \in 0..Len(t) : k \in K
  BY <1>1, <1>3, <1>4, ToEach
<1> QED
  BY <1>5 DEF K

---------------------------------------------------------------------------
(* Blank lines at the edges are taken away.                                *)

(* A set of numbers up to n has a least and a greatest one.                *)
LEMMA MinIsIn ==
  ASSUME NEW n \in Nat, NEW s \in SUBSET (1..n), s # {}
  PROVE  Min(s) \in s /\ \A y \in s : Min(s) <= y
<1> DEFINE S == {k \in Nat : (\E x \in s : x <= k) => \E x \in s : \A y \in s : x <= y}
<1>1. 0 \in S
  OBVIOUS
<1>2. ASSUME NEW k \in Nat, k \in S PROVE k + 1 \in S
  <2>1. CASE \E x \in s : x <= k
    BY <1>2, <2>1
  <2>2. CASE ~ \E x \in s : x <= k
    <3> SUFFICES ASSUME NEW x \in s, x <= k + 1 PROVE \A y \in s : x <= y
      OBVIOUS
    <3>1. \A y \in s : y \in Nat /\ ~(y <= k)
      BY <2>2
    <3> QED
      BY <3>1
  <2> QED
    BY <2>1, <2>2
<1> HIDE DEF S
<1>3. n \in S
  BY <1>1, <1>2, FromZero
<1>5. \E x \in s : x <= n
  <2>1. PICK x \in s : TRUE
    OBVIOUS
  <2>2. x <= n
    BY <2>1
  <2> QED
    BY <2>2
<1>4. \E x \in s : \A y \in s : x <= y
  BY <1>3, <1>5 DEF S
<1> QED
  BY <1>4 DEF Min

LEMMA MaxIsMost ==
  ASSUME NEW n \in Nat, NEW s \in SUBSET (1..n), s # {}
  PROVE  Max(s) \in s /\ \A y \in s : y <= Max(s)
<1> DEFINE S == {k \in Nat : \A t \in SUBSET (1..k) : t # {} => \E x \in t : \A y \in t : x >= y}
<1>1. 0 \in S
  <2>1. 1..0 = {}
    OBVIOUS
  <2> QED
    BY <2>1
<1>2. ASSUME NEW k \in Nat, k \in S PROVE k + 1 \in S
  <2> SUFFICES ASSUME NEW t \in SUBSET (1..(k + 1)), t # {} PROVE \E x \in t : \A y \in t : x >= y
    OBVIOUS
  <2>1. CASE k + 1 \in t
    BY <2>1
  <2>2. CASE k + 1 \notin t
    BY <1>2, <2>2
  <2> QED
    BY <2>1, <2>2
<1> HIDE DEF S
<1>3. n \in S
  BY <1>1, <1>2, FromZero
<1>4. \E x \in s : \A y \in s : x >= y
  BY <1>3 DEF S
<1>5. Max(s) \in s /\ \A y \in s : Max(s) >= y
  BY <1>4 DEF Max
<1> QED
  BY <1>5

Cuts(t, places, y) ==
  \/ y = <<>> /\ \A i \in 1..Len(places) : t[places[i]] = "blank"
  \/ \E lo, hi \in 1..Len(places) :
       /\ lo <= hi /\ Len(y) = hi - lo + 1
       /\ \A i \in 1..Len(y) : y[i] = places[lo + i - 1]
       /\ t[places[lo]] # "blank" /\ t[places[hi]] # "blank"
       /\ \A i \in 1..Len(places) : t[places[i]] # "blank" => i \in lo..hi

(* Blank lines at the edges are what TrimBlankEdges takes away.            *)
LEMMA EdgesTrimmed ==
  ASSUME NEW t, NEW places \in Seq(Line), NEW y, y = TrimBlankEdges(t, places)
  PROVE  /\ y \in Seq(Line)
         /\ Cuts(t, places, y)
<1> DEFINE solid == {i \in DOMAIN places : t[places[i]] # "blank"}
           n == Len(places)
<1>1. n \in Nat /\ DOMAIN places = 1..n /\ \A i \in 1..n : places[i] \in Line
  BY LenProperties, ElementOfSeq
<1>2. CASE solid = {}
  <2>1. y = <<>>
    BY <1>2 DEF TrimBlankEdges
  <2>2. y \in Seq(Line)
    BY <2>1, EmptySeq
  <2>3. \A i \in 1..n : t[places[i]] = "blank"
    BY <1>1, <1>2
  <2> QED
    BY <2>1, <2>2, <2>3 DEF Cuts
<1>3. CASE solid # {}
  <2> DEFINE lo == Min(solid)
             hi == Max(solid)
  <2>1. solid \in SUBSET (1..n)
    BY <1>1
  <2>2. y = SubSeq(places, lo, hi)
    BY <1>3 DEF TrimBlankEdges
  <2>3. /\ lo \in solid /\ \A i \in solid : lo <= i
        /\ hi \in solid /\ \A i \in solid : i <= hi
    <3> HIDE DEF solid, n
    <3> QED
      BY <1>1, <1>3, <2>1, MinIsIn, MaxIsMost
  <2> HIDE DEF lo, hi
  <2>4. lo \in 1..n /\ hi \in 1..n /\ lo <= hi /\ t[places[lo]] # "blank" /\ t[places[hi]] # "blank"
    BY <1>1, <2>3
  <2>5. \A i \in lo..hi : places[i] \in Line
    BY <1>1, <2>4
  <2>6. /\ y \in Seq(Line) /\ Len(y) = hi - lo + 1
        /\ \A i \in 1..(hi - lo + 1) : y[i] = places[lo + i - 1]
    <3> HIDE DEF n
    <3>1. lo \in Int /\ hi \in Int
      BY <1>1, <2>4
    <3>2. /\ SubSeq(places, lo, hi) \in Seq(Line)
          /\ Len(SubSeq(places, lo, hi)) = IF lo <= hi THEN hi - lo + 1 ELSE 0
          /\ \A i \in 1..(hi - lo + 1) : SubSeq(places, lo, hi)[i] = places[lo + i - 1]
      BY <2>5, <3>1, SubSeqProperties
    <3> QED
      BY <2>2, <2>4, <3>2
  <2>7. \A i \in 1..n : t[places[i]] # "blank" => i \in lo..hi
    BY <1>1, <2>3, <2>4
  <2> HIDE DEF n
  <2>8. \E l, u \in 1..n :
                 /\ l <= u /\ Len(y) = u - l + 1
                 /\ \A i \in 1..Len(y) : y[i] = places[l + i - 1]
                 /\ t[places[l]] # "blank" /\ t[places[u]] # "blank"
                 /\ \A i \in 1..n : t[places[i]] # "blank" => i \in l..u
    BY <2>4, <2>6, <2>7
  <2> QED
    BY <2>6, <2>8 DEF n, Cuts
<1> QED
  BY <1>2, <1>3

(* The items of a pair: the first are those of the second but for blank    *)
(* lines, in the same order.                                               *)
Trimmed(t) ==
  {p \in Seq(AnItem) \X Seq(AnItem) :
     /\ Asc(p[2]) => Asc(p[1])
     /\ Elems(p[1]) \subseteq Elems(p[2])
     /\ \A e \in Elems(p[2]) : t[e.place] # "blank" => e \in Elems(p[1])}

(* Trimmed holds of the same items, and one after the other.               *)
LEMMA TrimmedSelf ==
  ASSUME NEW t, NEW x \in Seq(AnItem)
  PROVE  <<x, x>> \in Trimmed(t)
BY DEF Trimmed

LEMMA TrimmedCat ==
  ASSUME NEW t, NEW x \in Seq(AnItem), NEW y \in Seq(AnItem),
         NEW v \in Seq(AnItem), NEW w \in Seq(AnItem),
         <<x, y>> \in Trimmed(t), <<v, w>> \in Trimmed(t)
  PROVE  <<Cat(x, v), Cat(y, w)>> \in Trimmed(t)
<1>1. Cat(x, v) \in Seq(AnItem) /\ Cat(y, w) \in Seq(AnItem)
  BY JoinedTyped
<1>2. /\ Elems(Cat(x, v)) = Elems(x) \cup Elems(v)
      /\ Asc(x) /\ Asc(v) /\ (\A a \in Elems(x), b \in Elems(v) : a.place < b.place) => Asc(Cat(x, v))
  BY ElemsOf
<1>3. /\ Elems(Cat(y, w)) = Elems(y) \cup Elems(w)
      /\ Asc(Cat(y, w)) => Asc(y) /\ Asc(w) /\ \A a \in Elems(y), b \in Elems(w) : a.place < b.place
  BY ElemsOf
<1>4. /\ Asc(y) => Asc(x)
      /\ Elems(x) \subseteq Elems(y)
      /\ \A e \in Elems(y) : t[e.place] # "blank" => e \in Elems(x)
  BY DEF Trimmed
<1>5. /\ Asc(w) => Asc(v)
      /\ Elems(v) \subseteq Elems(w)
      /\ \A e \in Elems(w) : t[e.place] # "blank" => e \in Elems(v)
  BY DEF Trimmed
<1> DEFINE a == Cat(x, v)
           b == Cat(y, w)
<1> HIDE DEF a, b
<1>6. /\ Asc(b) => Asc(a)
      /\ Elems(a) \subseteq Elems(b)
      /\ \A e \in Elems(b) : t[e.place] # "blank" => e \in Elems(a)
  BY <1>2, <1>3, <1>4, <1>5 DEF a, b
<1>7. <<a, b>> \in Trimmed(t)
  BY <1>1, <1>6 DEF Trimmed, a, b
<1> QED
  BY <1>7 DEF a, b

(* What TrimBlankEdges takes from the items are blank lines.               *)
LEMMA TrimmedItems ==
  ASSUME NEW t, NEW places \in Seq(Line), NEW form \in Forms
  PROVE  /\ TrimBlankEdges(t, places) \in Seq(Line)
         /\ Items(TrimBlankEdges(t, places), form) \in Seq(AnItem)
         /\ <<Items(TrimBlankEdges(t, places), form), Items(places, form)>> \in Trimmed(t)
<1> DEFINE y == TrimBlankEdges(t, places)
           a == Items(y, form)
           b == Items(places, form)
<1>1. y \in Seq(Line) /\ Cuts(t, places, y)
  <2>1. y = TrimBlankEdges(t, places)
    OBVIOUS
  <2> HIDE DEF y
  <2> QED
    BY <2>1, EdgesTrimmed
<1> HIDE DEF y
<1>2. /\ a \in Seq(AnItem) /\ Len(a) = Len(y)
      /\ \A i \in 1..Len(y) : a[i] = Item(y[i], form)
  BY <1>1, ItemsOf
<1>3. /\ b \in Seq(AnItem) /\ Len(b) = Len(places)
      /\ \A i \in 1..Len(places) : b[i] = Item(places[i], form)
  BY ItemsOf
<1>8. \A place : Item(place, form).place = place
  BY DEF Item
<1> HIDE DEF a, b
<1>4. Len(places) \in Nat /\ Len(y) \in Nat
  BY <1>1, LenProperties
<1>5. ASSUME y = <<>>, \A i \in 1..Len(places) : t[places[i]] = "blank"
      PROVE  <<a, b>> \in Trimmed(t)
  <2>1. Len(a) = 0 /\ Elems(a) = {} /\ Asc(a)
    BY <1>2, <1>5 DEF Elems, Asc
  <2>2. \A e \in Elems(b) : t[e.place] = "blank"
    BY <1>3, <1>5, <1>8 DEF Elems
  <2> QED
    BY <1>2, <1>3, <2>1, <2>2 DEF Trimmed
<1>6. ASSUME NEW lo \in 1..Len(places), NEW hi \in 1..Len(places), lo <= hi, Len(y) = hi - lo + 1,
             \A i \in 1..Len(y) : y[i] = places[lo + i - 1],
             \A i \in 1..Len(places) : t[places[i]] # "blank" => i \in lo..hi
      PROVE  <<a, b>> \in Trimmed(t)
  <2>1. \A i \in 1..Len(a) : lo + i - 1 \in 1..Len(b) /\ a[i] = b[lo + i - 1]
    <3> SUFFICES ASSUME NEW i \in 1..Len(a) PROVE lo + i - 1 \in 1..Len(b) /\ a[i] = b[lo + i - 1]
      OBVIOUS
    <3> DEFINE j == lo + i - 1
    <3>1. i \in 1..Len(y) /\ j \in 1..Len(places)
      BY <1>2, <1>4, <1>6
    <3>2. y[i] = places[j]
      BY <1>6, <3>1
    <3> HIDE DEF j
    <3>3. a[i] = b[j] /\ j \in 1..Len(b)
      BY <1>2, <1>3, <3>1, <3>2
    <3> QED
      BY <3>3 DEF j
  <2>2. ASSUME Asc(b) PROVE Asc(a)
    <3> SUFFICES ASSUME NEW i \in 1..Len(a), NEW j \in 1..Len(a), i < j PROVE a[i].place < a[j].place
      BY DEF Asc
    <3>1. lo + i - 1 < lo + j - 1
      BY <1>2, <1>4
    <3> QED
      BY <2>1, <2>2, <3>1 DEF Asc
  <2>3. Elems(a) \subseteq Elems(b)
    BY <2>1 DEF Elems
  <2>4. ASSUME NEW e \in Elems(b), t[e.place] # "blank" PROVE e \in Elems(a)
    <3>1. PICK i \in 1..Len(places) : e = b[i]
      BY <1>3 DEF Elems
    <3>2. e.place = places[i]
      BY <1>3, <1>8, <3>1
    <3>3. i \in lo..hi
      BY <1>6, <2>4, <3>2
    <3>4. i - lo + 1 \in 1..Len(a) /\ lo + (i - lo + 1) - 1 = i
      BY <1>2, <1>6, <3>3
    <3>5. a[i - lo + 1] = b[i]
      BY <2>1, <3>4
    <3> QED
      BY <3>1, <3>4, <3>5 DEF Elems
  <2> QED
    BY <1>2, <1>3, <2>2, <2>3, <2>4 DEF Trimmed
<1>7. y # <<>> => <<a, b>> \in Trimmed(t)
  BY <1>1, <1>6 DEF Cuts
<1>9. <<a, b>> \in Trimmed(t)
  <2>1. y = <<>> => \A i \in 1..Len(places) : t[places[i]] = "blank"
    <3> SUFFICES ASSUME y = <<>>, NEW lo \in 1..Len(places), NEW hi \in 1..Len(places),
                        lo <= hi, Len(y) = hi - lo + 1
                 PROVE  FALSE
      BY <1>1 DEF Cuts
    <3>1. Len(y) = 0
      BY EmptySeq
    <3> QED
      BY <1>4, <3>1
  <2> QED
    BY <1>5, <1>7, <2>1
<1> QED
  BY <1>1, <1>2, <1>9 DEF a, b, y

---------------------------------------------------------------------------
(* The parts that fragments are rendered as.                               *)

(* The items that may stand in a part or a block of a format.              *)
Formats == {"lark_md", "plain_text"}
Fitting(t, format) ==
  {e \in AnItem :
     /\ e.form \in {"code", "row", "language"} => format = "plain_text"
     /\ e.form = "heading" \/ (e.form = "text" /\ t[e.place] \in MarkedKinds) => format = "lark_md"}

PartsIn(t, format) == [items : Seq(Fitting(t, format)), format : {format}]
PartsOf(t) == UNION {PartsIn(t, format) : format \in Formats}

(* What is shown of a fragment, a section and all of them.                 *)
FragmentShown(t, f) == IF f.kind = "rule" THEN <<>> ELSE RenderFragment(t, f).items
FragmentsShown(t, fs) == FlatMap([f \in Fragments |-> FragmentShown(t, f)], fs)
SectionShown(t, sec) == Cat(HeadingItems(sec.heading), FragmentsShown(t, sec.fragments))
SectionsShown(t, secs) == FlatMap([sec \in Sections |-> SectionShown(t, sec)], secs)

(* Items fit a format when each of them does.                              *)
LEMMA FittingItems ==
  ASSUME NEW t, NEW format, NEW form \in Forms, NEW places \in Seq(Line),
         \A i \in 1..Len(places) : Item(places[i], form) \in Fitting(t, format)
  PROVE  Items(places, form) \in Seq(Fitting(t, format))
<1> DEFINE x == Items(places, form)
<1>1. x \in Seq(AnItem) /\ Len(x) = Len(places) /\ \A i \in 1..Len(places) : x[i] = Item(places[i], form)
  BY ItemsOf
<1> HIDE DEF x
<1>2. Len(x) \in Nat /\ x \in [1..Len(x) -> AnItem]
  BY <1>1, LenProperties
<1>3. x \in [1..Len(x) -> Fitting(t, format)]
  BY <1>1, <1>2
<1>4. x \in Seq(Fitting(t, format))
  BY <1>2, <1>3, SeqFrom
<1> QED
  BY <1>4 DEF x

(* A fragment is rendered as a part whose items fit its format, and no     *)
(* item is lost but for blank lines at the edges.                          *)
LEMMA PartRendered ==
  ASSUME NEW t, NEW f \in Fragments, f.kind # "rule"
  PROVE  /\ RenderFragment(t, f) \in PartsOf(t)
         /\ <<RenderFragment(t, f).items, AllOfFragment(f)>> \in Trimmed(t)
<1> DEFINE lines == TrimBlankEdges(t, f.lines)
<1>1. f.lines \in Seq(Line) /\ LanguageItems(f) \in Seq(AnItem) /\ f.language \in Nat
      /\ f.kind \in {"text", "table", "code"} /\ (f.language # 0 => f.kind = "code")
  BY FragmentTyped DEF Fragments
<1>2. \A form \in Forms : /\ lines \in Seq(Line) /\ Items(lines, form) \in Seq(AnItem)
                          /\ Items(f.lines, form) \in Seq(AnItem)
                          /\ <<Items(lines, form), Items(f.lines, form)>> \in Trimmed(t)
  BY <1>1, TrimmedItems, ItemsOf
<1> HIDE DEF lines
<1>3. CASE f.kind = "text"
  <2> DEFINE format == FormatOfLines(t, lines)
  <2>1. RenderFragment(t, f) = Part(Items(lines, "text"), format)
    BY <1>3 DEF RenderFragment, lines
  <2>2. AllOfFragment(f) = Items(f.lines, "text")
    BY <1>1, <1>2, <1>3, NoItems DEF AllOfFragment, LanguageItems, FormOf, Forms
  <2>3. format \in Formats
    BY DEF FormatOfLines, Formats
  <2>4. lines \in Seq(Line) /\ DOMAIN lines = 1..Len(lines) /\ \A i \in 1..Len(lines) : lines[i] \in Line
    BY <1>2, LenProperties, ElementOfSeq DEF Forms
  <2>5. ASSUME NEW i \in 1..Len(lines) PROVE Item(lines[i], "text") \in Fitting(t, format)
    BY <2>4 DEF Item, Fitting, AnItem, Forms, FormatOfLines, Format
  <2> HIDE DEF format
  <2>6. Items(lines, "text") \in Seq(Fitting(t, format))
    BY <2>4, <2>5, FittingItems DEF Forms
  <2>7. RenderFragment(t, f) \in PartsOf(t) /\ RenderFragment(t, f).items = Items(lines, "text")
    BY <2>1, <2>3, <2>6 DEF Part, PartsOf, PartsIn
  <2> QED
    BY <1>2, <2>2, <2>7 DEF Forms
<1>4. CASE f.kind = "table"
  <2>1. RenderFragment(t, f) = Part(Items(f.lines, "row"), "plain_text")
    BY <1>4 DEF RenderFragment
  <2>2. AllOfFragment(f) = Items(f.lines, "row") /\ Items(f.lines, "row") \in Seq(AnItem)
    BY <1>1, <1>2, <1>4, NoItems DEF AllOfFragment, LanguageItems, FormOf, Forms
  <2>5. ASSUME NEW i \in 1..Len(f.lines) PROVE Item(f.lines[i], "row") \in Fitting(t, "plain_text")
    <3>1. f.lines[i] \in Line
      BY <1>1, ElementOfSeq
    <3> QED
      BY <3>1 DEF Item, Fitting, AnItem, Forms
  <2>6. Items(f.lines, "row") \in Seq(Fitting(t, "plain_text"))
    BY <1>1, <2>5, FittingItems DEF Forms
  <2>7. RenderFragment(t, f) \in PartsOf(t) /\ RenderFragment(t, f).items = Items(f.lines, "row")
    BY <2>1, <2>6 DEF Part, PartsOf, PartsIn, Formats
  <2> QED
    BY <2>2, <2>7, TrimmedSelf
<1>5. CASE f.kind = "code"
  <2> DEFINE items == Cat(LanguageItems(f), Items(lines, "code"))
  <2>1. RenderFragment(t, f) = Part(items, "plain_text")
    BY <1>5 DEF RenderFragment, lines, Cat, LanguageItems, One
  <2>2. AllOfFragment(f) = Cat(LanguageItems(f), Items(f.lines, "code"))
    BY <1>5 DEF AllOfFragment, FormOf
  <2>3. <<items, AllOfFragment(f)>> \in Trimmed(t)
    <3>1. <<LanguageItems(f), LanguageItems(f)>> \in Trimmed(t)
      BY <1>1, TrimmedSelf
    <3> QED
      BY <1>1, <1>2, <2>2, <3>1, TrimmedCat DEF Forms
  <2>4. lines \in Seq(Line) /\ \A i \in 1..Len(lines) : lines[i] \in Line
    BY <1>2, ElementOfSeq DEF Forms
  <2>5. ASSUME NEW i \in 1..Len(lines) PROVE Item(lines[i], "code") \in Fitting(t, "plain_text")
    BY <2>4 DEF Item, Fitting, AnItem, Forms
  <2>6. Items(lines, "code") \in Seq(Fitting(t, "plain_text"))
    BY <2>4, <2>5, FittingItems DEF Forms
  <2>7. LanguageItems(f) \in Seq(Fitting(t, "plain_text"))
    <3>1. <<>> \in Seq(Fitting(t, "plain_text"))
      BY EmptySeq
    <3>2. f.language # 0 => Item(f.language, "language") \in Fitting(t, "plain_text")
      BY <1>1 DEF Item, Fitting, AnItem, Forms, Line
    <3>3. f.language # 0 => One(Item(f.language, "language")) \in Seq(Fitting(t, "plain_text"))
      BY <3>1, <3>2, CatOne
    <3> QED
      BY <3>1, <3>3 DEF LanguageItems
  <2>8. items \in Seq(Fitting(t, "plain_text"))
    BY <2>6, <2>7, CatTyped
  <2> HIDE DEF items
  <2>9. RenderFragment(t, f) \in PartsOf(t) /\ RenderFragment(t, f).items = items
    BY <2>1, <2>8 DEF Part, PartsOf, PartsIn, Formats
  <2> QED
    BY <2>3, <2>9
<1> QED
  BY <1>1, <1>3, <1>4, <1>5

(* So are the items of one fragment, ...                                   *)
LEMMA FragmentIsShown ==
  ASSUME NEW t, NEW f \in Fragments
  PROVE  FragmentShown(t, f) \in Seq(AnItem) /\ <<FragmentShown(t, f), AllOfFragment(f)>> \in Trimmed(t)
<1>1. CASE f.kind = "rule"
  BY <1>1, FragmentTyped, NoItems, TrimmedSelf DEF FragmentShown
<1>2. CASE f.kind # "rule"
  <2>1. <<FragmentShown(t, f), AllOfFragment(f)>> \in Trimmed(t)
    BY <1>2, PartRendered DEF FragmentShown
  <2> QED
    BY <2>1 DEF Trimmed
<1> QED
  BY <1>1, <1>2

(* Trimmed holds of what is flattened if it holds of each part.            *)
LEMMA TrimmedJoins ==
  ASSUME NEW t
  PROVE  Joins(Trimmed(t), AnItem, AnItem)
<1>1. <<<<>>, <<>>>> \in Trimmed(t)
  BY NoItems, TrimmedSelf
<1> QED
  BY <1>1, TrimmedCat DEF Joins

(* ... of the fragments of a section, ...                                  *)
LEMMA FragmentsAreShown ==
  ASSUME NEW t, NEW fs \in Seq(Fragments)
  PROVE  /\ FragmentsShown(t, <<>>) = <<>> /\ FragmentsShown(t, fs) \in Seq(AnItem)
         /\ \A f \in Fragments : FragmentsShown(t, Append(fs, f)) = Cat(FragmentsShown(t, fs), FragmentShown(t, f))
         /\ <<FragmentsShown(t, fs), AllOfFragments(fs)>> \in Trimmed(t)
<1> DEFINE a == [f \in Fragments |-> FragmentShown(t, f)]
           b == [f \in Fragments |-> AllOfFragment(f)]
           R == Trimmed(t)
<1>1. a \in [Fragments -> Seq(AnItem)] /\ b \in [Fragments -> Seq(AnItem)]
  BY FragmentIsShown, FragmentTyped
<1>2. \A f \in Fragments : <<a[f], b[f]>> \in R /\ a[f] = FragmentShown(t, f)
  BY FragmentIsShown
<1>3. Joins(R, AnItem, AnItem)
  BY TrimmedJoins
<1>4. FragmentsShown(t, fs) = FlatMap(a, fs) /\ AllOfFragments(fs) = FlatMap(b, fs)
      /\ FragmentsShown(t, <<>>) = FlatMap(a, <<>>)
      /\ \A f : FragmentsShown(t, Append(fs, f)) = FlatMap(a, Append(fs, f))
  BY DEF FragmentsShown, AllOfFragments
<1> HIDE DEF a, b, R
<1>5. <<FlatMap(a, fs), FlatMap(b, fs)>> \in R
  BY <1>1, <1>2, <1>3, FlatMapRelates
<1>6. FlatMap(a, <<>>) = <<>> /\ FlatMap(a, fs) \in Seq(AnItem)
  BY <1>1, FlatMapGrows
<1>7. \A f \in Fragments : FlatMap(a, Append(fs, f)) = Cat(FlatMap(a, fs), a[f])
  BY <1>1, FlatMapAppend
<1> QED
  BY <1>2, <1>4, <1>5, <1>6, <1>7, Zenon DEF R

(* ... of a section with its heading, ...                                  *)
LEMMA SectionIsShown ==
  ASSUME NEW t, NEW sec \in Sections
  PROVE  SectionShown(t, sec) \in Seq(AnItem) /\ <<SectionShown(t, sec), AllOfSection(sec)>> \in Trimmed(t)
<1>1. sec.heading \in Nat /\ sec.fragments \in Seq(Fragments)
  BY DEF Sections
<1>2. /\ FragmentsShown(t, sec.fragments) \in Seq(AnItem) /\ AllOfFragments(sec.fragments) \in Seq(AnItem)
      /\ <<FragmentsShown(t, sec.fragments), AllOfFragments(sec.fragments)>> \in Trimmed(t)
  BY <1>1, FragmentsAreShown, NoFragments
<1>3. HeadingItems(sec.heading) \in Seq(AnItem) /\ <<HeadingItems(sec.heading), HeadingItems(sec.heading)>> \in Trimmed(t)
  BY <1>1, HeadingTyped, TrimmedSelf
<1> QED
  BY <1>2, <1>3, JoinedTyped, TrimmedCat DEF SectionShown, AllOfSection

(* ... and of all sections.                                                *)
LEMMA SectionsAreShown ==
  ASSUME NEW t, NEW secs \in Seq(Sections)
  PROVE  /\ SectionsShown(t, <<>>) = <<>> /\ SectionsShown(t, secs) \in Seq(AnItem)
         /\ \A sec \in Sections : SectionsShown(t, Append(secs, sec)) = Cat(SectionsShown(t, secs), SectionShown(t, sec))
         /\ <<SectionsShown(t, secs), AllOfSections(secs)>> \in Trimmed(t)
<1> DEFINE a == [sec \in Sections |-> SectionShown(t, sec)]
           b == [sec \in Sections |-> AllOfSection(sec)]
           R == Trimmed(t)
<1>1. a \in [Sections -> Seq(AnItem)] /\ b \in [Sections -> Seq(AnItem)]
  BY SectionIsShown, SectionTyped
<1>2. \A sec \in Sections : <<a[sec], b[sec]>> \in R /\ a[sec] = SectionShown(t, sec)
  BY SectionIsShown
<1>3. Joins(R, AnItem, AnItem)
  BY TrimmedJoins
<1>4. SectionsShown(t, secs) = FlatMap(a, secs) /\ AllOfSections(secs) = FlatMap(b, secs)
      /\ SectionsShown(t, <<>>) = FlatMap(a, <<>>)
      /\ \A sec : SectionsShown(t, Append(secs, sec)) = FlatMap(a, Append(secs, sec))
  BY DEF SectionsShown, AllOfSections
<1> HIDE DEF a, b, R
<1>5. <<FlatMap(a, secs), FlatMap(b, secs)>> \in R
  BY <1>1, <1>2, <1>3, FlatMapRelates
<1>6. FlatMap(a, <<>>) = <<>> /\ FlatMap(a, secs) \in Seq(AnItem)
  BY <1>1, FlatMapGrows
<1>7. \A sec \in Sections : FlatMap(a, Append(secs, sec)) = Cat(FlatMap(a, secs), a[sec])
  BY <1>1, FlatMapAppend
<1> QED
  BY <1>2, <1>4, <1>5, <1>6, <1>7, Zenon DEF R

---------------------------------------------------------------------------
(* The blocks.                                                             *)

(* The blocks, and a rendering under way: its pending parts have a format. *)
BlocksIn(t, format) == [kind : {"text"}, items : Seq(Fitting(t, format)), format : {format}]
Blocks(t) == {Rule} \cup UNION {BlocksIn(t, format) : format \in Formats}
PartLists(t) == UNION {Seq(PartsIn(t, format)) : format \in Formats}
Renders(t) == [blocks : Seq(Blocks(t)), parts : PartLists(t)]

Total(r) == Cat(Contents(r.blocks), Contents(r.parts))
RuleCount(blocks) == Count(blocks, {Rule})

(* The contents of parts, or of blocks: of one more, and of others more.   *)
LEMMA ContentsGrow ==
  ASSUME NEW T, NEW S, \A x \in S : x.items \in Seq(T), NEW s \in Seq(S)
  PROVE  /\ Contents(<<>>) = <<>> /\ Contents(s) \in Seq(T)
         /\ \A x \in S : Contents(Append(s, x)) = Cat(Contents(s), x.items)
         /\ \A u \in Seq(S) : Contents(Cat(s, u)) = Cat(Contents(s), Contents(u))
<1> DEFINE f == [x \in S |-> x.items]
<1>1. f \in [S -> Seq(T)] /\ \A x \in S : f[x] = x.items
  OBVIOUS
<1>2. ASSUME NEW u \in Seq(S) PROVE Contents(u) = FlatMap(f, u)
  <2>1. \A i \in DOMAIN u : u[i] \in S
    BY LenProperties, ElementOfSeq
  <2>2. [i \in DOMAIN u |-> f[u[i]]] = [i \in DOMAIN u |-> u[i].items]
    BY <2>1
  <2> QED
    BY <2>2 DEF Contents, FlatMap
<1> HIDE DEF f
<1>3. Contents(<<>>) = <<>>
  <2>1. [i \in DOMAIN <<>> |-> <<>>[i].items] = <<>>
    OBVIOUS
  <2> QED
    BY <2>1, FlattenOfNothing DEF Contents
<1>4. FlatMap(f, s) \in Seq(T)
  BY <1>1, FlatMapGrows
<1>5. ASSUME NEW x \in S PROVE Contents(Append(s, x)) = Cat(Contents(s), x.items)
  <2>1. FlatMap(f, Append(s, x)) = Cat(FlatMap(f, s), f[x])
    BY <1>1, FlatMapAppend
  <2>2. Append(s, x) \in Seq(S)
    BY AppendProperties
  <2> QED
    BY <1>1, <1>2, <2>1, <2>2
<1>6. ASSUME NEW u \in Seq(S) PROVE Contents(Cat(s, u)) = Cat(Contents(s), Contents(u))
  <2>1. FlatMap(f, Cat(s, u)) = Cat(FlatMap(f, s), FlatMap(f, u))
    BY <1>1, FlatMapConcat
  <2>2. Cat(s, u) \in Seq(S)
    BY CatTyped
  <2> QED
    BY <1>2, <2>1, <2>2
<1> QED
  BY <1>2, <1>3, <1>4, <1>5, <1>6

(* What fits is an item.                                                   *)
LEMMA ItemsFit ==
  ASSUME NEW t, NEW format
  PROVE  /\ \A x \in Seq(Fitting(t, format)) : x \in Seq(AnItem)
         /\ \A p \in PartsIn(t, format) : p.items \in Seq(Fitting(t, format)) /\ p.items \in Seq(AnItem)
<1>1. Fitting(t, format) \subseteq AnItem
  BY DEF Fitting
<1>2. \A x \in Seq(Fitting(t, format)) : x \in Seq(AnItem)
  BY <1>1, SeqMonotonic
<1> QED
  BY <1>2 DEF PartsIn

(* The blocks, the parts and the renderings under way.                     *)
LEMMA BlockTyped ==
  ASSUME NEW t
  PROVE  /\ Rule \in Blocks(t)
         /\ \A format \in Formats : \A x \in Seq(Fitting(t, format)) :
              TextBlock(x, format) \in Blocks(t) /\ TextBlock(x, format) # Rule
         /\ \A b \in Blocks(t) : /\ b.items \in Seq(AnItem) /\ (b.kind = "rule" <=> b = Rule)
                                 /\ b # Rule => Part(b.items, b.format) \in PartsOf(t)
<1>1. \A format \in Formats : \A x \in Seq(Fitting(t, format)) :
        TextBlock(x, format) \in Blocks(t) /\ TextBlock(x, format) # Rule
  BY DEF Blocks, BlocksIn, TextBlock, Rule
<1>2. Rule.items \in Seq(AnItem) /\ Rule.kind = "rule"
  BY NoItems DEF Rule
<1>3. ASSUME NEW format \in Formats, NEW b \in BlocksIn(t, format)
      PROVE  b.items \in Seq(AnItem) /\ b.kind # "rule" /\ b # Rule /\ Part(b.items, b.format) \in PartsOf(t)
  <2>1. b.kind = "text" /\ b.items \in Seq(Fitting(t, format)) /\ b.format = format
    BY DEF BlocksIn
  <2>2. b.items \in Seq(AnItem)
    BY <2>1, ItemsFit
  <2> QED
    BY <1>2, <2>1, <2>2 DEF Part, PartsOf, PartsIn
<1> QED
  BY <1>1, <1>2, <1>3 DEF Blocks

LEMMA PartTyped ==
  ASSUME NEW t, NEW p \in PartsOf(t)
  PROVE  /\ p.format \in Formats /\ p \in PartsIn(t, p.format)
         /\ p.items \in Seq(Fitting(t, p.format)) /\ p.items \in Seq(AnItem)
<1>1. p.format \in Formats /\ p \in PartsIn(t, p.format)
  BY DEF PartsOf, PartsIn
<1> QED
  BY <1>1, ItemsFit

LEMMA RenderTyped ==
  ASSUME NEW t, NEW r \in Renders(t)
  PROVE  /\ r.blocks \in Seq(Blocks(t)) /\ r.parts \in PartLists(t)
         /\ r = [blocks |-> r.blocks, parts |-> r.parts]
         /\ Contents(r.blocks) \in Seq(AnItem) /\ Contents(r.parts) \in Seq(AnItem)
         /\ Total(r) \in Seq(AnItem)
         /\ Contents(<<>>) = <<>>
<1>1. r.blocks \in Seq(Blocks(t)) /\ r.parts \in PartLists(t) /\ r = [blocks |-> r.blocks, parts |-> r.parts]
  BY DEF Renders
<1>2. Contents(<<>>) = <<>> /\ Contents(r.blocks) \in Seq(AnItem)
  <2>1. \A x \in Blocks(t) : x.items \in Seq(AnItem)
    BY BlockTyped
  <2> QED
    BY <1>1, <2>1, ContentsGrow
<1>3. PICK format \in Formats : r.parts \in Seq(PartsIn(t, format))
  BY <1>1 DEF PartLists
<1>4. Contents(r.parts) \in Seq(AnItem)
  BY <1>3, ItemsFit, ContentsGrow
<1> QED
  BY <1>1, <1>2, <1>4, JoinedTyped DEF Total

(* A part more, a block more.                                              *)
LEMMA PartsAppended ==
  ASSUME NEW t, NEW format \in Formats, NEW parts \in Seq(PartsIn(t, format)), NEW p \in PartsIn(t, format)
  PROVE  /\ Append(parts, p) \in PartLists(t)
         /\ Contents(Append(parts, p)) = Cat(Contents(parts), p.items)
<1>1. Append(parts, p) \in Seq(PartsIn(t, format))
  BY AppendProperties
<1>2. Contents(Append(parts, p)) = Cat(Contents(parts), p.items)
  BY ItemsFit, ContentsGrow
<1> QED
  BY <1>1, <1>2 DEF PartLists

LEMMA BlocksAppended ==
  ASSUME NEW t, NEW blocks \in Seq(Blocks(t)), NEW b \in Blocks(t)
  PROVE  /\ Append(blocks, b) \in Seq(Blocks(t))
         /\ Contents(Append(blocks, b)) = Cat(Contents(blocks), b.items)
         /\ RuleCount(Append(blocks, b)) = RuleCount(blocks) + (IF b = Rule THEN 1 ELSE 0)
         /\ RuleCount(blocks) \in Nat /\ RuleCount(<<>>) = 0
<1>1. Append(blocks, b) \in Seq(Blocks(t))
  BY AppendProperties
<1>2. Contents(Append(blocks, b)) = Cat(Contents(blocks), b.items)
  <2>1. \A x \in Blocks(t) : x.items \in Seq(AnItem)
    BY BlockTyped
  <2>2. \A x \in Blocks(t) : Contents(Append(blocks, x)) = Cat(Contents(blocks), x.items)
    BY <2>1, ContentsGrow
  <2> QED
    BY <2>2
<1>3. /\ Count(Append(blocks, b), {Rule}) = Count(blocks, {Rule}) + (IF b \in {Rule} THEN 1 ELSE 0)
      /\ Count(blocks, {Rule}) \in Nat /\ Count(<<>>, {Rule}) = 0
  BY CountGrows
<1>4. b \in {Rule} <=> b = Rule
  OBVIOUS
<1> QED
  BY <1>1, <1>2, <1>3, <1>4 DEF RuleCount

(* The parts that are pending share a format: it is that of the block.     *)
LEMMA FormatOfTheParts ==
  ASSUME NEW t, NEW format \in Formats, NEW parts \in Seq(PartsIn(t, format)), parts # <<>>
  PROVE  /\ FormatOfParts(parts) = format /\ Last(parts).format = format
         /\ Contents(parts) \in Seq(Fitting(t, format))
<1>1. Len(parts) \in Nat \ {0} /\ DOMAIN parts = 1..Len(parts)
      /\ \A i \in 1..Len(parts) : parts[i].format = format
  <2>1. \A i \in 1..Len(parts) : parts[i] \in PartsIn(t, format)
    BY ElementOfSeq
  <2>2. \A p \in PartsIn(t, format) : p.format = format
    BY DEF PartsIn
  <2> QED
    BY <2>1, <2>2, LenProperties, EmptySeq
<1>2. 1 \in 1..Len(parts) /\ Len(parts) \in 1..Len(parts)
  BY <1>1
<1>3. FormatOfParts(parts) = format
  BY <1>1, <1>2 DEF FormatOfParts, Formats
<1>4. Last(parts).format = format
  BY <1>1, <1>2 DEF Last
<1>5. \A x \in PartsIn(t, format) : x.items \in Seq(Fitting(t, format))
  BY ItemsFit
<1>6. Contents(parts) \in Seq(Fitting(t, format))
  BY <1>5, ContentsGrow
<1> QED
  BY <1>3, <1>4, <1>6

(* flushTextParts keeps the items, and adds no rule.                       *)
LEMMA Flushed ==
  ASSUME NEW t, NEW r \in Renders(t)
  PROVE  /\ Flush(r) \in Renders(t) /\ Total(Flush(r)) = Total(r) /\ Flush(r).parts = <<>>
         /\ Total(r) = Contents(Flush(r).blocks)
         /\ RuleCount(Flush(r).blocks) = RuleCount(r.blocks)
<1> DEFINE u == Flush(r)
<1>0. /\ r.blocks \in Seq(Blocks(t)) /\ r.parts \in PartLists(t)
      /\ Contents(r.blocks) \in Seq(AnItem) /\ Contents(r.parts) \in Seq(AnItem)
      /\ Contents(<<>>) = <<>>
  BY RenderTyped
<1>1. CASE r.parts = <<>>
  <2>1. u = r
    BY <1>1 DEF Flush
  <2> QED
    BY <1>0, <1>1, <2>1, NoItems DEF Total
<1>2. CASE r.parts # <<>>
  <2>1. PICK format \in Formats : r.parts \in Seq(PartsIn(t, format))
    BY <1>0 DEF PartLists
  <2> DEFINE b == TextBlock(Contents(r.parts), format)
  <2>2. u.blocks = Append(r.blocks, b) /\ u.parts = <<>> /\ u = [blocks |-> u.blocks, parts |-> u.parts]
    <3>1. FormatOfParts(r.parts) = format
      BY <1>2, <2>1, FormatOfTheParts
    <3> QED
      BY <1>2, <3>1 DEF Flush, Renders
  <2>3. b \in Blocks(t) /\ b # Rule /\ b.items = Contents(r.parts)
    <3>1. Contents(r.parts) \in Seq(Fitting(t, format))
      BY <1>2, <2>1, FormatOfTheParts
    <3> QED
      BY <3>1, BlockTyped DEF TextBlock
  <2> HIDE DEF b, u
  <2>4. /\ u.blocks \in Seq(Blocks(t)) /\ RuleCount(u.blocks) = RuleCount(r.blocks)
        /\ Contents(u.blocks) = Cat(Contents(r.blocks), Contents(r.parts))
    <3>1. /\ Append(r.blocks, b) \in Seq(Blocks(t))
          /\ Contents(Append(r.blocks, b)) = Cat(Contents(r.blocks), b.items)
          /\ RuleCount(Append(r.blocks, b)) = RuleCount(r.blocks) + (IF b = Rule THEN 1 ELSE 0)
          /\ RuleCount(r.blocks) \in Nat
      BY <1>0, <2>3, BlocksAppended
    <3> QED
      BY <2>2, <2>3, <3>1
  <2>5. <<>> \in PartLists(t)
    BY EmptySeq DEF PartLists, Formats
  <2>6. u \in Renders(t)
    BY <2>2, <2>4, <2>5 DEF Renders
  <2>7. Contents(u.blocks) \in Seq(AnItem)
    BY <2>6, RenderTyped
  <2>8. Total(u) = Contents(u.blocks)
    BY <1>0, <2>2, <2>7, NoItems DEF Total
  <2> QED
    BY <2>2, <2>4, <2>6, <2>8 DEF Total, u
<1> QED
  BY <1>1, <1>2

(* A block more has its items at the end.                                  *)
LEMMA BlockAdded ==
  ASSUME NEW t, NEW r \in Renders(t), r.parts = <<>>, NEW b \in Blocks(t)
  PROVE  /\ AddBlock(r, b) \in Renders(t) /\ Total(AddBlock(r, b)) = Cat(Total(r), b.items)
         /\ AddBlock(r, b).parts = <<>>
         /\ RuleCount(AddBlock(r, b).blocks) = RuleCount(r.blocks) + (IF b = Rule THEN 1 ELSE 0)
<1> DEFINE u == AddBlock(r, b)
<1>0. /\ r.blocks \in Seq(Blocks(t)) /\ Contents(r.blocks) \in Seq(AnItem) /\ Contents(<<>>) = <<>>
  BY RenderTyped
<1>1. u.blocks = Append(r.blocks, b) /\ u.parts = <<>> /\ u = [blocks |-> u.blocks, parts |-> u.parts]
  <2>1. r = [blocks |-> r.blocks, parts |-> r.parts]
    BY RenderTyped
  <2>2. u = [blocks |-> Append(r.blocks, b), parts |-> r.parts]
    BY <2>1 DEF AddBlock
  <2> HIDE DEF u
  <2> QED
    BY <2>2
<1>2. /\ Append(r.blocks, b) \in Seq(Blocks(t))
      /\ Contents(Append(r.blocks, b)) = Cat(Contents(r.blocks), b.items)
      /\ RuleCount(Append(r.blocks, b)) = RuleCount(r.blocks) + (IF b = Rule THEN 1 ELSE 0)
  BY <1>0, BlocksAppended
<1> HIDE DEF u
<1>3. u \in Renders(t)
  BY <1>1, <1>2 DEF Renders
<1>4. Contents(u.blocks) \in Seq(AnItem)
  BY <1>3, RenderTyped
<1>5. Total(u) = Contents(u.blocks) /\ Total(r) = Contents(r.blocks)
  BY <1>0, <1>1, <1>4, NoItems DEF Total
<1> QED
  BY <1>1, <1>2, <1>3, <1>5 DEF u

(* A part more has its items at the end, in a new block or not.            *)
LEMMA PartAdded ==
  ASSUME NEW t, NEW r \in Renders(t), NEW p \in PartsOf(t)
  PROVE  /\ AddPart(r, p) \in Renders(t) /\ Total(AddPart(r, p)) = Cat(Total(r), p.items)
         /\ RuleCount(AddPart(r, p).blocks) = RuleCount(r.blocks)
<1> DEFINE u == AddPart(r, p)
<1>0. /\ r.blocks \in Seq(Blocks(t)) /\ r.parts \in PartLists(t) /\ p.items \in Seq(AnItem)
      /\ Contents(r.blocks) \in Seq(AnItem) /\ Contents(r.parts) \in Seq(AnItem)
      /\ Contents(<<>>) = <<>> /\ p.format \in Formats /\ p \in PartsIn(t, p.format)
  BY RenderTyped, PartTyped
<1>1. ASSUME r.parts \in Seq(PartsIn(t, p.format)), u = [r EXCEPT !.parts = Append(@, p)]
      PROVE  u \in Renders(t) /\ Total(u) = Cat(Total(r), p.items) /\ RuleCount(u.blocks) = RuleCount(r.blocks)
  <2>1. u.blocks = r.blocks /\ u.parts = Append(r.parts, p) /\ u = [blocks |-> u.blocks, parts |-> u.parts]
    BY <1>1 DEF Renders
  <2>2. Append(r.parts, p) \in PartLists(t) /\ Contents(Append(r.parts, p)) = Cat(Contents(r.parts), p.items)
    BY <1>0, <1>1, PartsAppended
  <2> HIDE DEF u
  <2>3. u \in Renders(t)
    BY <1>0, <2>1, <2>2 DEF Renders
  <2>4. Total(u) = Cat(Contents(r.blocks), Cat(Contents(r.parts), p.items))
    BY <2>1, <2>2 DEF Total
  <2>5. Total(u) = Cat(Total(r), p.items)
    BY <1>0, <2>4, Joined DEF Total
  <2> QED
    BY <2>1, <2>3, <2>5
<1>2. CASE r.parts = <<>>
  <2>1. r.parts \in Seq(PartsIn(t, p.format))
    BY <1>2, EmptySeq
  <2>2. u = [r EXCEPT !.parts = Append(@, p)]
    BY <1>2 DEF AddPart
  <2> HIDE DEF u
  <2> QED
    BY <1>1, <2>1, <2>2 DEF u
<1>3. CASE r.parts # <<>>
  <2>1. PICK format \in Formats : r.parts \in Seq(PartsIn(t, format))
    BY <1>0 DEF PartLists
  <2>2. Last(r.parts).format = format
    BY <1>3, <2>1, FormatOfTheParts
  <2>3. CASE format = p.format
    <3>1. u = [r EXCEPT !.parts = Append(@, p)]
      BY <2>2, <2>3 DEF AddPart
    <3> HIDE DEF u
    <3> QED
      BY <1>1, <2>1, <2>3, <3>1 DEF u
  <2>4. CASE format # p.format
    <3> DEFINE v == Flush(r)
    <3>1. u = [v EXCEPT !.parts = <<p>>]
      BY <1>3, <2>2, <2>4 DEF AddPart
    <3>2. v \in Renders(t) /\ Total(v) = Total(r) /\ v.parts = <<>> /\ RuleCount(v.blocks) = RuleCount(r.blocks)
          /\ Total(r) = Contents(v.blocks)
      BY Flushed
    <3> HIDE DEF v
    <3>3. /\ u.blocks = v.blocks /\ u.parts = Append(<<>>, p) /\ u = [blocks |-> u.blocks, parts |-> u.parts]
      <4>1. Append(<<>>, p) = <<p>>
        OBVIOUS
      <4> QED
        BY <3>1, <3>2, <4>1 DEF Renders
    <3>4. <<>> \in Seq(PartsIn(t, p.format))
      BY EmptySeq
    <3>5. Append(<<>>, p) \in PartLists(t) /\ Contents(Append(<<>>, p)) = Cat(<<>>, p.items)
      <4> DEFINE e == <<>>
      <4>1. e \in Seq(PartsIn(t, p.format)) /\ Contents(e) = <<>>
        BY <1>0, <3>4
      <4> HIDE DEF e
      <4>2. Append(e, p) \in PartLists(t) /\ Contents(Append(e, p)) = Cat(Contents(e), p.items)
        BY <1>0, <4>1, PartsAppended
      <4> QED
        BY <4>1, <4>2 DEF e
    <3> HIDE DEF u
    <3>6. v.blocks \in Seq(Blocks(t))
      BY <3>2, RenderTyped
    <3>7. u \in Renders(t)
      BY <3>3, <3>5, <3>6 DEF Renders
    <3>8. Total(u) = Cat(Total(r), p.items)
      BY <1>0, <3>2, <3>3, <3>5, NoItems DEF Total
    <3> QED
      BY <3>2, <3>3, <3>7, <3>8 DEF u
  <2> QED
    BY <2>3, <2>4
<1> QED
  BY <1>2, <1>3

---------------------------------------------------------------------------
(* A section is rendered.                                                  *)

(* A heading as a part.                                                    *)
LEMMA HeadingOf ==
  ASSUME NEW t, NEW heading \in Nat, heading # 0
  PROVE  /\ Heading(heading) \in PartsOf(t) /\ Heading(heading).items = HeadingItems(heading)
         /\ HeadingItems(heading) \in Seq(Fitting(t, "lark_md"))
         /\ TextBlock(Heading(heading).items, "lark_md") \in Blocks(t)
         /\ TextBlock(Heading(heading).items, "lark_md") # Rule
         /\ TextBlock(Heading(heading).items, "lark_md").items = HeadingItems(heading)
<1> DEFINE e == Item(heading, "heading")
<1>1. e \in Fitting(t, "lark_md")
  BY DEF Item, Fitting, AnItem, Forms, Line
<1>2. HeadingItems(heading) = One(e)
  BY DEF HeadingItems
<1>3. Heading(heading) = Part(One(e), "lark_md")
  BY DEF Heading, One
<1> HIDE DEF e
<1>4. One(e) \in Seq(Fitting(t, "lark_md"))
  BY <1>1, EmptySeq, CatOne
<1> QED
  BY <1>2, <1>3, <1>4, BlockTyped DEF Part, PartsOf, PartsIn, Formats, TextBlock

(* The heading that is still pending at the end.                           *)
LEMMA HeadingAppended ==
  ASSUME NEW t, NEW r \in Renders(t), r.parts = <<>>, NEW heading \in Nat
  PROVE  /\ AppendHeading(r, heading) \in Renders(t)
         /\ AppendHeading(r, heading).parts = <<>>
         /\ Total(AppendHeading(r, heading)) = Cat(Total(r), HeadingItems(heading))
<1>1. CASE heading = 0
  BY <1>1, RenderTyped, NoItems DEF AppendHeading, HeadingItems
<1>2. CASE heading # 0
  <2> DEFINE b == TextBlock(Heading(heading).items, "lark_md")
  <2>1. AppendHeading(r, heading) = AddBlock(r, b)
    BY <1>2 DEF AppendHeading
  <2>2. b \in Blocks(t) /\ b.items = HeadingItems(heading)
    BY <1>2, HeadingOf
  <2> HIDE DEF b
  <2> QED
    BY <2>1, <2>2, BlockAdded
<1> QED
  BY <1>1, <1>2

(* The heading that is pending goes before the part.                       *)
LEMMA TextAppended ==
  ASSUME NEW t, NEW r \in Renders(t), NEW heading \in Nat, NEW p \in PartsOf(t)
  PROVE  /\ AppendText(r, heading, p) \in Renders(t)
         /\ Total(AppendText(r, heading, p)) = Cat(Cat(Total(r), HeadingItems(heading)), p.items)
<1> DEFINE u == AppendText(r, heading, p)
<1>0. Total(r) \in Seq(AnItem) /\ p.items \in Seq(AnItem) /\ HeadingItems(heading) \in Seq(AnItem)
  BY RenderTyped, PartTyped, HeadingTyped
<1>1. CASE heading = 0
  <2>1. u = AddPart(r, p) /\ HeadingItems(heading) = <<>>
    BY <1>1 DEF AppendText, HeadingItems
  <2>2. AddPart(r, p) \in Renders(t) /\ Total(AddPart(r, p)) = Cat(Total(r), p.items)
    BY PartAdded
  <2> QED
    BY <1>0, <2>1, <2>2, NoItems
<1>2. CASE heading # 0 /\ p.format = "lark_md"
  <2> DEFINE q == Part(Cat(HeadingItems(heading), p.items), "lark_md")
  <2>1. u = AddPart(r, q)
    BY <1>2, HeadingOf DEF AppendText, Cat
  <2>2. p.items \in Seq(Fitting(t, "lark_md"))
    BY <1>2, PartTyped
  <2>3. Cat(HeadingItems(heading), p.items) \in Seq(Fitting(t, "lark_md"))
    BY <1>2, <2>2, HeadingOf, CatTyped
  <2>4. q \in PartsOf(t) /\ q.items = Cat(HeadingItems(heading), p.items)
    BY <2>3 DEF Part, PartsOf, PartsIn, Formats
  <2> HIDE DEF q
  <2>5. AddPart(r, q) \in Renders(t) /\ Total(AddPart(r, q)) = Cat(Total(r), q.items)
    BY <2>4, PartAdded
  <2>6. Total(u) = Cat(Cat(Total(r), HeadingItems(heading)), p.items)
    BY <1>0, <2>1, <2>4, <2>5, Joined
  <2> QED
    BY <2>1, <2>5, <2>6
<1>3. CASE heading # 0 /\ p.format # "lark_md"
  <2> DEFINE v == AddPart(r, Heading(heading))
             w == Flush(v)
  <2>1. u = AddPart(w, p)
    BY <1>3 DEF AppendText
  <2>2. v \in Renders(t) /\ Total(v) = Cat(Total(r), HeadingItems(heading))
    <3>1. Heading(heading) \in PartsOf(t) /\ Heading(heading).items = HeadingItems(heading)
      BY <1>3, HeadingOf
    <3> QED
      BY <3>1, PartAdded
  <2> HIDE DEF v
  <2>3. w \in Renders(t) /\ Total(w) = Total(v)
    BY <2>2, Flushed
  <2> HIDE DEF w
  <2>4. AddPart(w, p) \in Renders(t) /\ Total(AddPart(w, p)) = Cat(Total(w), p.items)
    BY <2>3, PartAdded
  <2> QED
    BY <2>1, <2>2, <2>3, <2>4
<1> QED
  BY <1>1, <1>2, <1>3

---------------------------------------------------------------------------
(* A section is rendered fragment by fragment.                             *)

SectionStep(t, s, fragment) ==
  IF fragment.kind = "rule"
    THEN [r |-> AddBlock(AppendHeading(Flush(s.r), s.heading), Rule), heading |-> 0]
    ELSE LET part == RenderFragment(t, fragment) IN
         IF part.items = <<>> THEN s
         ELSE [r |-> AppendText(s.r, s.heading, part), heading |-> 0]

SectionStates(t) == [r : Renders(t), heading : Nat]
ShownBy(s) == Cat(Total(s.r), HeadingItems(s.heading))

(* A fragment more: the items shown are those of the fragments so far.     *)
LEMMA SectionGoesOn ==
  ASSUME NEW t, NEW s \in SectionStates(t), NEW f \in Fragments
  PROVE  /\ SectionStep(t, s, f) \in SectionStates(t)
         /\ ShownBy(SectionStep(t, s, f)) = Cat(ShownBy(s), FragmentShown(t, f))
<1> DEFINE u == SectionStep(t, s, f)
<1>0. /\ s.r \in Renders(t) /\ s.heading \in Nat /\ Total(s.r) \in Seq(AnItem)
      /\ HeadingItems(s.heading) \in Seq(AnItem) /\ ShownBy(s) \in Seq(AnItem)
      /\ HeadingItems(0) = <<>>
  BY RenderTyped, HeadingTyped, JoinedTyped DEF SectionStates, ShownBy, HeadingItems
<1>1. CASE f.kind = "rule"
  <2> DEFINE a == Flush(s.r)
             b == AppendHeading(a, s.heading)
             c == AddBlock(b, Rule)
  <2>1. u = [r |-> c, heading |-> 0] /\ FragmentShown(t, f) = <<>>
    BY <1>1 DEF SectionStep, FragmentShown
  <2>2. a \in Renders(t) /\ Total(a) = Total(s.r) /\ a.parts = <<>>
    BY <1>0, Flushed
  <2> HIDE DEF a
  <2>3. b \in Renders(t) /\ Total(b) = Cat(Total(a), HeadingItems(s.heading)) /\ b.parts = <<>>
    BY <1>0, <2>2, HeadingAppended
  <2> HIDE DEF b
  <2>4. Rule \in Blocks(t) /\ Rule.items = <<>>
    BY BlockTyped DEF Rule
  <2>5. c \in Renders(t) /\ Total(c) = Cat(Total(b), <<>>)
    BY <2>3, <2>4, BlockAdded
  <2> HIDE DEF c
  <2>6. ShownBy(u) = Cat(Total(c), <<>>)
    BY <1>0, <2>1 DEF ShownBy
  <2>7. Total(b) \in Seq(AnItem) /\ Total(c) \in Seq(AnItem)
    BY <2>3, <2>5, RenderTyped
  <2>8. u \in SectionStates(t)
    BY <2>1, <2>5 DEF SectionStates
  <2> HIDE DEF u
  <2>9. ShownBy(u) = Cat(ShownBy(s), FragmentShown(t, f))
    BY <1>0, <2>1, <2>2, <2>3, <2>5, <2>6, <2>7, NoItems DEF ShownBy
  <2> QED
    BY <2>8, <2>9 DEF u
<1>2. CASE f.kind # "rule"
  <2> DEFINE p == RenderFragment(t, f)
             c == AppendText(s.r, s.heading, p)
  <2>1. u = (IF p.items = <<>> THEN s ELSE [r |-> c, heading |-> 0]) /\ FragmentShown(t, f) = p.items
    BY <1>2 DEF SectionStep, FragmentShown
  <2>2. p \in PartsOf(t) /\ p.items \in Seq(AnItem)
    BY <1>2, PartRendered, PartTyped
  <2> HIDE DEF p
  <2>3. c \in Renders(t) /\ Total(c) = Cat(Cat(Total(s.r), HeadingItems(s.heading)), p.items)
    BY <1>0, <2>2, TextAppended
  <2> HIDE DEF c
  <2>4. Total(c) \in Seq(AnItem)
    BY <2>3, RenderTyped
  <2>5. CASE p.items = <<>>
    BY <1>0, <2>1, <2>5, NoItems
  <2>6. CASE p.items # <<>>
    <3>1. u = [r |-> c, heading |-> 0]
      BY <2>1, <2>6
    <3>2. u \in SectionStates(t) /\ ShownBy(u) = Cat(Total(c), <<>>)
      BY <1>0, <2>3, <3>1 DEF SectionStates, ShownBy
    <3> HIDE DEF u
    <3>3. ShownBy(u) = Cat(ShownBy(s), FragmentShown(t, f))
      BY <2>1, <2>3, <2>4, <3>2, NoItems DEF ShownBy
    <3> QED
      BY <3>2, <3>3 DEF u
  <2> QED
    BY <2>5, <2>6
<1> QED
  BY <1>1, <1>2

(* A section is rendered from fragment to fragment.                        *)
LEMMA SectionRuns ==
  ASSUME NEW t, NEW sec \in Sections
  PROVE  \E h : /\ h[0] = [r |-> NothingRendered, heading |-> sec.heading]
                /\ \A k \in 0..(Len(sec.fragments) - 1) : h[k + 1] = SectionStep(t, h[k], sec.fragments[k + 1])
                /\ LET end == h[Len(sec.fragments)] IN
                   RenderSection(t, sec) = AppendHeading(Flush(end.r), end.heading).blocks
<1> DEFINE s0 == [r |-> NothingRendered, heading |-> sec.heading]
           ss == sec.fragments
           op(x, y) == SectionStep(t, x, y)
           Eq(it) == it = [s \in SUBSET DOMAIN ss |->
                             IF s = {} THEN s0 ELSE op(it[s \ {Max(s)}], ss[Max(s)])]
           iter == CHOOSE it : Eq(it)
           n == Len(ss)
<1>1. RenderSection(t, sec) = AppendHeading(Flush(iter[DOMAIN ss].r), iter[DOMAIN ss].heading).blocks
  BY DEF RenderSection, SectionStep, FoldLeft, MapThenFoldSet
<1>2. n \in Nat /\ DOMAIN ss = 1..n /\ \A k \in 1..n : ss[k] \in Fragments
  <2>1. ss \in Seq(Fragments)
    BY DEF Sections
  <2> QED
    BY <2>1, LenProperties, ElementOfSeq
<1> HIDE DEF n, ss
<1>3. \E it : Eq(it)
  <2> DEFINE T == SectionStates(t)
             G == [x \in T \X (Nat \ {0}) |-> IF x[2] \in 1..n THEN op(x[1], ss[x[2]]) ELSE x[1]]
  <2>1. \A x \in T : \A i \in Nat \ {0} :
          G[<<x, i>>] \in T /\ (i \in 1..n => G[<<x, i>>] = op(x, ss[i]))
    <3> SUFFICES ASSUME NEW x \in T, NEW i \in 1..n PROVE op(x, ss[i]) \in T
      OBVIOUS
    <3> QED
      BY <1>2, SectionGoesOn
  <2>2. s0 \in T
    <3>1. <<>> \in Seq(Blocks(t)) /\ <<>> \in PartLists(t)
      BY EmptySeq DEF PartLists, Formats
    <3> QED
      BY <3>1 DEF SectionStates, Renders, NothingRendered, Sections
  <2> HIDE DEF G, op, T, s0
  <2>3. PICK it \in [SUBSET (1..n) -> T] : Folds(n, s0, G, it)
    BY <1>2, <2>1, <2>2, FoldExists
  <2>4. \A s \in SUBSET (1..n) : s # {} => Max(s) \in 1..n /\ s \ {Max(s)} \in SUBSET (1..n)
    BY <1>2, MaxIsIn
  <2>5. it = [s \in SUBSET DOMAIN ss |-> IF s = {} THEN s0 ELSE op(it[s \ {Max(s)}], ss[Max(s)])]
    <3>1. ASSUME NEW s \in SUBSET (1..n), s # {}
          PROVE  G[<<it[s \ {Max(s)}], Max(s)>>] = op(it[s \ {Max(s)}], ss[Max(s)])
      <4> DEFINE m == Max(s)
                 x == it[s \ {m}]
      <4>1. m \in 1..n /\ m \in Nat \ {0} /\ x \in T
        BY <1>2, <2>3, <2>4, <3>1
      <4> HIDE DEF m, x
      <4>2. G[<<x, m>>] = op(x, ss[m])
        BY <2>1, <4>1
      <4> QED
        BY <4>2 DEF m, x
    <3> QED
      BY <1>2, <2>3, <3>1 DEF Folds
  <2> QED
    BY <2>5
<1>4. Eq(iter)
  <2> HIDE DEF Eq
  <2> QED
    BY <1>3
<1>5. \A s \in SUBSET (1..n) :
        iter[s] = IF s = {} THEN s0 ELSE op(iter[s \ {Max(s)}], ss[Max(s)])
  <2> HIDE DEF iter, op, s0
  <2> QED
    BY <1>2, <1>4
<1> HIDE DEF iter, op, s0
<1> DEFINE h == [k \in 0..n |-> iter[1..k]]
<1>6. h[0] = s0
  <2>1. 1..0 = {} /\ 0 \in 0..n /\ {} \in SUBSET (1..n)
    BY <1>2
  <2> QED
    BY <1>5, <2>1
<1>7. ASSUME NEW k \in 0..(n - 1) PROVE h[k + 1] = op(h[k], ss[k + 1])
  <2>1. /\ Max(1..(k + 1)) = k + 1 /\ (1..(k + 1)) \ {k + 1} = 1..k
        /\ 1..(k + 1) # {} /\ 1..(k + 1) \in SUBSET (1..n)
    BY <1>2, UpTo
  <2>2. h[k + 1] = iter[1..(k + 1)] /\ h[k] = iter[1..k]
    BY <1>2
  <2> HIDE DEF h
  <2> QED
    BY <1>5, <2>1, <2>2
<1>8. RenderSection(t, sec) = AppendHeading(Flush(h[n].r), h[n].heading).blocks
  BY <1>1, <1>2
<1> HIDE DEF h
<1> QED
  BY <1>6, <1>7, <1>8 DEF op, n, ss, s0

(* What a rendered section contains, in blocks that it fits.               *)
LEMMA SectionRendered ==
  ASSUME NEW t, NEW sec \in Sections
  PROVE  /\ RenderSection(t, sec) \in Seq(Blocks(t))
         /\ Contents(RenderSection(t, sec)) = SectionShown(t, sec)
<1> DEFINE fs == sec.fragments
           n == Len(fs)
<1>1. PICK h : /\ h[0] = [r |-> NothingRendered, heading |-> sec.heading]
               /\ \A k \in 0..(n - 1) : h[k + 1] = SectionStep(t, h[k], fs[k + 1])
               /\ RenderSection(t, sec) = AppendHeading(Flush(h[n].r), h[n].heading).blocks
  BY SectionRuns
<1>2. fs \in Seq(Fragments) /\ sec.heading \in Nat /\ HeadingItems(sec.heading) \in Seq(AnItem)
  BY SectionTyped DEF Sections
<1> HIDE DEF fs
<1> DEFINE p(k) == SubSeq(fs, 1, k)
           Right(k) == /\ h[k] \in SectionStates(t)
                       /\ ShownBy(h[k]) = Cat(HeadingItems(sec.heading), FragmentsShown(t, p(k)))
           K == {k \in 0..n : Right(k)}
<1>3. n \in Nat /\ p(0) = <<>> /\ p(n) = fs
  BY <1>2, ByPrefix
<1> HIDE DEF n
<1>4. 0 \in K
  <2>1. <<>> \in Seq(Blocks(t)) /\ <<>> \in PartLists(t) /\ Contents(<<>>) = <<>>
    <3>1. <<>> \in Seq(Blocks(t)) /\ <<>> \in PartLists(t)
      BY EmptySeq DEF PartLists, Formats
    <3>2. [blocks |-> <<>>, parts |-> <<>>] \in Renders(t)
      BY <3>1 DEF Renders
    <3> QED
      BY <3>1, <3>2, RenderTyped
  <2>2. h[0] \in SectionStates(t)
    BY <1>1, <1>2, <2>1 DEF SectionStates, Renders, NothingRendered
  <2>3. ShownBy(h[0]) = HeadingItems(sec.heading)
    <3>1. ShownBy(h[0]) = Cat(Cat(Contents(<<>>), Contents(<<>>)), HeadingItems(sec.heading))
      BY <1>1 DEF ShownBy, Total, NothingRendered
    <3>2. Cat(<<>>, <<>>) = <<>>
      BY NoItems
    <3> QED
      BY <1>2, <2>1, <3>1, <3>2, NoItems
  <2>4. FragmentsShown(t, <<>>) = <<>>
    BY <1>2, FragmentsAreShown
  <2> HIDE DEF p
  <2>5. Right(0)
    BY <1>2, <1>3, <2>2, <2>3, <2>4, NoItems
  <2> QED
    BY <1>3, <2>5
<1>5. ASSUME NEW k \in 0..(n - 1), k \in K PROVE k + 1 \in K
  <2>1. k \in 0..n /\ k + 1 \in 0..n
    BY <1>3
  <2>2. p(k) \in Seq(Fragments) /\ fs[k + 1] \in Fragments /\ p(k + 1) = Append(p(k), fs[k + 1])
    BY <1>2, <2>1, ByPrefix DEF n
  <2> DEFINE f == fs[k + 1]
             a == FragmentsShown(t, p(k))
             b == FragmentShown(t, f)
  <2>3. FragmentsShown(t, p(k + 1)) = Cat(a, b) /\ a \in Seq(AnItem) /\ b \in Seq(AnItem)
    <3> HIDE DEF p
    <3> QED
      BY <2>2, FragmentsAreShown, FragmentIsShown
  <2>4. h[k] \in SectionStates(t) /\ ShownBy(h[k]) = Cat(HeadingItems(sec.heading), a)
    BY <1>5
  <2>5. h[k + 1] = SectionStep(t, h[k], f)
    BY <1>1
  <2> HIDE DEF a, f, p
  <2>6. h[k + 1] \in SectionStates(t) /\ ShownBy(h[k + 1]) = Cat(ShownBy(h[k]), b)
    BY <2>2, <2>4, <2>5, SectionGoesOn DEF f
  <2> HIDE DEF b
  <2>7. ShownBy(h[k + 1]) = Cat(HeadingItems(sec.heading), Cat(a, b))
    BY <1>2, <2>3, <2>4, <2>6, Joined
  <2> QED
    BY <2>1, <2>3, <2>6, <2>7
<1> HIDE DEF K
<1>6. n \in K
  <2>1. \A k \in 0..n : k \in K
    BY <1>3, <1>4, <1>5, ToEach
  <2> QED
    BY <1>3, <2>1
<1> DEFINE end == h[n]
           a == Flush(end.r)
           b == AppendHeading(a, end.heading)
<1>7. end \in SectionStates(t) /\ ShownBy(end) = SectionShown(t, sec)
  BY <1>3, <1>6 DEF K, SectionShown, fs
<1> HIDE DEF end
<1>8. a \in Renders(t) /\ Total(a) = Total(end.r) /\ a.parts = <<>>
  BY <1>7, Flushed DEF SectionStates
<1> HIDE DEF a
<1>9. b \in Renders(t) /\ Total(b) = Cat(Total(a), HeadingItems(end.heading)) /\ b.parts = <<>>
  BY <1>7, <1>8, HeadingAppended DEF SectionStates
<1>10. RenderSection(t, sec) = b.blocks
  BY <1>1 DEF a, end
<1> HIDE DEF b
<1>11. b.blocks \in Seq(Blocks(t)) /\ Contents(b.blocks) \in Seq(AnItem) /\ Contents(<<>>) = <<>>
  BY <1>9, RenderTyped
<1>12. Total(b) = Contents(b.blocks)
  BY <1>9, <1>11, NoItems DEF Total
<1> QED
  BY <1>7, <1>8, <1>9, <1>10, <1>11, <1>12 DEF ShownBy

---------------------------------------------------------------------------
(* The sections are rendered, for both modes.                              *)

---------------------------------------------------------------------------
(* The sections one after the other.                                       *)

SectionBlocks(t, secs) == FlatMap([sec \in Sections |-> RenderSection(t, sec)], secs)

TerminalStep(t, blocks, section) ==
  LET new == RenderSection(t, section) IN
  IF new = <<>> THEN blocks
  ELSE blocks \o (IF blocks = <<>> THEN <<>> ELSE <<Rule>>) \o new

StreamStep(r, block) ==
  IF block.kind = "rule" THEN AddBlock(Flush(r), block)
  ELSE AddPart(r, Part(block.items, block.format))

(* Blocks one after the other.                                             *)
LEMMA NoBlocks ==
  ASSUME NEW t
  PROVE  /\ <<>> \in Seq(Blocks(t)) /\ Contents(<<>>) = <<>> /\ RuleCount(<<>>) = 0
         /\ \A x \in Seq(Blocks(t)) : /\ Cat(x, <<>>) = x /\ Cat(<<>>, x) = x
                                       /\ Contents(x) \in Seq(AnItem) /\ RuleCount(x) \in Nat
         /\ \A x, y \in Seq(Blocks(t)) : /\ Cat(x, y) \in Seq(Blocks(t))
                                          /\ Contents(Cat(x, y)) = Cat(Contents(x), Contents(y))
                                          /\ RuleCount(Cat(x, y)) = RuleCount(x) + RuleCount(y)
<1>1. <<>> \in Seq(Blocks(t)) /\ Rule \in Blocks(t) /\ \A b \in Blocks(t) : b.items \in Seq(AnItem)
  BY EmptySeq, BlockTyped
<1>2. Contents(<<>>) = <<>>
  BY <1>1, ContentsGrow
<1>3. RuleCount(<<>>) = 0
  BY <1>1, BlocksAppended
<1>4. \A x \in Seq(Blocks(t)) : /\ Cat(x, <<>>) = x /\ Cat(<<>>, x) = x
                                 /\ Contents(x) \in Seq(AnItem) /\ RuleCount(x) \in Nat
  BY <1>1, CatNothing, ContentsGrow, BlocksAppended
<1>5. \A x, y \in Seq(Blocks(t)) : Cat(x, y) \in Seq(Blocks(t))
  BY CatTyped
<1>6. \A x, y \in Seq(Blocks(t)) : Contents(Cat(x, y)) = Cat(Contents(x), Contents(y))
  BY <1>1, ContentsGrow
<1>7. \A x, y \in Seq(Blocks(t)) : RuleCount(Cat(x, y)) = RuleCount(x) + RuleCount(y)
  BY CountConcat DEF RuleCount, Cat
<1> QED
  BY <1>1, <1>2, <1>3, <1>4, <1>5, <1>6, <1>7

(* The blocks of a section more.                                           *)
LEMMA SectionBlocksGrow ==
  ASSUME NEW t, NEW secs \in Seq(Sections)
  PROVE  /\ SectionBlocks(t, <<>>) = <<>> /\ SectionBlocks(t, secs) \in Seq(Blocks(t))
         /\ \A sec \in Sections :
              SectionBlocks(t, Append(secs, sec)) = Cat(SectionBlocks(t, secs), RenderSection(t, sec))
         /\ SectionBlocks(t, secs) = FlattenSeq([i \in DOMAIN secs |-> RenderSection(t, secs[i])])
<1> DEFINE f == [sec \in Sections |-> RenderSection(t, sec)]
<1>1. f \in [Sections -> Seq(Blocks(t))] /\ \A sec \in Sections : f[sec] = RenderSection(t, sec)
  BY SectionRendered
<1>2. \A x : SectionBlocks(t, x) = FlatMap(f, x)
  BY DEF SectionBlocks
<1> HIDE DEF f
<1>3. FlatMap(f, <<>>) = <<>> /\ FlatMap(f, secs) \in Seq(Blocks(t))
  BY <1>1, FlatMapGrows
<1>4. \A sec \in Sections : FlatMap(f, Append(secs, sec)) = Cat(FlatMap(f, secs), f[sec])
  BY <1>1, FlatMapAppend
<1>5. FlatMap(f, secs) = FlattenSeq([i \in DOMAIN secs |-> RenderSection(t, secs[i])])
  <2>1. \A i \in DOMAIN secs : secs[i] \in Sections
    BY LenProperties, ElementOfSeq
  <2>2. [i \in DOMAIN secs |-> f[secs[i]]] = [i \in DOMAIN secs |-> RenderSection(t, secs[i])]
    BY <1>1, <2>1
  <2> QED
    BY <2>2 DEF FlatMap
<1> QED
  BY <1>1, <1>2, <1>3, <1>4, <1>5

(* Merging a block keeps its items, and adds no rule.                      *)
LEMMA StreamGoesOn ==
  ASSUME NEW t, NEW r \in Renders(t), NEW b \in Blocks(t)
  PROVE  /\ StreamStep(r, b) \in Renders(t) /\ Total(StreamStep(r, b)) = Cat(Total(r), b.items)
         /\ RuleCount(StreamStep(r, b).blocks) = RuleCount(r.blocks) + (IF b = Rule THEN 1 ELSE 0)
<1>1. CASE b = Rule
  <2> DEFINE v == Flush(r)
  <2>1. StreamStep(r, b) = AddBlock(v, b)
    BY <1>1 DEF StreamStep, Rule
  <2>2. v \in Renders(t) /\ Total(v) = Total(r) /\ v.parts = <<>> /\ RuleCount(v.blocks) = RuleCount(r.blocks)
    BY Flushed
  <2> HIDE DEF v
  <2> QED
    BY <1>1, <2>1, <2>2, BlockAdded
<1>2. CASE b # Rule
  <2> DEFINE p == Part(b.items, b.format)
  <2>1. StreamStep(r, b) = AddPart(r, p) /\ p \in PartsOf(t) /\ p.items = b.items
    BY <1>2, BlockTyped DEF StreamStep, Part
  <2>2. RuleCount(r.blocks) \in Nat
    BY RenderTyped, NoBlocks
  <2> HIDE DEF p
  <2> QED
    BY <1>2, <2>1, <2>2, PartAdded
<1> QED
  BY <1>1, <1>2

(* The blocks that renderTerminalBlocks returns for a section more.        *)
LEMMA TerminalGoesOn ==
  ASSUME NEW t, NEW blocks \in Seq(Blocks(t)), NEW sec \in Sections
  PROVE  TerminalStep(t, blocks, sec) \in Seq(Blocks(t))
<1> DEFINE new == RenderSection(t, sec)
           rule == IF blocks = <<>> THEN <<>> ELSE One(Rule)
<1>1. TerminalStep(t, blocks, sec) = IF new = <<>> THEN blocks ELSE Cat(Cat(blocks, rule), new)
  BY DEF TerminalStep, Cat, One
<1>2. new \in Seq(Blocks(t)) /\ rule \in Seq(Blocks(t))
  BY SectionRendered, NoBlocks, BlockTyped, CatOne
<1> HIDE DEF new, rule
<1> QED
  BY <1>1, <1>2, NoBlocks

(* renderTerminalBlocks goes from section to section.                      *)
LEMMA TerminalRuns ==
  ASSUME NEW t, NEW secs \in Seq(Sections)
  PROVE  \E h : /\ h[0] = <<>>
                /\ \A k \in 0..(Len(secs) - 1) : h[k + 1] = TerminalStep(t, h[k], secs[k + 1])
                /\ RenderTerminal(t, secs) = OrNothing(h[Len(secs)])
<1> DEFINE s0 == <<>>
           ss == secs
           op(x, y) == TerminalStep(t, x, y)
           Eq(it) == it = [s \in SUBSET DOMAIN ss |->
                             IF s = {} THEN s0 ELSE op(it[s \ {Max(s)}], ss[Max(s)])]
           iter == CHOOSE it : Eq(it)
           n == Len(ss)
<1>1. RenderTerminal(t, secs) = OrNothing(iter[DOMAIN ss])
  BY DEF RenderTerminal, TerminalStep, FoldLeft, MapThenFoldSet
<1>2. n \in Nat /\ DOMAIN ss = 1..n /\ \A k \in 1..n : ss[k] \in Sections
  BY LenProperties, ElementOfSeq
<1> HIDE DEF n, ss
<1>3. \E it : Eq(it)
  <2> DEFINE T == Seq(Blocks(t))
             G == [x \in T \X (Nat \ {0}) |-> IF x[2] \in 1..n THEN op(x[1], ss[x[2]]) ELSE x[1]]
  <2>1. \A x \in T : \A i \in Nat \ {0} :
          G[<<x, i>>] \in T /\ (i \in 1..n => G[<<x, i>>] = op(x, ss[i]))
    <3> SUFFICES ASSUME NEW x \in T, NEW i \in 1..n PROVE op(x, ss[i]) \in T
      OBVIOUS
    <3> QED
      BY <1>2, TerminalGoesOn
  <2>2. s0 \in T
    BY NoBlocks
  <2> HIDE DEF G, op, T, s0
  <2>3. PICK it \in [SUBSET (1..n) -> T] : Folds(n, s0, G, it)
    BY <1>2, <2>1, <2>2, FoldExists
  <2>4. \A s \in SUBSET (1..n) : s # {} => Max(s) \in 1..n /\ s \ {Max(s)} \in SUBSET (1..n)
    BY <1>2, MaxIsIn
  <2>5. it = [s \in SUBSET DOMAIN ss |-> IF s = {} THEN s0 ELSE op(it[s \ {Max(s)}], ss[Max(s)])]
    <3>1. ASSUME NEW s \in SUBSET (1..n), s # {}
          PROVE  G[<<it[s \ {Max(s)}], Max(s)>>] = op(it[s \ {Max(s)}], ss[Max(s)])
      <4> DEFINE m == Max(s)
                 x == it[s \ {m}]
      <4>1. m \in 1..n /\ m \in Nat \ {0} /\ x \in T
        BY <1>2, <2>3, <2>4, <3>1
      <4> HIDE DEF m, x
      <4>2. G[<<x, m>>] = op(x, ss[m])
        BY <2>1, <4>1
      <4> QED
        BY <4>2 DEF m, x
    <3> QED
      BY <1>2, <2>3, <3>1 DEF Folds
  <2> QED
    BY <2>5
<1>4. Eq(iter)
  <2> HIDE DEF Eq
  <2> QED
    BY <1>3
<1>5. \A s \in SUBSET (1..n) :
        iter[s] = IF s = {} THEN s0 ELSE op(iter[s \ {Max(s)}], ss[Max(s)])
  <2> HIDE DEF iter, op, s0
  <2> QED
    BY <1>2, <1>4
<1> HIDE DEF iter, op, s0
<1> DEFINE h == [k \in 0..n |-> iter[1..k]]
<1>6. h[0] = s0
  <2>1. 1..0 = {} /\ 0 \in 0..n /\ {} \in SUBSET (1..n)
    BY <1>2
  <2> QED
    BY <1>5, <2>1
<1>7. ASSUME NEW k \in 0..(n - 1) PROVE h[k + 1] = op(h[k], ss[k + 1])
  <2>1. /\ Max(1..(k + 1)) = k + 1 /\ (1..(k + 1)) \ {k + 1} = 1..k
        /\ 1..(k + 1) # {} /\ 1..(k + 1) \in SUBSET (1..n)
    BY <1>2, UpTo
  <2>2. h[k + 1] = iter[1..(k + 1)] /\ h[k] = iter[1..k]
    BY <1>2
  <2> HIDE DEF h
  <2> QED
    BY <1>5, <2>1, <2>2
<1>8. RenderTerminal(t, secs) = OrNothing(h[n])
  BY <1>1, <1>2
<1> HIDE DEF h
<1> QED
  BY <1>6, <1>7, <1>8 DEF op, n, ss, s0

(* renderStreamingBlocks goes from block to block.                         *)
LEMMA StreamRuns ==
  ASSUME NEW t, NEW secs \in Seq(Sections)
  PROVE  \E h : /\ h[0] = NothingRendered
                /\ \A k \in 0..(Len(SectionBlocks(t, secs)) - 1) : h[k + 1] = StreamStep(h[k], SectionBlocks(t, secs)[k + 1])
                /\ RenderStreaming(t, secs) = OrNothing(Flush(h[Len(SectionBlocks(t, secs))]).blocks)
<1> DEFINE s0 == NothingRendered
           ss == SectionBlocks(t, secs)
           op(x, y) == StreamStep(x, y)
           Eq(it) == it = [s \in SUBSET DOMAIN ss |->
                             IF s = {} THEN s0 ELSE op(it[s \ {Max(s)}], ss[Max(s)])]
           iter == CHOOSE it : Eq(it)
           n == Len(ss)
<1>1. RenderStreaming(t, secs) = OrNothing(Flush(iter[DOMAIN ss]).blocks)
  <2>1. FlattenSeq([i \in DOMAIN secs |-> RenderSection(t, secs[i])]) = ss
    BY SectionBlocksGrow
  <2> HIDE DEF ss
  <2> QED
    BY <2>1 DEF RenderStreaming, StreamStep, FoldLeft, MapThenFoldSet
<1>2. n \in Nat /\ DOMAIN ss = 1..n /\ \A k \in 1..n : ss[k] \in Blocks(t)
  BY SectionBlocksGrow, LenProperties, ElementOfSeq
<1> HIDE DEF n, ss
<1>3. \E it : Eq(it)
  <2> DEFINE T == Renders(t)
             G == [x \in T \X (Nat \ {0}) |-> IF x[2] \in 1..n THEN op(x[1], ss[x[2]]) ELSE x[1]]
  <2>1. \A x \in T : \A i \in Nat \ {0} :
          G[<<x, i>>] \in T /\ (i \in 1..n => G[<<x, i>>] = op(x, ss[i]))
    <3> SUFFICES ASSUME NEW x \in T, NEW i \in 1..n PROVE op(x, ss[i]) \in T
      OBVIOUS
    <3> QED
      BY <1>2, StreamGoesOn
  <2>2. s0 \in T
    BY NoBlocks, EmptySeq DEF Renders, NothingRendered, PartLists, Formats
  <2> HIDE DEF G, op, T, s0
  <2>3. PICK it \in [SUBSET (1..n) -> T] : Folds(n, s0, G, it)
    BY <1>2, <2>1, <2>2, FoldExists
  <2>4. \A s \in SUBSET (1..n) : s # {} => Max(s) \in 1..n /\ s \ {Max(s)} \in SUBSET (1..n)
    BY <1>2, MaxIsIn
  <2>5. it = [s \in SUBSET DOMAIN ss |-> IF s = {} THEN s0 ELSE op(it[s \ {Max(s)}], ss[Max(s)])]
    <3>1. ASSUME NEW s \in SUBSET (1..n), s # {}
          PROVE  G[<<it[s \ {Max(s)}], Max(s)>>] = op(it[s \ {Max(s)}], ss[Max(s)])
      <4> DEFINE m == Max(s)
                 x == it[s \ {m}]
      <4>1. m \in 1..n /\ m \in Nat \ {0} /\ x \in T
        BY <1>2, <2>3, <2>4, <3>1
      <4> HIDE DEF m, x
      <4>2. G[<<x, m>>] = op(x, ss[m])
        BY <2>1, <4>1
      <4> QED
        BY <4>2 DEF m, x
    <3> QED
      BY <1>2, <2>3, <3>1 DEF Folds
  <2> QED
    BY <2>5
<1>4. Eq(iter)
  <2> HIDE DEF Eq
  <2> QED
    BY <1>3
<1>5. \A s \in SUBSET (1..n) :
        iter[s] = IF s = {} THEN s0 ELSE op(iter[s \ {Max(s)}], ss[Max(s)])
  <2> HIDE DEF iter, op, s0
  <2> QED
    BY <1>2, <1>4
<1> HIDE DEF iter, op, s0
<1> DEFINE h == [k \in 0..n |-> iter[1..k]]
<1>6. h[0] = s0
  <2>1. 1..0 = {} /\ 0 \in 0..n /\ {} \in SUBSET (1..n)
    BY <1>2
  <2> QED
    BY <1>5, <2>1
<1>7. ASSUME NEW k \in 0..(n - 1) PROVE h[k + 1] = op(h[k], ss[k + 1])
  <2>1. /\ Max(1..(k + 1)) = k + 1 /\ (1..(k + 1)) \ {k + 1} = 1..k
        /\ 1..(k + 1) # {} /\ 1..(k + 1) \in SUBSET (1..n)
    BY <1>2, UpTo
  <2>2. h[k + 1] = iter[1..(k + 1)] /\ h[k] = iter[1..k]
    BY <1>2
  <2> HIDE DEF h
  <2> QED
    BY <1>5, <2>1, <2>2
<1>8. RenderStreaming(t, secs) = OrNothing(Flush(h[n]).blocks)
  BY <1>1, <1>2
<1> HIDE DEF h
<1> QED
  BY <1>6, <1>7, <1>8 DEF op, n, ss, s0

HeadingForms == {e \in AnItem : e.form = "heading"}
Headings(x) == Count(x, HeadingForms)

(* The headings of items, and of two sequences of them.                    *)
LEMMA HeadingsCount ==
  /\ \A x \in Seq(AnItem) : Headings(x) \in Nat
  /\ \A x, y \in Seq(AnItem) : Headings(Cat(x, y)) = Headings(x) + Headings(y)
  /\ Headings(<<>>) = 0
  /\ \A place \in Nat : place # 0 => Headings(HeadingItems(place)) = 1
<1>1. Item(1, "heading") \in AnItem
  BY DEF Item, AnItem, Forms, Line
<1>2. \A x \in Seq(AnItem) : Headings(x) \in Nat /\ Headings(<<>>) = 0
  BY <1>1, CountGrows DEF Headings
<1>3. \A x, y \in Seq(AnItem) : Headings(Cat(x, y)) = Headings(x) + Headings(y)
  BY CountConcat DEF Headings, Cat
<1>4. ASSUME NEW place \in Nat, place # 0 PROVE Headings(HeadingItems(place)) = 1
  <2> DEFINE e == Item(place, "heading")
             x == <<>>
  <2>1. e \in AnItem /\ e \in HeadingForms /\ x \in Seq(AnItem)
    BY <1>4, NoItems DEF Item, AnItem, Forms, Line, HeadingForms
  <2>2. HeadingItems(place) = Append(x, e)
    BY <1>4 DEF HeadingItems, One
  <2> HIDE DEF e, x
  <2>3. Headings(Append(x, e)) = Headings(x) + 1
    BY <2>1, CountGrows DEF Headings
  <2>4. Headings(x) = 0
    BY <1>2, NoItems DEF x
  <2> QED
    BY <2>2, <2>3, <2>4
<1> QED
  BY <1>2, <1>3, <1>4, NoItems

(* How many rules a rendering has more than the sections alone: not more   *)
(* than it has headings.                                                   *)
LEMMA TerminalAdds ==
  ASSUME NEW t, NEW blocks \in Seq(Blocks(t)), NEW others \in Seq(Blocks(t)), NEW sec \in Sections,
         blocks # <<>> => sec.heading # 0,
         RuleCount(blocks) - RuleCount(others) \in 0..Headings(Contents(blocks))
  PROVE  LET u == TerminalStep(t, blocks, sec)
             v == Cat(others, RenderSection(t, sec)) IN
         /\ u \in Seq(Blocks(t)) /\ Contents(u) = Cat(Contents(blocks), SectionShown(t, sec))
         /\ RuleCount(u) - RuleCount(v) \in 0..Headings(Contents(u))
<1> DEFINE new == RenderSection(t, sec)
           rule == IF blocks = <<>> THEN <<>> ELSE One(Rule)
           u == TerminalStep(t, blocks, sec)
           v == Cat(others, new)
           a == Contents(blocks)
           b == SectionShown(t, sec)
<1>1. u = IF new = <<>> THEN blocks ELSE Cat(Cat(blocks, rule), new)
  BY DEF TerminalStep, Cat, One
<1>2. new \in Seq(Blocks(t)) /\ Contents(new) = b /\ b \in Seq(AnItem) /\ u \in Seq(Blocks(t))
  BY SectionRendered, SectionIsShown, TerminalGoesOn
<1>3. /\ rule \in Seq(Blocks(t)) /\ Contents(rule) = <<>>
      /\ RuleCount(rule) = IF blocks = <<>> THEN 0 ELSE 1
  <2>1. CASE blocks = <<>>
    BY <2>1, NoBlocks
  <2>2. CASE blocks # <<>>
    <3> DEFINE e == <<>>
    <3>1. e \in Seq(Blocks(t)) /\ Rule \in Blocks(t) /\ RuleCount(e) = 0 /\ Contents(e) = <<>> /\ Rule.items = <<>>
      BY NoBlocks, BlockTyped DEF Rule
    <3>2. rule = Append(e, Rule)
      BY <2>2 DEF One
    <3> HIDE DEF e, rule
    <3>3. /\ Append(e, Rule) \in Seq(Blocks(t)) /\ RuleCount(Append(e, Rule)) = RuleCount(e) + 1
          /\ Contents(Append(e, Rule)) = Cat(Contents(e), Rule.items)
      BY <3>1, BlocksAppended
    <3>4. Cat(<<>>, <<>>) = <<>>
      BY NoItems
    <3> QED
      BY <2>2, <3>1, <3>2, <3>3, <3>4
  <2> QED
    BY <2>1, <2>2
<1>4. /\ RuleCount(blocks) \in Nat /\ RuleCount(others) \in Nat /\ RuleCount(new) \in Nat
      /\ RuleCount(v) = RuleCount(others) + RuleCount(new) /\ a \in Seq(AnItem)
  BY <1>2, NoBlocks
<1>5. Headings(a) \in Nat /\ Headings(b) \in Nat /\ (sec.heading # 0 => Headings(b) >= 1)
  <2>1. Headings(a) \in Nat /\ Headings(b) \in Nat
    BY <1>2, <1>4, HeadingsCount
  <2>2. ASSUME sec.heading # 0 PROVE Headings(b) >= 1
    <3>1. sec.heading \in Nat /\ HeadingItems(sec.heading) \in Seq(AnItem) /\ FragmentsShown(t, sec.fragments) \in Seq(AnItem)
      BY SectionTyped, FragmentsAreShown DEF Sections
    <3>2. Headings(b) = Headings(HeadingItems(sec.heading)) + Headings(FragmentsShown(t, sec.fragments))
      BY <3>1, HeadingsCount DEF SectionShown
    <3>3. Headings(HeadingItems(sec.heading)) = 1 /\ Headings(FragmentsShown(t, sec.fragments)) \in Nat
      BY <2>2, <3>1, HeadingsCount
    <3> QED
      BY <3>2, <3>3
  <2> QED
    BY <2>1, <2>2
<1>6. CASE new = <<>>
  <2>1. b = <<>> /\ u = blocks /\ RuleCount(new) = 0
    BY <1>1, <1>2, <1>6, NoBlocks
  <2>2. Cat(a, b) = a
    BY <1>4, <2>1, NoItems
  <2>3. RuleCount(v) = RuleCount(others)
    BY <1>4, <2>1
  <2> HIDE DEF v, a, b
  <2>4. Contents(u) = Cat(a, b) /\ RuleCount(u) - RuleCount(v) \in 0..Headings(Contents(u))
    BY <2>1, <2>2, <2>3 DEF a
  <2> HIDE DEF u
  <2> QED
    BY <1>2, <2>4 DEF u, v, a, b
<1>7. CASE new # <<>>
  <2> DEFINE w == Cat(blocks, rule)
  <2>1. u = Cat(w, new)
    BY <1>1, <1>7
  <2> HIDE DEF u, v, new, rule
  <2>2. /\ w \in Seq(Blocks(t)) /\ Contents(w) = Cat(a, Contents(rule))
        /\ RuleCount(w) = RuleCount(blocks) + RuleCount(rule)
    BY <1>3, NoBlocks
  <2>3. Contents(w) = a
    BY <1>3, <1>4, <2>2, NoItems
  <2> HIDE DEF w, a, b
  <2>4. Contents(u) = Cat(a, b) /\ RuleCount(u) = RuleCount(w) + RuleCount(new)
    BY <1>2, <2>1, <2>2, <2>3, NoBlocks
  <2>5. Headings(Contents(u)) = Headings(a) + Headings(b)
    BY <1>2, <1>4, <2>4, HeadingsCount
  <2>6. RuleCount(u) - RuleCount(v) = (RuleCount(blocks) - RuleCount(others)) + RuleCount(rule)
    BY <1>3, <1>4, <2>2, <2>4
  <2>7. RuleCount(blocks) - RuleCount(others) \in 0..Headings(a)
    BY DEF a
  <2>8. RuleCount(rule) \in 0..Headings(b)
    BY <1>3, <1>5
  <2> DEFINE d == RuleCount(blocks) - RuleCount(others)
             e == RuleCount(rule)
             l == Headings(a)
             m == Headings(b)
  <2>9. d \in 0..l /\ e \in 0..m /\ l \in Nat /\ m \in Nat
    BY <1>5, <2>7, <2>8
  <2> HIDE DEF d, e, l, m
  <2>10. d + e \in 0..(l + m)
    BY <2>9
  <2>11. RuleCount(u) - RuleCount(v) \in 0..Headings(Contents(u))
    BY <2>5, <2>6, <2>10 DEF d, e, l, m
  <2> QED
    BY <1>2, <2>4, <2>11 DEF u, v, a, b, new
<1> QED
  BY <1>6, <1>7

(* The block that stands for no blocks says nothing.                       *)
LEMMA NothingShown ==
  ASSUME NEW t, NEW blocks \in Seq(Blocks(t))
  PROVE  LET u == OrNothing(blocks) IN
         u \in Seq(Blocks(t)) /\ Contents(u) = Contents(blocks) /\ RuleCount(u) = RuleCount(blocks)
<1> DEFINE e == <<>>
           b == TextBlock(<<>>, "plain_text")
<1>1. e \in Seq(Blocks(t)) /\ Contents(e) = <<>> /\ RuleCount(e) = 0
  BY NoBlocks
<1>2. b \in Blocks(t) /\ b # Rule /\ b.items = <<>>
  <2>1. <<>> \in Seq(Fitting(t, "plain_text")) /\ "plain_text" \in Formats
    BY EmptySeq DEF Formats
  <2> QED
    BY <2>1, BlockTyped DEF TextBlock
<1>3. NothingToShow = Append(e, b) /\ e = <<>>
  BY DEF NothingToShow
<1> HIDE DEF e, b
<1>4. /\ Append(e, b) \in Seq(Blocks(t)) /\ RuleCount(Append(e, b)) = 0
      /\ Contents(Append(e, b)) = Cat(<<>>, <<>>)
  <2>1. /\ Append(e, b) \in Seq(Blocks(t)) /\ Contents(Append(e, b)) = Cat(Contents(e), b.items)
        /\ RuleCount(Append(e, b)) = RuleCount(e) + (IF b = Rule THEN 1 ELSE 0)
    BY <1>1, <1>2, BlocksAppended
  <2> QED
    BY <1>1, <1>2, <2>1
<1>5. Cat(<<>>, <<>>) = <<>>
  BY NoItems
<1> QED
  BY <1>1, <1>3, <1>4, <1>5 DEF OrNothing

(* At the end the card shows all sections, with a rule more for some of    *)
(* those that have a heading.                                              *)
LEMMA TerminalShown ==
  ASSUME NEW t, NEW secs \in Seq(Sections), HeadedLater(secs)
  PROVE  LET u == RenderTerminal(t, secs) IN
         /\ u \in Seq(Blocks(t)) /\ Contents(u) = SectionsShown(t, secs)
         /\ RuleCount(u) - RuleCount(SectionBlocks(t, secs)) \in 0..Headings(Contents(u))
<1> DEFINE n == Len(secs)
           p(k) == SubSeq(secs, 1, k)
           F(k) == SectionBlocks(t, p(k))
<1>1. PICK h : /\ h[0] = <<>>
               /\ \A k \in 0..(n - 1) : h[k + 1] = TerminalStep(t, h[k], secs[k + 1])
               /\ RenderTerminal(t, secs) = OrNothing(h[n])
  BY TerminalRuns
<1> DEFINE Right(k) == /\ h[k] \in Seq(Blocks(t)) /\ Contents(h[k]) = SectionsShown(t, p(k))
                       /\ k = 0 => h[k] = <<>>
                       /\ RuleCount(h[k]) - RuleCount(F(k)) \in 0..Headings(Contents(h[k]))
           K == {k \in 0..n : Right(k)}
<1>2. n \in Nat /\ p(0) = <<>> /\ p(n) = secs
  BY ByPrefix
<1>3. 0 \in K
  <2>1. h[0] \in Seq(Blocks(t)) /\ Contents(h[0]) = <<>> /\ RuleCount(h[0]) = 0
    BY <1>1, NoBlocks
  <2>2. SectionsShown(t, <<>>) = <<>> /\ SectionBlocks(t, <<>>) = <<>>
    BY SectionsAreShown, SectionBlocksGrow
  <2>3. Headings(<<>>) = 0 /\ RuleCount(<<>>) = 0
    BY HeadingsCount, NoBlocks
  <2> HIDE DEF p, n
  <2>4. RuleCount(h[0]) - RuleCount(F(0)) \in 0..Headings(Contents(h[0]))
    BY <1>2, <2>1, <2>2, <2>3
  <2> HIDE DEF F
  <2>5. Contents(h[0]) = SectionsShown(t, p(0))
    BY <1>2, <2>1, <2>2
  <2>6. Right(0) /\ 0 \in 0..n
    BY <1>1, <1>2, <2>1, <2>4, <2>5
  <2> HIDE DEF Right
  <2> QED
    BY <2>6
<1>4. ASSUME NEW k \in 0..(n - 1), k \in K PROVE k + 1 \in K
  <2>1. k \in 0..n /\ k + 1 \in 0..n /\ k + 1 # 0 /\ k + 1 \in 1..n
    BY <1>2
  <2>2. p(k) \in Seq(Sections) /\ secs[k + 1] \in Sections /\ p(k + 1) = Append(p(k), secs[k + 1])
    BY <2>1, ByPrefix
  <2> DEFINE sec == secs[k + 1]
  <2>3. Right(k) /\ h[k + 1] = TerminalStep(t, h[k], sec)
    BY <1>1, <1>4
  <2>4. h[k] # <<>> => sec.heading # 0
    <3> HIDE DEF F, p
    <3>1. k # 0 => k + 1 \in 2..n
      BY <2>1
    <3> QED
      BY <2>3, <3>1 DEF HeadedLater
  <2> HIDE DEF p, sec
  <2>5. /\ F(k) \in Seq(Blocks(t)) /\ F(k + 1) = Cat(F(k), RenderSection(t, sec))
        /\ SectionsShown(t, p(k + 1)) = Cat(SectionsShown(t, p(k)), SectionShown(t, sec))
    BY <2>2, SectionBlocksGrow, SectionsAreShown DEF sec
  <2>6. sec \in Sections /\ h[k] \in Seq(Blocks(t)) /\ RuleCount(h[k]) - RuleCount(F(k)) \in 0..Headings(Contents(h[k]))
        /\ Contents(h[k]) = SectionsShown(t, p(k))
    BY <2>2, <2>3 DEF sec
  <2> HIDE DEF F
  <2>7. /\ h[k + 1] \in Seq(Blocks(t)) /\ Contents(h[k + 1]) = Cat(Contents(h[k]), SectionShown(t, sec))
        /\ RuleCount(h[k + 1]) - RuleCount(F(k + 1)) \in 0..Headings(Contents(h[k + 1]))
    BY <2>3, <2>4, <2>5, <2>6, TerminalAdds
  <2> QED
    BY <2>1, <2>5, <2>6, <2>7
<1> HIDE DEF K
<1>5. n \in K
  <2> HIDE DEF n
  <2>1. \A k \in 0..n : k \in K
    BY <1>2, <1>3, <1>4, ToEach
  <2> QED
    BY <1>2, <2>1
<1>6. /\ h[n] \in Seq(Blocks(t)) /\ Contents(h[n]) = SectionsShown(t, secs)
      /\ RuleCount(h[n]) - RuleCount(SectionBlocks(t, secs)) \in 0..Headings(Contents(h[n]))
  BY <1>2, <1>5 DEF K
<1> DEFINE u == OrNothing(h[n])
<1>7. u \in Seq(Blocks(t)) /\ Contents(u) = Contents(h[n]) /\ RuleCount(u) = RuleCount(h[n])
  BY <1>6, NothingShown
<1> HIDE DEF u
<1> QED
  BY <1>1, <1>6, <1>7 DEF u

(* While it streams it shows all blocks, and their rules.                  *)
LEMMA StreamShown ==
  ASSUME NEW t, NEW secs \in Seq(Sections)
  PROVE  LET u == RenderStreaming(t, secs) IN
         /\ u \in Seq(Blocks(t)) /\ Contents(u) = Contents(SectionBlocks(t, secs))
         /\ RuleCount(u) = RuleCount(SectionBlocks(t, secs))
<1> DEFINE blocks == SectionBlocks(t, secs)
           n == Len(blocks)
           p(k) == SubSeq(blocks, 1, k)
<1>1. PICK h : /\ h[0] = NothingRendered
               /\ \A k \in 0..(n - 1) : h[k + 1] = StreamStep(h[k], blocks[k + 1])
               /\ RenderStreaming(t, secs) = OrNothing(Flush(h[n]).blocks)
  BY StreamRuns
<1>0. blocks \in Seq(Blocks(t))
  BY SectionBlocksGrow
<1> HIDE DEF blocks
<1> DEFINE Right(k) == /\ h[k] \in Renders(t) /\ Total(h[k]) = Contents(p(k))
                       /\ RuleCount(h[k].blocks) = RuleCount(p(k))
           K == {k \in 0..n : Right(k)}
<1>2. n \in Nat /\ p(0) = <<>> /\ p(n) = blocks
  BY <1>0, ByPrefix
<1>3. 0 \in K
  <2>1. /\ NothingRendered \in Renders(t) /\ NothingRendered.blocks = <<>>
        /\ Total(NothingRendered) = Cat(Contents(<<>>), Contents(<<>>))
    BY NoBlocks, EmptySeq DEF Renders, NothingRendered, PartLists, Formats, Total
  <2>2. Contents(<<>>) = <<>> /\ Cat(<<>>, <<>>) = <<>>
    BY NoBlocks, NoItems
  <2> HIDE DEF p, n
  <2> QED
    BY <1>1, <1>2, <2>1, <2>2
<1>4. ASSUME NEW k \in 0..(n - 1), k \in K PROVE k + 1 \in K
  <2>1. k \in 0..n /\ k + 1 \in 0..n
    BY <1>2
  <2>2. p(k) \in Seq(Blocks(t)) /\ blocks[k + 1] \in Blocks(t) /\ p(k + 1) = Append(p(k), blocks[k + 1])
    BY <1>0, <2>1, ByPrefix
  <2> DEFINE b == blocks[k + 1]
  <2>3. Right(k) /\ h[k + 1] = StreamStep(h[k], b)
    BY <1>1, <1>4
  <2> HIDE DEF p, b
  <2>4. /\ Contents(p(k + 1)) = Cat(Contents(p(k)), b.items)
        /\ RuleCount(p(k + 1)) = RuleCount(p(k)) + (IF b = Rule THEN 1 ELSE 0)
    BY <2>2, BlocksAppended DEF b
  <2>5. /\ h[k + 1] \in Renders(t) /\ Total(h[k + 1]) = Cat(Total(h[k]), b.items)
        /\ RuleCount(h[k + 1].blocks) = RuleCount(h[k].blocks) + (IF b = Rule THEN 1 ELSE 0)
    BY <2>2, <2>3, StreamGoesOn DEF b
  <2> QED
    BY <2>1, <2>3, <2>4, <2>5
<1> HIDE DEF K
<1>5. n \in K
  <2> HIDE DEF n
  <2>1. \A k \in 0..n : k \in K
    BY <1>2, <1>3, <1>4, ToEach
  <2> QED
    BY <1>2, <2>1
<1>6. h[n] \in Renders(t) /\ Total(h[n]) = Contents(blocks) /\ RuleCount(h[n].blocks) = RuleCount(blocks)
  BY <1>2, <1>5 DEF K
<1> DEFINE v == Flush(h[n])
           u == OrNothing(v.blocks)
<1>7. v \in Renders(t) /\ Contents(v.blocks) = Contents(blocks) /\ RuleCount(v.blocks) = RuleCount(blocks)
  BY <1>6, Flushed
<1> HIDE DEF v
<1>8. u \in Seq(Blocks(t)) /\ Contents(u) = Contents(v.blocks) /\ RuleCount(u) = RuleCount(v.blocks)
  BY <1>7, RenderTyped, NothingShown
<1> HIDE DEF u
<1> QED
  BY <1>1, <1>7, <1>8 DEF u, v, blocks

---------------------------------------------------------------------------
(* What both modes have in common.                                         *)

(* The blocks show the sections.                                           *)
LEMMA SectionBlocksShown ==
  ASSUME NEW t, NEW secs \in Seq(Sections)
  PROVE  Contents(SectionBlocks(t, secs)) = SectionsShown(t, secs)
<1> DEFINE a == [sec \in Sections |-> RenderSection(t, sec)]
           b == [sec \in Sections |-> SectionShown(t, sec)]
           R == {p \in Seq(Blocks(t)) \X Seq(AnItem) : Contents(p[1]) = p[2]}
<1>1. a \in [Sections -> Seq(Blocks(t))] /\ b \in [Sections -> Seq(AnItem)]
  BY SectionRendered, SectionIsShown
<1>2. \A sec \in Sections : <<a[sec], b[sec]>> \in R
  BY SectionRendered, SectionIsShown
<1>3. Joins(R, Blocks(t), AnItem)
  <2>1. <<<<>>, <<>>>> \in R
    BY NoBlocks, NoItems
  <2>2. ASSUME NEW x \in Seq(Blocks(t)), NEW v \in Seq(Blocks(t)), NEW y \in Seq(AnItem), NEW w \in Seq(AnItem),
               <<x, y>> \in R, <<v, w>> \in R
        PROVE  <<Cat(x, v), Cat(y, w)>> \in R
    <3>1. Contents(x) = y /\ Contents(v) = w
      BY <2>2
    <3>2. Cat(x, v) \in Seq(Blocks(t)) /\ Contents(Cat(x, v)) = Cat(y, w) /\ Cat(y, w) \in Seq(AnItem)
      BY <3>1, NoBlocks, JoinedTyped
    <3> DEFINE l == Cat(x, v)
               r == Cat(y, w)
    <3> HIDE DEF l, r
    <3>3. <<l, r>> \in R
      BY <3>2 DEF l, r
    <3> QED
      BY <3>3 DEF l, r
  <2> HIDE DEF R
  <2> QED
    BY <2>1, <2>2 DEF Joins
<1>4. SectionBlocks(t, secs) = FlatMap(a, secs) /\ SectionsShown(t, secs) = FlatMap(b, secs)
  BY DEF SectionBlocks, SectionsShown
<1> HIDE DEF a, b
<1>5. <<FlatMap(a, secs), FlatMap(b, secs)>> \in R
  <2> HIDE DEF R
  <2> QED
    BY <1>1, <1>2, <1>3, FlatMapRelates
<1> QED
  BY <1>4, <1>5

(* What the blocks of both modes have in common.                           *)
LEMMA TransformShown ==
  ASSUME NEW t \in Seq(Kinds), NEW mode
  PROVE  LET u == Transform(t, mode)
             secs == ParseSections(t) IN
         /\ u \in Seq(Blocks(t)) /\ Contents(u) = SectionsShown(t, secs)
         /\ RuleCount(Transform(t, "terminal")) - RuleCount(Transform(t, "streaming"))
              \in 0..Headings(SectionsShown(t, secs))
         /\ <<SectionsShown(t, secs), AllOfSections(secs)>> \in Trimmed(t)
<1> DEFINE secs == ParseSections(t)
           a == RenderTerminal(t, secs)
           b == RenderStreaming(t, secs)
           u == Transform(t, mode)
<1>1. secs \in Seq(Sections) /\ HeadedLater(secs)
  <2>1. PICK h : ParseRun(t, h) /\ secs = PushSection(h[Len(t)])
    BY ParseRuns DEF ParseRun
  <2>2. Len(t) \in 0..Len(t)
    BY LenProperties
  <2>3. h[Len(t)] \in States /\ LaterHeaded(h[Len(t)])
    BY <2>1, <2>2, ParseHolds DEF Parsed
  <2> HIDE DEF secs
  <2> QED
    BY <2>1, <2>3, PushedSection, PushedHeaded
<1>2. /\ Transform(t, "terminal") = a /\ Transform(t, "streaming") = b
      /\ u = IF mode = "terminal" THEN a ELSE b
  BY DEF Transform
<1> HIDE DEF secs
<1>3. /\ a \in Seq(Blocks(t)) /\ Contents(a) = SectionsShown(t, secs)
      /\ RuleCount(a) - RuleCount(SectionBlocks(t, secs)) \in 0..Headings(Contents(a))
  BY <1>1, TerminalShown
<1>4. /\ b \in Seq(Blocks(t)) /\ Contents(b) = Contents(SectionBlocks(t, secs))
      /\ RuleCount(b) = RuleCount(SectionBlocks(t, secs))
  BY <1>1, StreamShown
<1>5. Contents(SectionBlocks(t, secs)) = SectionsShown(t, secs)
  BY <1>1, SectionBlocksShown
<1>6. <<SectionsShown(t, secs), AllOfSections(secs)>> \in Trimmed(t)
  BY <1>1, SectionsAreShown
<1> HIDE DEF a, b, u
<1> QED
  BY <1>2, <1>3, <1>4, <1>5, <1>6 DEF u, secs

(* The items of a block are among those of all blocks.                     *)
LEMMA BlockItems ==
  ASSUME NEW t, NEW blocks \in Seq(Blocks(t)), NEW e \in 1..Len(blocks)
  PROVE  Elems(blocks[e].items) \subseteq Elems(Contents(blocks))
<1> DEFINE n == Len(blocks)
           p(k) == SubSeq(blocks, 1, k)
           K == {k \in 0..n : e <= k => Elems(blocks[e].items) \subseteq Elems(Contents(p(k)))}
<1>1. n \in Nat /\ p(n) = blocks /\ e \in 1..n
  BY ByPrefix
<1>2. 0 \in K
  BY <1>1
<1>3. ASSUME NEW k \in 0..(n - 1), k \in K PROVE k + 1 \in K
  <2>1. k \in 0..n /\ k + 1 \in 0..n
    BY <1>1
  <2>2. p(k) \in Seq(Blocks(t)) /\ blocks[k + 1] \in Blocks(t) /\ p(k + 1) = Append(p(k), blocks[k + 1])
    BY <2>1, ByPrefix
  <2> DEFINE b == blocks[k + 1]
  <2>3. e <= k => Elems(blocks[e].items) \subseteq Elems(Contents(p(k)))
    BY <1>3
  <2> HIDE DEF p
  <2>4. Contents(p(k + 1)) = Cat(Contents(p(k)), b.items)
    BY <2>2, BlocksAppended
  <2>5. b.items \in Seq(AnItem) /\ Contents(p(k)) \in Seq(AnItem)
    BY <2>2, BlockTyped, NoBlocks
  <2>6. Elems(Contents(p(k + 1))) = Elems(Contents(p(k))) \cup Elems(b.items)
    <3> HIDE DEF b
    <3> QED
      BY <2>4, <2>5, ElemsOf
  <2>7. e <= k + 1 => e <= k \/ e = k + 1
    BY <1>1, <2>1
  <2> QED
    BY <2>1, <2>3, <2>6, <2>7
<1> HIDE DEF K
<1>4. n \in K
  <2> HIDE DEF n
  <2>1. \A k \in 0..n : k \in K
    BY <1>1, <1>2, <1>3, ToEach
  <2> QED
    BY <1>1, <2>1
<1>5. e <= n
  BY <1>1
<1> HIDE DEF n, p
<1>6. Elems(blocks[e].items) \subseteq Elems(Contents(p(n)))
  BY <1>4, <1>5 DEF K
<1> QED
  BY <1>1, <1>6

(* The card shows its blocks.                                              *)
LEMMA CardShown ==
  ASSUME NEW t, NEW blocks \in Seq(Blocks(t)), NEW card, card = MapBlocks(blocks)
  PROVE  /\ DOMAIN card = 1..Len(blocks) /\ \A e \in 1..Len(blocks) : card[e].block = blocks[e]
         /\ Shown(card) = Contents(blocks)
         /\ RulesOf(card) = RuleCount(blocks)
         /\ HeadingsOf(card) = Headings(Contents(blocks))
<1>1. DOMAIN blocks = 1..Len(blocks) /\ \A e \in 1..Len(blocks) : blocks[e] \in Blocks(t)
  BY LenProperties, ElementOfSeq
<1>2. DOMAIN card = DOMAIN blocks /\ \A e \in DOMAIN blocks : card[e].block = blocks[e]
  BY DEF MapBlocks
<1>3. \A e \in DOMAIN blocks : card[e].tag = "hr" <=> blocks[e].kind = "rule"
  BY DEF MapBlocks
<1>4. Shown(card) = Contents(blocks)
  <2>1. [i \in DOMAIN card |-> card[i].block.items] = [i \in DOMAIN blocks |-> blocks[i].items]
    BY <1>2
  <2> QED
    BY <2>1 DEF Shown, Contents
<1>5. RulesOf(card) = RuleCount(blocks)
  <2>1. \A e \in DOMAIN blocks : card[e].tag = "hr" <=> blocks[e] \in {Rule}
    BY <1>1, <1>3, BlockTyped
  <2>2. {e \in DOMAIN card : card[e].tag = "hr"} = {i \in DOMAIN blocks : blocks[i] \in {Rule}}
    BY <1>2, <2>1
  <2> QED
    BY <2>2 DEF RulesOf, RuleCount, Count
<1>6. HeadingsOf(card) = Headings(Contents(blocks))
  <2> DEFINE x == Contents(blocks)
  <2>1. x \in Seq(AnItem)
    BY NoBlocks
  <2> HIDE DEF x
  <2>2. \A i \in DOMAIN x : x[i] \in AnItem
    BY <2>1, LenProperties, ElementOfSeq
  <2>3. {i \in DOMAIN x : x[i].form = "heading"} = {i \in DOMAIN x : x[i] \in HeadingForms}
    BY <2>2 DEF HeadingForms
  <2> QED
    BY <1>4, <2>3 DEF HeadingsOf, Headings, Count, x
<1> QED
  BY <1>1, <1>2, <1>4, <1>5, <1>6

---------------------------------------------------------------------------
(* The card of a text.                                                     *)

(* The lines of the text that the card is made of, and where they stand:   *)
(* one after the other, from the first that is not blank.                  *)
Told(lines) == LET places == Normalize(lines) IN [i \in DOMAIN places |-> lines[places[i]]]
StandsAt(lines, t, first) ==
  /\ \A i \in 1..Len(t) : first + i - 1 \in 1..Len(lines) /\ t[i] = lines[first + i - 1]
  /\ Len(t) # 0 => t[1] # "blank" /\ t[Len(t)] # "blank"
  /\ \A place \in 1..Len(lines) : lines[place] # "blank" => place - first + 1 \in 1..Len(t)

(* The lines that are left are those from the first place to the last      *)
(* that is not blank.                                                      *)
LEMMA LinesTold ==
  ASSUME NEW lines \in Seq(Kinds)
  PROVE  \E first \in Line :
           /\ StandsAt(lines, Told(lines), first)
           /\ Told(lines) \in Seq(Kinds) /\ DOMAIN Normalize(lines) = 1..Len(Told(lines))
           /\ \A i \in 1..Len(Told(lines)) : Normalize(lines)[i] = first + i - 1
<1> DEFINE all == Places(lines)
           places == Normalize(lines)
           t == Told(lines)
           n == Len(lines)
<1>1. n \in Nat /\ \A i \in 1..n : lines[i] \in Kinds
  BY LenProperties, ElementOfSeq
<1>2. all \in Seq(Line) /\ Len(all) = n /\ \A i \in 1..n : all[i] = i
  <2>1. all = [i \in 1..n |-> i]
    BY DEF Places
  <2>2. all \in [1..n -> Line]
    BY <1>1, <2>1 DEF Line
  <2> HIDE DEF all, n
  <2> QED
    BY <1>1, <2>1, <2>2, SeqFrom
<1>3. places \in Seq(Line) /\ Cuts(lines, all, places)
  <2>1. places = TrimBlankEdges(lines, all)
    BY DEF Normalize
  <2> HIDE DEF all, places
  <2> QED
    BY <1>2, <2>1, EdgesTrimmed
<1> HIDE DEF all
<1>4. t = [i \in DOMAIN places |-> lines[places[i]]]
  BY DEF Told
<1> HIDE DEF t, places
<1>5. Len(places) \in Nat /\ DOMAIN places = 1..Len(places)
  BY <1>3, LenProperties
<1>6. ASSUME NEW first \in Line, \A i \in 1..Len(places) : places[i] = first + i - 1 /\ first + i - 1 \in 1..n
      PROVE  /\ t \in Seq(Kinds) /\ Len(t) = Len(places)
             /\ \A i \in 1..Len(places) : t[i] = lines[first + i - 1]
  <2>1. \A i \in 1..Len(places) : t[i] = lines[first + i - 1] /\ t[i] \in Kinds
    BY <1>1, <1>4, <1>5, <1>6
  <2>2. t \in [1..Len(places) -> Kinds]
    BY <1>4, <1>5, <2>1
  <2> QED
    BY <1>5, <2>1, <2>2, SeqFrom
<1>7. ASSUME places = <<>>, \A i \in 1..n : lines[all[i]] = "blank"
      PROVE  \E first \in Line : StandsAt(lines, t, first) /\ t \in Seq(Kinds) /\ Len(t) = Len(places)
                                 /\ \A i \in 1..Len(t) : places[i] = first + i - 1
  <2>1. Len(places) = 0 /\ 1 \in Line
    BY <1>7 DEF Line
  <2>2. t \in Seq(Kinds) /\ Len(t) = 0
    BY <1>6, <2>1
  <2>3. StandsAt(lines, t, 1)
    BY <1>2, <1>7, <2>2 DEF StandsAt, n
  <2> QED
    BY <2>1, <2>2, <2>3
<1>8. ASSUME NEW lo \in 1..n, NEW hi \in 1..n, lo <= hi, Len(places) = hi - lo + 1,
             \A i \in 1..Len(places) : places[i] = all[lo + i - 1],
             lines[all[lo]] # "blank", lines[all[hi]] # "blank",
             \A i \in 1..n : lines[all[i]] # "blank" => i \in lo..hi
      PROVE  \E first \in Line : StandsAt(lines, t, first) /\ t \in Seq(Kinds) /\ Len(t) = Len(places)
                                 /\ \A i \in 1..Len(t) : places[i] = first + i - 1
  <2>1. lo \in Line
    BY <1>1 DEF Line
  <2>2. \A i \in 1..Len(places) : lo + i - 1 \in 1..n /\ places[i] = lo + i - 1
    <3> SUFFICES ASSUME NEW i \in 1..Len(places) PROVE lo + i - 1 \in 1..n /\ places[i] = lo + i - 1
      OBVIOUS
    <3> DEFINE p == lo + i - 1
    <3>1. p \in 1..n
      BY <1>1, <1>8
    <3>2. places[i] = all[p]
      BY <1>8
    <3> HIDE DEF p
    <3>3. places[i] = p
      BY <1>2, <3>1, <3>2
    <3> QED
      BY <3>1, <3>3 DEF p
  <2>3. /\ t \in Seq(Kinds) /\ Len(t) = Len(places)
        /\ \A i \in 1..Len(places) : t[i] = lines[lo + i - 1]
    BY <1>6, <2>1, <2>2
  <2>4. /\ lines[lo] # "blank" /\ lines[hi] # "blank"
        /\ \A i \in 1..n : lines[i] # "blank" => i \in lo..hi
    BY <1>2, <1>8
  <2>5. 1 \in 1..Len(places) /\ Len(places) \in 1..Len(places) /\ lo + 1 - 1 = lo /\ lo + Len(places) - 1 = hi
    BY <1>1, <1>8
  <2>6. t[1] # "blank" /\ t[Len(t)] # "blank"
    <3>1. t[1] = lines[lo + 1 - 1] /\ t[Len(t)] = lines[lo + Len(places) - 1]
      BY <2>3, <2>5
    <3> QED
      BY <2>4, <2>5, <3>1
  <2>7. \A i \in lo..hi : i - lo + 1 \in 1..Len(t)
    BY <1>1, <1>8, <2>3
  <2>8. StandsAt(lines, t, lo)
    BY <2>2, <2>3, <2>4, <2>6, <2>7 DEF StandsAt, n
  <2> QED
    BY <2>1, <2>2, <2>3, <2>8
<1>9. \E first \in Line : StandsAt(lines, t, first) /\ t \in Seq(Kinds) /\ Len(t) = Len(places)
                          /\ \A i \in 1..Len(t) : places[i] = first + i - 1
  BY <1>2, <1>3, <1>7, <1>8 DEF Cuts
<1> QED
  BY <1>5, <1>9 DEF t, places

(* A card: its blocks, and what is shown of the lines.                     *)
LEMMA CardOfText ==
  ASSUME NEW lines \in Seq(Kinds), NEW mode, NEW t, t = Told(lines), NEW card, card = RenderCard(lines, mode)
  PROVE  /\ t \in Seq(Kinds)
         /\ Shown(card) = SectionsShown(t, ParseSections(t))
         /\ Shown(card) \in Seq(AnItem)
         /\ <<Shown(card), AllOfSections(ParseSections(t))>> \in Trimmed(t)
         /\ RulesOf(card) = RuleCount(Transform(t, mode))
         /\ HeadingsOf(card) = Headings(Shown(card))
         /\ \A e \in DOMAIN card : /\ card[e].block \in Blocks(t)
                                   /\ Elems(card[e].block.items) \subseteq Elems(Shown(card))
<1> DEFINE u == Transform(t, mode)
<1>1. t \in Seq(Kinds)
  BY LinesTold
<1>2. card = MapBlocks(u)
  BY DEF RenderCard, Told
<1>3. /\ u \in Seq(Blocks(t)) /\ Contents(u) = SectionsShown(t, ParseSections(t))
      /\ <<SectionsShown(t, ParseSections(t)), AllOfSections(ParseSections(t))>> \in Trimmed(t)
  BY <1>1, TransformShown
<1> HIDE DEF u
<1>4. /\ DOMAIN card = 1..Len(u) /\ \A e \in 1..Len(u) : card[e].block = u[e]
      /\ Shown(card) = Contents(u) /\ RulesOf(card) = RuleCount(u)
      /\ HeadingsOf(card) = Headings(Contents(u))
  BY <1>2, <1>3, CardShown
<1>5. Contents(u) \in Seq(AnItem)
  BY <1>3, NoBlocks
<1>6. \A e \in 1..Len(u) : Elems(u[e].items) \subseteq Elems(Contents(u))
  BY <1>3, BlockItems
<1>7. \A e \in 1..Len(u) : u[e] \in Blocks(t)
  BY <1>3, ElementOfSeq
<1> QED
  BY <1>1, <1>3, <1>4, <1>5, <1>6, <1>7 DEF u

(* The items that are shown are in the order of the lines, and no line     *)
(* with content is missing.                                                *)
LEMMA LinesShown ==
  ASSUME NEW lines \in Seq(Kinds), NEW mode, NEW t, t = Told(lines), NEW card, card = RenderCard(lines, mode)
  PROVE  /\ Asc(Shown(card)) /\ \A e \in Elems(Shown(card)) : e.place \in 1..Len(t)
         /\ \A p \in 1..Len(t) : IsContent(t[p]) => \E e \in Elems(Shown(card)) : e.place = p
<1> DEFINE x == Shown(card)
           y == AllOfSections(ParseSections(t))
<1>1. t \in Seq(Kinds) /\ <<x, y>> \in Trimmed(t)
  BY CardOfText
<1>2. PICK h : ParseRun(t, h) /\ ParseSections(t) = PushSection(h[Len(t)])
  BY <1>1, ParseRuns DEF ParseRun
<1>3. Len(t) \in Nat /\ Len(t) \in 0..Len(t)
  BY <1>1, LenProperties
<1>4. Parsed(t, Len(t), h[Len(t)])
  BY <1>1, <1>2, <1>3, ParseHolds
<1>5. y = AllOf(h[Len(t)])
  BY <1>2, <1>4, PushedSection DEF Parsed
<1> HIDE DEF x, y
<1>6. /\ Asc(y) /\ \A e \in Elems(y) : e.place \in 1..Len(t)
      /\ \A p \in 1..Len(t) : IsContent(t[p]) => \E e \in Elems(y) : e.place = p
  BY <1>4, <1>5 DEF Parsed
<1>7. Asc(x) /\ Elems(x) \subseteq Elems(y) /\ \A e \in Elems(y) : t[e.place] # "blank" => e \in Elems(x)
  BY <1>1, <1>6 DEF Trimmed
<1>8. ~IsContent("blank")
  BY DEF IsContent, PlainKinds, MarkedKinds
<1>9. Asc(x) /\ (\A e \in Elems(x) : e.place \in 1..Len(t))
      /\ \A p \in 1..Len(t) : IsContent(t[p]) => \E e \in Elems(x) : e.place = p
  BY <1>6, <1>7, <1>8
<1> QED
  BY <1>9 DEF x

(* KeepsLines for one card.                                                *)
LEMMA CardKeepsLines ==
  ASSUME NEW lines \in Seq(Kinds), NEW mode, NEW card, card = RenderCard(lines, mode)
  PROVE  LET shown == Shown(card) IN
         /\ \A i, j \in DOMAIN shown : i < j => shown[i].place < shown[j].place
         /\ \A place \in DOMAIN lines :
              IsContent(lines[place]) => \E i \in DOMAIN shown : PlaceIn(lines, shown[i]) = place
<1> DEFINE t == Told(lines)
           x == Shown(card)
<1>1. PICK first \in Line :
        /\ StandsAt(lines, t, first) /\ t \in Seq(Kinds) /\ DOMAIN Normalize(lines) = 1..Len(t)
        /\ \A i \in 1..Len(t) : Normalize(lines)[i] = first + i - 1
  BY LinesTold
<1>2. /\ Asc(x) /\ \A e \in Elems(x) : e.place \in 1..Len(t)
      /\ \A p \in 1..Len(t) : IsContent(t[p]) => \E e \in Elems(x) : e.place = p
  BY LinesShown
<1>3. x \in Seq(AnItem)
  BY CardOfText
<1> HIDE DEF x, t
<1>4. DOMAIN x = 1..Len(x) /\ DOMAIN lines = 1..Len(lines) /\ Len(lines) \in Nat /\ Len(t) \in Nat
  BY <1>1, <1>3, LenProperties
<1>5. ASSUME NEW place \in 1..Len(lines), IsContent(lines[place])
      PROVE  \E i \in DOMAIN x : PlaceIn(lines, x[i]) = place
  <2> DEFINE p == place - first + 1
  <2>1. lines[place] # "blank"
    BY <1>5 DEF IsContent, PlainKinds, MarkedKinds
  <2>2. p \in 1..Len(t)
    BY <1>1, <2>1 DEF StandsAt
  <2>3. first + p - 1 = place
    BY DEF Line
  <2>4. t[p] = lines[first + p - 1]
    BY <1>1, <2>2 DEF StandsAt
  <2> HIDE DEF p
  <2>5. t[p] = lines[place] /\ Normalize(lines)[p] = place
    BY <1>1, <2>2, <2>3, <2>4
  <2>6. PICK e \in Elems(x) : e.place = p
    BY <1>2, <1>5, <2>2, <2>5
  <2>7. PICK i \in 1..Len(x) : e = x[i]
    BY DEF Elems
  <2> QED
    BY <1>4, <2>5, <2>6, <2>7 DEF PlaceIn
<1>6. \A i, j \in DOMAIN x : i < j => x[i].place < x[j].place
  BY <1>2, <1>4 DEF Asc
<1> QED
  BY <1>4, <1>5, <1>6 DEF x

(* CodeStaysPlain for one block of one card.                               *)
LEMMA CardKeepsCode ==
  ASSUME NEW lines \in Seq(Kinds), NEW mode, NEW t, t = Told(lines),
         NEW card, card = RenderCard(lines, mode), NEW e \in DOMAIN card
  PROVE  LET block == card[e].block IN
         \A i \in DOMAIN block.items :
           LET item == block.items[i]
               kind == lines[PlaceIn(lines, item)] IN
           /\ item.form \in {"code", "row", "language"} => block.format = "plain_text"
           /\ item.form = "heading" \/ (item.form = "text" /\ kind \in MarkedKinds) =>
                block.format = "lark_md"
<1> DEFINE block == card[e].block
           x == block.items
<1>1. PICK first \in Line :
        /\ StandsAt(lines, t, first) /\ t \in Seq(Kinds) /\ DOMAIN Normalize(lines) = 1..Len(t)
        /\ \A i \in 1..Len(t) : Normalize(lines)[i] = first + i - 1
  BY LinesTold
<1>2. Elems(x) \subseteq Elems(Shown(card)) /\ \A d \in Elems(Shown(card)) : d.place \in 1..Len(t)
  BY CardOfText, LinesShown
<1>3. block \in Blocks(t)
  BY CardOfText
<1> HIDE DEF block
<1>4. ASSUME NEW i \in DOMAIN x
      PROVE  /\ x[i].form \in {"code", "row", "language"} => block.format = "plain_text"
             /\ x[i].form = "heading" \/ (x[i].form = "text" /\ lines[PlaceIn(lines, x[i])] \in MarkedKinds) =>
                  block.format = "lark_md"
  <2>1. x \in Seq(AnItem)
    BY <1>3, BlockTyped
  <2>2. x # <<>>
    <3>1. DOMAIN x = 1..Len(x)
      BY <2>1, LenProperties
    <3> QED
      BY <3>1, EmptySeq
  <2>3. PICK format \in Formats : block \in BlocksIn(t, format)
    BY <1>3, <2>2 DEF Blocks, Rule
  <2>4. x \in Seq(Fitting(t, format)) /\ block.format = format
    BY <2>3 DEF BlocksIn
  <2>5. i \in 1..Len(x)
    BY <2>1, LenProperties
  <2>6. x[i] \in Fitting(t, format) /\ x[i] \in Elems(x)
    <3> HIDE DEF x
    <3> QED
      BY <2>4, <2>5, ElementOfSeq DEF Elems
  <2>7. x[i].place \in 1..Len(t)
    BY <1>2, <2>6
  <2>8. lines[PlaceIn(lines, x[i])] = t[x[i].place]
    BY <1>1, <2>7 DEF PlaceIn, StandsAt
  <2> QED
    BY <2>4, <2>6, <2>8 DEF Fitting
<1> QED
  BY <1>4 DEF block

---------------------------------------------------------------------------
(* The theorems about each state.                                          *)

(* The inductive invariant: the card that streams is that of the text.     *)
CardInv == text \in Seq(LineKinds) /\ streamed = RenderCard(text, "streaming")

(* At all times the card that streams is the one of the whole text so far. *)
THEOREM CardIsOfText == Spec => []CardInv
<1>1. Init => CardInv
  BY EmptySeq DEF Init, CardInv
<1>2. CardInv /\ [Next]_vars => CardInv'
  <2> SUFFICES ASSUME CardInv, [Next]_vars PROVE CardInv'
    OBVIOUS
  <2>1. ASSUME NEW kind \in LineKinds, UpdateCard(kind) PROVE CardInv'
    BY <2>1, AppendProperties DEF UpdateCard, CardInv
  <2>2. CASE UNCHANGED vars
    BY <2>2 DEF vars, CardInv
  <2> QED
    BY <2>1, <2>2 DEF Next
<1> QED
  BY <1>1, <1>2, PTL DEF Spec

(* The cards that the properties are about.                                *)
LEMMA TextTyped ==
  ASSUME CardInv
  PROVE  /\ text \in Seq(Kinds)
         /\ \A card \in {streamed, Terminal} : \E mode : card = RenderCard(text, mode)
<1>1. text \in Seq(Kinds)
  BY LinesAssumption, SeqMonotonic DEF CardInv
<1> QED
  BY <1>1 DEF CardInv, Terminal

(* Every line with content is shown, none is shown twice and all are in    *)
(* order, whatever stands around them.                                     *)
THEOREM LinesAreKept == Spec => []KeepsLines
<1>1. ASSUME CardInv PROVE KeepsLines
  <2> SUFFICES ASSUME NEW card \in {streamed, Terminal}
               PROVE  LET shown == Shown(card) IN
                      /\ \A i, j \in DOMAIN shown : i < j => shown[i].place < shown[j].place
                      /\ \A place \in DOMAIN text :
                           IsContent(text[place]) => \E i \in DOMAIN shown : PlaceIn(text, shown[i]) = place
    BY DEF KeepsLines
  <2>1. PICK mode : card = RenderCard(text, mode)
    BY <1>1, TextTyped
  <2>2. text \in Seq(Kinds)
    BY <1>1, TextTyped
  <2> QED
    BY <2>1, <2>2, CardKeepsLines
<1> QED
  BY <1>1, CardIsOfText, PTL

(* Code, tables and the languages of code stand in blocks of plain text,   *)
(* headings and lines with markup in blocks that are interpreted.          *)
THEOREM CodeIsPlain == Spec => []CodeStaysPlain
<1>1. ASSUME CardInv PROVE CodeStaysPlain
  <2> SUFFICES ASSUME NEW card \in {streamed, Terminal}, NEW e \in DOMAIN card
               PROVE  LET block == card[e].block IN
                      \A i \in DOMAIN block.items :
                        LET item == block.items[i]
                            kind == text[PlaceIn(text, item)] IN
                        /\ item.form \in {"code", "row", "language"} => block.format = "plain_text"
                        /\ item.form = "heading" \/ (item.form = "text" /\ kind \in MarkedKinds) =>
                             block.format = "lark_md"
    BY DEF CodeStaysPlain
  <2>1. PICK mode : card = RenderCard(text, mode)
    BY <1>1, TextTyped
  <2>2. text \in Seq(Kinds)
    BY <1>1, TextTyped
  <2> QED
    BY <2>1, <2>2, CardKeepsCode
<1> QED
  BY <1>1, CardIsOfText, PTL

(* When the run ends the card says what it said while it streamed, with    *)
(* rules between the sections, at most one for each heading.               *)
THEOREM BothModesAgree == Spec => []ModesAgree
<1>1. ASSUME CardInv PROVE ModesAgree
  <2> DEFINE t == Told(text)
  <2>1. text \in Seq(Kinds) /\ streamed = RenderCard(text, "streaming") /\ Terminal = RenderCard(text, "terminal")
    BY <1>1, TextTyped DEF CardInv, Terminal
  <2>2. t \in Seq(Kinds)
    BY <2>1, LinesTold
  <2>3. /\ Shown(streamed) = SectionsShown(t, ParseSections(t))
        /\ RulesOf(streamed) = RuleCount(Transform(t, "streaming"))
    BY <2>1, CardOfText
  <2>4. /\ Shown(Terminal) = SectionsShown(t, ParseSections(t))
        /\ RulesOf(Terminal) = RuleCount(Transform(t, "terminal"))
        /\ HeadingsOf(Terminal) = Headings(Shown(Terminal))
    BY <2>1, CardOfText
  <2> HIDE DEF t
  <2>5. RuleCount(Transform(t, "terminal")) - RuleCount(Transform(t, "streaming"))
              \in 0..Headings(SectionsShown(t, ParseSections(t)))
    BY <2>2, TransformShown
  <2> QED
    BY <2>3, <2>4, <2>5 DEF ModesAgree
<1> QED
  BY <1>1, CardIsOfText, PTL

---------------------------------------------------------------------------
(* What stays as lines are added.                                          *)

(* Parsing a line keeps the items there are and adds one for that line at  *)
(* most.                                                                   *)
LEMMA ItemsStay ==
  ASSUME NEW t \in Seq(Kinds), NEW k \in 0..(Len(t) - 1), NEW s, Parsed(t, k, s)
  PROVE  LET u == ParseLine(t, s, k + 1) IN
         /\ Elems(AllOf(s)) \subseteq Elems(AllOf(u))
         /\ \A e \in Elems(AllOf(u)) : e \in Elems(AllOf(s)) \/ e.place = k + 1
<1> DEFINE u == ParseLine(t, s, k + 1)
<1>1. Len(t) \in Nat /\ k + 1 \in Line
  BY LenProperties DEF Line
<1>2. s \in States /\ LaterHeaded(s) /\ AllOf(s) \in Seq(AnItem)
  BY StateTyped DEF Parsed
<1>3. AllOf(u) = AllOf(s) \/ Kept(s, u, k + 1)
  BY <1>1, <1>2, LineParsed
<1> HIDE DEF u
<1>4. CASE Kept(s, u, k + 1)
  <2>1. PICK form \in Forms : AllOf(u) = Append(AllOf(s), Item(k + 1, form))
    BY <1>4 DEF Kept
  <2> DEFINE e == Item(k + 1, form)
  <2>2. e \in AnItem /\ e.place = k + 1
    BY <1>1 DEF Item, AnItem
  <2>3. Asc(AllOf(s)) /\ \A d \in Elems(AllOf(s)) : d.place < k + 1
    BY <1>1 DEF Parsed
  <2> HIDE DEF e
  <2>4. Elems(AllOf(u)) = Elems(AllOf(s)) \cup {e}
    BY <1>2, <2>1, <2>2, <2>3, AppendedItem DEF e
  <2> QED
    BY <2>2, <2>4 DEF u
<1>5. CASE AllOf(u) = AllOf(s)
  BY <1>5 DEF u
<1> QED
  BY <1>3, <1>4, <1>5

(* Later lines keep the items.                                             *)
LEMMA ItemsStayOn ==
  ASSUME NEW t \in Seq(Kinds), NEW h, ParseRun(t, h), NEW j \in 0..Len(t), NEW k \in 0..Len(t), j <= k
  PROVE  Elems(AllOf(h[j])) \subseteq Elems(AllOf(h[k]))
<1> DEFINE n == Len(t)
           K == {i \in 0..n : j <= i => Elems(AllOf(h[j])) \subseteq Elems(AllOf(h[i]))}
<1>1. n \in Nat
  BY LenProperties
<1>2. 0 \in K
  BY <1>1
<1>3. ASSUME NEW i \in 0..(n - 1), i \in K PROVE i + 1 \in K
  <2>1. i \in 0..n /\ i + 1 \in 0..n
    BY <1>1
  <2>2. Parsed(t, i, h[i]) /\ h[i + 1] = ParseLine(t, h[i], i + 1)
    BY <2>1, ParseHolds DEF ParseRun
  <2>3. Elems(AllOf(h[i])) \subseteq Elems(AllOf(h[i + 1]))
    BY <2>2, ItemsStay
  <2>4. j <= i + 1 => j <= i \/ j = i + 1
    BY <1>1
  <2> QED
    BY <1>3, <2>1, <2>3, <2>4
<1> HIDE DEF K
<1>4. \A i \in 0..n : i \in K
  <2> HIDE DEF n
  <2> QED
    BY <1>1, <1>2, <1>3, ToEach
<1> QED
  BY <1>4 DEF K

(* A parse looks at a line and at most at the next: up to the last line    *)
(* but one a text parses as it does with lines after it, and up to the     *)
(* last one as well, unless that may begin a table.                        *)
LEMMA ParsesAlike ==
  ASSUME NEW a \in Seq(Kinds), NEW b \in Seq(Kinds), Len(a) <= Len(b), \A i \in 1..Len(a) : b[i] = a[i],
         NEW h, ParseRun(a, h), NEW g, ParseRun(b, g)
  PROVE  \A k \in 0..Len(a) : k < Len(a) \/ (k # 0 => ~IsTableLine(a[k])) => h[k] = g[k]
<1> DEFINE n == Len(a)
           Same(k) == k < n \/ (k # 0 => ~IsTableLine(a[k])) => h[k] = g[k]
           K == {k \in 0..n : Same(k)}
<1>1. n \in Nat /\ Len(b) \in Nat
  BY LenProperties
<1>2. 0 \in K
  BY <1>1 DEF ParseRun
<1>3. ASSUME NEW k \in 0..(n - 1), k \in K PROVE k + 1 \in K
  <2>1. k \in 0..n /\ k + 1 \in 0..n /\ k + 1 \in 1..n /\ k < n /\ k \in 0..(Len(b) - 1)
    BY <1>1
  <2>2. h[k] = g[k] /\ h[k + 1] = ParseLine(a, h[k], k + 1) /\ g[k + 1] = ParseLine(b, g[k], k + 1)
    BY <1>3, <2>1 DEF ParseRun
  <2>3. a[k + 1] = b[k + 1]
    BY <2>1
  <2> SUFFICES ASSUME k + 1 < n \/ ~IsTableLine(a[k + 1]) PROVE h[k + 1] = g[k + 1]
    BY <2>1
  <2>4. StartsTable(a, k + 1) <=> StartsTable(b, k + 1)
    <3>1. CASE k + 1 < n
      <4>1. k + 1 + 1 \in 1..n /\ k + 1 < Len(b)
        BY <1>1, <3>1
      <4>2. a[k + 1 + 1] = b[k + 1 + 1]
        BY <4>1
      <4> QED
        BY <2>3, <3>1, <4>1, <4>2 DEF StartsTable
    <3>2. CASE ~IsTableLine(a[k + 1])
      BY <2>3, <3>2 DEF StartsTable
    <3> QED
      BY <3>1, <3>2
  <2>5. \A s : ParseLine(a, s, k + 1) = ParseLine(b, s, k + 1)
    BY <2>3, <2>4 DEF ParseLine, OpensCode
  <2> QED
    BY <2>2, <2>5
<1> HIDE DEF K
<1>4. \A k \in 0..n : k \in K
  <2> HIDE DEF n
  <2> QED
    BY <1>1, <1>2, <1>3, ToEach
<1> QED
  BY <1>4 DEF K

(* An item of a text that goes on is an item of the longer text.           *)
LEMMA ItemSettles ==
  ASSUME NEW a \in Seq(Kinds), NEW b \in Seq(Kinds), Len(a) <= Len(b), \A i \in 1..Len(a) : b[i] = a[i],
         NEW e \in Elems(AllOfSections(ParseSections(a))), ~IsTableLine(a[e.place])
  PROVE  e \in Elems(AllOfSections(ParseSections(b))) /\ e.place \in 1..Len(a)
<1> DEFINE n == Len(a)
           m == Len(b)
<1>1. n \in Nat /\ m \in Nat /\ n \in 0..n /\ m \in 0..m
  BY LenProperties
<1>2. PICK h : ParseRun(a, h) /\ ParseSections(a) = PushSection(h[n])
  BY ParseRuns DEF ParseRun
<1>3. PICK g : ParseRun(b, g) /\ ParseSections(b) = PushSection(g[m])
  BY ParseRuns DEF ParseRun
<1>4. Parsed(a, n, h[n]) /\ Parsed(b, m, g[m])
  BY <1>1, <1>2, <1>3, ParseHolds
<1>5. AllOfSections(ParseSections(a)) = AllOf(h[n]) /\ AllOfSections(ParseSections(b)) = AllOf(g[m])
  BY <1>2, <1>3, <1>4, PushedSection DEF Parsed
<1>6. e.place \in 1..n
  BY <1>4, <1>5 DEF Parsed
<1>7. \E k \in 0..n : e \in Elems(AllOf(g[k]))
  <2>1. CASE ~IsTableLine(a[n])
    <3>1. h[n] = g[n]
      BY <1>1, <1>2, <1>3, <2>1, ParsesAlike
    <3> QED
      BY <1>1, <1>5, <3>1
  <2>2. CASE IsTableLine(a[n])
    <3> DEFINE k == n - 1
    <3>1. k \in 0..(n - 1) /\ k \in 0..n /\ k < n /\ k + 1 = n
      BY <1>1, <1>6
    <3>2. h[k] = g[k]
      BY <1>2, <1>3, <3>1, ParsesAlike
    <3>3. Parsed(a, k, h[k]) /\ h[n] = ParseLine(a, h[k], k + 1)
      BY <1>2, <3>1, ParseHolds DEF ParseRun
    <3> HIDE DEF k
    <3>4. e \in Elems(AllOf(h[k])) \/ e.place = n
      BY <1>5, <3>1, <3>3, ItemsStay
    <3> QED
      BY <2>2, <3>1, <3>2, <3>4
  <2> QED
    BY <2>1, <2>2
<1>8. PICK k \in 0..n : e \in Elems(AllOf(g[k]))
  BY <1>7
<1>9. k \in 0..m /\ k <= m
  BY <1>1
<1>10. e \in Elems(AllOf(g[m]))
  BY <1>1, <1>3, <1>8, <1>9, ItemsStayOn
<1> QED
  BY <1>5, <1>6, <1>10

Grows(lines, more) ==
  /\ more \in Seq(Kinds) /\ Len(more) = Len(lines) + 1
  /\ \A i \in 1..Len(lines) : more[i] = lines[i]

(* Where the lines of a text that grows stand: where they stood.           *)
LEMMA PlacesStay ==
  ASSUME NEW lines \in Seq(Kinds), NEW more, Grows(lines, more),
         NEW a, a = Told(lines), NEW b, b = Told(more), Len(a) # 0
  PROVE  /\ a \in Seq(Kinds) /\ b \in Seq(Kinds)
         /\ Len(a) <= Len(b) /\ \A i \in 1..Len(a) : b[i] = a[i]
         /\ \A i \in 1..Len(a) : /\ Normalize(more)[i] = Normalize(lines)[i]
                                 /\ lines[Normalize(lines)[i]] = a[i]
<1>1. PICK first \in Line :
        /\ StandsAt(lines, a, first) /\ a \in Seq(Kinds) /\ DOMAIN Normalize(lines) = 1..Len(a)
        /\ \A i \in 1..Len(a) : Normalize(lines)[i] = first + i - 1
  BY LinesTold
<1>2. more \in Seq(Kinds)
  BY DEF Grows
<1>3. PICK start \in Line :
        /\ StandsAt(more, b, start) /\ b \in Seq(Kinds) /\ DOMAIN Normalize(more) = 1..Len(b)
        /\ \A i \in 1..Len(b) : Normalize(more)[i] = start + i - 1
  BY <1>2, LinesTold
<1> DEFINE n == Len(a)
           m == Len(b)
           l == Len(lines)
<1>4. n \in Nat \ {0} /\ m \in Nat /\ l \in Nat /\ first \in Nat \ {0} /\ start \in Nat \ {0}
  BY <1>1, <1>3, LenProperties DEF Line
<1>5. /\ \A i \in 1..n : first + i - 1 \in 1..l /\ a[i] = lines[first + i - 1]
      /\ a[1] # "blank" /\ a[n] # "blank"
      /\ \A place \in 1..l : lines[place] # "blank" => place - first + 1 \in 1..n
  BY <1>1 DEF StandsAt
<1>6. Len(more) = l + 1 /\ \A place \in 1..l : place \in 1..Len(more) /\ more[place] = lines[place]
  BY LenProperties DEF Grows
<1>7. /\ \A i \in 1..m : start + i - 1 \in 1..(l + 1) /\ b[i] = more[start + i - 1]
      /\ m # 0 => b[1] # "blank" /\ b[m] # "blank"
      /\ \A place \in 1..(l + 1) : more[place] # "blank" => place - start + 1 \in 1..m
  BY <1>3, <1>6 DEF StandsAt
<1> HIDE DEF n, m, l
<1>8. first - start + 1 \in 1..m /\ first \in 1..l
  <2>1. 1 \in 1..n /\ first + 1 - 1 = first
    BY <1>4
  <2>2. first \in 1..l /\ a[1] = lines[first]
    BY <1>5, <2>1
  <2>3. more[first] # "blank" /\ first \in 1..(l + 1)
    BY <1>4, <1>5, <1>6, <2>2
  <2> QED
    BY <1>7, <2>2, <2>3
<1>9. start = first
  <2>1. 1 \in 1..m /\ start + 1 - 1 = start /\ start <= first /\ m # 0
    BY <1>4, <1>8
  <2>2. b[1] = more[start] /\ start \in 1..l
    <3>1. b[1] = more[start + 1 - 1]
      BY <1>7, <2>1
    <3>2. start \in 1..l
      BY <1>4, <1>8, <2>1
    <3> QED
      BY <2>1, <3>1, <3>2
  <2>3. lines[start] # "blank"
    BY <1>6, <1>7, <2>1, <2>2
  <2>4. start - first + 1 \in 1..n
    BY <1>5, <2>2, <2>3
  <2> QED
    BY <1>4, <2>1, <2>4
<1>10. n \in 1..m
  <2> DEFINE last == first + n - 1
  <2>1. n \in 1..n
    BY <1>4
  <2>2. last \in 1..l /\ a[n] = lines[last]
    BY <1>5, <2>1
  <2>3. last \in 1..(l + 1) /\ more[last] # "blank" /\ last - start + 1 = n
    BY <1>4, <1>5, <1>6, <1>9, <2>2
  <2> HIDE DEF last
  <2> QED
    BY <1>7, <2>3
<1>11. ASSUME NEW i \in 1..n
       PROVE  b[i] = a[i] /\ Normalize(more)[i] = Normalize(lines)[i] /\ lines[Normalize(lines)[i]] = a[i]
  <2>1. i \in 1..m
    BY <1>4, <1>10
  <2>2. a[i] = lines[first + i - 1] /\ first + i - 1 \in 1..l
    BY <1>5
  <2>3. b[i] = more[first + i - 1]
    BY <1>7, <1>9, <2>1
  <2>4. Normalize(more)[i] = first + i - 1 /\ Normalize(lines)[i] = first + i - 1
    BY <1>1, <1>3, <1>9, <2>1 DEF n, m
  <2> QED
    BY <1>6, <2>2, <2>3, <2>4
<1>12. n <= m
  BY <1>4, <1>10
<1> QED
  BY <1>1, <1>3, <1>11, <1>12 DEF n, m

(* FormsSettle for one item.                                               *)
LEMMA CardSettles ==
  ASSUME NEW lines \in Seq(Kinds), NEW more, Grows(lines, more),
         NEW card, card = RenderCard(lines, "streaming"), NEW new, new = RenderCard(more, "streaming"),
         NEW item \in Elems(Shown(card)),
         lines[PlaceIn(lines, item)] # "blank", ~IsTableLine(lines[PlaceIn(lines, item)])
  PROVE  item \in Elems(Shown(new)) /\ PlaceIn(more, item) = PlaceIn(lines, item)
<1> DEFINE a == Told(lines)
           b == Told(more)
<1>1. a = Told(lines) /\ b = Told(more)
  OBVIOUS
<1> HIDE DEF a, b
<1>2. more \in Seq(Kinds)
  BY DEF Grows
<1>3. a \in Seq(Kinds) /\ item.place \in 1..Len(a)
  BY <1>1, CardOfText, LinesShown
<1>4. Len(a) # 0
  BY <1>3, LenProperties
<1>5. /\ b \in Seq(Kinds) /\ Len(a) <= Len(b) /\ \A i \in 1..Len(a) : b[i] = a[i]
      /\ \A i \in 1..Len(a) : /\ Normalize(more)[i] = Normalize(lines)[i]
                              /\ lines[Normalize(lines)[i]] = a[i]
  BY <1>1, <1>4, PlacesStay
<1>6. PlaceIn(more, item) = PlaceIn(lines, item) /\ lines[PlaceIn(lines, item)] = a[item.place]
  BY <1>3, <1>5 DEF PlaceIn
<1> DEFINE olds == AllOfSections(ParseSections(a))
           news == AllOfSections(ParseSections(b))
<1>7. <<Shown(card), olds>> \in Trimmed(a)
  BY <1>1, CardOfText
<1>8. <<Shown(new), news>> \in Trimmed(b)
  BY <1>1, <1>2, CardOfText
<1>9. item \in Elems(olds)
  BY <1>7 DEF Trimmed
<1>10. item \in Elems(news)
  BY <1>3, <1>5, <1>6, <1>9, ItemSettles
<1>11. b[item.place] # "blank"
  BY <1>3, <1>5, <1>6
<1> HIDE DEF olds, news
<1>12. item \in Elems(Shown(new))
  BY <1>8, <1>10, <1>11 DEF Trimmed
<1> QED
  BY <1>6, <1>12

(* A line that is shown stays, in the form it has, while more text comes:  *)
(* only lines with bars may turn into a table.                             *)
THEOREM WhatIsShownSettles == Spec => FormsSettle
<1> DEFINE Settles ==
      \A i \in DOMAIN Shown(streamed) :
        LET item == Shown(streamed)[i]
            place == PlaceIn(text, item) IN
        text[place] = "blank" \/ IsTableLine(text[place]) \/
        \E j \in DOMAIN Shown(streamed') :
          LET new == Shown(streamed')[j] IN
          PlaceIn(text', new) = place /\ new.form = item.form
<1>1. ASSUME CardInv, NEW kind \in LineKinds, UpdateCard(kind) PROVE Settles
  <2>1. /\ text \in Seq(Kinds) /\ kind \in Kinds /\ streamed = RenderCard(text, "streaming")
        /\ text' = Append(text, kind) /\ streamed' = RenderCard(text', "streaming")
    BY <1>1, TextTyped, LinesAssumption DEF CardInv, UpdateCard
  <2>2. text' \in Seq(Kinds)
    BY <2>1, AppendProperties
  <2>3. Shown(streamed) \in Seq(AnItem)
    BY <2>1, CardOfText
  <2>4. Shown(streamed') \in Seq(AnItem)
    BY <2>1, <2>2, CardOfText
  <2> DEFINE x == Shown(streamed)
             y == Shown(streamed')
  <2>5. DOMAIN x = 1..Len(x) /\ DOMAIN y = 1..Len(y)
    BY <2>3, <2>4, LenProperties
  <2>6. ASSUME NEW i \in DOMAIN x, text[PlaceIn(text, x[i])] # "blank",
               ~IsTableLine(text[PlaceIn(text, x[i])])
        PROVE  \E j \in DOMAIN y : PlaceIn(text', y[j]) = PlaceIn(text, x[i]) /\ y[j].form = x[i].form
    <3> DEFINE item == x[i]
    <3>1. item \in Elems(x)
      BY <2>5 DEF Elems
    <3>2. text[PlaceIn(text, item)] # "blank" /\ ~IsTableLine(text[PlaceIn(text, item)])
      BY <2>6
    <3> HIDE DEF item
    <3>3. item \in Elems(y) /\ PlaceIn(text', item) = PlaceIn(text, item)
      <4> DEFINE more == text'
                 card == streamed'
      <4>1. /\ text \in Seq(Kinds) /\ kind \in Kinds /\ streamed = RenderCard(text, "streaming")
            /\ more = Append(text, kind) /\ card = RenderCard(more, "streaming")
        BY <2>1
      <4>3. Grows(text, more)
        BY <4>1, AppendProperties DEF Grows
      <4> HIDE DEF more, card
      <4>2. item \in Elems(Shown(card)) /\ PlaceIn(more, item) = PlaceIn(text, item)
        BY <3>1, <3>2, <4>1, <4>3, CardSettles
      <4> QED
        BY <4>2 DEF more, card
    <3>4. PICK j \in 1..Len(y) : item = y[j]
      BY <3>3 DEF Elems
    <3>5. j \in DOMAIN y /\ PlaceIn(text', y[j]) = PlaceIn(text, item) /\ y[j].form = item.form
      BY <2>5, <3>3, <3>4
    <3> QED
      BY <3>5 DEF item
  <2> QED
    BY <2>6
<1>2. CardInv /\ [Next]_vars => [Settles]_vars
  <2> HIDE DEF Settles
  <2> QED
    BY <1>1 DEF Next
<1>3. CardInv /\ [Next]_vars => [\A i \in DOMAIN Shown(streamed) :
        LET item == Shown(streamed)[i]
            place == PlaceIn(text, item) IN
        text[place] = "blank" \/ IsTableLine(text[place]) \/
        \E j \in DOMAIN Shown(streamed') :
          LET new == Shown(streamed')[j] IN
          PlaceIn(text', new) = place /\ new.form = item.form]_vars
  BY <1>2
<1> HIDE DEF Settles
<1> QED
  BY <1>3, CardIsOfText, PTL DEF Spec, FormsSettle
=============================================================================
