------------------------ MODULE RunPresentationProofs ---------------------
(***************************************************************************)
(* Proofs about RunPresentation for every number of chunks, every window   *)
(* and every budget of what may go wrong.                                  *)
(***************************************************************************)
EXTENDS RunPresentation, FoldLemmas, SequenceTheorems, FiniteSetTheorems, TLAPS

---------------------------------------------------------------------------
(* The types, where each activity can be, and the call it waits for there. *)

StartPlaces ==
  {"idle", "started", "getPending", "insertPending", "cardCreate", "creating", "streaming"}
StreamPlaces == {"stream", "delta", "updating", "output"}
EndPlaces ==
  {"ended", "unreacting", "closing", "completing", "markTerminal", "completeCatch",
   "degradeClosing", "reread", "falling", "attach", "fallbackCatch"}

GatewayPlaces == {"queued", "reacting", "getPending", "insertPending", "told", "gone"}
ReaperPlaces == {"idle", "told", "gone"} \cup EndPlaces
ExecutorPlaces ==
  {"degrade", "told", "persist", "catch", "gone"} \cup StartPlaces \cup StreamPlaces \cup EndPlaces
MediaPlaces ==
  {"idle", "checking", "requesting", "reading", "uploading", "sending", "delivering", "finishing",
   "rowCatch", "sendingCatch", "throws"}

Waiting ==
  {"reacting", "creating", "updating", "unreacting", "completing", "falling", "uploading",
   "delivering"}

Text == Seq(Chunks \cup {None})
Body == [status : Ends \cup {"none", "running"}, shown : Text, quoted : Nat]
Call ==
  [op : Operations \cup {"none"}, body : Body, stage : Stages \cup {"none"}, token : Nat,
   refreshed : BOOLEAN]
Delivery == [kind : DeliveryKinds, status : {"pending", "sent", "failed"}]

SenderTyped ==
  /\ spent \in 0..Budget /\ token \in 1..(spent + 1)
  /\ cached \in [Processes -> 0..token]
  /\ call \in [Callers -> Call]
  /\ \A p \in Callers : call[p].token <= token
  /\ card \in Body /\ posts \in Seq(Ends) /\ reaction \in BOOLEAN /\ files \in Nat

StoreTyped ==
  /\ source \in Sources /\ status \in Ends \cup {"queued", "running"}
  /\ presentation \in Presentation \cup {NoPresentation}
  /\ deliveries \in [Callers -> Seq(Delivery)]
  /\ executionDelivery \in {"not_requested", "sent", "failed"}
  /\ mediaRows \in Seq(MediaRow)

WindowTyped(w) ==
  w \in [last : Nat, text : Text, chunk : Chunks \cup {None}] /\ Len(w.text) <= MaxChars

HandlersTyped ==
  /\ at \in [Callers -> GatewayPlaces \cup ExecutorPlaces \cup MediaPlaces]
  /\ seen \in [Callers -> Presentation \cup {NoPresentation}]
  /\ outcome \in [Callers -> Ends \cup {None}]
  /\ delta \in [sequence : Nat, text : Chunks \cup {None}]
  /\ WindowTyped(window)

RunTyped ==
  /\ uploaded \in BOOLEAN
  /\ answers \in Seq(Answers)
  /\ Len(answers) <= spent
  /\ at[Media] # "idle" => Len(answers) < spent
  /\ said \in Seq(Chunks) /\ Len(said) <= spent + 1
  /\ beating \in BOOLEAN /\ caught \in BOOLEAN /\ retried \in BOOLEAN
  /\ marks \subseteq Marks

Busy(p, op) == call[p].op = op /\ call[p].stage \in Stages

Calls(p) ==
  /\ at[p] \notin Waiting => call[p] = NoCall
  /\ at[p] = "reacting" => Busy(p, "addReaction")
  /\ at[p] = "unreacting" => Busy(p, "removeReaction")
  /\ at[p] = "creating" => Busy(p, "createCard") /\ call[p].body.status = "running"
  /\ at[p] = "updating" => Busy(p, "updateCard") /\ call[p].body.status = "running"
  /\ at[p] = "completing" => Busy(p, "completeCard") /\ call[p].body.status = outcome[p]
  /\ at[p] = "falling" => Busy(p, "sendFallbackTerminal") /\ call[p].body.status = outcome[p]
  /\ at[p] = "uploading" => Busy(p, "upload")
  /\ at[p] = "delivering" => Busy(p, "deliver")

(* A row that was seen does not go away.                                   *)
HasRow(p) ==
  at[p] \in {"updating", "output"} \cup (EndPlaces \ {"ended", "unreacting", "closing"}) =>
    presentation # NoPresentation

PlacesHold ==
  /\ at["gateway"] \in GatewayPlaces
  /\ at["reaper"] \in ReaperPlaces
  /\ at[Executor] \in ExecutorPlaces
  /\ at[Media] \in MediaPlaces
  /\ at["reaper"] \in EndPlaces => outcome["reaper"] = "failed"
  /\ at[Executor] \in EndPlaces \cup {"persist"} => outcome[Executor] \in Ends
  /\ at[Executor] \in StartPlaces \cup StreamPlaces \cup {"degrade"} => outcome[Executor] = None
  /\ at[Executor] \in StartPlaces =>
       ~beating /\ ~caught /\ at["reaper"] = "idle" /\ status \in {"queued", "running"}
  /\ at[Executor] \in StreamPlaces \cup {"catch"} => caught

BaseInv ==
  /\ SenderTyped /\ StoreTyped /\ HandlersTyped /\ RunTyped /\ PlacesHold
  /\ \A p \in Callers : Calls(p)
  /\ \A p \in Tellers : HasRow(p)

---------------------------------------------------------------------------
(* Calls of the sender.                                                    *)

LEMMA Bodies ==
  /\ NoCard \in Body
  /\ \A text \in Text : Running(text) \in Body
  /\ \A end \in Ends : \A row \in Presentation \cup {NoPresentation} : Document(end, row) \in Body
  /\ \A end \in Ends : \A row : Document(end, row).status = end
BY DEF NoCard, Running, Document, Closed, Body, Text, Ends, Presentation, NoPresentation

LEMMA AskTyped ==
  ASSUME SenderTyped, NEW p \in Callers, NEW op \in Operations, NEW body \in Body, Ask(p, op, body)
  PROVE  /\ SenderTyped' /\ spent' = spent
         /\ call'[p].op = op /\ call'[p].stage \in Stages /\ call'[p].body = body
         /\ \A q \in Callers : q # p => call'[q] = call[q]
BY SenderAssumption DEF SenderTyped, Ask, Begin, ExceptCall, Call, Stages

LEMMA AnswerTyped ==
  ASSUME SenderTyped, NEW p \in Callers, Answer(p)
  PROVE  /\ SenderTyped' /\ spent' = spent /\ call'[p] = NoCall
         /\ \A q \in Callers : q # p => call'[q] = call[q]
BY SenderAssumption, Bodies DEF SenderTyped, Answer, Forget, ExceptCall, Call, NoCall

LEMMA SilentTyped ==
  ASSUME SenderTyped, UNCHANGED senderVars
  PROVE  SenderTyped' /\ spent' = spent /\ call' = call
BY DEF SenderTyped, senderVars

---------------------------------------------------------------------------
(* The window.                                                             *)

LEMMA AppendTyped ==
  ASSUME BaseInv
  PROVE  WindowTyped(AppendDelta(window, delta))
<1> DEFINE longer == Append(window.text, delta.text)
<1>1. /\ window.text \in Text /\ Len(window.text) <= MaxChars
      /\ delta.sequence \in Nat /\ delta.text \in Chunks \cup {None}
  BY DEF BaseInv, HandlersTyped, WindowTyped
<1>2. longer \in Text /\ Len(longer) \in Nat
  BY <1>1 DEF Text
<1>3. LastChars(longer) \in Text /\ Len(LastChars(longer)) <= MaxChars
  <2> HIDE DEF longer
  <2>1. CASE Len(longer) <= MaxChars
    BY <1>2, <2>1, WindowAssumption DEF LastChars
  <2>2. CASE Len(longer) > MaxChars
    BY <1>2, <2>2, WindowAssumption, SubSeqProperties DEF LastChars, Text
  <2> QED
    BY <1>2, <2>1, <2>2, WindowAssumption
<1> QED
  BY <1>1, <1>3 DEF AppendDelta, WindowTyped

---------------------------------------------------------------------------
(* The notifier.                                                           *)

Quietly(p) ==
  \/ GetPending(p) \/ InsertPending(p) \/ HandleStarted(p) \/ MarkStreaming(p) \/ Degrade(p)
  \/ SaveOutput(p) \/ MarkTerminal(p) \/ AttachFallback(p)
Answering(p) ==
  \/ Reacted(p) \/ CardCreated(p) \/ CardFails(p) \/ CardUpdated(p) \/ ReactionRemoved(p)
  \/ CardCompleted(p) \/ CompleteFails(p) \/ FallbackSent(p) \/ FallbackFails(p)
Asking(p) ==
  \/ React(p) \/ CreateCard(p) \/ HandleDelta(p) \/ RemoveReaction(p) \/ HandleTerminal(p)
  \/ Reread(p)

LEMMA NotifierKinds ==
  ASSUME NEW p, NotifierStep(p)
  PROVE  Quietly(p) \/ Answering(p) \/ Asking(p)
BY DEF NotifierStep, Quietly, Answering, Asking

LEMMA NotifierSender ==
  ASSUME BaseInv, NEW p \in Tellers, NotifierStep(p)
  PROVE  /\ SenderTyped' /\ spent' = spent
         /\ \A q \in Callers : q # p => call'[q] = call[q]
<1> USE RunAssumption
<1>1. CASE Quietly(p)
  <2>1. UNCHANGED senderVars
    BY <1>1 DEF Quietly, GetPending, OnlyMoves, InsertPending, HandleStarted, MarkStreaming,
      Degrade, SaveOutput, MarkTerminal, AttachFallback
  <2> QED
    BY <2>1, SilentTyped DEF BaseInv
<1>2. CASE Answering(p)
  <2>1. Answer(p)
    BY <1>2 DEF Answering, Reacted, CardCreated, CardFails, CardUpdated, ReactionRemoved,
                CardCompleted, CompleteFails, FallbackSent, FallbackFails
  <2> QED
    BY <2>1, AnswerTyped DEF BaseInv
<1>3. CASE Asking(p)
  <2>1. UNCHANGED senderVars \/ \E op \in Operations, body \in Body : Ask(p, op, body)
    <3>1. CASE React(p) \/ RemoveReaction(p)
      BY <3>1, Bodies DEF React, RemoveReaction, Operations
    <3>2. CASE CreateCard(p)
      <4>1. <<>> \in Text
        BY DEF Text
      <4> QED
        BY <3>2, <4>1, Bodies DEF CreateCard, Operations
    <3>3. CASE HandleDelta(p)
      <4>1. UNCHANGED senderVars \/ (/\ window' = AppendDelta(window, delta)
                                     /\ Ask(p, "updateCard", Running(window'.text)))
        BY <3>3 DEF HandleDelta
      <4>2. window' = AppendDelta(window, delta) => window'.text \in Text
        BY AppendTyped DEF WindowTyped
      <4> QED
        BY <4>1, <4>2, Bodies DEF Operations
    <3>4. CASE HandleTerminal(p) \/ Reread(p)
      <4>1. outcome[p] \in Ends
        BY <3>4 DEF HandleTerminal, Reread, At, BaseInv, PlacesHold, Tellers, Executor,
                      GatewayPlaces, EndPlaces, Ends
      <4>2. presentation \in Presentation \cup {NoPresentation}
        BY DEF BaseInv, StoreTyped
      <4> QED
        BY <3>4, <4>1, <4>2, Bodies DEF HandleTerminal, Reread, Operations
    <3> QED
      BY <1>3, <3>1, <3>2, <3>3, <3>4 DEF Asking
  <2> QED
    BY <2>1, AskTyped, SilentTyped DEF BaseInv
<1> QED
  BY <1>1, <1>2, <1>3, NotifierKinds

(* The last delivery of an activity is marked.                             *)
LEMMA MarkTyped ==
  ASSUME NEW d \in Seq(Delivery), NEW to \in {"sent", "failed"}
  PROVE  LET e == [d EXCEPT ![Len(d)].status = to] IN
         /\ e \in Seq(Delivery) /\ Len(e) = Len(d)
         /\ \A i \in 1..Len(d) : /\ e[i].kind = d[i].kind
                                 /\ e[i].status = IF i = Len(d) THEN to ELSE d[i].status
<1> DEFINE e == [d EXCEPT ![Len(d)].status = to]
           x == [d[Len(d)] EXCEPT !.status = to]
<1>1. e = [d EXCEPT ![Len(d)] = x] /\ Len(d) \in Nat
  OBVIOUS
<1>2. CASE Len(d) = 0
  <2>1. d = <<>>
    BY <1>2, EmptySeq
  <2>2. e = d
    BY <1>1, <2>1
  <2>3. \A i \in 1..Len(d) : FALSE
    BY <1>2
  <2>4. e \in Seq(Delivery) /\ Len(e) = Len(d)
    BY <2>2
  <2> QED
    BY <2>3, <2>4, Zenon
<1>3. CASE Len(d) # 0
  <2>1. Len(d) \in 1..Len(d) /\ d[Len(d)] \in Delivery
    BY <1>1, <1>3, ElementOfSeq
  <2>2. x \in Delivery /\ x.status = to /\ x.kind = d[Len(d)].kind
    BY <2>1 DEF Delivery
  <2> HIDE DEF x
  <2> QED
    BY <1>1, <2>1, <2>2, ExceptSeq
<1> QED
  BY <1>2, <1>3

LEMMA RowFields ==
  ASSUME StoreTyped
  PROVE  presentation \in
           [phase : {"none", "pending_start", "streaming", "degraded"} \cup Ends,
            terminal : Ends \cup {None}, card : BOOLEAN, fallback : BOOLEAN, reason : BOOLEAN,
            last : Nat]
<1>1. presentation \in Presentation \/ presentation = NoPresentation
  BY DEF StoreTyped
<1>2. CASE presentation \in Presentation
  BY <1>2 DEF Presentation
<1>3. CASE presentation = NoPresentation
  BY <1>3 DEF NoPresentation
<1> QED
  BY <1>1, <1>2, <1>3

LEMMA NotifierStore ==
  ASSUME BaseInv, NEW p \in Tellers, NotifierStep(p)
  PROVE  StoreTyped'
<1> USE RunAssumption
<1>1. StoreTyped /\ \A q \in Callers : deliveries[q] \in Seq(Delivery)
  BY DEF BaseInv, StoreTyped
<1>2. \A to \in {"sent", "failed"} : MarkDelivery(p, to)
  => deliveries' \in [Callers -> Seq(Delivery)]
  <2> SUFFICES ASSUME NEW to \in {"sent", "failed"}, MarkDelivery(p, to)
               PROVE  deliveries' \in [Callers -> Seq(Delivery)]
    OBVIOUS
  <2> DEFINE d == deliveries[p]
             e == [d EXCEPT ![Len(d)].status = to]
  <2>1. deliveries' = [deliveries EXCEPT ![p] = e]
    BY DEF MarkDelivery
  <2>2. e \in Seq(Delivery)
    BY <1>1, MarkTyped
  <2> QED
    BY <1>1, <2>1, <2>2 DEF StoreTyped
<1>3. \A kind \in DeliveryKinds : CreateDelivery(p, kind)
  => deliveries' \in [Callers -> Seq(Delivery)]
  <2> SUFFICES ASSUME NEW kind \in DeliveryKinds, CreateDelivery(p, kind)
               PROVE  deliveries' \in [Callers -> Seq(Delivery)]
    OBVIOUS
  <2> DEFINE e == Append(deliveries[p], [kind |-> kind, status |-> "pending"])
  <2>1. [kind |-> kind, status |-> "pending"] \in Delivery
    BY DEF Delivery
  <2>2. e \in Seq(Delivery)
    BY <1>1, <2>1, AppendProperties
  <2> QED
    BY <1>1, <2>2 DEF CreateDelivery, StoreTyped
<1>4. CASE Quietly(p)
  <2>1. presentation' \in Presentation \cup {NoPresentation}
    <3>1. CASE GetPending(p) \/ HandleStarted(p)
      BY <1>1, <3>1 DEF GetPending, HandleStarted, OnlyMoves, storeVars, StoreTyped
    <3>2. CASE InsertPending(p) \/ MarkStreaming(p) \/ Degrade(p)
      BY <1>1, <3>2, RowFields DEF InsertPending, MarkStreaming, Degrade, Insert,
        MarkPresentationStreaming, MarkPresentationDegraded, Presentation, NoPresentation, Pending
    <3>3. CASE SaveOutput(p) \/ AttachFallback(p)
      <4>1. presentation # NoPresentation
        BY <3>3 DEF SaveOutput, AttachFallback, At, BaseInv, HasRow, EndPlaces
      <4> QED
        BY <1>1, <3>3, <4>1 DEF SaveOutput, AttachFallback, UpdatePresentationOutput,
          AttachFallbackTerminal, StoreTyped, Presentation, BaseInv, HandlersTyped, WindowTyped
    <3>4. CASE MarkTerminal(p)
      <4>1. outcome[p] \in Ends /\ seen[p].last \in Nat
        BY <3>4 DEF MarkTerminal, At, BaseInv, PlacesHold, HandlersTyped, Tellers, Executor,
          GatewayPlaces, EndPlaces, Ends, Presentation, NoPresentation
      <4> QED
        BY <1>1, <3>4, <4>1, RowFields DEF MarkTerminal, MarkPresentationTerminal, Presentation
    <3> QED
      BY <1>4, <3>1, <3>2, <3>3, <3>4 DEF Quietly
  <2>2. UNCHANGED <<source, status, deliveries, executionDelivery, mediaRows>>
    BY <1>4 DEF Quietly, GetPending, OnlyMoves, InsertPending, HandleStarted, MarkStreaming,
      Degrade, SaveOutput, MarkTerminal, AttachFallback, storeVars
  <2> QED
    BY <1>1, <2>1, <2>2 DEF StoreTyped
<1>5. CASE Answering(p)
  BY <1>1, <1>2, <1>5
  DEF Answering, Reacted, CardCreated, CardFails, CardUpdated, ReactionRemoved,
                CardCompleted, CompleteFails, FallbackSent, FallbackFails, StoreTyped,
                  MarkExecution, storeVars
<1>6. CASE Asking(p)
  BY <1>1, <1>3, <1>6 DEF Asking, React, CreateCard, HandleDelta, RemoveReaction,
    HandleTerminal, Reread, StoreTyped, storeVars, DeliveryKinds
<1> QED
  BY <1>4, <1>5, <1>6, NotifierKinds

LEMMA NotifierHandlers ==
  ASSUME BaseInv, NEW p \in Tellers, NotifierStep(p)
  PROVE  HandlersTyped'
<1> USE RunAssumption
<1>1. HandlersTyped /\ presentation \in Presentation \cup {NoPresentation}
  BY DEF BaseInv, StoreTyped
<1>2. at' \in [Callers -> GatewayPlaces \cup ExecutorPlaces \cup MediaPlaces]
  <2>1. \A to \in ExecutorPlaces \cup {"queued", "reacting"} : 
    Go(p, to) => at' \in [Callers -> GatewayPlaces \cup ExecutorPlaces \cup MediaPlaces]
    BY <1>1 DEF HandlersTyped, Go, GatewayPlaces
  <2>2. \E to \in ExecutorPlaces \cup {"queued", "reacting"} : Go(p, to)
    <3>1. CASE Quietly(p)
      BY <3>1 DEF Quietly, GetPending, InsertPending, HandleStarted, MarkStreaming, Degrade,
                SaveOutput, MarkTerminal, AttachFallback, Continue, StartPlaces, StreamPlaces,
                  EndPlaces, ExecutorPlaces
    <3>2. CASE Answering(p)
      BY <3>2 DEF Answering, Reacted, CardCreated, CardFails, CardUpdated, ReactionRemoved,
                CardCompleted, CompleteFails, FallbackSent, FallbackFails, StartPlaces,
                  StreamPlaces, EndPlaces, ExecutorPlaces
    <3>3. CASE Asking(p)
      BY <3>3 DEF Asking, React, CreateCard, HandleDelta, RemoveReaction, HandleTerminal,
        Reread, StartPlaces, StreamPlaces, EndPlaces, ExecutorPlaces
    <3> QED
      BY <3>1, <3>2, <3>3, NotifierKinds
  <2> QED
    BY <2>1, <2>2
<1>3. CASE Quietly(p)
  <2>1. UNCHANGED seen /\ UNCHANGED outcome /\ (UNCHANGED delta \/ delta' = NoDelta)
    /\ (UNCHANGED window \/ window' = NoWindow)
    BY <1>3 DEF Quietly, GetPending, InsertPending, HandleStarted, MarkStreaming, Degrade,
                SaveOutput, MarkTerminal, AttachFallback, OnlyMoves
  <2>2. NoDelta \in [sequence : Nat, text : Chunks \cup {None}] /\ WindowTyped(NoWindow)
    BY WindowAssumption DEF NoDelta, NoWindow, WindowTyped, Text
  <2> QED
    BY <1>1, <1>2, <2>1, <2>2 DEF HandlersTyped
<1>4. CASE Answering(p)
  <2>1. UNCHANGED seen /\ UNCHANGED outcome /\ UNCHANGED delta /\ UNCHANGED window
    BY <1>4 DEF Answering, Reacted, CardCreated, CardFails, CardUpdated, ReactionRemoved,
                CardCompleted, CompleteFails, FallbackSent, FallbackFails
  <2> QED
    BY <1>1, <1>2, <2>1 DEF HandlersTyped
<1>5. CASE Asking(p)
  <2>1. /\ UNCHANGED seen \/ See(p)
        /\ UNCHANGED outcome /\ (UNCHANGED delta \/ delta' = NoDelta)
        /\ UNCHANGED window \/ window' = AppendDelta(window, delta)
    BY <1>5 DEF Asking, React, CreateCard, HandleDelta, RemoveReaction, HandleTerminal, Reread
  <2>2. NoDelta \in [sequence : Nat, text : Chunks \cup {None}]
    /\ WindowTyped(AppendDelta(window, delta))
    BY AppendTyped DEF NoDelta
  <2> QED
    BY <1>1, <1>2, <2>1, <2>2 DEF HandlersTyped, See
<1> QED
  BY <1>3, <1>4, <1>5, NotifierKinds

LEMMA NotifierRun ==
  ASSUME BaseInv, NEW p \in Tellers, NotifierStep(p), UNCHANGED mediaVars, Rest
  PROVE  RunTyped' /\ (\A q \in Callers : q # p => at'[q] = at[q]) /\ UNCHANGED outcome
<1>1. /\ \A q \in Callers : q # p => at'[q] = at[q]
      /\ UNCHANGED outcome
  <2>1. \E to : Go(p, to)
    BY DEF NotifierStep, GetPending, InsertPending, HandleStarted, MarkStreaming, Degrade,
                SaveOutput, MarkTerminal, AttachFallback, Reacted, CardCreated, CardFails,
                  CardUpdated, ReactionRemoved, CardCompleted, CompleteFails, FallbackSent,
                    FallbackFails, React, CreateCard, HandleDelta, RemoveReaction,
                      HandleTerminal, Reread
  <2>2. UNCHANGED outcome
    BY DEF NotifierStep, GetPending, InsertPending, HandleStarted, MarkStreaming, Degrade,
                SaveOutput, MarkTerminal, AttachFallback, Reacted, CardCreated, CardFails,
                  CardUpdated, ReactionRemoved, CardCompleted, CompleteFails, FallbackSent,
                    FallbackFails, React, CreateCard, HandleDelta, RemoveReaction,
                      HandleTerminal, Reread, OnlyMoves
  <2> QED
    BY <2>1, <2>2 DEF Go, BaseInv, HandlersTyped
<1>2. spent' = spent /\ at'[Media] = at[Media]
  BY <1>1, NotifierSender, RunAssumption DEF Tellers, Media
<1> QED
  BY <1>1, <1>2 DEF BaseInv, RunTyped, Rest, executorVars, mediaVars

LEMMA NotifierCalls ==
  ASSUME BaseInv, NEW p \in Tellers, NotifierStep(p), UNCHANGED mediaVars, Rest
  PROVE  \A q \in Callers : Calls(q)'
<1> USE RunAssumption
<1>1. /\ p \in Callers /\ Calls(p)
           /\ at \in [Callers -> GatewayPlaces \cup ExecutorPlaces \cup MediaPlaces]
      /\ outcome' = outcome
  BY NotifierRun DEF BaseInv, HandlersTyped
<1>2. ASSUME NEW q \in Callers, q # p PROVE Calls(q)'
  BY <1>1, <1>2, NotifierSender, NotifierRun DEF BaseInv, Calls, Busy
<1>3. CASE Quietly(p)
  <2>1. call' = call /\ Silent(p) /\ at'[p] \notin Waiting
    BY <1>1, <1>3
    DEF Quietly, GetPending, OnlyMoves, InsertPending, HandleStarted, MarkStreaming, Degrade,
        SaveOutput, MarkTerminal, AttachFallback, At, Go, senderVars, Waiting, Continue
  <2>2. call[p] = NoCall
    BY <1>1, <2>1 DEF Calls, Busy, Silent, Stages, Waiting
  <2> QED
    BY <1>2, <2>1, <2>2 DEF Calls, Waiting
<1>4. CASE Answering(p)
  <2>1. at'[p] \notin Waiting /\ Answer(p)
    BY <1>1, <1>4
    DEF Answering, Reacted, CardCreated, CardFails, CardUpdated, ReactionRemoved,
        CardCompleted, CompleteFails, FallbackSent, FallbackFails, Go, Waiting
  <2>2. call'[p] = NoCall
    BY <2>1, AnswerTyped DEF BaseInv
  <2> QED
    BY <1>2, <2>1, <2>2 DEF Calls, Waiting
<1>5. CASE Asking(p)
  <2>1. call[p] = NoCall
    BY <1>1, <1>5
    DEF Asking, React, CreateCard, HandleDelta, RemoveReaction, HandleTerminal, Reread, At,
        Calls, Busy, Silent, Stages, Waiting
  <2>2. CASE UNCHANGED senderVars
    <3>1. at'[p] \notin Waiting
      BY <1>1, <1>5, <2>2, <2>1 DEF Asking, React, CreateCard, HandleDelta, RemoveReaction,
        HandleTerminal, Reread, Go, Waiting, Ask, Begin, senderVars, NoCall, BaseInv, SenderTyped
    <3> QED
      BY <1>2, <2>1, <2>2, <3>1 DEF Calls, Waiting, senderVars
  <2>3. CASE ~UNCHANGED senderVars
    <3>1. \/ at'[p] = "reacting" /\ Ask(p, "addReaction", NoCard)
          \/ at'[p] = "creating" /\ Ask(p, "createCard", Running(<<>>))
          \/ at'[p] = "updating" /\ Ask(p, "updateCard", Running(window'.text))
          \/ at'[p] = "unreacting" /\ Ask(p, "removeReaction", NoCard)
          \/ at'[p] = "completing" /\ Ask(p, "completeCard", Document(outcome[p],
               presentation)) /\ outcome[p] \in Ends
          \/ at'[p] = "falling" /\ Ask(p, "sendFallbackTerminal", Document(outcome[p],
               presentation)) /\ outcome[p] \in Ends
      <4>1. HandleTerminal(p) \/ Reread(p) => outcome[p] \in Ends
        BY DEF HandleTerminal, Reread, At, BaseInv, PlacesHold, Tellers, Executor,
          GatewayPlaces, EndPlaces, Ends
      <4> QED
        BY <1>1, <1>5, <2>3, <4>1 DEF Asking, React, CreateCard, HandleDelta, RemoveReaction,
          HandleTerminal, Reread, Go
    <3>2. \A op, body : Ask(p, op, body) => call'[p].op = op /\ call'[p].stage \in Stages
      /\ call'[p].body = body
      BY <1>1 DEF Ask, Begin, BaseInv, SenderTyped, Stages
    <3>3. Running(<<>>).status = "running" /\ Running(window'.text).status = "running"
      BY DEF Running
    <3> QED
      BY <1>1, <1>2, <3>1, <3>2, <3>3, Bodies DEF Calls, Busy, Waiting
  <2> QED
    BY <2>2, <2>3
<1> QED
  BY <1>2, <1>3, <1>4, <1>5, NotifierKinds

(* The way of a teller from place to place.                                *)
Moves(p) ==
  \/ at[p] \in EndPlaces /\ at'[p] \in EndPlaces \cup {"told"} /\ at'[p] # "ended"
  \/ at[p] \in {"queued", "reacting"} /\ at'[p] \in {"reacting", "getPending", "told"}
  \/ at[p] \in {"getPending", "insertPending"} /\ at'[p] \in {"insertPending", Continue(p)}
  \/ at[p] = "started" /\ at'[p] \in {"told", "getPending", "cardCreate"}
  \/ at[p] = "cardCreate" /\ at'[p] = "creating"
  \/ at[p] = "creating" /\ at'[p] \in {"streaming", "degrade"}
  \/ at[p] \in {"streaming", "degrade"} /\ at'[p] = "told"
  \/ at[p] = "delta" /\ at'[p] \in {"updating", "told"}
  \/ at[p] = "updating" /\ at'[p] \in {"output", "degrade"}
  \/ at[p] = "output" /\ at'[p] = "told"

LEMMA NotifierMoves ==
  ASSUME HandlersTyped, NEW p \in Callers, NotifierStep(p)
  PROVE  Moves(p)
<1>1. at \in [Callers -> GatewayPlaces \cup ExecutorPlaces \cup MediaPlaces]
  BY DEF HandlersTyped
<1>2. CASE React(p) \/ Reacted(p)
  BY <1>1, <1>2 DEF React, Reacted, At, Called, Go, Moves
<1>3. CASE GetPending(p) \/ InsertPending(p) \/ HandleStarted(p)
  BY <1>1, <1>3 DEF GetPending, InsertPending, HandleStarted, At, Go, Moves
<1>4. CASE CreateCard(p) \/ CardCreated(p) \/ MarkStreaming(p) \/ CardFails(p)
  BY <1>1, <1>4 DEF CreateCard, CardCreated, MarkStreaming, CardFails, At, Called, Go, Moves
<1>5. CASE Degrade(p)
  BY <1>1, <1>5 DEF Degrade, At, Go, Moves, EndPlaces
<1>6. CASE HandleDelta(p) \/ CardUpdated(p) \/ SaveOutput(p)
  BY <1>1, <1>6 DEF HandleDelta, CardUpdated, SaveOutput, At, Called, Go, Moves
<1>7. CASE RemoveReaction(p) \/ ReactionRemoved(p) \/ HandleTerminal(p)
  BY <1>1, <1>7 DEF RemoveReaction, ReactionRemoved, HandleTerminal, At, Called, Go, Moves,
    EndPlaces
<1>8. CASE CardCompleted(p) \/ MarkTerminal(p) \/ CompleteFails(p)
  BY <1>1, <1>8 DEF CardCompleted, MarkTerminal, CompleteFails, At, Called, Go, Moves, EndPlaces
<1>9. CASE Reread(p) \/ FallbackSent(p) \/ AttachFallback(p) \/ FallbackFails(p)
  BY <1>1, <1>9 DEF Reread, FallbackSent, AttachFallback, FallbackFails, At, Called, Go, Moves,
    EndPlaces
<1> QED
  BY <1>2, <1>3, <1>4, <1>5, <1>6, <1>7, <1>8, <1>9 DEF NotifierStep

LEMMA NotifierPlaces ==
  ASSUME BaseInv, NEW p \in Tellers, NotifierStep(p), UNCHANGED mediaVars, Rest
  PROVE  PlacesHold'
<1> USE RunAssumption
<1>1. /\ PlacesHold /\ HandlersTyped /\ p \in Callers /\ Calls(p) /\ SenderTyped
      /\ UNCHANGED <<outcome, status, beating, caught>>
      /\ \A q \in Callers : q # p => at'[q] = at[q]
  <2>1. UNCHANGED status
    BY DEF NotifierStep, GetPending, InsertPending, HandleStarted, MarkStreaming, Degrade,
                SaveOutput, MarkTerminal, AttachFallback, Reacted, CardCreated, CardFails,
                  CardUpdated, ReactionRemoved, CardCompleted, CompleteFails, FallbackSent,
                    FallbackFails, React, CreateCard, HandleDelta, RemoveReaction,
                      HandleTerminal, Reread, OnlyMoves, storeVars
  <2> QED
    BY <2>1, NotifierRun DEF BaseInv, Rest, executorVars
<1>2. Moves(p)
  BY <1>1, NotifierMoves
<1>3. CASE p = "gateway"
  BY <1>1, <1>2, <1>3 DEF Moves, PlacesHold, GatewayPlaces, EndPlaces, Continue, Executor,
    Media, Tellers
<1>4. CASE p = "reaper"
  BY <1>1, <1>2, <1>4 DEF Moves, PlacesHold, ReaperPlaces, EndPlaces, Continue, Executor, Media,
    Tellers
<1>5. CASE p = "executor"
  BY <1>1, <1>2, <1>5 DEF Moves, PlacesHold, ExecutorPlaces, StartPlaces, StreamPlaces,
    EndPlaces, Continue, Executor, Media, Tellers
<1> QED
  BY <1>3, <1>4, <1>5 DEF Tellers

LEMMA NotifierRow ==
  ASSUME BaseInv, NEW p \in Tellers, NotifierStep(p), UNCHANGED mediaVars, Rest
  PROVE  /\ presentation # NoPresentation => presentation' # NoPresentation
         /\ \A q \in Tellers : HasRow(q)'
<1> USE RunAssumption
<1>1. /\ PlacesHold /\ HandlersTyped /\ p \in Callers /\ StoreTyped
      /\ \A q \in Callers : q # p => at'[q] = at[q]
      /\ Tellers \subseteq Callers
      /\ \A q \in Tellers : HasRow(q)
  BY NotifierRun DEF BaseInv
<1>2. presentation # NoPresentation => presentation' # NoPresentation
  <2>1. CASE Quietly(p)
    <3>1. CASE UNCHANGED presentation
      BY <3>1
    <3>2. CASE InsertPending(p) \/ MarkStreaming(p) \/ Degrade(p)
      <4>1. presentation'.phase # "none"
        BY <3>2, RowFields, <1>1
        DEF InsertPending, MarkStreaming, Degrade, Insert, MarkPresentationStreaming,
            MarkPresentationDegraded, NoPresentation, Pending
      <4> QED
        BY <4>1 DEF NoPresentation
    <3>3. CASE SaveOutput(p) \/ AttachFallback(p)
      <4>1. presentation \in Presentation
        BY <3>3, <1>1 DEF SaveOutput, AttachFallback, At, HasRow, EndPlaces, StoreTyped
      <4> QED
        BY <3>3, <4>1 DEF SaveOutput, AttachFallback, UpdatePresentationOutput,
          AttachFallbackTerminal, Presentation, NoPresentation, Ends
    <3>4. CASE MarkTerminal(p)
      <4>1. outcome[p] \in Ends
        BY <3>4, <1>1 DEF MarkTerminal, At, PlacesHold, Tellers, Executor, GatewayPlaces,
          EndPlaces, Ends
      <4> QED
        BY <3>4, <4>1, RowFields, <1>1 DEF MarkTerminal, MarkPresentationTerminal,
          NoPresentation, Ends
    <3> QED
      BY <2>1, <3>1, <3>2, <3>3, <3>4 DEF Quietly, GetPending, HandleStarted, OnlyMoves, storeVars
  <2>2. CASE Answering(p)
    BY <2>2 DEF Answering, Reacted, CardCreated, CardFails, CardUpdated, ReactionRemoved,
        CardCompleted, CompleteFails, FallbackSent, FallbackFails, storeVars
  <2>3. CASE Asking(p)
    BY <2>3 DEF Asking, React, CreateCard, HandleDelta, RemoveReaction, HandleTerminal, Reread,
      storeVars
  <2> QED
    BY <2>1, <2>2, <2>3, NotifierKinds
<1>3. ASSUME NEW q \in Tellers, q # p PROVE HasRow(q)'
  BY <1>1, <1>2, <1>3 DEF HasRow
<1>4. HasRow(p)'
  <2>1. at'[p] \in {"updating", "output"} \cup (EndPlaces \ {"ended", "unreacting", "closing"}) =>
          at[p] \in {"updating", "output"} \cup (EndPlaces \ {"ended", "unreacting",
            "closing"}) \/ presentation # NoPresentation
    <3>1. CASE Quietly(p)
      BY <1>1, <3>1 DEF Quietly, GetPending, InsertPending, HandleStarted, MarkStreaming, Degrade,
                SaveOutput, MarkTerminal, AttachFallback, At, Go, HandlersTyped, EndPlaces, Continue
    <3>2. CASE Answering(p)
      BY <1>1, <3>2 DEF Answering, Reacted, CardCreated, CardFails, CardUpdated, ReactionRemoved,
        CardCompleted, CompleteFails, FallbackSent, FallbackFails, Called, At, Go,
          HandlersTyped, EndPlaces
    <3>3. CASE Asking(p)
      BY <1>1, <3>3 DEF Asking, React, CreateCard, HandleDelta, RemoveReaction, HandleTerminal,
        Reread, At, Go, HandlersTyped, EndPlaces, NoPresentation
    <3> QED
      BY <3>1, <3>2, <3>3, NotifierKinds
  <2> QED
    BY <1>1, <1>2, <2>1 DEF HasRow
<1> QED
  BY <1>2, <1>3, <1>4

LEMMA NotifierBase ==
  ASSUME BaseInv, NEW p \in Tellers, NotifierStep(p), UNCHANGED mediaVars, Rest
  PROVE  BaseInv'
BY NotifierSender, NotifierStore, NotifierHandlers, NotifierRun, NotifierPlaces, NotifierCalls,
  NotifierRow DEF BaseInv

---------------------------------------------------------------------------
(* The executor and the reaper.                                            *)

(* What an activity does that makes no call and touches no row but the     *)
(* run's.                                                                  *)
LEMMA MovesAlone ==
  ASSUME BaseInv, NEW p \in Callers, NEW to \in ExecutorPlaces \ Waiting, Go(p, to), call' = call,
         call[p] = NoCall, presentation' = presentation,
         \A q \in Callers \ {p} : outcome'[q] = outcome[q],
         p \in Tellers => to \notin {"output"} \cup (EndPlaces \ {"ended", "unreacting", "closing"})
  PROVE  (\A q \in Callers : Calls(q)') /\ (\A q \in Tellers : HasRow(q)')
<1>1. at'[p] = to /\ \A q \in Callers : q # p => at'[q] = at[q]
  BY DEF Go, BaseInv, HandlersTyped
<1>2. Tellers \subseteq Callers
  BY RunAssumption
<1>3. \A q \in Callers : q # p => Calls(q)'
  BY <1>1 DEF BaseInv, Calls, Busy
<1>4. Calls(p)'
  BY <1>1 DEF Calls, Waiting
<1>5. \A q \in Tellers : HasRow(q)'
  BY <1>1, <1>2 DEF BaseInv, HasRow, Waiting
<1> QED
  BY <1>3, <1>4, <1>5

LEMMA ExecutorBase ==
  ASSUME BaseInv, ExecutorStep, UNCHANGED marks
  PROVE  BaseInv'
<1> USE RunAssumption
<1>1. /\ Executor \in Callers /\ Media \in Callers /\ "gateway" \in Callers
           /\ "reaper" \in Callers /\ Executor \in Tellers
      /\ Executor # Media /\ Executor # "gateway" /\ Executor # "reaper"
  BY DEF Executor, Media, Tellers
<1>2. call[Executor] = NoCall
  <2>1. Silent(Executor)
    BY DEF ExecutorStep, StartRun, Resume, Output, RetryFresh, TakeOutcome, PersistOutcome,
      CatchFailure, Doing, At
  <2> QED
    BY <1>1, <2>1 DEF BaseInv, Calls, Busy, Silent, Stages, Waiting
<1>3. CASE StartRun
  <2>1. SenderTyped' /\ spent' = spent /\ call' = call
    BY <1>3, SilentTyped DEF StartRun, BaseInv
  <2>2. StoreTyped'
    BY <1>3 DEF StartRun, MarkRun, BaseInv, StoreTyped
  <2>3. HandlersTyped'
    BY <1>3 DEF StartRun, Go, BaseInv, HandlersTyped, ExecutorPlaces, StartPlaces
  <2>4. RunTyped' /\ PlacesHold'
    BY <1>1, <1>3, <2>1 DEF StartRun, MarkRun, Go, Doing, At, BaseInv, HandlersTyped, RunTyped,
      PlacesHold, mediaVars, executorVars, ExecutorPlaces, StartPlaces, StreamPlaces, EndPlaces
  <2>5. (\A q \in Callers : Calls(q)') /\ (\A q \in Tellers : HasRow(q)')
    BY <1>1, <1>2, <1>3, <2>1, MovesAlone DEF StartRun, MarkRun, ExecutorPlaces, StartPlaces,
      EndPlaces, Waiting
  <2> QED
    BY <2>1, <2>2, <2>3, <2>4, <2>5 DEF BaseInv
<1>4. CASE Resume
  <2>1. SenderTyped' /\ spent' = spent /\ call' = call /\ StoreTyped'
    BY <1>4, SilentTyped DEF Resume, BaseInv, storeVars, StoreTyped
  <2>3. HandlersTyped'
    BY <1>4 DEF Resume, Go, BaseInv, HandlersTyped, ExecutorPlaces, StreamPlaces, Ends
  <2>4. RunTyped'
    BY <1>1, <1>4, <2>1 DEF Resume, Go, BaseInv, HandlersTyped, RunTyped, mediaVars
  <2>6. PlacesHold'
    BY <1>1, <1>4, <2>1 DEF Resume, Go, Doing, At, BaseInv, HandlersTyped, PlacesHold,
      mediaVars, storeVars, ExecutorPlaces, StartPlaces, StreamPlaces, EndPlaces, Ends
  <2>5. (\A q \in Callers : Calls(q)') /\ (\A q \in Tellers : HasRow(q)')
    <3>1. \E to \in {"gone", "stream", "persist"} : Go(Executor, to)
      BY <1>4 DEF Resume
    <3>2. \A q \in Callers \ {Executor} : outcome'[q] = outcome[q]
      BY <1>4 DEF Resume, BaseInv, HandlersTyped
    <3> QED
      BY <1>1, <1>2, <1>4, <2>1, <3>1, <3>2, MovesAlone DEF Resume, storeVars, ExecutorPlaces,
        StreamPlaces, EndPlaces, Waiting
  <2> QED
    BY <2>1, <2>3, <2>4, <2>5, <2>6 DEF BaseInv
<1>5. CASE Output
  <2>1. /\ spent' \in {spent, spent + 1} /\ spent' <= Budget /\ (said # <<>> => spent' = spent + 1)
        /\ UNCHANGED UnlessSpent
    BY <1>5, SenderAssumption DEF Output, Spend, BaseInv, SenderTyped
  <2>2. SenderTyped' /\ call' = call
    <3>1. UNCHANGED <<token, cached, call, card, posts, reaction, files>>
      BY <2>1 DEF UnlessSpent
    <3>2. spent' \in 0..Budget /\ token \in 1..(spent' + 1)
      <4>1. spent \in 0..Budget /\ token \in 1..(spent + 1) /\ Budget \in Nat
        BY SenderAssumption DEF BaseInv, SenderTyped
      <4>2. spent' \in {spent, spent + 1} /\ spent' <= Budget
        BY <2>1
      <4>3. CASE spent' = spent
        BY <4>1, <4>3
      <4>4. CASE spent' = spent + 1
        BY <4>1, <4>2, <4>4
      <4> QED
        BY <4>2, <4>3, <4>4
    <3> QED
      BY <3>1, <3>2 DEF BaseInv, SenderTyped
  <2>7. said' \in Seq(Chunks) /\ Len(said') = Len(said) + 1 /\ delta' \in [sequence : Nat,
    text : Chunks \cup {None}]
    <3>1. said \in Seq(Chunks)
      BY DEF BaseInv, RunTyped
    <3> QED
      BY <3>1, <1>5, AppendProperties DEF Output
  <2>3. HandlersTyped' /\ StoreTyped'
    BY <1>5, <2>7 DEF Output, Go, BaseInv, HandlersTyped, ExecutorPlaces, StreamPlaces,
      StoreTyped, storeVars
  <2>4. RunTyped'
    <3>1. said = <<>> => Len(said) = 0
      OBVIOUS
    <3> QED
      BY <1>1, <1>5, <2>1, <2>7, <3>1 DEF Output, Go, BaseInv, HandlersTyped, RunTyped,
        SenderTyped, mediaVars
  <2>6. PlacesHold'
    BY <1>1, <1>5 DEF Output, Go, Doing, At, BaseInv, HandlersTyped, PlacesHold, mediaVars,
      storeVars, ExecutorPlaces, StartPlaces, StreamPlaces, EndPlaces
  <2>5. (\A q \in Callers : Calls(q)') /\ (\A q \in Tellers : HasRow(q)')
    BY <1>1, <1>2, <1>5, <2>2, MovesAlone DEF Output, storeVars, ExecutorPlaces, StreamPlaces,
      EndPlaces, Waiting
  <2> QED
    BY <2>2, <2>3, <2>4, <2>5, <2>6 DEF BaseInv
<1>6. CASE RetryFresh
  <2>1. SenderTyped' /\ call' = call /\ spent' = spent + 1
    BY <1>6, SenderAssumption DEF RetryFresh, Spend, BaseInv, SenderTyped, UnlessSpent
  <2>2. StoreTyped' /\ HandlersTyped' /\ PlacesHold' /\ (\A q \in Callers : Calls(q)')
    /\ (\A q \in Tellers : HasRow(q)')
    BY <1>6, <2>1 DEF RetryFresh, storeVars, handlerVars, BaseInv, StoreTyped, HandlersTyped,
      PlacesHold, Calls, Busy, HasRow
  <2>3. RunTyped'
    BY <1>6, <2>1 DEF RetryFresh, handlerVars, mediaVars, BaseInv, RunTyped, SenderTyped
  <2> QED
    BY <2>1, <2>2, <2>3 DEF BaseInv
<1>7. CASE TakeOutcome
  <2>1. SenderTyped' /\ spent' = spent /\ call' = call /\ StoreTyped'
    BY <1>7, SilentTyped DEF TakeOutcome, BaseInv, storeVars, StoreTyped
  <2>3. HandlersTyped'
    BY <1>7 DEF TakeOutcome, Go, BaseInv, HandlersTyped, ExecutorPlaces, StreamPlaces
  <2>4. RunTyped'
    BY <1>1, <1>7, <2>1 DEF TakeOutcome, Go, BaseInv, HandlersTyped, RunTyped, mediaVars
  <2>6. PlacesHold'
    BY <1>1, <1>7, <2>1 DEF TakeOutcome, Go, Doing, At, BaseInv, HandlersTyped, PlacesHold,
      mediaVars, storeVars, ExecutorPlaces, StartPlaces, StreamPlaces, EndPlaces
  <2>5. (\A q \in Callers : Calls(q)') /\ (\A q \in Tellers : HasRow(q)')
    <3>1. \E to \in {"gone", "persist"} : Go(Executor, to)
      BY <1>7 DEF TakeOutcome
    <3>2. \A q \in Callers \ {Executor} : outcome'[q] = outcome[q]
      BY <1>7 DEF TakeOutcome, BaseInv, HandlersTyped
    <3> QED
      BY <1>1, <1>2, <1>7, <2>1, <3>1, <3>2, MovesAlone DEF TakeOutcome, storeVars,
        ExecutorPlaces, StreamPlaces, EndPlaces, Waiting
  <2> QED
    BY <2>1, <2>3, <2>4, <2>5, <2>6 DEF BaseInv
<1>8. CASE PersistOutcome
  <2>1. SenderTyped' /\ spent' = spent /\ call' = call
    BY <1>8, SilentTyped DEF PersistOutcome, BaseInv
  <2>2. StoreTyped'
    BY <1>8 DEF PersistOutcome, Doing, At, MarkRun, BaseInv, StoreTyped, PlacesHold
  <2>3. HandlersTyped'
    BY <1>8 DEF PersistOutcome, Go, BaseInv, HandlersTyped, ExecutorPlaces, EndPlaces
  <2>4. RunTyped' /\ PlacesHold'
    BY <1>1, <1>8, <2>1 DEF PersistOutcome, MarkRun, Go, Doing, At, BaseInv, HandlersTyped,
      RunTyped, PlacesHold, mediaVars, executorVars, ExecutorPlaces, StartPlaces, StreamPlaces,
        EndPlaces
  <2>5. (\A q \in Callers : Calls(q)') /\ (\A q \in Tellers : HasRow(q)')
    BY <1>1, <1>2, <1>8, <2>1, MovesAlone DEF PersistOutcome, MarkRun, ExecutorPlaces,
      StartPlaces, EndPlaces, Waiting
  <2> QED
    BY <2>1, <2>2, <2>3, <2>4, <2>5 DEF BaseInv
<1>9. CASE CatchFailure
  <2>1. SenderTyped' /\ spent' = spent /\ call' = call
    BY <1>9, SilentTyped DEF CatchFailure, BaseInv
  <2>2. StoreTyped'
    BY <1>9 DEF CatchFailure, MarkRun, BaseInv, StoreTyped, Ends
  <2>3. HandlersTyped'
    BY <1>9 DEF CatchFailure, Go, BaseInv, HandlersTyped, ExecutorPlaces, EndPlaces, NoDelta, Ends
  <2>4. RunTyped' /\ PlacesHold'
    BY <1>1, <1>9, <2>1 DEF CatchFailure, MarkRun, Go, Doing, At, BaseInv, HandlersTyped,
      RunTyped, PlacesHold, mediaVars, ExecutorPlaces, StartPlaces, StreamPlaces, EndPlaces, Ends
  <2>5. (\A q \in Callers : Calls(q)') /\ (\A q \in Tellers : HasRow(q)')
    <3>2. \A q \in Callers \ {Executor} : outcome'[q] = outcome[q]
      BY <1>9 DEF CatchFailure, BaseInv, HandlersTyped
    <3> QED
      BY <1>1, <1>2, <1>9, <2>1, <3>2, MovesAlone DEF CatchFailure, MarkRun, ExecutorPlaces,
        StartPlaces, EndPlaces, Waiting
  <2> QED
    BY <2>1, <2>2, <2>3, <2>4, <2>5 DEF BaseInv
<1> QED
  BY <1>3, <1>4, <1>5, <1>6, <1>7, <1>8, <1>9 DEF ExecutorStep

LEMMA ReapBase ==
  ASSUME BaseInv, Reap
  PROVE  BaseInv'
<1> USE RunAssumption
<1>1. /\ Executor \in Callers /\ Media \in Callers /\ "gateway" \in Callers
           /\ "reaper" \in Callers /\ "reaper" \in Tellers
      /\ Executor # Media /\ Executor # "gateway" /\ Executor # "reaper" /\ Media # "reaper"
  BY DEF Executor, Media, Tellers
<1>2. call["reaper"] = NoCall
  BY <1>1 DEF Reap, BaseInv, Calls, Waiting
<1>3. SenderTyped' /\ call' = call /\ spent' >= spent
  <2>1. CASE UNCHANGED senderVars
    BY <2>1, SilentTyped DEF BaseInv, SenderTyped
  <2>2. CASE Spend(2) /\ UNCHANGED UnlessSpent
    <3>1. UNCHANGED <<token, cached, call, card, posts, reaction, files>>
      BY <2>2 DEF UnlessSpent
    <3>2. spent' \in 0..Budget /\ token \in 1..(spent' + 1) /\ spent' >= spent
      BY <2>2, SenderAssumption DEF Spend, BaseInv, SenderTyped
    <3> QED
      BY <3>1, <3>2 DEF BaseInv, SenderTyped
  <2> QED
    BY <2>1, <2>2 DEF Reap
<1>4. StoreTyped'
  BY DEF Reap, MarkRun, BaseInv, StoreTyped, Ends
<1>5. HandlersTyped'
  BY DEF Reap, Go, BaseInv, HandlersTyped, ExecutorPlaces, EndPlaces, Ends
<1>6. RunTyped'
  BY <1>1, <1>3 DEF Reap, Go, Note, Marks, BaseInv, SenderTyped, HandlersTyped, RunTyped,
    mediaVars, executorVars
<1>7. PlacesHold'
  BY <1>1 DEF Reap, MarkRun, Go, BaseInv, HandlersTyped, PlacesHold, mediaVars, executorVars,
     ExecutorPlaces, ReaperPlaces, StartPlaces, StreamPlaces, EndPlaces
<1>8. (\A q \in Callers : Calls(q)') /\ (\A q \in Tellers : HasRow(q)')
  <2>1. \A q \in Callers \ {"reaper"} : outcome'[q] = outcome[q]
    BY DEF Reap, BaseInv, HandlersTyped
  <2> QED
    BY <1>1, <1>2, <1>3, <2>1, MovesAlone DEF Reap, MarkRun, ExecutorPlaces, EndPlaces, Waiting
<1> QED
  BY <1>3, <1>4, <1>5, <1>6, <1>7, <1>8 DEF BaseInv

---------------------------------------------------------------------------
(* Media.                                                                  *)

LEMMA MediaRowTyped ==
  ASSUME StoreTyped, NEW to \in {"requested", "source_failed", "uploading", "upload_failed",
    "sending", "sent", "failed"},
         NEW stage \in {"none", "source", "upload", "delivery"}, NEW ref \in BOOLEAN,
         UpdateMediaDelivery(to, stage, ref)
  PROVE  /\ mediaRows' \in Seq(MediaRow)
         /\ Len(mediaRows') = Len(mediaRows)
         /\ \A i \in 1..Len(mediaRows) : mediaRows'[i].status =
              IF i = Len(mediaRows) THEN to ELSE mediaRows[i].status
<1> DEFINE last == mediaRows[Len(mediaRows)]
           row == [status |-> to, stage |-> IF stage = "none" THEN last.stage ELSE stage,
             ref |-> last.ref \/ ref]
<1>1. mediaRows' = [mediaRows EXCEPT ![Len(mediaRows)] = row] /\ mediaRows \in Seq(MediaRow)
  /\ Len(mediaRows) \in Nat
  BY DEF UpdateMediaDelivery, StoreTyped
<1>2. CASE Len(mediaRows) = 0
  <2>1. mediaRows = <<>>
    BY <1>1, <1>2, EmptySeq
  <2>2. mediaRows' = mediaRows
    BY <1>1, <2>1
  <2>3. \A i \in 1..Len(mediaRows) : FALSE
    BY <1>2
  <2> QED
    BY <1>1, <2>2, <2>3
<1>3. CASE Len(mediaRows) # 0
  <2>1. Len(mediaRows) \in 1..Len(mediaRows) /\ last \in MediaRow
    BY <1>1, <1>3, ElementOfSeq
  <2>2. row \in MediaRow /\ row.status = to
    BY <2>1 DEF MediaRow
  <2> HIDE DEF row
  <2> QED
    BY <1>1, <2>1, <2>2, ExceptSeq
<1> QED
  BY <1>2, <1>3

(* What a step of the media service may do to calls, rows and answers.     *)
LEMMA TellTyped ==
  ASSUME BaseInv, NEW answer \in Answers, Tell(answer), at[Media] # "idle", spent' = spent
  PROVE  /\ answers' \in Seq(Answers) /\ Len(answers') = Len(answers) + 1 /\ Len(answers') <= spent'
         /\ uploaded' = FALSE
<1>1. answers \in Seq(Answers) /\ Len(answers) < spent /\ Len(answers) \in Nat /\ spent \in Nat
  BY DEF BaseInv, RunTyped, SenderTyped
<1>2. answers' \in Seq(Answers) /\ Len(answers') = Len(answers) + 1
  BY <1>1, AppendProperties DEF Tell
<1> QED
  BY <1>1, <1>2 DEF Tell

MediaParts ==
  CheckContext \/ CreateRequest \/ SourceFails \/ Upload \/ Uploaded \/ UploadFails
    \/ Deliver \/ Delivered \/ Finish \/ DeliveryFails \/ SendingFails \/ MediaThrows

LEMMA MediaSender ==
  ASSUME BaseInv, MediaParts
  PROVE  /\ SenderTyped' /\ spent' = spent
         /\ \A q \in Callers : q # Media => call'[q] = call[q]
         /\ at[Media] # "idle"
         /\ \A q \in Callers : q # Media => at'[q] = at[q]
<1>1. Media \in Callers
  BY RunAssumption DEF Media
<1>2. at[Media] # "idle"
  BY DEF MediaParts, CheckContext, CreateRequest, SourceFails, Upload, Uploaded, UploadFails,
    Deliver, Delivered, Finish, DeliveryFails, SendingFails, MediaThrows, At, Called
<1>3. \A q \in Callers : q # Media => at'[q] = at[q]
  <2>1. \E to : Go(Media, to)
    BY DEF MediaParts, CheckContext, CreateRequest, SourceFails, Upload, Uploaded, UploadFails,
      Deliver, Delivered, Finish, DeliveryFails, SendingFails, MediaThrows, Tell
  <2> QED
    BY <2>1 DEF Go, BaseInv, HandlersTyped
<1>4. UNCHANGED senderVars \/ Answer(Media) \/ Ask(Media, "upload", NoCard) \/ Ask(Media,
  "deliver", NoCard)
  BY DEF MediaParts, CheckContext, CreateRequest, SourceFails, Upload, Uploaded, UploadFails,
    Deliver, Delivered, Finish, DeliveryFails, SendingFails, MediaThrows
<1>5. SenderTyped' /\ spent' = spent /\ \A q \in Callers : q # Media => call'[q] = call[q]
  <2>1. {"upload", "deliver"} \subseteq Operations
    BY DEF Operations
  <2> QED
    BY <1>1, <1>4, <2>1, Bodies, SilentTyped, AnswerTyped, AskTyped DEF BaseInv
<1> QED
  BY <1>2, <1>3, <1>5

LEMMA MediaBase ==
  ASSUME BaseInv, MediaStep, Rest
  PROVE  BaseInv'
<1> USE RunAssumption
<1>0. MediaParts /\ UNCHANGED <<seen, outcome, delta, window>>
  BY DEF MediaStep, MediaParts
<1>1. /\ Executor \in Callers /\ Media \in Callers /\ "gateway" \in Callers
           /\ "reaper" \in Callers /\ Media \notin Tellers
      /\ Executor # Media /\ Media # "gateway" /\ Media # "reaper" /\ Tellers \subseteq Callers
  BY DEF Executor, Media, Tellers
<1>2. SenderTyped' /\ spent' = spent /\ at[Media] # "idle"
  BY <1>0, MediaSender
<1>3. StoreTyped' /\ presentation' = presentation /\ status' = status
  <2>1. UNCHANGED <<source, status, presentation, executionDelivery>>
    BY <1>0 DEF MediaParts, CheckContext, CreateRequest, SourceFails, Upload, Uploaded,
      UploadFails, Deliver, Delivered, Finish, DeliveryFails, SendingFails, MediaThrows,
        TableOnly, storeVars
  <2>2. mediaRows' \in Seq(MediaRow)
    <3>0. StoreTyped
      BY DEF BaseInv
    <3>1. CASE CreateRequest
      <4>1. [status |-> "requested", stage |-> "none", ref |-> FALSE] \in MediaRow
        BY DEF MediaRow
      <4> QED
        BY <3>0, <3>1, <4>1 DEF CreateRequest, CreateMediaDelivery, StoreTyped
    <3>2. CASE ~CreateRequest
      <4>1. \/ mediaRows' = mediaRows
            \/ \E to \in {"requested", "source_failed", "uploading", "upload_failed", "sending",
                 "sent", "failed"} :
                 \E stage \in {"none", "source", "upload", "delivery"},
                   ref \in BOOLEAN : UpdateMediaDelivery(to, stage, ref)
        <5>1. uploaded \in BOOLEAN
          BY DEF BaseInv, RunTyped
        <5> QED
        BY <1>0, <3>2, <5>1 DEF MediaParts, CheckContext, SourceFails, Upload, Uploaded,
          UploadFails, Deliver, Delivered, Finish, DeliveryFails, SendingFails, MediaThrows,
            storeVars
      <4> QED
        BY <3>0, <4>1, MediaRowTyped DEF StoreTyped
    <3> QED
      BY <3>1, <3>2
  <2>3. deliveries' \in [Callers -> Seq(Delivery)]
    <3>1. deliveries \in [Callers -> Seq(Delivery)]
      BY DEF BaseInv, StoreTyped
    <3>2. \/ deliveries' = deliveries
          \/ CreateDelivery(Media, "media")
          \/ \E to \in {"sent", "failed"} : MarkDelivery(Media, to)
      BY <1>0 DEF MediaParts, CheckContext, CreateRequest, SourceFails, Upload, Uploaded,
        UploadFails, Deliver, Delivered, Finish, DeliveryFails, SendingFails, MediaThrows,
          TableOnly, storeVars
    <3>3. CreateDelivery(Media, "media") => deliveries' \in [Callers -> Seq(Delivery)]
      <4>1. [kind |-> "media", status |-> "pending"] \in Delivery
        BY DEF Delivery, DeliveryKinds
      <4>2. Append(deliveries[Media], [kind |-> "media", status |-> "pending"]) \in Seq(Delivery)
        BY <1>1, <3>1, <4>1, AppendProperties
      <4> QED
        BY <3>1, <4>2 DEF CreateDelivery
    <3>4. ASSUME NEW to \in {"sent", "failed"}, MarkDelivery(Media,
      to) PROVE deliveries' \in [Callers -> Seq(Delivery)]
      <4> DEFINE d == deliveries[Media]
                 e == [d EXCEPT ![Len(d)].status = to]
      <4>1. deliveries' = [deliveries EXCEPT ![Media] = e]
        BY <3>4 DEF MarkDelivery
      <4>2. e \in Seq(Delivery)
        BY <1>1, <3>1, MarkTyped
      <4> QED
        BY <3>1, <4>1, <4>2
    <3> QED
      BY <3>1, <3>2, <3>3, <3>4
  <2> QED
    BY <2>1, <2>2, <2>3 DEF BaseInv, StoreTyped
<1>4. at'[Media] \in MediaPlaces
  /\ at' \in [Callers -> GatewayPlaces \cup ExecutorPlaces \cup MediaPlaces]
  <2>1. \E to \in MediaPlaces : Go(Media, to)
    BY <1>0 DEF MediaParts, CheckContext, CreateRequest, SourceFails, Upload, Uploaded,
      UploadFails, Deliver, Delivered, Finish, DeliveryFails, SendingFails, MediaThrows, Tell,
        MediaPlaces
  <2> QED
    BY <1>1, <2>1 DEF Go, BaseInv, HandlersTyped
<1>5. HandlersTyped'
  BY <1>0, <1>4 DEF BaseInv, HandlersTyped
<1>6. RunTyped'
  <2>1. uploaded' \in BOOLEAN /\ answers' \in Seq(Answers) /\ Len(answers') <= spent'
    /\ (at'[Media] # "idle" => Len(answers') < spent')
    <3>1. CASE \E answer \in Answers : Tell(answer)
      <4>1. at'[Media] = "idle"
        BY <1>1, <3>1 DEF Tell, Go, BaseInv, HandlersTyped
      <4> QED
        BY <3>1, <4>1, <1>2, TellTyped
    <3>2. CASE ~\E answer \in Answers : Tell(answer)
      <4>1. answers' = answers /\ uploaded' \in {uploaded, TRUE}
        BY <1>0, <3>2 DEF MediaParts, CheckContext, CreateRequest, SourceFails, Upload,
          Uploaded, UploadFails, Deliver, Delivered, Finish, DeliveryFails, SendingFails,
            MediaThrows, mediaVars, Answers
      <4> QED
        BY <1>2, <4>1 DEF BaseInv, RunTyped
    <3> QED
      BY <3>1, <3>2
  <2> QED
    BY <1>2, <2>1 DEF BaseInv, RunTyped, Rest, executorVars
<1>7. PlacesHold'
  BY <1>0, <1>1, <1>3, <1>4, MediaSender DEF BaseInv, PlacesHold, Rest, executorVars
<1>8. \A q \in Callers : Calls(q)'
  <2>1. ASSUME NEW q \in Callers, q # Media PROVE Calls(q)'
    BY <1>0, <2>1, MediaSender DEF BaseInv, Calls, Busy
  <2>2. Calls(Media)'
    <3>0. Calls(Media) /\ Media \in Callers
      /\ at \in [Callers -> GatewayPlaces \cup ExecutorPlaces \cup MediaPlaces]
      BY <1>1 DEF BaseInv, HandlersTyped
    <3>1. CASE Upload \/ Deliver
      <4>1. \/ Ask(Media, "upload", NoCard) /\ at'[Media] = "uploading"
            \/ Ask(Media, "deliver", NoCard) /\ at'[Media] = "delivering"
        <5>1. CASE Upload
          BY <3>0, <5>1 DEF Upload, Go
        <5>2. CASE Deliver
          BY <3>0, <5>2 DEF Deliver, Go
        <5> QED
          BY <3>1, <5>1, <5>2
      <4>2. {"upload", "deliver"} \subseteq Operations
        BY DEF Operations
      <4> QED
        BY <3>0, <4>1, <4>2, Bodies, AskTyped DEF BaseInv, Calls, Busy, Waiting
    <3>2. CASE Uploaded \/ UploadFails \/ Delivered \/ DeliveryFails
      <4>1. Answer(Media) /\ at'[Media] \notin Waiting
        BY <3>0, <3>2 DEF Uploaded, UploadFails, Delivered, DeliveryFails, Tell, Go, Waiting
      <4> QED
        BY <3>0, <4>1, AnswerTyped DEF BaseInv, Calls, Waiting
    <3>3. CASE CheckContext \/ CreateRequest \/ SourceFails \/ Finish \/ SendingFails \/ MediaThrows
      <4>1. call' = call /\ Silent(Media) /\ at'[Media] \notin Waiting
        BY <3>0, <3>3 DEF CheckContext, CreateRequest, SourceFails, Finish, SendingFails,
          MediaThrows, Tell, Go, At, Waiting, senderVars
      <4> QED
        BY <3>0, <4>1 DEF Calls, Busy, Silent, Stages, Waiting
    <3> QED
      BY <1>0, <3>1, <3>2, <3>3 DEF MediaParts
  <2> QED
    BY <2>1, <2>2
<1>9. \A q \in Tellers : HasRow(q)'
  BY <1>0, <1>1, <1>3, MediaSender DEF BaseInv, HasRow
<1> QED
  BY <1>2, <1>3, <1>5, <1>6, <1>7, <1>8, <1>9 DEF BaseInv

---------------------------------------------------------------------------
(* The sender.                                                             *)

(* Which call an activity waits for is told by its operation.              *)
LEMMA CallPlaces ==
  ASSUME BaseInv, NEW p \in Callers, call[p].stage # "none"
  PROVE  /\ call[p] # NoCall /\ call[p].stage \in Stages /\ call[p].op \in Operations
         /\ at[p] \in Waiting
         /\ call[p].op = "createCard" <=> at[p] = "creating"
         /\ call[p].op = "updateCard" <=> at[p] = "updating"
         /\ call[p].op = "completeCard" <=> at[p] = "completing"
         /\ call[p].op = "sendFallbackTerminal" <=> at[p] = "falling"
         /\ call[p].op = "addReaction" <=> at[p] = "reacting"
         /\ call[p].op = "removeReaction" <=> at[p] = "unreacting"
         /\ call[p].op = "upload" <=> at[p] = "uploading"
         /\ call[p].op = "deliver" <=> at[p] = "delivering"
<1>1. Calls(p)
  BY DEF BaseInv
<1>2. at[p] \in Waiting
  BY <1>1 DEF Calls, NoCall
<1>3. call[p] # NoCall /\ call[p].stage \in Stages
  BY <1>1, <1>2 DEF Calls, Busy, Waiting, NoCall
<1> QED
  BY <1>1, <1>2, <1>3 DEF Calls, Busy, Waiting, Operations

(* Who tells an end, and which.                                            *)
LEMMA EndTellers ==
  ASSUME BaseInv, NEW p \in Callers, at[p] \in EndPlaces
  PROVE  p \in {"reaper", Executor} /\ outcome[p] \in Ends
<1>1. p \in {"gateway", "reaper", Executor, Media}
  BY RunAssumption DEF Tellers, Executor
<1> QED
  BY <1>1 DEF BaseInv, PlacesHold, GatewayPlaces, MediaPlaces, EndPlaces, Ends

LEMMA EffectTyped ==
  ASSUME BaseInv, NEW p \in Callers, call[p].stage # "none", Effect(p)
  PROVE  card' \in Body /\ posts' \in Seq(Ends) /\ reaction' \in BOOLEAN /\ files' \in Nat
<1>1. /\ card \in Body /\ posts \in Seq(Ends) /\ reaction \in BOOLEAN /\ files \in Nat
           /\ call[p].body \in Body
  BY DEF BaseInv, SenderTyped, Call
<1>2. CASE PostTerminal(p)
  <2>1. at[p] = "falling"
    BY <1>2, CallPlaces DEF PostTerminal, Asks
  <2>2. call[p].body.status \in Ends
    BY <2>1, EndTellers DEF BaseInv, Calls, EndPlaces
  <2> QED
    BY <1>1, <1>2, <2>2 DEF PostTerminal
<1>3. CASE ~PostTerminal(p)
  <2>1. card' \in Body /\ posts' \in Seq(Ends)
    BY <1>1, <1>3 DEF Effect, PostCard, PatchRunning, PatchClosed, PostReaction, DropReaction,
       PostAsset, PostMedia
  <2>2. files' \in Nat
    BY <1>1, <1>3 DEF Effect, PostCard, PatchRunning, PatchClosed, PostReaction, DropReaction,
       PostAsset, PostMedia
  <2>3. reaction' = reaction \/ reaction' = TRUE \/ reaction' = (reaction /\ ~AtStage(p, "delete"))
    BY <1>3 DEF Effect, PostCard, PatchRunning, PatchClosed, PostReaction, DropReaction, PostAsset,
       PostMedia
  <2> QED
    BY <1>1, <2>1, <2>2, <2>3
<1> QED
  BY <1>2, <1>3

(* Only the stage, the token and whether it was refreshed change.          *)
LEMMA SenderCalls ==
  ASSUME BaseInv, NEW p \in Callers, SenderStep(p)
  PROVE  /\ call[p].stage # "none"
         /\ call'[p].op = call[p].op /\ call'[p].body = call[p].body /\ call'[p].stage \in Stages
         /\ \A q \in Callers : q # p => call'[q] = call[q]
         /\ spent' >= spent
<1>1. call \in [Callers -> Call] /\ spent \in Nat /\ call[p] \in Call
  BY DEF BaseInv, SenderTyped
<1>2. CASE TakeToken(p) \/ IssueToken(p)
  BY <1>1, <1>2 DEF TakeToken, IssueToken, AtStage, Call, Stages
<1>3. CASE RefuseToken(p)
  BY <1>1, <1>3 DEF RefuseToken, AtStage, Advance, Call, Stages
<1>4. CASE Accept(p)
  BY <1>1, <1>4 DEF Accept, AtStage, Advance, Call, Stages
<1>5. CASE Fault(p)
  BY <1>1, <1>5 DEF Fault, AtStage, Advance, Call, Stages, Spend
<1> QED
  BY <1>2, <1>3, <1>4, <1>5 DEF SenderStep

LEMMA CallUpdated ==
  ASSUME SenderTyped, NEW p \in Callers, NEW c \in Call, c.token <= token,
         call' = [call EXCEPT ![p] = c]
  PROVE  call' \in [Callers -> Call] /\ \A q \in Callers : call'[q].token <= token
BY DEF SenderTyped

LEMMA SenderStepTyped ==
  ASSUME BaseInv, NEW p \in Callers, SenderStep(p)
  PROVE  SenderTyped'
<1>1. /\ call \in [Callers -> Call] /\ \A q \in Callers : call[q].token <= token
      /\ spent \in 0..Budget /\ token \in 1..(spent + 1) /\ Budget \in Nat
      /\ cached \in [Processes -> 0..token] /\ ProcessOf[p] \in Processes
      /\ call[p].stage # "none"
      /\ card \in Body /\ posts \in Seq(Ends) /\ reaction \in BOOLEAN /\ files \in Nat
  BY SenderAssumption, SenderCalls DEF BaseInv, SenderTyped
<1>2. CASE TakeToken(p)
  <2>1. call' \in [Callers -> Call] /\ (\A q \in Callers : call'[q].token <= token)
    <3> DEFINE t == cached[ProcessOf[p]]
    <3>1. t \in Nat /\ t <= token
      BY <1>1
    <3>2. call' = [call EXCEPT ![p].stage = IF t = 0 THEN "issuing" ELSE "request", ![p].token = t]
      BY <1>2 DEF TakeToken
    <3> HIDE DEF t
    <3> DEFINE c == [call[p] EXCEPT !.stage = IF t = 0 THEN "issuing" ELSE "request", !.token = t]
    <3>3. c \in Call /\ c.token <= token
      BY <1>1, <3>1 DEF Call, Stages
    <3>4. call' = [call EXCEPT ![p] = c]
      BY <3>2
    <3> HIDE DEF c
    <3> QED
      BY <3>3, <3>4, CallUpdated DEF BaseInv
  <2> QED
    BY <1>1, <1>2, <2>1 DEF TakeToken, SenderTyped
<1>3. CASE IssueToken(p)
  <2>1. call' \in [Callers -> Call] /\ (\A q \in Callers : call'[q].token <= token)
    <3> DEFINE c == [call[p] EXCEPT !.stage = "request", !.token = token]
    <3>1. c \in Call /\ c.token <= token
      <4>1. token \in Nat /\ call[p] \in Call
        BY <1>1
      <4>2. c \in Call
        BY <4>1 DEF Call, Stages
      <4>3. c.token = token
        BY <4>1 DEF Call
      <4> QED
        BY <4>1, <4>2, <4>3
    <3>2. call' = [call EXCEPT ![p] = c]
      BY <1>3 DEF IssueToken
    <3> HIDE DEF c
    <3> QED
      BY <3>1, <3>2, CallUpdated DEF BaseInv
  <2>2. cached' \in [Processes -> 0..token]
    BY <1>1, <1>3 DEF IssueToken
  <2> QED
    BY <1>1, <1>3, <2>1, <2>2 DEF IssueToken, SenderTyped
<1>4. CASE RefuseToken(p)
  <2>1. call' \in [Callers -> Call] /\ (\A q \in Callers : call'[q].token <= token)
    <3> DEFINE c == [call[p] EXCEPT !.stage = "failed"]
               d == [call[p] EXCEPT !.stage = "token", !.refreshed = TRUE]
    <3>1. c \in Call /\ c.token <= token /\ d \in Call /\ d.token <= token
      BY <1>1 DEF Call, Stages
    <3>2. call' = [call EXCEPT ![p] = c] \/ call' = [call EXCEPT ![p] = d]
      BY <1>4 DEF RefuseToken, Advance
    <3> HIDE DEF c, d
    <3> QED
      BY <3>1, <3>2, CallUpdated DEF BaseInv
  <2>2. cached' \in [Processes -> 0..token]
    BY <1>1, <1>4 DEF RefuseToken
  <2> QED
    BY <1>1, <1>4, <2>1, <2>2 DEF RefuseToken, SenderTyped
<1>5. CASE Accept(p)
  <2>1. call' \in [Callers -> Call] /\ (\A q \in Callers : call'[q].token <= token)
    BY <1>1, <1>5 DEF Accept, Advance, Call, Stages
  <2>2. card' \in Body /\ posts' \in Seq(Ends) /\ reaction' \in BOOLEAN /\ files' \in Nat
    BY <1>1, <1>5, EffectTyped DEF Accept
  <2> QED
    BY <1>1, <1>5, <2>1, <2>2 DEF Accept, SenderTyped
<1>6. CASE Fault(p)
  <2>1. call' \in [Callers -> Call] /\ (\A q \in Callers : call'[q].token <= token)
    BY <1>1, <1>6 DEF Fault, Advance, Call, Stages
  <2>2. card' \in Body /\ posts' \in Seq(Ends) /\ reaction' \in BOOLEAN /\ files' \in Nat
    BY <1>1, <1>6, EffectTyped DEF Fault
  <2>3. spent' = spent + 1 /\ spent' <= Budget /\ UNCHANGED <<token, cached>>
    BY <1>6 DEF Fault, Spend
  <2>4. spent' \in 0..Budget /\ token' \in 1..(spent' + 1)
    BY <1>1, <2>3
  <2> QED
    BY <1>1, <2>1, <2>2, <2>3, <2>4 DEF SenderTyped
<1> QED
  BY <1>2, <1>3, <1>4, <1>5, <1>6 DEF SenderStep

LEMMA SenderBase ==
  ASSUME BaseInv, NEW p \in Callers, SenderStep(p), Note(CallMarks(p)),
         UNCHANGED <<storeVars, handlerVars, mediaVars, executorVars>>
  PROVE  BaseInv'
<1>1. SenderTyped' /\ spent' >= spent
  BY SenderStepTyped, SenderCalls
<1>2. StoreTyped' /\ HandlersTyped' /\ PlacesHold' /\ (\A q \in Tellers : HasRow(q)')
  BY DEF BaseInv, StoreTyped, HandlersTyped, PlacesHold, HasRow, storeVars, handlerVars,
    executorVars
<1>3. RunTyped'
  <2>1. marks' \subseteq Marks
    BY DEF BaseInv, RunTyped, Note, CallMarks, Marks
  <2> QED
    BY <1>1, <2>1 DEF BaseInv, RunTyped, SenderTyped, handlerVars, mediaVars, executorVars
<1>4. \A q \in Callers : Calls(q)'
  <2>1. ASSUME NEW q \in Callers, q # p PROVE Calls(q)'
    BY <2>1, SenderCalls DEF BaseInv, Calls, Busy, handlerVars
  <2>2. Calls(p)'
    BY SenderCalls, CallPlaces DEF BaseInv, Calls, Busy, handlerVars
  <2> QED
    BY <2>1, <2>2
<1> QED
  BY <1>1, <1>2, <1>3, <1>4 DEF BaseInv

---------------------------------------------------------------------------
(* Failures and requests.                                                  *)

LEMMA ExpireBase ==
  ASSUME BaseInv, ExpireToken, UNCHANGED <<storeVars, handlerVars, mediaVars>>, Rest
  PROVE  BaseInv'
<1>1. /\ spent \in 0..Budget /\ token \in 1..(spent + 1) /\ Budget \in Nat
      /\ spent' = spent + 1 /\ spent' <= Budget /\ token' = token + 1
      /\ UNCHANGED <<cached, call, card, posts, reaction, files>>
  BY SenderAssumption DEF ExpireToken, Spend, BaseInv, SenderTyped
<1>2. SenderTyped'
  <2>1. cached \in [Processes -> 0..(token + 1)] /\ \A q \in Callers : call[q].token <= token + 1
    BY <1>1 DEF BaseInv, SenderTyped, Call
  <2> QED
    BY <1>1, <2>1 DEF BaseInv, SenderTyped
<1>3. StoreTyped' /\ HandlersTyped' /\ PlacesHold' /\ (\A q \in Tellers : HasRow(q)')
  BY DEF BaseInv, StoreTyped, HandlersTyped, PlacesHold, HasRow, storeVars, handlerVars,
    executorVars, Rest
<1>4. RunTyped' /\ \A q \in Callers : Calls(q)'
  BY <1>1 DEF BaseInv, RunTyped, Calls, Busy, handlerVars, mediaVars, executorVars, Rest
<1> QED
  BY <1>2, <1>3, <1>4 DEF BaseInv

(* An activity leaves the call it was in and is somewhere it waits for     *)
(* none.                                                                   *)
LEMMA Dropped ==
  ASSUME BaseInv, NEW p \in Callers, NEW to, to \notin Waiting, Go(p, to), Forget(p),
         presentation' = presentation, outcome' = outcome,
         p \in Tellers => to \in {"gone", "catch"} \/ (to \in {"completeCatch",
           "fallbackCatch"} /\ presentation # NoPresentation)
  PROVE  (\A q \in Callers : Calls(q)') /\ (\A q \in Tellers : HasRow(q)')
<1>1. at'[p] = to /\ \A q \in Callers : q # p => at'[q] = at[q]
  BY DEF Go, BaseInv, HandlersTyped
<1>2. call'[p] = NoCall /\ \A q \in Callers : q # p => call'[q] = call[q]
  BY DEF Forget, BaseInv, SenderTyped
<1>3. Tellers \subseteq Callers
  BY RunAssumption
<1>4. \A q \in Callers : Calls(q)'
  <2>1. ASSUME NEW q \in Callers, q # p PROVE Calls(q)'
    BY <1>1, <1>2, <2>1 DEF BaseInv, Calls, Busy
  <2>2. Calls(p)'
    BY <1>1, <1>2 DEF Calls, Waiting
  <2> QED
    BY <2>1, <2>2
<1>5. \A q \in Tellers : HasRow(q)'
  BY <1>1, <1>3 DEF BaseInv, HasRow, EndPlaces
<1> QED
  BY <1>4, <1>5

LEMMA ForgetTyped ==
  ASSUME BaseInv, NEW p \in Callers, Forget(p)
  PROVE  call' \in [Callers -> Call] /\ \A q \in Callers : call'[q].token <= token
<1>1. NoCall \in Call /\ NoCall.token <= token
  BY Bodies DEF NoCall, Call, BaseInv, SenderTyped
<1> QED
  BY <1>1 DEF Forget, BaseInv, SenderTyped

Caught == {"completeCatch", "fallbackCatch", "sendingCatch", "rowCatch", "throws", "catch", "gone"}

(* Where a throw is caught depends on the activity.                        *)
LEMMA CatchPlaces ==
  ASSUME BaseInv, NEW p \in Callers
  PROVE  /\ CatchOf(p) \in Caught
         /\ p = "gateway" => CatchOf(p) = "gone"
         /\ p \in Tellers => CatchOf(p) \in {"completeCatch", "fallbackCatch", "catch", "gone"}
         /\ p = Media => CatchOf(p) \in {"sendingCatch", "rowCatch", "throws"}
         /\ CatchOf(p) \in {"completeCatch", "fallbackCatch"} =>
              at[p] \in {"completing", "markTerminal", "falling", "attach"}
         /\ CatchOf(p) = "catch" => p = Executor /\ caught
<1>1. CatchOf(p) \in Caught
  BY DEF CatchOf, OwnCatch, Caught
<1>2. /\ CatchOf(p) \in {"completeCatch", "fallbackCatch"} =>
              at[p] \in {"completing", "markTerminal", "falling", "attach"}
      /\ CatchOf(p) = "catch" => p = Executor /\ caught
      /\ CatchOf(p) \in {"sendingCatch", "rowCatch"} => at[p] \in {"uploading", "sending",
           "delivering", "finishing"}
      /\ CatchOf(p) = "throws" => p = Media
      /\ p = Media /\ CatchOf(p) \in {"gone", "catch"} => FALSE
  BY DEF CatchOf, OwnCatch, Executor, Media
<1>3. /\ at["gateway"] \in GatewayPlaces /\ at["reaper"] \in ReaperPlaces
      /\ at[Executor] \in ExecutorPlaces /\ at[Media] \in MediaPlaces
  BY DEF BaseInv, PlacesHold
<1>4. p \in {"gateway", "reaper", Executor, Media} /\ Media \notin Tellers
  /\ Executor \in Tellers /\ "gateway" # Executor /\ "gateway" \in Tellers
  BY RunAssumption DEF Tellers, Executor, Media
<1>5. p \in Tellers => at[p] \notin {"uploading", "sending", "delivering", "finishing"} /\ p # Media
  BY <1>3, <1>4 DEF GatewayPlaces, ReaperPlaces, ExecutorPlaces, StartPlaces, StreamPlaces,
    EndPlaces, Tellers, Executor
<1>6. p = "gateway" => at[p] \notin {"completing", "markTerminal", "falling", "attach"}
  BY <1>3 DEF GatewayPlaces
<1>7. p = Media => at[p] \notin {"completing", "markTerminal", "falling", "attach"}
  BY <1>3 DEF MediaPlaces
<1> HIDE DEF CatchOf
<1> QED
  BY <1>1, <1>2, <1>4, <1>5, <1>6, <1>7 DEF Caught

LEMMA CaughtPlaces ==
  ASSUME BaseInv, NEW p \in Callers, at[p] # "idle", Go(p, CatchOf(p)), UNCHANGED <<status,
    outcome, caught>>,
         (beating' => beating)
  PROVE  /\ PlacesHold' /\ at' \in [Callers -> GatewayPlaces \cup ExecutorPlaces \cup MediaPlaces]
         /\ at'[Media] # "idle" => at[Media] # "idle"
<1> DEFINE to == CatchOf(p)
<1>1. at'[p] = to /\ \A q \in Callers : q # p => at'[q] = at[q]
  BY DEF Go, BaseInv, HandlersTyped
<1>2. /\ p \in {"gateway", "reaper", Executor, Media}
      /\ "gateway" \in Callers /\ "reaper" \in Callers /\ Executor \in Callers /\ Media \in Callers
      /\ Executor \notin {"gateway", "reaper", Media} /\ Media \notin {"gateway", "reaper"}
      /\ {"gateway", "reaper", Executor} = Tellers
  BY RunAssumption DEF Tellers, Executor, Media
<1>3. /\ to \in Caught
      /\ p = "gateway" => to = "gone"
      /\ p \in Tellers => to \in {"completeCatch", "fallbackCatch", "catch", "gone"}
      /\ p = Media => to \in {"sendingCatch", "rowCatch", "throws"}
      /\ to \in {"completeCatch", "fallbackCatch"} => at[p] \in {"completing", "markTerminal",
           "falling", "attach"}
      /\ to = "catch" => p = Executor /\ caught
  BY CatchPlaces
<1> HIDE DEF to
<1>4. at' \in [Callers -> GatewayPlaces \cup ExecutorPlaces \cup MediaPlaces]
  <2>1. to \in GatewayPlaces \cup ExecutorPlaces \cup MediaPlaces
    BY <1>3 DEF Caught, ExecutorPlaces, MediaPlaces, EndPlaces
  <2> QED
    BY <2>1 DEF Go, BaseInv, HandlersTyped, to
<1>5. PlacesHold
  BY DEF BaseInv
<1>6. p = "gateway" => PlacesHold'
  BY <1>1, <1>2, <1>3, <1>5 DEF PlacesHold, GatewayPlaces
<1>7. p = "reaper" => PlacesHold'
  BY <1>1, <1>2, <1>3, <1>5 DEF PlacesHold, ReaperPlaces, EndPlaces, StartPlaces
<1>8. p = Executor => PlacesHold'
  BY <1>1, <1>2, <1>3, <1>5 DEF PlacesHold, ExecutorPlaces, EndPlaces, StartPlaces, StreamPlaces
<1>9. p = Media => PlacesHold'
  BY <1>1, <1>2, <1>3, <1>5 DEF PlacesHold, MediaPlaces
<1>10. at'[Media] # "idle" => at[Media] # "idle"
  BY <1>1, <1>2
<1> QED
  BY <1>2, <1>4, <1>6, <1>7, <1>8, <1>9, <1>10

LEMMA RejectedBase ==
  ASSUME BaseInv, NEW p \in Callers, Rejected(p)
  PROVE  BaseInv'
<1> DEFINE to == CatchOf(p)
<1>1. /\ AtTable(p) /\ Go(p, to) /\ Forget(p) /\ spent' = spent + 1 /\ spent' <= Budget
      /\ UNCHANGED <<token, cached, card, posts, reaction, files>>
      /\ UNCHANGED <<storeVars, seen, outcome, window, answers, said, caught, retried>>
  BY DEF Rejected, Spend
<1>2. /\ to \in Caught /\ to \notin Waiting
      /\ p \in Tellers => to \in {"completeCatch", "fallbackCatch", "catch", "gone"}
      /\ p \in Tellers /\ to \in {"completeCatch", "fallbackCatch"} => presentation # NoPresentation
  <2>1. p \in Tellers /\ at[p] \in {"completing", "markTerminal", "falling", "attach"}
    => presentation # NoPresentation
    BY DEF BaseInv, HasRow, EndPlaces
  <2>2. to \in Caught /\ to \notin Waiting
    BY CatchPlaces DEF Caught, Waiting
  <2> HIDE DEF to
  <2> QED
    BY <2>1, <2>2, CatchPlaces DEF to
<1>3. at[p] # "idle" /\ (beating' => beating) /\ beating' \in BOOLEAN
  /\ uploaded' \in BOOLEAN /\ delta' \in {delta, NoDelta}
  <2>1. at[p] # "idle"
    BY <1>1 DEF AtTable, Called
  <2>2. beating' = (beating /\ ~(p = Executor /\ CatchOf(p) = "gone"))
    /\ uploaded' = (uploaded \/ at[p] = "uploading")
        /\ delta' = IF p = Executor THEN NoDelta ELSE delta
    BY DEF Rejected
  <2> QED
    BY <2>1, <2>2
<1> HIDE DEF to
<1>4. SenderTyped'
  <2>1. call' \in [Callers -> Call] /\ \A q \in Callers : call'[q].token <= token
    BY <1>1, ForgetTyped
  <2>2. spent' \in 0..Budget /\ token \in 1..(spent' + 1)
    <3>1. spent \in 0..Budget /\ token \in 1..(spent + 1) /\ Budget \in Nat
      BY SenderAssumption DEF BaseInv, SenderTyped
    <3> QED
      BY <1>1, <3>1
  <2> QED
    BY <1>1, <2>1, <2>2 DEF BaseInv, SenderTyped
<1>5. PlacesHold' /\ at' \in [Callers -> GatewayPlaces \cup ExecutorPlaces \cup MediaPlaces]
      /\ (at'[Media] # "idle" => at[Media] # "idle")
  BY <1>1, <1>3, CaughtPlaces DEF to, storeVars
<1>6. StoreTyped' /\ HandlersTyped'
  <2>1. NoDelta \in [sequence : Nat, text : Chunks \cup {None}]
    BY DEF NoDelta
  <2> QED
    BY <1>1, <1>3, <1>5, <2>1 DEF BaseInv, StoreTyped, HandlersTyped, storeVars
<1>7. RunTyped'
  <2>1. marks' \subseteq Marks
    BY DEF Rejected, CutShort, Note, Marks, BaseInv, RunTyped
  <2>2. /\ spent \in Nat /\ Len(answers) <= spent /\ (at[Media] # "idle" => Len(answers) < spent)
        /\ answers \in Seq(Answers) /\ said \in Seq(Chunks) /\ Len(said) <= spent + 1
             /\ caught \in BOOLEAN /\ retried \in BOOLEAN
    BY DEF BaseInv, RunTyped, SenderTyped
  <2> QED
    BY <1>1, <1>3, <1>5, <2>1, <2>2 DEF RunTyped
<1>8. (\A q \in Callers : Calls(q)') /\ (\A q \in Tellers : HasRow(q)')
  BY <1>1, <1>2, Dropped DEF storeVars
<1> QED
  BY <1>4, <1>5, <1>6, <1>7, <1>8 DEF BaseInv

LEMMA CollidesBase ==
  ASSUME BaseInv, NEW p \in Tellers, InsertCollides(p)
  PROVE  BaseInv'
<1> DEFINE to == CatchOf(p)
<1>1. /\ at[p] = "insertPending" /\ Go(p, to) /\ UNCHANGED <<storeVars, senderVars, seen,
           outcome, delta, window, mediaVars, executorVars, marks>>
  BY DEF InsertCollides, At
<1>2. p \in Callers /\ p \in {"gateway", "executor"} /\ p # Media
  BY <1>1, RunAssumption DEF Tellers, Media, BaseInv, PlacesHold, ReaperPlaces, EndPlaces
<1>3. to \in {"gone", "catch"} 
  BY <1>1, <1>2, CatchPlaces
<1> HIDE DEF to
<1>4. SenderTyped' /\ call' = call /\ spent' = spent
  BY <1>1, SilentTyped DEF BaseInv
<1>5. PlacesHold' /\ at' \in [Callers -> GatewayPlaces \cup ExecutorPlaces \cup MediaPlaces]
      /\ (at'[Media] # "idle" => at[Media] # "idle")
  BY <1>1, <1>2, CaughtPlaces DEF to, storeVars, executorVars
<1>6. StoreTyped' /\ HandlersTyped'
  BY <1>1, <1>5 DEF BaseInv, StoreTyped, HandlersTyped, storeVars
<1>7. RunTyped'
  BY <1>1, <1>4, <1>5 DEF BaseInv, RunTyped, mediaVars, executorVars
<1>8. (\A q \in Callers : Calls(q)') /\ (\A q \in Tellers : HasRow(q)')
  <2>1. call[p] = NoCall
    BY <1>1, <1>2 DEF BaseInv, Calls, Waiting
  <2>2. to \in ExecutorPlaces \ Waiting /\ to \notin {"output"} \cup EndPlaces
    BY <1>3 DEF ExecutorPlaces, EndPlaces, Waiting
  <2> QED
    BY <1>1, <1>2, <1>4, <2>1, <2>2, MovesAlone DEF storeVars
<1> QED
  BY <1>4, <1>5, <1>6, <1>7, <1>8 DEF BaseInv

LEMMA DiesBase ==
  ASSUME BaseInv, ExecutorDies
  PROVE  BaseInv'
<1>0. /\ Executor \in Callers /\ Media \in Callers /\ Executor # Media /\ Executor \in Tellers
      /\ "gateway" \in Callers /\ "reaper" \in Callers /\ Executor # "gateway"
           /\ Executor # "reaper"
  BY RunAssumption DEF Executor, Tellers, Media
<1>1. /\ Go(Executor, "gone") /\ Forget(Executor) /\ spent' = spent + 1 /\ spent' <= Budget
      /\ cached' = [cached EXCEPT ![ProcessOf[Executor]] = 0]
      /\ delta' = NoDelta /\ window' = NoWindow
      /\ UNCHANGED <<token, card, posts, reaction, files>>
      /\ UNCHANGED <<storeVars, seen, outcome, mediaVars, executorVars>>
  BY DEF ExecutorDies, Spend
<1>2. at'[Executor] = "gone" /\ (\A q \in Callers : q # Executor => at'[q] = at[q])
      /\ at' \in [Callers -> GatewayPlaces \cup ExecutorPlaces \cup MediaPlaces]
  BY <1>1, <1>0 DEF Go, BaseInv, HandlersTyped, GatewayPlaces
<1>4. SenderTyped'
  <2>1. call' \in [Callers -> Call] /\ \A q \in Callers : call'[q].token <= token
    BY <1>0, <1>1, ForgetTyped
  <2>2. spent' \in 0..Budget /\ token \in 1..(spent' + 1)
    <3>1. spent \in 0..Budget /\ token \in 1..(spent + 1) /\ Budget \in Nat
      BY SenderAssumption DEF BaseInv, SenderTyped
    <3> QED
      BY <1>1, <3>1
  <2>3. cached' \in [Processes -> 0..token]
    <3>1. cached \in [Processes -> 0..token] /\ 0 \in 0..token
      BY DEF BaseInv, SenderTyped
    <3> QED
      BY <1>1, <3>1
  <2> QED
    BY <1>1, <2>1, <2>2, <2>3 DEF BaseInv, SenderTyped
<1>5. PlacesHold'
  BY <1>0, <1>1, <1>2 DEF BaseInv, PlacesHold, storeVars, executorVars, ExecutorPlaces,
    StartPlaces, StreamPlaces, EndPlaces
<1>6. StoreTyped' /\ HandlersTyped'
  <2>1. NoDelta \in [sequence : Nat, text : Chunks \cup {None}] /\ WindowTyped(NoWindow)
    BY WindowAssumption DEF NoDelta, NoWindow, WindowTyped, Text
  <2> QED
    BY <1>1, <1>2, <2>1 DEF BaseInv, StoreTyped, HandlersTyped, storeVars
<1>7. RunTyped'
  <2>1. marks' \subseteq Marks
    BY DEF ExecutorDies, CutShort, Note, Marks, BaseInv, RunTyped
  <2> QED
    BY <1>0, <1>1, <1>2, <2>1 DEF BaseInv, RunTyped, SenderTyped, mediaVars, executorVars
<1>8. (\A q \in Callers : Calls(q)') /\ (\A q \in Tellers : HasRow(q)')
  BY <1>0, <1>1, Dropped DEF storeVars, Waiting
<1> QED
  BY <1>4, <1>5, <1>6, <1>7, <1>8 DEF BaseInv

LEMMA RequestBase ==
  ASSUME BaseInv, RequestMedia, UNCHANGED <<seen, outcome, delta, window>>, Rest
  PROVE  BaseInv'
<1>0. /\ Media \in Callers /\ Media \notin Tellers /\ Executor # Media /\ Media # "gateway"
           /\ Media # "reaper"
      /\ "gateway" \in Callers /\ "reaper" \in Callers /\ Executor \in Callers
  BY RunAssumption DEF Executor, Tellers, Media
<1>1. /\ at[Media] = "idle" /\ Go(Media, "checking") /\ spent' = spent + 1 /\ spent' <= Budget
      /\ UNCHANGED <<token, cached, call, card, posts, reaction, files, storeVars, mediaVars>>
      /\ UNCHANGED <<executorVars, marks>>
  BY DEF RequestMedia, Spend, Rest
<1>2. at'[Media] = "checking" /\ (\A q \in Callers : q # Media => at'[q] = at[q])
      /\ at' \in [Callers -> GatewayPlaces \cup ExecutorPlaces \cup MediaPlaces]
  BY <1>1, <1>0 DEF Go, BaseInv, HandlersTyped, MediaPlaces
<1>4. SenderTyped'
  <2>2. spent' \in 0..Budget /\ token \in 1..(spent' + 1)
    <3>1. spent \in 0..Budget /\ token \in 1..(spent + 1) /\ Budget \in Nat
      BY SenderAssumption DEF BaseInv, SenderTyped
    <3> QED
      BY <1>1, <3>1
  <2> QED
    BY <1>1, <2>2 DEF BaseInv, SenderTyped
<1>5. PlacesHold'
  BY <1>0, <1>1, <1>2 DEF BaseInv, PlacesHold, storeVars, executorVars, MediaPlaces
<1>6. StoreTyped' /\ HandlersTyped'
  BY <1>1, <1>2 DEF BaseInv, StoreTyped, HandlersTyped, storeVars
<1>7. RunTyped'
  BY <1>0, <1>1, <1>2 DEF BaseInv, RunTyped, SenderTyped, mediaVars, executorVars
<1>8. (\A q \in Callers : Calls(q)') /\ (\A q \in Tellers : HasRow(q)')
  <2>1. \A q \in Callers : Calls(q)'
    BY <1>0, <1>1, <1>2 DEF BaseInv, Calls, Busy, Waiting
  <2>2. \A q \in Tellers : HasRow(q)'
    BY <1>0, <1>1, <1>2, RunAssumption DEF BaseInv, HasRow, storeVars
  <2> QED
    BY <2>1, <2>2
<1> QED
  BY <1>4, <1>5, <1>6, <1>7, <1>8 DEF BaseInv

LEMMA BaseAtStart == Init => BaseInv
<1> SUFFICES ASSUME Init PROVE BaseInv
  OBVIOUS
<1>0. Callers = {"gateway", "reaper", "executor", "media"}
  BY RunAssumption DEF Tellers, Media
<1>1. /\ \A p \in Callers : call[p] = NoCall
      /\ \A p \in Callers : at[p] = IF p = "gateway" THEN "queued" ELSE "idle"
      /\ \A p \in Callers : outcome[p] = None
  BY DEF Init, SenderInit, HandlerInit
<1>2. SenderTyped
  <2>1. NoCall \in Call /\ NoCall.token = 0
    BY Bodies DEF NoCall, Call
  <2>2. call \in [Callers -> Call] /\ \A p \in Callers : call[p].token <= token
    BY <2>1 DEF Init, SenderInit
  <2>3. cached \in [Processes -> 0..token] /\ spent \in 0..Budget /\ token \in 1..(spent + 1)
    BY SenderAssumption DEF Init, SenderInit
  <2>4. posts \in Seq(Ends) /\ card \in Body
    BY Bodies DEF Init, SenderInit
  <2> QED
    BY <2>2, <2>3, <2>4 DEF Init, SenderInit, SenderTyped
<1>3. StoreTyped
  BY DEF Init, StoreInit, StoreTyped
<1>4. HandlersTyped
  <2>1. NoDelta \in [sequence : Nat, text : Chunks \cup {None}] /\ WindowTyped(NoWindow)
    BY WindowAssumption DEF NoDelta, NoWindow, WindowTyped, Text
  <2> QED
    BY <2>1 DEF Init, HandlerInit, HandlersTyped, GatewayPlaces, MediaPlaces
<1>5. RunTyped
  <2>1. answers = <<>> /\ said = <<>> /\ spent = 0 /\ at[Media] = "idle"
    BY <1>0, <1>1 DEF Init, SenderInit, MediaInit, Media
  <2>2. answers \in Seq(Answers) /\ Len(answers) = 0 /\ said \in Seq(Chunks) /\ Len(said) = 0
    BY <2>1
  <2>3. Len(answers) <= spent /\ Len(said) <= spent + 1
    BY <2>1, <2>2
  <2>4. /\ uploaded \in BOOLEAN /\ beating \in BOOLEAN /\ caught \in BOOLEAN /\ retried \in BOOLEAN
        /\ marks \subseteq Marks
    BY DEF Init, MediaInit
  <2> QED
    BY <2>1, <2>2, <2>3, <2>4 DEF RunTyped
<1>6. PlacesHold
  BY <1>0, <1>1 DEF Init, StoreInit, PlacesHold, Executor, Media, GatewayPlaces, ReaperPlaces,
    ExecutorPlaces, MediaPlaces, StartPlaces, EndPlaces, StreamPlaces
<1>7. (\A q \in Callers : Calls(q)) /\ (\A q \in Tellers : HasRow(q))
  BY <1>0, <1>1 DEF Calls, HasRow, Waiting, EndPlaces, Tellers
<1> QED
  BY <1>2, <1>3, <1>4, <1>5, <1>6, <1>7 DEF BaseInv

LEMMA BaseStays ==
  ASSUME BaseInv, UNCHANGED vars
  PROVE  BaseInv'
<1>1. UNCHANGED <<token, cached, call, spent, card, posts, reaction, files>> /\ UNCHANGED storeVars
      /\ UNCHANGED <<at, seen, outcome, delta, window>> /\ UNCHANGED <<uploaded, answers>>
      /\ UNCHANGED <<said, beating, caught, retried, marks>>
  BY DEF vars, senderVars, handlerVars, mediaVars
<1>2. SenderTyped' /\ StoreTyped'
  BY <1>1 DEF BaseInv, SenderTyped, StoreTyped, storeVars
<1>3. HandlersTyped' /\ RunTyped' /\ PlacesHold'
  BY <1>1 DEF BaseInv, HandlersTyped, RunTyped, PlacesHold, storeVars
<1>4. (\A q \in Callers : Calls(q)') /\ (\A q \in Tellers : HasRow(q)')
  BY <1>1 DEF BaseInv, Calls, Busy, HasRow, storeVars
<1> QED
  BY <1>2, <1>3, <1>4 DEF BaseInv

LEMMA NextBase == BaseInv /\ [Next]_vars => BaseInv'
<1> SUFFICES ASSUME BaseInv, [Next]_vars PROVE BaseInv'
  OBVIOUS
<1>1. CASE ExecutorStep /\ UNCHANGED marks
  BY <1>1, ExecutorBase
<1>2. CASE \E p \in Tellers : NotifierStep(p) /\ UNCHANGED mediaVars /\ Rest
  BY <1>2, NotifierBase
<1>3. CASE MediaStep /\ Rest
  BY <1>3, MediaBase
<1>4. CASE /\ RequestMedia /\ Doing("stream")
           /\ UNCHANGED <<seen, outcome, delta, window>> /\ Rest
  BY <1>4, RequestBase
<1>5. CASE Reap
  BY <1>5, ReapBase
<1>6. CASE \E p \in Callers :
             /\ SenderStep(p) /\ Note(CallMarks(p))
             /\ UNCHANGED <<storeVars, handlerVars, mediaVars, executorVars>>
  BY <1>6, SenderBase
<1>7. CASE ExpireToken /\ UNCHANGED <<storeVars, handlerVars, mediaVars>> /\ Rest
  BY <1>7, ExpireBase
<1>8. CASE \E p \in Callers : Rejected(p)
  BY <1>8, RejectedBase
<1>9. CASE \E p \in Tellers : InsertCollides(p)
  BY <1>9, CollidesBase
<1>10. CASE ExecutorDies
  BY <1>10, DiesBase
<1>11. CASE UNCHANGED vars
  BY <1>11, BaseStays
<1> QED
  BY <1>1, <1>2, <1>3, <1>4, <1>5, <1>6, <1>7, <1>8, <1>9, <1>10, <1>11 DEF Next

LEMMA BaseAlways == Spec => []BaseInv
BY BaseAtStart, NextBase, PTL DEF Spec

(* The calls, the rows, what the chat shows and where the activities are   *)
(* have their types: no window is longer than it may be, and codex has no  *)
(* more answers than it made requests.                                     *)
THEOREM TypesHold == Spec => []TypeOK
<1>1. BaseInv => TypeOK
  <2> SUFFICES ASSUME BaseInv PROVE TypeOK
    OBVIOUS
  <2>1. SenderTypeOK
    <3>1. \A p \in Callers : call[p] = NoCall \/ 
       /\ call[p].op \in Operations /\ call[p].stage \in Stages
       /\ call[p].token <= token /\ call[p].refreshed \in BOOLEAN
      <4> TAKE p \in Callers
      <4>1. call[p] \in Call /\ call[p].token <= token /\ Calls(p)
        BY DEF BaseInv, SenderTyped
      <4>2. CASE at[p] \in Waiting
        BY <4>1, <4>2, CallPlaces DEF Calls, Busy, Waiting, Call, Stages
      <4>3. CASE at[p] \notin Waiting
        BY <4>1, <4>3 DEF Calls
      <4> QED
        BY <4>2, <4>3
    <3>2. spent \in 0..Budget /\ token \in 1..(Budget + 1) /\ cached \in [Processes -> 0..token]
      BY SenderAssumption DEF BaseInv, SenderTyped
    <3>3. card.status \in Ends \cup {"none", "running"}
      /\ (\A i \in DOMAIN posts : posts[i] \in Ends)
           /\ reaction \in BOOLEAN /\ files \in Nat
      BY DEF BaseInv, SenderTyped, Body
    <3> QED
      BY <3>1, <3>2, <3>3 DEF SenderTypeOK
  <2>2. StoreTypeOK
    <3>1. /\ source \in Sources /\ status \in Ends \cup {"queued", "running"}
          /\ presentation \in Presentation \cup {NoPresentation}
          /\ executionDelivery \in {"not_requested", "sent", "failed"}
      BY DEF BaseInv, StoreTyped
    <3>2. \A p \in Callers : \A i \in DOMAIN deliveries[p] :
       deliveries[p][i] \in [kind : DeliveryKinds, status : {"pending", "sent", "failed"}]
      <4> TAKE p \in Callers
      <4>1. deliveries[p] \in Seq(Delivery)
        BY DEF BaseInv, StoreTyped
      <4>2. \A i \in DOMAIN deliveries[p] : deliveries[p][i] \in Delivery
        BY <4>1, ElementOfSeq
      <4> QED
        BY <4>2 DEF Delivery
    <3>3. \A i \in DOMAIN mediaRows : mediaRows[i] \in MediaRow
      BY ElementOfSeq DEF BaseInv, StoreTyped
    <3> QED
      BY <3>1, <3>2, <3>3 DEF StoreTypeOK
  <2>3. HandlerTypeOK
    BY DEF BaseInv, HandlersTyped, WindowTyped, HandlerTypeOK
  <2>4. MediaTypeOK
    <3>1. \A i \in DOMAIN answers : answers[i] \in Answers
      BY ElementOfSeq DEF BaseInv, RunTyped
    <3> QED
      BY <3>1 DEF BaseInv, RunTyped, MediaTypeOK
  <2>5. Len(said) <= Budget + 1
    <3>1. said \in Seq(Chunks) /\ Len(said) <= spent + 1 /\ spent \in 0..Budget /\ Budget \in Nat
      BY SenderAssumption DEF BaseInv, RunTyped, SenderTyped
    <3> QED
      BY <3>1
  <2> QED
    BY <2>1, <2>2, <2>3, <2>4, <2>5 DEF TypeOK, BaseInv, RunTyped
<1> QED
  BY <1>1, BaseAlways, PTL

---------------------------------------------------------------------------
(* The steps that are not the sender's: they ask and take answers, and     *)
(* what the chat shows stays as it is.                                     *)

Elsewhere ==
  \/ ExecutorStep /\ UNCHANGED marks
  \/ \E p \in Tellers : NotifierStep(p) /\ UNCHANGED mediaVars /\ Rest
  \/ MediaStep /\ Rest
  \/ /\ RequestMedia /\ Doing("stream")
     /\ UNCHANGED <<seen, outcome, delta, window>> /\ Rest
  \/ Reap
  \/ \E p \in Callers : Rejected(p)
  \/ \E p \in Tellers : InsertCollides(p)
  \/ ExecutorDies
  \/ UNCHANGED vars

SenderActs(p) ==
  /\ SenderStep(p) /\ Note(CallMarks(p))
  /\ UNCHANGED <<storeVars, handlerVars, mediaVars, executorVars>>

TokenExpires == ExpireToken /\ UNCHANGED <<storeVars, handlerVars, mediaVars>> /\ Rest

LEMMA StepKinds == [Next]_vars => Elsewhere \/ (\E p \in Callers : SenderActs(p)) \/ TokenExpires
BY DEF Next, Elsewhere, SenderActs, TokenExpires

Fresh(c) == c = NoCall \/ (c.stage = "token" /\ c.token = 0 /\ ~c.refreshed)

LEMMA FreshCalls ==
  /\ \A p \in Callers : \A op, body :
       SenderTyped /\ Begin(p, op, body) =>
         Fresh(call'[p]) /\ \A q \in Callers : q # p => call'[q] = call[q]
  /\ \A p \in Callers :
       SenderTyped /\ Forget(p) => Fresh(call'[p]) /\ \A q \in Callers : q # p => call'[q] = call[q]
BY DEF Begin, Forget, Fresh, SenderTyped

Shows == <<card, posts, reaction, files>>

LEMMA NotifierAsks ==
  ASSUME NEW p \in Tellers, NotifierStep(p)
  PROVE  UNCHANGED senderVars \/ Answer(p) \/ \E op, body : Ask(p, op, body)
<1>1. CASE Quietly(p)
  BY <1>1 DEF Quietly, GetPending, OnlyMoves, InsertPending, HandleStarted, MarkStreaming, Degrade,
              SaveOutput, MarkTerminal, AttachFallback
<1>2. CASE Answering(p)
  BY <1>2 DEF Answering, Reacted, CardCreated, CardFails, CardUpdated, ReactionRemoved,
              CardCompleted, CompleteFails, FallbackSent, FallbackFails
<1>3. CASE Asking(p)
  BY <1>3 DEF Asking, React, CreateCard, HandleDelta, RemoveReaction, HandleTerminal, Reread
<1> QED
  BY <1>1, <1>2, <1>3, NotifierKinds

LEMMA MediaAsks ==
  ASSUME MediaStep
  PROVE  UNCHANGED senderVars \/ Answer(Media) \/ \E op, body : Ask(Media, op, body)
BY DEF MediaStep, CheckContext, CreateRequest, SourceFails, Upload, Uploaded, UploadFails, Deliver,
       Delivered, Finish, DeliveryFails, SendingFails, MediaThrows

LEMMA ElsewhereCalls ==
  ASSUME BaseInv, Elsewhere
  PROVE  /\ UNCHANGED Shows /\ token' = token
         /\ \A q \in Callers : call'[q] = call[q] \/ Fresh(call'[q])
         /\ \A a \in Processes : cached'[a] = cached[a] \/ cached'[a] = 0
         /\ "tokenFailed" \in marks' => "tokenFailed" \in marks
<1> USE RunAssumption
<1>1. Tellers \subseteq Callers /\ Executor \in Callers /\ Media \in Callers /\ SenderTyped
  BY DEF Tellers, Executor, Media, BaseInv
<1>2. CASE ExecutorStep /\ UNCHANGED marks
  BY <1>2 DEF ExecutorStep, StartRun, Resume, Output, RetryFresh, TakeOutcome, PersistOutcome,
              CatchFailure, senderVars, UnlessSpent, Shows
<1>3. CASE \E p \in Tellers : NotifierStep(p) /\ UNCHANGED mediaVars /\ Rest
  <2>1. PICK p \in Tellers : NotifierStep(p) /\ Rest
    BY <1>3
  <2>2. UNCHANGED senderVars \/ Answer(p) \/ \E op, body : Ask(p, op, body)
    BY <2>1, NotifierAsks
  <2> QED
    BY <1>1, <2>1, <2>2, FreshCalls DEF Rest, Answer, Ask, ExceptCall, senderVars, Shows
<1>4. CASE MediaStep /\ Rest
  BY <1>1, <1>4, MediaAsks, FreshCalls DEF Rest, Answer, Ask, ExceptCall, senderVars, Shows
<1>5. CASE RequestMedia /\ Rest
  BY <1>5 DEF RequestMedia, Rest, Shows
<1>6. CASE Reap
  <2>1. "tokenFailed" \in marks' => "tokenFailed" \in marks
    BY <1>6 DEF Reap, Note
  <2> QED
    BY <1>6, <2>1 DEF Reap, senderVars, UnlessSpent, Shows
<1>7. CASE \E p \in Callers : Rejected(p)
  <2>1. PICK p \in Callers : Rejected(p)
    BY <1>7
  <2>2. "tokenFailed" \in marks' => "tokenFailed" \in marks
    BY <2>1 DEF Rejected, CutShort, Note
  <2> QED
    BY <1>1, <2>1, <2>2, FreshCalls DEF Rejected, Shows
<1>8. CASE \E p \in Tellers : InsertCollides(p)
  BY <1>8 DEF InsertCollides, senderVars, Shows
<1>9. CASE ExecutorDies
  <2>1. "tokenFailed" \in marks' => "tokenFailed" \in marks
    BY <1>9 DEF ExecutorDies, CutShort, Note
  <2>2. \A a \in Processes : cached'[a] = cached[a] \/ cached'[a] = 0
    BY <1>1, <1>9 DEF ExecutorDies, SenderTyped
  <2> QED
    BY <1>1, <1>9, <2>1, <2>2, FreshCalls DEF ExecutorDies, Shows
<1>10. CASE UNCHANGED vars
  BY <1>10 DEF vars, senderVars, Shows
<1> QED
  BY <1>2, <1>3, <1>4, <1>5, <1>6, <1>7, <1>8, <1>9, <1>10 DEF Elsewhere

---------------------------------------------------------------------------
(* Tokens: a call that is at its second try does not use the first token.  *)

TokenInv ==
  /\ \A p \in Callers :
       /\ call[p].refreshed =>
            /\ token > 1 /\ cached[ProcessOf[p]] # 1
            /\ call[p].stage \in {"request", "delete"} => call[p].token # 1
       /\ call[p].stage \in {"request", "delete"} => call[p].token > 0
  /\ "tokenFailed" \in marks => token > 2

LEMMA SenderTokens ==
  ASSUME BaseInv, TokenInv, NEW p \in Callers, SenderActs(p)
  PROVE  TokenInv'
<1>1. /\ call \in [Callers -> Call] /\ cached \in [Processes -> 0..token]
      /\ \A q \in Callers : call[q].token \in 0..token /\ ProcessOf[q] \in Processes
      /\ token \in Nat \ {0} /\ Budget \in Nat /\ spent \in Nat
  BY SenderAssumption DEF BaseInv, SenderTyped, Call
<1>2. token' = token
  BY DEF SenderActs, SenderStep, TakeToken, IssueToken, RefuseToken, Accept, Fault
<1>3. \A q \in Callers : q # p => call'[q] = call[q]
  BY SenderCalls DEF SenderActs
<1>4. marks' = marks \cup CallMarks(p)
  BY DEF SenderActs, Note
<1>5. CASE TakeToken(p)
  <2>1. /\ cached' = cached /\ spent' = spent /\ call'[p].refreshed = call[p].refreshed
        /\ call'[p].token = cached[ProcessOf[p]]
        /\ call'[p].stage = IF cached[ProcessOf[p]] = 0 THEN "issuing" ELSE "request"
    BY <1>1, <1>5 DEF TakeToken, Call
  <2>2. "tokenFailed" \notin CallMarks(p)
    BY <2>1 DEF CallMarks, FailsNow
  <2> QED
    BY <1>1, <1>2, <1>3, <1>4, <2>1, <2>2 DEF TokenInv
<1>6. CASE IssueToken(p)
  <2>1. /\ cached' = [cached EXCEPT ![ProcessOf[p]] = token]
             /\ call'[p].refreshed = call[p].refreshed
        /\ call'[p].token = token /\ call'[p].stage = "request"
    BY <1>1, <1>6 DEF IssueToken, Call
  <2>2. "tokenFailed" \notin CallMarks(p)
    BY <2>1 DEF CallMarks, FailsNow
  <2>3. \A a \in Processes : cached'[a] \in {cached[a], token}
    BY <1>1, <2>1
  <2> QED
    BY <1>1, <1>2, <1>3, <1>4, <2>1, <2>2, <2>3 DEF TokenInv
<1>7. CASE RefuseToken(p)
  <2>1. call[p].token # token /\ call[p].token > 0
    BY <1>7 DEF RefuseToken, AtStage, TokenInv
  <2>2. CASE call[p].refreshed
    <3>1. call'[p].stage = "failed" /\ call'[p].refreshed = call[p].refreshed /\ cached' = cached
      <4>1. Advance(p, "failed") /\ cached' = cached
        BY <1>7, <2>2 DEF RefuseToken
      <4> QED
        BY <1>1, <4>1 DEF Advance, Call
    <3>2. call[p].token # 1
      BY <1>7, <2>2 DEF TokenInv, RefuseToken, AtStage
    <3>3. token > 2
      BY <1>1, <2>1, <3>2
    <3> QED
      BY <1>1, <1>2, <1>3, <3>1, <3>3 DEF TokenInv
  <2>3. CASE ~call[p].refreshed
    <3>1. call'[p].stage = "token" /\ cached' = [cached EXCEPT ![ProcessOf[p]] = 0]
      BY <1>1, <1>7, <2>3 DEF RefuseToken, Call
    <3>2. \A a \in Processes : cached'[a] \in {cached[a], 0}
      BY <1>1, <3>1
    <3>3. cached'[ProcessOf[p]] = 0
      BY <1>1, <3>1
    <3>4. "tokenFailed" \notin CallMarks(p)
      BY <3>1 DEF CallMarks, FailsNow
    <3>5. token > 1
      BY <1>1, <2>1
    <3> QED
      BY <1>1, <1>2, <1>3, <1>4, <3>1, <3>2, <3>3, <3>4, <3>5 DEF TokenInv
  <2> QED
    BY <2>2, <2>3
<1>8. CASE Accept(p)
  <2>1. /\ cached' = cached /\ call'[p].refreshed = call[p].refreshed
             /\ call'[p].token = call[p].token
        /\ call'[p].stage \in {"delete", "done"} /\ call[p].stage \in {"request", "delete"}
    BY <1>1, <1>8 DEF Accept, Advance, AtStage, Call
  <2>2. "tokenFailed" \notin CallMarks(p)
    BY <2>1 DEF CallMarks, FailsNow
  <2> QED
    BY <1>1, <1>2, <1>3, <1>4, <2>1, <2>2 DEF TokenInv
<1>9. CASE Fault(p)
  <2>1. /\ cached' = cached /\ call'[p].refreshed = call[p].refreshed /\ call'[p].stage = "failed"
        /\ spent' = spent + 1
    BY <1>1, <1>9 DEF Fault, Advance, Spend, Call
  <2>2. "tokenFailed" \notin CallMarks(p)
    <3>1. spent' # spent
      BY <1>1, <2>1
    <3> QED
      BY <3>1 DEF CallMarks
  <2> QED
    BY <1>1, <1>2, <1>3, <1>4, <2>1, <2>2 DEF TokenInv
<1> QED
  BY <1>5, <1>6, <1>7, <1>8, <1>9 DEF SenderActs, SenderStep

LEMMA TokensHold == Spec => [](BaseInv /\ TokenInv)
<1>1. Init => TokenInv
  BY DEF Init, SenderInit, TokenInv, NoCall
<1>2. BaseInv /\ TokenInv /\ [Next]_vars => TokenInv'
  <2> SUFFICES ASSUME BaseInv, TokenInv, [Next]_vars PROVE TokenInv'
    OBVIOUS
  <2>1. CASE Elsewhere
    <3>1. \A q \in Callers : ProcessOf[q] \in Processes
      BY SenderAssumption
    <3> QED
      BY <2>1, <3>1, ElsewhereCalls DEF TokenInv, Fresh, NoCall
  <2>2. CASE \E p \in Callers : SenderActs(p)
    BY <2>2, SenderTokens
  <2>3. CASE TokenExpires
    <3>1. /\ token' = token + 1 /\ token \in Nat /\ UNCHANGED <<cached, call>> /\ marks' = marks
      BY <2>3 DEF TokenExpires, ExpireToken, Rest, BaseInv, SenderTyped
    <3>2. token' > 1 \/ token' = 1
      BY <3>1 DEF BaseInv, SenderTyped
    <3>3. (token > 1 => token' > 1) /\ (token > 2 => token' > 2)
      BY <3>1
    <3> QED
      BY <3>1, <3>3 DEF TokenInv
  <2> QED
    BY <2>1, <2>2, <2>3, StepKinds
<1> QED
  BY <1>1, <1>2, BaseAtStart, NextBase, PTL DEF Spec

(* One token that expires makes no call fail, whoever else is using the    *)
(* sender: by its second try a caller has dropped the cached token, so it  *)
(* is refused for good only when a second token has expired as well.       *)
THEOREM ExpirySurvived == Spec => []OneExpiryIsSurvived
<1>1. TokenInv => OneExpiryIsSurvived
  BY DEF TokenInv, OneExpiryIsSurvived
<1> QED
  BY <1>1, TokensHold, PTL

---------------------------------------------------------------------------
(* The steps once more, as the tellers and the chat see them.              *)

Later == ExecutorPlaces \ (StartPlaces \cup {"gone"})

ExecutorActs == ExecutorStep /\ UNCHANGED marks
NotifierActs(p) == NotifierStep(p) /\ UNCHANGED mediaVars /\ Rest

(* Steps that leave the tellers where they are: those of media, a token    *)
(* that expires.                                                           *)
Still ==
  /\ \A p \in Tellers : at'[p] = at[p] /\ call'[p] = call[p] /\ deliveries'[p] = deliveries[p]
  /\ UNCHANGED <<source, status, presentation, executionDelivery>>
  /\ UNCHANGED <<outcome, seen, beating, caught, marks>>
  /\ UNCHANGED <<card, posts, reaction>>

(* A throw or a death ends what an activity is doing.                      *)
Cut(p) ==
  /\ at[p] \notin {"idle", "gone"} /\ (p # Executor => at[p] # "told")
  /\ at'[p] = "gone" \/ at'[p] = CatchOf(p)
  /\ call'[p] = NoCall
  /\ \A q \in Callers \ {p} : at'[q] = at[q] /\ call'[q] = call[q]
  /\ UNCHANGED storeVars
  /\ UNCHANGED <<outcome, seen, caught>> /\ UNCHANGED <<card, posts, reaction>>
  /\ beating' => beating
  /\ marks \subseteq marks' /\ marks' \subseteq marks \cup {"endDropped", "late", "unrecorded"}
  /\ at'[p] = "gone" /\ TellingEnd(p) => {"endDropped", "late"} \subseteq marks'
  /\ at[p] \in {"creating", "streaming"} => "unrecorded" \in marks'

LEMMA MediaStill ==
  ASSUME BaseInv, MediaStep, Rest
  PROVE  Still
<1>1. Media \notin Tellers /\ Tellers \subseteq Callers /\ Media \in Callers
  BY RunAssumption DEF Media, Tellers
<1>2. MediaParts /\ UNCHANGED <<seen, outcome, delta, window>>
  BY DEF MediaStep, MediaParts
<1>3. \A p \in Tellers : at'[p] = at[p] /\ call'[p] = call[p]
  BY <1>1, <1>2, MediaSender
<1>4. UNCHANGED <<source, status, presentation, executionDelivery>>
  BY <1>2 DEF MediaParts, CheckContext, CreateRequest, SourceFails, Upload, Uploaded,
    UploadFails, Deliver, Delivered, Finish, DeliveryFails, SendingFails, MediaThrows,
      TableOnly, storeVars
<1>5. \A p \in Tellers : deliveries'[p] = deliveries[p]
  <2>1. \/ deliveries' = deliveries
        \/ \E x : deliveries' = [deliveries EXCEPT ![Media] = x]
    BY <1>2 DEF MediaParts, CheckContext, CreateRequest, SourceFails, Upload, Uploaded,
      UploadFails, Deliver, Delivered, Finish, DeliveryFails, SendingFails, MediaThrows,
        TableOnly, storeVars, CreateDelivery, MarkDelivery
  <2> QED
    BY <1>1, <2>1 DEF BaseInv, StoreTyped
<1>6. UNCHANGED <<card, posts, reaction>>
  BY MediaAsks DEF Answer, Ask, ExceptCall, senderVars
<1> QED
  BY <1>2, <1>3, <1>4, <1>5, <1>6 DEF Still, Rest, executorVars

LEMMA RejectedCuts ==
  ASSUME BaseInv, NEW p \in Callers, Rejected(p)
  PROVE  Cut(p)
<1>1. /\ at'[p] = CatchOf(p) /\ \A q \in Callers \ {p} : at'[q] = at[q]
  BY DEF Rejected, Go, BaseInv, HandlersTyped
<1>2. call'[p] = NoCall /\ \A q \in Callers \ {p} : call'[q] = call[q]
  BY DEF Rejected, Forget, BaseInv, SenderTyped
<1>3. at[p] \notin {"idle", "gone", "told"}
  BY DEF Rejected, AtTable, Called
<1>4. /\ UNCHANGED storeVars /\ UNCHANGED <<outcome, seen, caught>> /\ UNCHANGED <<card, posts,
           reaction>>
      /\ beating' => beating
  BY DEF Rejected
<1>5. CutShort(p, CatchOf(p) = "gone")
  BY DEF Rejected
<1>6. /\ marks \subseteq marks' /\ marks' \subseteq marks \cup {"endDropped", "late", "unrecorded"}
      /\ at'[p] = "gone" /\ TellingEnd(p) => {"endDropped", "late"} \subseteq marks'
      /\ at[p] \in {"creating", "streaming"} => "unrecorded" \in marks'
  BY <1>1, <1>5 DEF CutShort, Note
<1> QED
  BY <1>1, <1>2, <1>3, <1>4, <1>6 DEF Cut

LEMMA CollisionCuts ==
  ASSUME BaseInv, NEW p \in Tellers, InsertCollides(p)
  PROVE  Cut(p)
<1>1. p \in Callers /\ at[p] = "insertPending"
  BY RunAssumption DEF InsertCollides, At, Tellers
<1>2. call[p] = NoCall
  BY <1>1 DEF BaseInv, Calls, Waiting
<1> QED
  BY <1>1, <1>2 DEF InsertCollides, Go, BaseInv, HandlersTyped, Cut, TellingEnd, storeVars,
    senderVars, executorVars

LEMMA DeathCuts ==
  ASSUME BaseInv, ExecutorDies
  PROVE  Cut(Executor)
<1>0. Executor \in Callers
  BY RunAssumption DEF Executor, Tellers
<1>1. /\ at'[Executor] = "gone" /\ \A q \in Callers \ {Executor} : at'[q] = at[q]
  BY <1>0 DEF ExecutorDies, Go, BaseInv, HandlersTyped
<1>2. call'[Executor] = NoCall /\ \A q \in Callers \ {Executor} : call'[q] = call[q]
  BY <1>0 DEF ExecutorDies, Forget, BaseInv, SenderTyped
<1>3. at[Executor] \notin {"idle", "gone"}
  BY DEF ExecutorDies
<1>4. /\ UNCHANGED storeVars /\ UNCHANGED <<outcome, seen, caught>> /\ UNCHANGED <<card, posts,
           reaction>>
      /\ beating' => beating
  BY DEF ExecutorDies, executorVars
<1>5. CutShort(Executor, TRUE)
  BY DEF ExecutorDies
<1>6. /\ marks \subseteq marks' /\ marks' \subseteq marks \cup {"endDropped", "late", "unrecorded"}
      /\ at'[Executor] = "gone" /\ TellingEnd(Executor) => {"endDropped", "late"} \subseteq marks'
      /\ at[Executor] \in {"creating", "streaming"} => "unrecorded" \in marks'
  BY <1>1, <1>5 DEF CutShort, Note
<1> QED
  BY <1>1, <1>2, <1>3, <1>4, <1>6 DEF Cut

LEMMA StepsSeen ==
  ASSUME BaseInv, [Next]_vars
  PROVE  \/ ExecutorActs \/ (\E p \in Tellers : NotifierActs(p)) \/ Still \/ Reap
         \/ (\E p \in Callers : SenderActs(p)) \/ (\E p \in Callers : Cut(p))
<1>0. Media \notin Tellers /\ Tellers \subseteq Callers /\ Media \in Callers /\ Executor \in Callers
  BY RunAssumption DEF Media, Tellers, Executor
<1>1. MediaStep /\ Rest => Still
  BY MediaStill
<1>2. RequestMedia /\ UNCHANGED <<seen, outcome, delta, window>> /\ Rest => Still
  <2>1. RequestMedia => \A p \in Tellers : at'[p] = at[p]
    BY <1>0 DEF RequestMedia, Go, BaseInv, HandlersTyped
  <2> QED
    BY <1>0, <2>1 DEF RequestMedia, Rest, executorVars, storeVars, Still
<1>3. TokenExpires => Still
  BY DEF TokenExpires, ExpireToken, Rest, executorVars, storeVars, handlerVars, Still
<1>4. UNCHANGED vars => Still
  BY DEF vars, senderVars, storeVars, handlerVars, Still
<1>5. (\E p \in Callers : Rejected(p)) \/ (\E p \in Tellers : InsertCollides(p)) \/ ExecutorDies =>
        \E p \in Callers : Cut(p)
  BY <1>0, RejectedCuts, CollisionCuts, DeathCuts
<1> QED
  BY <1>1, <1>2, <1>3, <1>4, <1>5, StepKinds DEF Elsewhere, ExecutorActs, NotifierActs

(* Where a cut leads.                                                      *)
LEMMA CutPlaces ==
  ASSUME BaseInv, NEW p \in Callers, Cut(p)
  PROVE  /\ p = "gateway" => at'[p] = "gone"
         /\ p = "reaper" => at'[p] = "gone" \/ (at[p] \in EndPlaces
              /\ at'[p] \in {"completeCatch", "fallbackCatch"})
         /\ p = Executor =>
              at'[p] = "gone" \/ (at'[p] \in {"completeCatch", "fallbackCatch", "catch"}
                /\ at[p] \in Later)
         /\ at'[p] = "completeCatch" =>
              at[p] = "markTerminal" \/ (at[p] = "completing" /\ Succeeded(p))
         /\ at'[p] = "fallbackCatch" => at[p] = "attach" \/ (at[p] = "falling" /\ Succeeded(p))
         /\ p \in Tellers => at'[p] \in {"gone", "catch", "completeCatch", "fallbackCatch"}
         /\ at'[p] = "catch" => p = Executor /\ caught
<1>1. /\ Executor \in Tellers /\ {"gateway", "reaper"} \subseteq Tellers
           /\ Tellers \subseteq Callers
      /\ Executor \notin {"gateway", "reaper"}
  BY RunAssumption DEF Executor, Tellers
<1>2. /\ p = "gateway" => at'[p] = "gone"
      /\ p \in Tellers => at'[p] \in {"gone", "catch", "completeCatch", "fallbackCatch"}
      /\ at'[p] \in {"completeCatch", "fallbackCatch"} => at[p] \in EndPlaces
      /\ at'[p] = "catch" => p = Executor /\ caught
  <2>1. {"completing", "markTerminal", "falling", "attach"} \subseteq EndPlaces
    BY DEF EndPlaces
  <2> QED
    BY <2>1, CatchPlaces DEF Cut
<1>3. /\ at'[p] = "completeCatch" => at[p] = "markTerminal" \/ (at[p] = "completing"
           /\ Succeeded(p))
      /\ at'[p] = "fallbackCatch" => at[p] = "attach" \/ (at[p] = "falling" /\ Succeeded(p))
  BY DEF Cut, CatchOf, OwnCatch
<1>4. p = Executor /\ at'[p] # "gone" => at[p] \in Later
  <2>1. at[Executor] \in ExecutorPlaces /\ (at[Executor] \in StartPlaces => ~caught)
        /\ StartPlaces \cap EndPlaces = {}
    BY DEF BaseInv, PlacesHold, StartPlaces, EndPlaces
  <2> QED
    BY <1>1, <1>2, <2>1 DEF Cut, Later
<1> QED
  BY <1>1, <1>2, <1>3, <1>4

(* What a step of the sender shows.                                        *)
LEMMA SenderShows ==
  ASSUME BaseInv, NEW p \in Callers, SenderActs(p)
  PROVE  /\ at[p] \in Waiting /\ call[p].stage \notin {"none", "done", "failed"}
         /\ card' = card \/ (at[p] \in {"creating", "updating", "completing"}
              /\ card' = call[p].body)
         /\ posts' = posts \/ (at[p] = "falling" /\ posts' = Append(posts, call[p].body.status))
         /\ reaction' => reaction \/ at[p] = "reacting"
         /\ Succeeded(p)' =>
              /\ at[p] \in {"creating", "updating", "completing"} => card' = call[p].body
              /\ at[p] = "falling" => posts' = Append(posts, call[p].body.status)
         /\ call'[p].op = call[p].op /\ call'[p].body = call[p].body
         /\ \A q \in Callers \ {p} : call'[q] = call[q]
         /\ marks' = marks \cup CallMarks(p)
<1>1. /\ call[p].stage \notin {"none", "done", "failed"}
  BY DEF SenderActs, SenderStep, TakeToken, IssueToken, RefuseToken, Accept, Fault, AtStage
<1>2. /\ at[p] \in Waiting
      /\ call[p].op = "createCard" <=> at[p] = "creating"
      /\ call[p].op = "updateCard" <=> at[p] = "updating"
      /\ call[p].op = "completeCard" <=> at[p] = "completing"
      /\ call[p].op = "sendFallbackTerminal" <=> at[p] = "falling"
      /\ call[p].op = "addReaction" <=> at[p] = "reacting"
  BY <1>1, CallPlaces
<1>3. Effect(p) =>
         /\ card' = card \/ (at[p] \in {"creating", "updating", "completing"}
              /\ card' = call[p].body)
         /\ posts' = posts \/ (at[p] = "falling" /\ posts' = Append(posts, call[p].body.status))
         /\ reaction' => reaction \/ at[p] = "reacting"
         /\ at[p] \in {"creating", "updating", "completing"} => card' = call[p].body
         /\ at[p] = "falling" => posts' = Append(posts, call[p].body.status)
  <2>1. PostCard(p) \/ PatchRunning(p) \/ PatchClosed(p) =>
          /\ at[p] \in {"creating", "updating", "completing"} /\ card' = call[p].body
          /\ UNCHANGED <<posts, reaction>>
    BY <1>2 DEF PostCard, PatchRunning, PatchClosed, Asks
  <2>2. PostTerminal(p) =>
          /\ at[p] = "falling" /\ posts' = Append(posts, call[p].body.status)
          /\ UNCHANGED <<card, reaction>>
    BY <1>2 DEF PostTerminal, Asks
  <2>3. PostReaction(p) => at[p] = "reacting" /\ UNCHANGED <<card, posts>>
    BY <1>2 DEF PostReaction, Asks
  <2>4. DropReaction(p) =>
          (reaction' => reaction) /\ UNCHANGED <<card, posts>>
            /\ at[p] \notin {"creating", "updating", "completing", "falling"}
    BY <1>2 DEF DropReaction, Asks
  <2>5. PostAsset(p) \/ PostMedia(p) =>
          /\ UNCHANGED <<card, posts, reaction>>
          /\ at[p] \notin {"creating", "updating", "completing", "falling"}
    BY <1>2 DEF PostAsset, PostMedia, Asks
  <2> QED
    BY <2>1, <2>2, <2>3, <2>4, <2>5 DEF Effect
<1>4. Effect(p) \/ UNCHANGED <<card, posts, reaction>>
  BY DEF SenderActs, SenderStep, TakeToken, IssueToken, RefuseToken, Accept, Fault
<1>5. Succeeded(p)' => Effect(p)
  <2>1. call \in [Callers -> Call] /\ call[p] \in Call
    BY DEF BaseInv, SenderTyped
  <2> QED
    BY <2>1 DEF SenderActs, SenderStep, TakeToken, IssueToken, RefuseToken, Accept, Fault,
      Advance, Succeeded, Call
<1>6. /\ call'[p].op = call[p].op /\ call'[p].body = call[p].body
      /\ \A q \in Callers : q # p => call'[q] = call[q]
  BY SenderCalls DEF SenderActs
<1>7. marks' = marks \cup CallMarks(p)
  BY DEF SenderActs, Note
<1> HIDE DEF Effect, Succeeded
<1> QED
  BY <1>1, <1>2, <1>3, <1>4, <1>5, <1>6, <1>7

(* The executor's own steps.                                               *)
ExecutorWays ==
  LET here == at[Executor]
      to   == at'[Executor] IN
  \/ here = "idle" /\ to = "started" /\ status' = "running" /\ outcome' = outcome
  \/ /\ here = "told" /\ status' = status
     /\ \/ to = "gone" /\ outcome[Executor] # None /\ outcome' = outcome
        \/ to = "stream" /\ outcome[Executor] = None /\ outcome' = outcome
        \/ to = "persist" /\ outcome[Executor] = None
  \/ /\ here = "stream" /\ status' = status
     /\ \/ to \in {"delta", "stream", "persist"} /\ status = "running"
        \/ to = "gone" /\ status # "running"
     /\ to # "persist" => outcome' = outcome
  \/ here = "persist" /\ to = "ended" /\ status' = outcome[Executor] /\ outcome' = outcome
  \/ here = "catch" /\ to = "ended" /\ status' = "failed" /\ outcome'[Executor] = "failed"

LEMMA ExecutorGoes ==
  ASSUME BaseInv, ExecutorActs
  PROVE  /\ ExecutorWays
         /\ \A q \in Callers \ {Executor} : at'[q] = at[q] /\ outcome'[q] = outcome[q]
         /\ UNCHANGED <<source, presentation, deliveries, executionDelivery>>
         /\ UNCHANGED <<card, posts, reaction, call, marks>>
         /\ call[Executor] = NoCall
         /\ beating' => beating \/ at[Executor] = "told"
<1>0. Executor \in Callers
  BY RunAssumption DEF Executor, Tellers
<1>1. HandlersTyped /\ marks' = marks
  BY DEF BaseInv, ExecutorActs
<1>2. call[Executor] = NoCall
  <2>1. Silent(Executor)
    BY DEF ExecutorActs, ExecutorStep, StartRun, Resume, Output, RetryFresh, TakeOutcome,
      PersistOutcome, CatchFailure, Doing, At
  <2> QED
    BY <1>0, <2>1 DEF BaseInv, Calls, Busy, Silent, Stages, Waiting
<1>3. CASE StartRun \/ PersistOutcome
  BY <1>0, <1>1, <1>2, <1>3 DEF StartRun, PersistOutcome, MarkRun, Doing, At, Go, HandlersTyped,
    ExecutorWays, senderVars, executorVars
<1>4. CASE Resume
  BY <1>0, <1>1, <1>2, <1>4 DEF Resume, Doing, At, Go, HandlersTyped, ExecutorWays, senderVars,
    storeVars
<1>5. CASE Output \/ RetryFresh
  <2>1. CASE Output
    BY <1>0, <1>1, <1>2, <2>1 DEF Output, Doing, At, Go, HandlersTyped, ExecutorWays,
      UnlessSpent, storeVars
  <2>2. CASE RetryFresh
    BY <1>0, <1>1, <1>2, <2>2 DEF RetryFresh, Doing, At, HandlersTyped, ExecutorWays,
      UnlessSpent, storeVars, handlerVars
  <2> QED
    BY <1>5, <2>1, <2>2
<1>6. CASE TakeOutcome
  BY <1>0, <1>1, <1>2, <1>6 DEF TakeOutcome, Doing, At, Go, HandlersTyped, ExecutorWays,
    senderVars, storeVars
<1>7. CASE CatchFailure
  BY <1>0, <1>1, <1>2, <1>7 DEF CatchFailure, MarkRun, Doing, At, Go, HandlersTyped,
    ExecutorWays, senderVars
<1> QED
  BY <1>3, <1>4, <1>5, <1>6, <1>7 DEF ExecutorActs, ExecutorStep

(* The notifier's: from where to where, upon which answer, and what        *)
(* becomes of the row.                                                     *)
StartWays(p) ==
  LET here == at[p]
      to   == at'[p] IN
  \/ here = "queued" /\ to = "reacting" /\ source = "chat"
  \/ here = "queued" /\ to = "getPending" /\ Interactive
  \/ here = "queued" /\ to = "told"
  \/ here = "reacting" /\ to = "getPending"
  \/ here = "getPending" /\ to = "insertPending"
  \/ here = "getPending" /\ to = Continue(p) /\ presentation # NoPresentation
  \/ here = "insertPending" /\ to = Continue(p) /\ presentation = NoPresentation
       /\ presentation' = Pending
  \/ here = "started" /\ to = "told" /\ ~Interactive
  \/ here = "started" /\ to = "getPending" /\ Interactive
  \/ here = "started" /\ to = "cardCreate" /\ Interactive /\ presentation # NoPresentation
  \/ here = "cardCreate" /\ to = "creating"
  \/ here = "creating" /\ to = "streaming" /\ Succeeded(p)
  \/ here = "creating" /\ to = "degrade" /\ Failed(p)
  \/ here \in {"streaming", "degrade"} /\ to = "told"

OutputWays(p) ==
  LET here == at[p]
      to   == at'[p] IN
  \/ here = "delta" /\ to = "updating" /\ presentation.card
  \/ here = "delta" /\ to = "told"
  \/ here = "updating" /\ to = "output" /\ Succeeded(p)
  \/ here = "updating" /\ to = "degrade" /\ Failed(p)
  \/ here = "output" /\ to = "told"

EndWays(p) ==
  LET here == at[p]
      to   == at'[p] IN
  \/ here = "ended" /\ to = "unreacting" /\ source = "chat"
  \/ here = "ended" /\ to = "closing" /\ source # "chat"
  \/ here = "unreacting" /\ to = "closing" /\ (Succeeded(p) \/ Failed(p))
  \/ here = "closing" /\ to = "completing" /\ presentation.card
  \/ here = "closing" /\ to = "told" /\ presentation = NoPresentation
  \/ here = "closing" /\ to = "reread" /\ ~presentation.card
  \/ here = "completing" /\ to = "markTerminal" /\ Succeeded(p)
  \/ here = "completing" /\ to = "degradeClosing" /\ Failed(p)
  \/ here = "completeCatch" /\ to = "degradeClosing"
  \/ here \in {"markTerminal", "degradeClosing"} /\ to = "reread"
  \/ here = "reread" /\ to = "falling" /\ ~presentation.card
  \/ here = "reread" /\ to = "told" /\ presentation.card
  \/ here = "falling" /\ to = "attach" /\ Succeeded(p)
  \/ here = "falling" /\ to = "told" /\ Failed(p)
  \/ here \in {"attach", "fallbackCatch"} /\ to = "told"

RowWays(p) ==
  /\ presentation'.card = (presentation.card \/ at[p] = "streaming")
  /\ presentation'.fallback = (presentation.fallback \/ at[p] = "attach")
  /\ presentation'.phase =
       IF at[p] = "insertPending" THEN "pending_start"
       ELSE IF at[p] = "streaming" THEN "streaming"
       ELSE IF at[p] \in {"degrade", "degradeClosing"} THEN "degraded"
       ELSE IF at[p] = "markTerminal" THEN outcome[p]
       ELSE presentation.phase
  /\ presentation # NoPresentation => presentation' # NoPresentation
  /\ presentation' = presentation \/ at[p] \in {"insertPending", "streaming", "degrade", "output",
                                               "degradeClosing", "markTerminal", "attach"}

LEMMA NotifierRows ==
  ASSUME BaseInv, NEW p \in Tellers, NotifierActs(p)
  PROVE  RowWays(p)
<1>1. /\ presentation \in
           [phase : {"none", "pending_start", "streaming", "degraded"} \cup Ends,
            terminal : Ends \cup {None}, card : BOOLEAN, fallback : BOOLEAN, reason : BOOLEAN,
              last : Nat]
      /\ presentation # NoPresentation => presentation' # NoPresentation
  BY RowFields, NotifierRow DEF BaseInv, NotifierActs
<1>2. CASE presentation' = presentation /\ at[p] \notin {"insertPending", "streaming",
  "degrade", "degradeClosing", "markTerminal", "attach"}
  BY <1>1, <1>2 DEF RowWays
<1>3. CASE InsertPending(p)
  BY <1>1, <1>3 DEF InsertPending, Insert, Pending, NoPresentation, At, RowWays
<1>4. CASE MarkStreaming(p)
  <2>1. presentation'.phase # "none"
    BY <1>1, <1>4 DEF MarkStreaming, MarkPresentationStreaming
  <2>2. presentation' # NoPresentation
    BY <2>1 DEF NoPresentation
  <2> QED
    BY <1>1, <1>4, <2>2 DEF MarkStreaming, MarkPresentationStreaming, At, RowWays
<1>5. CASE Degrade(p)
  <2>1. presentation'.phase # "none"
    BY <1>1, <1>5 DEF Degrade, MarkPresentationDegraded
  <2>2. presentation' # NoPresentation
    BY <2>1 DEF NoPresentation
  <2> QED
    BY <1>1, <1>5, <2>2 DEF Degrade, MarkPresentationDegraded, At, RowWays
<1>6. CASE SaveOutput(p)
  <2>1. presentation # NoPresentation
    BY <1>6 DEF SaveOutput, At, BaseInv, HasRow
  <2> QED
    BY <1>1, <1>6, <2>1 DEF SaveOutput, UpdatePresentationOutput, At, RowWays
<1>7. CASE MarkTerminal(p)
  <2>1. presentation # NoPresentation
    BY <1>7 DEF MarkTerminal, At, BaseInv, HasRow, EndPlaces
  <2> QED
    BY <1>1, <1>7, <2>1 DEF MarkTerminal, MarkPresentationTerminal, At, RowWays
<1>8. CASE AttachFallback(p)
  <2>1. presentation # NoPresentation
    BY <1>8 DEF AttachFallback, At, BaseInv, HasRow, EndPlaces
  <2> QED
    BY <1>1, <1>8, <2>1 DEF AttachFallback, AttachFallbackTerminal, At, RowWays
<1>9. CASE GetPending(p) \/ HandleStarted(p)
  BY <1>2, <1>9 DEF GetPending, HandleStarted, OnlyMoves, storeVars, At
<1>10. CASE Answering(p)
  <2>1. presentation' = presentation
    BY <1>10 DEF Answering, Reacted, CardCreated, CardFails, CardUpdated, ReactionRemoved,
      CardCompleted, CompleteFails, FallbackSent, FallbackFails, storeVars
  <2>2. at[p] \notin {"insertPending", "streaming", "degrade", "degradeClosing", "markTerminal",
    "attach"}
    BY <1>10 DEF Answering, Reacted, CardCreated, CardFails, CardUpdated, ReactionRemoved,
      CardCompleted, CompleteFails, FallbackSent, FallbackFails, Called, At
  <2> QED
    BY <1>2, <2>1, <2>2
<1>11. CASE Asking(p)
  <2>1. presentation' = presentation
    BY <1>11 DEF Asking, React, CreateCard, HandleDelta, RemoveReaction, HandleTerminal, Reread,
      storeVars
  <2>2. at[p] \notin {"insertPending", "streaming", "degrade", "degradeClosing", "markTerminal",
    "attach"}
    BY <1>11 DEF Asking, React, CreateCard, HandleDelta, RemoveReaction, HandleTerminal, Reread, At
  <2> QED
    BY <1>2, <2>1, <2>2
<1> QED
  BY <1>3, <1>4, <1>5, <1>6, <1>7, <1>8, <1>9, <1>10, <1>11, NotifierKinds DEF NotifierActs, Quietly

LEMMA NotifierGoes ==
  ASSUME BaseInv, NEW p \in Tellers, NotifierActs(p)
  PROVE  /\ StartWays(p) \/ OutputWays(p) \/ EndWays(p)
         /\ RowWays(p)
         /\ \A q \in Callers \ {p} : at'[q] = at[q] /\ call'[q] = call[q]
         /\ UNCHANGED <<source, status, outcome, beating, caught, marks>>
         /\ UNCHANGED <<card, posts, reaction>>
         /\ IF at'[p] \in Waiting THEN call'[p].stage = "token" ELSE call'[p] = NoCall
<1>0. p \in Callers /\ HandlersTyped /\ BaseInv'
  BY RunAssumption, NotifierBase DEF Tellers, BaseInv, NotifierActs
<1>1. StartWays(p) \/ OutputWays(p) \/ EndWays(p)
  <2>1. CASE Quietly(p)
    <3>1. CASE GetPending(p) \/ InsertPending(p) \/ HandleStarted(p) \/ MarkStreaming(p)
      BY <1>0, <3>1 DEF GetPending, InsertPending, Insert, HandleStarted, MarkStreaming, At, Go,
        HandlersTyped, StartWays
    <3>2. CASE Degrade(p) \/ SaveOutput(p) \/ MarkTerminal(p) \/ AttachFallback(p)
      BY <1>0, <3>2 DEF Degrade, SaveOutput, MarkTerminal, AttachFallback, At, Go,
        HandlersTyped, StartWays, OutputWays, EndWays
    <3> QED
      BY <2>1, <3>1, <3>2 DEF Quietly
  <2>2. CASE Answering(p)
    <3>1. CASE Reacted(p) \/ CardCreated(p) \/ CardFails(p) \/ CardUpdated(p)
      BY <1>0, <3>1 DEF Reacted, CardCreated, CardFails, CardUpdated, Called, Go, HandlersTyped,
        StartWays, OutputWays
    <3>2. CASE ReactionRemoved(p) \/ CardCompleted(p) \/ CompleteFails(p) \/ FallbackSent(p)
      \/ FallbackFails(p)
      BY <1>0, <3>2 DEF ReactionRemoved, CardCompleted, CompleteFails, FallbackSent,
        FallbackFails, Called, At, Go, HandlersTyped, EndWays
    <3> QED
      BY <2>2, <3>1, <3>2 DEF Answering
  <2>3. CASE Asking(p)
    <3>1. CASE React(p) \/ CreateCard(p) \/ HandleDelta(p)
      BY <1>0, <3>1 DEF React, CreateCard, HandleDelta, At, Go, HandlersTyped, StartWays, OutputWays
    <3>2. CASE RemoveReaction(p) \/ HandleTerminal(p) \/ Reread(p)
      BY <1>0, <3>2 DEF RemoveReaction, HandleTerminal, Reread, NeedsFallback, At, Go,
        HandlersTyped, EndWays
    <3> QED
      BY <2>3, <3>1, <3>2 DEF Asking
  <2> QED
    BY <2>1, <2>2, <2>3, NotifierKinds DEF NotifierActs
<1>2. RowWays(p)
  BY NotifierRows
<1>3. \A q \in Callers \ {p} : at'[q] = at[q] /\ call'[q] = call[q]
  BY NotifierRun, NotifierSender DEF NotifierActs
<1>4. UNCHANGED <<source, status, outcome, beating, caught, marks>>
  <2>1. UNCHANGED <<source, status>>
    BY DEF NotifierActs, NotifierStep, GetPending, InsertPending, HandleStarted, MarkStreaming,
      Degrade, SaveOutput, MarkTerminal, AttachFallback, Reacted, CardCreated, CardFails,
        CardUpdated, ReactionRemoved, CardCompleted, CompleteFails, FallbackSent, FallbackFails,
          React, CreateCard, HandleDelta, RemoveReaction, HandleTerminal, Reread, OnlyMoves,
            storeVars
  <2> QED
    BY <2>1, NotifierRun DEF NotifierActs, Rest, executorVars
<1>5. UNCHANGED <<card, posts, reaction>>
  BY NotifierAsks DEF NotifierActs, Answer, Ask, ExceptCall, senderVars
<1>6. IF at'[p] \in Waiting THEN call'[p].stage = "token" ELSE call'[p] = NoCall
  <2>1. at'[p] \notin Waiting => call'[p] = NoCall
    BY <1>0 DEF BaseInv, Calls
  <2>2. at'[p] \in Waiting => call'[p].stage \in Stages
    BY <1>0 DEF BaseInv, Calls, Busy, Waiting
  <2>3. UNCHANGED senderVars /\ at'[p] \in Waiting => FALSE
    <3>1. UNCHANGED senderVars => call'[p] = NoCall \/ ~(Asking(p) \/ Quietly(p))
      <4>1. Asking(p) \/ Quietly(p) => call[p] = NoCall
        <5>1. Asking(p) \/ Quietly(p) => Silent(p)
          BY DEF Asking, React, CreateCard, HandleDelta, RemoveReaction, HandleTerminal, Reread,
            Quietly, GetPending, InsertPending, HandleStarted, MarkStreaming, Degrade,
              SaveOutput, MarkTerminal, AttachFallback, At
        <5> QED
          BY <1>0, <5>1 DEF BaseInv, Calls, Busy, Silent, Stages, Waiting
      <4> QED
        BY <4>1 DEF senderVars
    <3>2. Answering(p) => call'[p] = NoCall
      <4>1. Answering(p) => Answer(p)
        BY DEF Answering, Reacted, CardCreated, CardFails, CardUpdated, ReactionRemoved,
                CardCompleted, CompleteFails, FallbackSent, FallbackFails
      <4> QED
        BY <1>0, <4>1, AnswerTyped DEF BaseInv
    <3> QED
      BY <2>2, <3>1, <3>2, NotifierKinds DEF NotifierActs, NoCall, Stages
  <2>4. at'[p] \in Waiting => call'[p].stage = "token"
    <3>1. UNCHANGED senderVars \/ Answer(p) \/ \E op, body : Ask(p, op, body)
      BY NotifierAsks DEF NotifierActs
    <3>2. Answer(p) => call'[p] = NoCall
      BY <1>0, AnswerTyped DEF BaseInv
    <3>3. \A op, body : Ask(p, op, body) => call'[p].stage = "token"
      BY <1>0 DEF Ask, Begin, BaseInv, SenderTyped
    <3> QED
      BY <2>2, <2>3, <3>1, <3>2, <3>3 DEF NoCall, Stages
  <2> QED
    BY <2>1, <2>4
<1> QED
  BY <1>1, <1>2, <1>3, <1>4, <1>5, <1>6

---------------------------------------------------------------------------
(* One message: the card of a run in whose chat nothing went wrong is on   *)
(* record as long as anybody might need it.                                *)

ChatPlaces ==
  {"reacting", "getPending", "insertPending", "cardCreate", "creating", "streaming", "degrade"}
CardNeeded == beating \/ at[Executor] \in Later \/ at["reaper"] \in EndPlaces

CardInv ==
  /\ ~Interactive => presentation = NoPresentation /\ \A p \in Tellers : at[p] \notin ChatPlaces
  /\ Interactive /\ CardNeeded => presentation # NoPresentation
  /\ at[Executor] \in {"cardCreate", "creating", "streaming"} => presentation # NoPresentation
  /\ "unrecorded" \notin marks =>
       /\ posts = <<>> /\ \A p \in Tellers : at[p] # "falling"
       /\ Interactive /\ CardNeeded => presentation.card
       /\ ~(at[Executor] = "creating" /\ Failed(Executor))

LEMMA TellersAre ==
  /\ Tellers = {"gateway", "reaper", Executor} /\ Tellers \subseteq Callers
  /\ Executor \notin {"gateway", "reaper"}
BY RunAssumption DEF Tellers, Executor

LEMMA TellersPlaces ==
  ASSUME BaseInv
  PROVE  /\ at["gateway"] \in GatewayPlaces /\ at["reaper"] \in ReaperPlaces
         /\ at[Executor] \in ExecutorPlaces
BY DEF BaseInv, PlacesHold

LEMMA CardOfExecutor ==
  ASSUME BaseInv, CardInv, ExecutorActs
  PROVE  CardInv'
<1>1. /\ ExecutorWays /\ (\A q \in Callers \ {Executor} : at'[q] = at[q])
      /\ UNCHANGED <<source, presentation, posts, call, marks>>
      /\ beating' => beating \/ at[Executor] = "told"
  BY ExecutorGoes
<1>2. at'["gateway"] = at["gateway"] /\ at'["reaper"] = at["reaper"]
  BY <1>1, TellersAre
<1>3. /\ at'[Executor] \in {"started", "gone", "stream", "persist", "delta", "ended"}
      /\ at[Executor] = "idle" \/ at[Executor] \in Later
      /\ at[Executor] = "idle" => at'[Executor] = "started"
      /\ "told" \in Later
  BY <1>1 DEF ExecutorWays, Later, ExecutorPlaces, StartPlaces, StreamPlaces, EndPlaces
<1>4. CardNeeded' => CardNeeded
  BY <1>1, <1>2, <1>3 DEF CardNeeded, Later, StartPlaces
<1> QED
  BY <1>1, <1>2, <1>3, <1>4, TellersAre DEF CardInv, Interactive, ChatPlaces

LEMMA CardOfNotifier ==
  ASSUME BaseInv, CardInv, NEW p \in Tellers, NotifierActs(p)
  PROVE  CardInv'
<1>1. /\ StartWays(p) \/ OutputWays(p) \/ EndWays(p)
      /\ presentation'.card = (presentation.card \/ at[p] = "streaming")
      /\ presentation # NoPresentation => presentation' # NoPresentation
      /\ presentation' = presentation \/ at[p] \in {"insertPending", "streaming", "degrade",
           "output",
                                               "degradeClosing", "markTerminal", "attach"}
      /\ at'[p] \in Waiting => call'[p].stage = "token"
  BY NotifierGoes, TellersAre DEF RowWays
<1>2. /\ \A q \in Tellers \ {p} : at'[q] = at[q] /\ call'[q] = call[q]
      /\ UNCHANGED <<source, beating, marks, posts>>
  BY NotifierGoes, TellersAre
<1>3. /\ at["gateway"] \in GatewayPlaces /\ at["reaper"] \in ReaperPlaces
           /\ at[Executor] \in ExecutorPlaces
      /\ HasRow(p)
  BY TellersPlaces DEF BaseInv
<1>4. CASE ~Interactive
  <2>1. presentation = NoPresentation /\ \A q \in Tellers : at[q] \notin ChatPlaces
    BY <1>4 DEF CardInv
  <2>2. presentation.card = FALSE
    BY <2>1 DEF NoPresentation
  <2>3. at[p] \notin {"output"} \cup (EndPlaces \ {"ended", "unreacting", "closing"})
    BY <1>3, <2>1 DEF HasRow
  <2>4. at'[p] \notin ChatPlaces \cup {"falling"}
    <3>1. StartWays(p) => at'[p] \notin ChatPlaces \cup {"falling"}
      BY <1>4, <2>1 DEF StartWays, ChatPlaces, Interactive
    <3>2. OutputWays(p) => at'[p] \notin ChatPlaces \cup {"falling"}
      BY <1>3, <2>1 DEF OutputWays, ChatPlaces, HasRow
    <3>3. EndWays(p) => at'[p] \notin ChatPlaces \cup {"falling"}
      BY <2>3 DEF EndWays, ChatPlaces, EndPlaces
    <3> QED
      BY <1>1, <3>1, <3>2, <3>3
  <2>5. presentation' = NoPresentation
    BY <1>1, <2>1, <2>3 DEF ChatPlaces, EndPlaces
  <2>6. ~Interactive' /\ "creating" \in ChatPlaces /\ at[Executor] \notin {"cardCreate",
    "creating", "streaming"}
        /\ at'[Executor] \notin {"cardCreate", "creating", "streaming"}
    BY <1>2, <1>4, <2>1, <2>4, TellersAre DEF Interactive, ChatPlaces
  <2> QED
    BY <1>2, <1>4, <2>1, <2>4, <2>5, <2>6, TellersAre DEF CardInv
<1>5. CASE Interactive
  <2>1. Interactive'
    BY <1>2, <1>5 DEF Interactive
  <2>2. CASE p = "gateway"
    <3>1. at'[p] # "falling" /\ at[p] \notin {"streaming"}
      BY <1>1, <1>3, <2>2 DEF StartWays, OutputWays, EndWays, GatewayPlaces, Continue
    <3>2. at'["reaper"] = at["reaper"] /\ at'[Executor] = at[Executor]
      /\ call'[Executor] = call[Executor]
      BY <1>2, <2>2, TellersAre
    <3> QED
      BY <1>1, <1>2, <1>5, <2>1, <2>2, <3>1, <3>2, TellersAre DEF CardInv, CardNeeded, Failed
  <2>3. CASE p = "reaper"
    <3>1. at[p] \in EndPlaces /\ at'[p] # "creating" /\ EndWays(p)
      BY <1>1, <1>3, <2>3 DEF StartWays, OutputWays, EndWays, ReaperPlaces, EndPlaces
    <3>2. at'["gateway"] = at["gateway"] /\ at'[Executor] = at[Executor]
      /\ call'[Executor] = call[Executor]
      BY <1>2, <2>3, TellersAre
    <3>3. CardNeeded
      BY <2>3, <3>1 DEF CardNeeded
    <3>4. "unrecorded" \notin marks => at'[p] # "falling"
      BY <1>5, <3>1, <3>3 DEF CardInv, EndWays
    <3> QED
      BY <1>1, <1>2, <1>5, <2>1, <2>3, <3>1, <3>2, <3>3, <3>4, TellersAre DEF CardInv, Failed
  <2>4. CASE p = Executor
    <3>1. at'["gateway"] = at["gateway"] /\ at'["reaper"] = at["reaper"]
      BY <1>2, <2>4, TellersAre
    <3>2. at'[p] = "falling" => at[p] \in Later /\ ~presentation.card
      BY <1>1 DEF StartWays, OutputWays, EndWays, Later, ExecutorPlaces, EndPlaces, StartPlaces,
        Continue
    <3>3. /\ at'[p] = "creating" => call'[p].stage = "token"
          /\ at'[p] \in {"cardCreate", "creating", "streaming"} => presentation' # NoPresentation
      <4>1. StartWays(p) => (at'[p] \in {"cardCreate", "creating", "streaming"}
        => presentation' # NoPresentation)
        BY <1>1, <2>4 DEF StartWays, CardInv, Pending, NoPresentation
      <4>2. OutputWays(p) \/ EndWays(p) => at'[p] \notin {"cardCreate", "creating", "streaming"}
        BY DEF OutputWays, EndWays
      <4> QED
        BY <1>1, <4>1, <4>2 DEF Waiting
    <3>4. \/ CardNeeded' => CardNeeded
          \/ at[p] = "streaming" /\ presentation # NoPresentation
          \/ at[p] = "creating" /\ Failed(p) /\ presentation # NoPresentation
      <4>1. at'[p] \in Later => at[p] \in Later \/ at[p] = "streaming" \/ (at[p] = "creating"
        /\ Failed(p))
        <5>1. StartWays(p) /\ at'[p] \in Later => at[p] \in {"streaming", "degrade"}
          \/ (at[p] = "creating" /\ Failed(p))
          BY <1>3, <1>5, <2>4, TellersAre DEF StartWays, Later, StartPlaces, ExecutorPlaces,
            StreamPlaces, EndPlaces, Continue, Executor
        <5>2. "degrade" \in Later
          BY DEF Later, ExecutorPlaces, StartPlaces
        <5>3. OutputWays(p) \/ EndWays(p) => at[p] \in Later
          BY DEF OutputWays, EndWays, Later, StartPlaces, ExecutorPlaces, StreamPlaces, EndPlaces
        <5> QED
          BY <1>1, <5>1, <5>2, <5>3
      <4> QED
        BY <1>2, <2>4, <3>1, <4>1 DEF CardNeeded, CardInv
    <3>5. at[p] \in Later => CardNeeded
      BY <2>4 DEF CardNeeded
    <3> QED
      BY <1>1, <1>2, <1>5, <2>1, <2>4, <3>1, <3>2, <3>3, <3>4, <3>5, TellersAre DEF CardInv, Failed
  <2> QED
    BY <2>2, <2>3, <2>4, TellersAre
<1> QED
  BY <1>4, <1>5

LEMMA CardOfOthers ==
  ASSUME BaseInv, CardInv, Still \/ Reap
  PROVE  CardInv'
<1>1. CASE Still
  BY <1>1, TellersAre DEF Still, CardInv, Interactive, CardNeeded, Failed
<1>2. CASE Reap
  <2>1. /\ UNCHANGED <<source, presentation, posts, beating>> /\ call' = call /\ beating
             /\ marks \subseteq marks'
    BY <1>2 DEF Reap, MarkRun, Note, senderVars, UnlessSpent, executorVars
  <2>2. at'["reaper"] = "ended" /\ \A q \in Tellers \ {"reaper"} : at'[q] = at[q]
    BY <1>2, TellersAre DEF Reap, Go, BaseInv, HandlersTyped
  <2> QED
    BY <2>1, <2>2, TellersAre DEF CardInv, Interactive, CardNeeded, Failed, ChatPlaces
<1> QED
  BY <1>1, <1>2

LEMMA CardOfSender ==
  ASSUME BaseInv, CardInv, NEW p \in Callers, SenderActs(p)
  PROVE  CardInv'
<1>1. /\ UNCHANGED <<source, presentation, at, beating>> /\ marks \subseteq marks'
      /\ posts' = posts \/ at[p] = "falling"
      /\ \A q \in Callers \ {p} : call'[q] = call[q]
  BY SenderShows DEF SenderActs, storeVars, handlerVars, executorVars
<1>2. at[p] = "falling" => p \in Tellers
  BY EndTellers, TellersAre DEF EndPlaces
<1>3. p = Executor /\ at[p] = "creating" /\ Failed(p)' => "unrecorded" \in marks'
  <2>1. ASSUME p = Executor, at[p] = "creating", Failed(p)' PROVE "unrecorded" \in marks'
    <3>1. call[p].op = "createCard" /\ FailsNow(p)
      BY <2>1, SenderShows, CallPlaces DEF FailsNow, Failed
    <3> QED
      BY <3>1, SenderShows DEF CallMarks
  <2> QED
    BY <2>1
<1> QED
  BY <1>1, <1>2, <1>3, TellersAre DEF CardInv, Interactive, CardNeeded, Failed

LEMMA CardOfCut ==
  ASSUME BaseInv, CardInv, NEW p \in Callers, Cut(p)
  PROVE  CardInv'
<1>1. /\ UNCHANGED <<source, presentation, posts>> /\ marks \subseteq marks' /\ (beating'
           => beating)
      /\ call'[p] = NoCall /\ \A q \in Callers \ {p} : at'[q] = at[q] /\ call'[q] = call[q]
  BY DEF Cut, storeVars
<1>2. p \in Tellers => at'[p] \in {"gone", "catch", "completeCatch", "fallbackCatch"}
  BY CutPlaces
<1>3. CardNeeded' => CardNeeded
  <2>1. p = Executor /\ at'[p] # "gone" => at[p] \in Later
    BY CutPlaces
  <2>2. p = "reaper" /\ at'[p] # "gone" => at[p] \in EndPlaces
    BY CutPlaces
  <2>3. "gone" \notin Later /\ "gone" \notin EndPlaces
    BY DEF Later, EndPlaces
  <2> QED
    BY <1>1, <2>1, <2>2, <2>3, TellersAre DEF CardNeeded
<1> QED
  BY <1>1, <1>2, <1>3, TellersAre DEF CardInv, Interactive, Failed, ChatPlaces

LEMMA CardHolds == Spec => [](BaseInv /\ CardInv)
<1>1. Init => CardInv
  <2> SUFFICES ASSUME Init PROVE CardInv
    OBVIOUS
  <2>1. /\ at["gateway"] = "queued" /\ at["reaper"] = "idle" /\ at[Executor] = "idle"
        /\ presentation = NoPresentation /\ posts = <<>> /\ beating = FALSE
    BY TellersAre DEF Init, HandlerInit, StoreInit, SenderInit
  <2> QED
    BY <2>1, TellersAre DEF CardInv, CardNeeded, ChatPlaces, Later, ExecutorPlaces, StartPlaces,
      EndPlaces
<1>2. BaseInv /\ CardInv /\ [Next]_vars => CardInv'
  BY StepsSeen, CardOfExecutor, CardOfNotifier, CardOfOthers, CardOfSender, CardOfCut
<1> QED
  BY <1>1, <1>2, BaseAtStart, NextBase, PTL DEF Spec

(* A run has one message in its chat, unless the creation of its card      *)
(* failed or was not recorded: as long as anybody may still end the run,   *)
(* the row says that there is a card, so nobody posts the end apart.       *)
THEOREM OneMessageHolds == Spec => []OneMessage
<1>1. CardInv => OneMessage
  <2> SUFFICES ASSUME CardInv, "unrecorded" \notin marks
               PROVE  ~(Len(posts) + (IF card = NoCard THEN 0 ELSE 1) > 1)
    BY DEF OneMessage
  <2>1. Len(posts) = 0
    BY DEF CardInv
  <2> QED
    BY <2>1
<1> QED
  BY <1>1, CardHolds, PTL

---------------------------------------------------------------------------
(* Who has ended the run, and what may still be on its way.                *)

Telling(p) == at[p] \in EndPlaces \/ (at[p] = "told" /\ outcome[p] # None)
Stopped == Telling(Executor) \/ at[Executor] \in {"catch", "gone"}

EndInv ==
  /\ at["reaper"] # "idle" => status \in Ends /\ outcome["reaper"] = "failed"
  /\ card.status \in Ends =>
       at[Executor] \notin StartPlaces /\ (at["reaper"] # "idle" \/ Stopped)
  /\ at["reaper"] # "idle" /\ at[Executor] \in {"delta", "updating"} => "inFlight" \in marks
  /\ "overtaken" \in marks => at["reaper"] # "idle"
  /\ "overtaken" \notin marks =>
       /\ at["reaper"] # "idle" => at[Executor] = "gone" /\ status = "failed"
       /\ Telling(Executor) => status = outcome[Executor]
  /\ status \in Ends /\ at["reaper"] = "idle" => Stopped
  /\ at["reaper"] = "gone" => "endDropped" \in marks

LEMMA EndOfExecutor ==
  ASSUME BaseInv, EndInv, ExecutorActs
  PROVE  EndInv'
<1>1. /\ ExecutorWays
      /\ UNCHANGED <<card, marks>>
      /\ at'["reaper"] = at["reaper"] /\ outcome'["reaper"] = outcome["reaper"]
  BY ExecutorGoes, TellersAre
<1>2. /\ at[Executor] = "idle" => at["reaper"] = "idle"
      /\ at[Executor] = "persist" => outcome[Executor] \in Ends
      /\ None \notin Ends
  BY RunAssumption DEF BaseInv, PlacesHold, StartPlaces
<1>3. CASE at[Executor] = "idle"
  <2>1. at'[Executor] = "started" /\ status' = "running" /\ card.status \notin Ends
    /\ "running" \notin Ends
    BY <1>1, <1>3 DEF ExecutorWays, EndInv, StartPlaces, Ends
  <2>2. ~Telling(Executor)'
    BY <2>1 DEF Telling, EndPlaces
  <2> QED
    BY <1>1, <1>2, <1>3, <2>1, <2>2 DEF EndInv
<1>4. CASE at[Executor] = "told"
  <2>1. /\ status' = status
        /\ \/ at'[Executor] = "gone" /\ outcome[Executor] # None
           \/ at'[Executor] \in {"stream", "persist"} /\ outcome[Executor] = None
    BY <1>1, <1>4 DEF ExecutorWays
  <2>2. ~Telling(Executor)'
    BY <2>1 DEF Telling, EndPlaces
  <2>3. outcome[Executor] = None => ~Stopped
    BY <1>4 DEF Telling, Stopped, EndPlaces
  <2>4. at'[Executor] = "gone" => Stopped'
    BY DEF Stopped
  <2> QED
    BY <1>1, <1>2, <1>4, <2>1, <2>2, <2>3, <2>4 DEF EndInv, StartPlaces
<1>5. CASE at[Executor] = "stream"
  <2>1. /\ status' = status
        /\ \/ at'[Executor] \in {"delta", "stream", "persist"} /\ status = "running"
           \/ at'[Executor] = "gone"
    BY <1>1, <1>5 DEF ExecutorWays
  <2>2. ~Telling(Executor)' /\ ~Stopped /\ "running" \notin Ends
    BY <1>5, <2>1 DEF Telling, Stopped, EndPlaces, Ends
  <2>4. at'[Executor] = "gone" => Stopped'
    BY DEF Stopped
  <2> QED
    BY <1>1, <1>2, <1>5, <2>1, <2>2, <2>4 DEF EndInv, StartPlaces
<1>6. CASE at[Executor] \in {"persist", "catch"}
  <2>1. at'[Executor] = "ended" /\ status' = outcome'[Executor] /\ status' \in Ends
    BY <1>1, <1>2, <1>6 DEF ExecutorWays, Ends
  <2>2. Telling(Executor)' /\ Stopped'
    BY <2>1 DEF Telling, Stopped, EndPlaces
  <2> QED
    BY <1>1, <1>2, <1>6, <2>1, <2>2 DEF EndInv, StartPlaces
<1> QED
  BY <1>1, <1>3, <1>4, <1>5, <1>6 DEF ExecutorWays

LEMMA EndOfNotifier ==
  ASSUME BaseInv, EndInv, NEW p \in Tellers, NotifierActs(p)
  PROVE  EndInv'
<1>1. /\ StartWays(p) \/ OutputWays(p) \/ EndWays(p)
      /\ \A q \in Tellers \ {p} : at'[q] = at[q]
      /\ UNCHANGED <<status, outcome, marks, card>>
  BY NotifierGoes, TellersAre
<1>2. /\ at["gateway"] \in GatewayPlaces /\ at["reaper"] \in ReaperPlaces
           /\ at[Executor] \in ExecutorPlaces
      /\ at[Executor] \in EndPlaces => outcome[Executor] \in Ends
      /\ at[Executor] \in StartPlaces \cup StreamPlaces \cup {"degrade"} => outcome[Executor] = None
      /\ None \notin Ends
  BY TellersPlaces, RunAssumption DEF BaseInv, PlacesHold
<1>3. CASE p = "gateway"
  <2>1. at'["reaper"] = at["reaper"] /\ at'[Executor] = at[Executor]
    BY <1>1, <1>3, TellersAre
  <2> QED
    BY <1>1, <2>1 DEF EndInv, Telling, Stopped
<1>4. CASE p = "reaper"
  <2>1. at'[Executor] = at[Executor] /\ at[p] \in EndPlaces /\ at'[p] \in EndPlaces \cup {"told"}
    BY <1>1, <1>2, <1>4, TellersAre DEF StartWays, OutputWays, EndWays, ReaperPlaces, EndPlaces
  <2>2. at["reaper"] # "idle" /\ at'["reaper"] \notin {"idle", "gone"}
    BY <1>4, <2>1 DEF EndPlaces
  <2> QED
    BY <1>1, <2>1, <2>2 DEF EndInv, Telling, Stopped
<1>5. CASE p = Executor
  <2>1. at'["reaper"] = at["reaper"] /\ at[Executor] # "gone"
    BY <1>1, <1>5, TellersAre DEF StartWays, OutputWays, EndWays
  <2>2. CASE StartWays(p)
    <3>1. at[p] \in StartPlaces \cup {"degrade"} /\ at'[p] \in StartPlaces \cup {"told", "degrade"}
      BY <1>2, <1>5, <2>2, TellersAre DEF StartWays, ExecutorPlaces, StartPlaces, StreamPlaces,
        EndPlaces, Continue, Executor
    <3>2. outcome[p] = None /\ ~Stopped /\ ~Telling(Executor)'
      BY <1>1, <1>2, <1>5, <3>1 DEF Telling, Stopped, EndPlaces, StartPlaces
    <3>3. at'[p] \in StartPlaces => at[p] \in StartPlaces
      BY <2>2, <3>1 DEF StartWays, StartPlaces
    <3> QED
      BY <1>1, <1>5, <2>1, <3>1, <3>2, <3>3 DEF EndInv, StartPlaces
  <2>3. CASE OutputWays(p)
    <3>1. at[p] \in StreamPlaces /\ at'[p] \in StreamPlaces \cup {"told", "degrade"}
          /\ (at'[p] = "updating" => at[p] = "delta") /\ at'[p] # "delta"
      BY <2>3 DEF OutputWays, StreamPlaces
    <3>2. outcome[p] = None /\ ~Stopped /\ ~Telling(Executor)' /\ at'[p] \notin StartPlaces
      BY <1>1, <1>2, <1>5, <3>1 DEF Telling, Stopped, EndPlaces, StartPlaces, StreamPlaces
    <3> QED
      BY <1>1, <1>5, <2>1, <3>1, <3>2 DEF EndInv
  <2>4. CASE EndWays(p)
    <3>1. at[p] \in EndPlaces /\ at'[p] \in EndPlaces \cup {"told"}
      BY <2>4 DEF EndWays, EndPlaces
    <3>2. Telling(Executor) /\ Telling(Executor)' /\ Stopped'
      BY <1>1, <1>2, <1>5, <3>1 DEF Telling, Stopped
    <3>3. at'[p] \notin StartPlaces \cup {"delta", "updating"}
      BY <3>1 DEF EndPlaces, StartPlaces
    <3> QED
      BY <1>1, <1>5, <2>1, <3>2, <3>3 DEF EndInv
  <2> QED
    BY <1>1, <2>2, <2>3, <2>4
<1> QED
  BY <1>3, <1>4, <1>5, TellersAre

LEMMA EndOfReaper ==
  ASSUME BaseInv, EndInv, Reap
  PROVE  EndInv'
<1>1. /\ status' = "failed" /\ beating /\ card' = card
      /\ marks' = marks \cup (IF at[Executor] # "gone" THEN {"overtaken"} ELSE {})
                   \cup (IF at[Executor] \in {"delta", "updating"} THEN {"inFlight"} ELSE {})
  BY DEF Reap, MarkRun, Note, senderVars, UnlessSpent
<1>2. /\ at'["reaper"] = "ended" /\ outcome'["reaper"] = "failed"
      /\ at'[Executor] = at[Executor] /\ outcome'[Executor] = outcome[Executor]
  BY TellersAre DEF Reap, Go, BaseInv, HandlersTyped
<1>3. at[Executor] \notin StartPlaces /\ "failed" \in Ends /\ "gone" \notin EndPlaces
  BY <1>1 DEF BaseInv, PlacesHold, Ends, EndPlaces
<1> QED
  BY <1>1, <1>2, <1>3 DEF EndInv, Telling, Stopped

LEMMA EndOfSender ==
  ASSUME BaseInv, EndInv, NEW p \in Callers, SenderActs(p)
  PROVE  EndInv'
<1>1. /\ UNCHANGED <<at, outcome, status>> /\ marks \subseteq marks'
      /\ "overtaken" \in marks' => "overtaken" \in marks
  BY SenderShows DEF SenderActs, storeVars, handlerVars, CallMarks
<1>2. card'.status \in Ends => card.status \in Ends \/ at[p] = "completing"
  BY SenderShows DEF BaseInv, Calls, Ends
<1>3. at[p] = "completing" =>
        at[Executor] \notin StartPlaces /\ (at["reaper"] # "idle" \/ Telling(Executor))
  <2>1. ASSUME at[p] = "completing"
        PROVE  at[Executor] \notin StartPlaces /\ (at["reaper"] # "idle" \/ Telling(Executor))
    <3>1. p \in {"reaper", Executor} /\ at[p] \in EndPlaces
      BY <2>1, EndTellers DEF EndPlaces
    <3> QED
      BY <3>1 DEF BaseInv, PlacesHold, Telling, EndPlaces, StartPlaces
  <2> QED
    BY <2>1
<1> QED
  BY <1>1, <1>2, <1>3 DEF EndInv, Telling, Stopped

LEMMA EndOfCut ==
  ASSUME BaseInv, EndInv, NEW p \in Callers, Cut(p)
  PROVE  EndInv'
<1>1. /\ UNCHANGED <<outcome, status, card>> /\ marks \subseteq marks'
      /\ "overtaken" \in marks' => "overtaken" \in marks
      /\ \A q \in Callers \ {p} : at'[q] = at[q]
      /\ at[p] \notin {"idle", "gone"} /\ (p # Executor => at[p] # "told")
      /\ at'[p] = "gone" /\ TellingEnd(p) => "endDropped" \in marks'
  BY DEF Cut, storeVars
<1>2. CASE p = "reaper"
  <2>1. at'[Executor] = at[Executor] /\ at'[p] # "idle" /\ (at'[p] = "gone"
    => "endDropped" \in marks')
    <3>1. TellingEnd(p)
      BY <1>1, <1>2, TellersPlaces, TellersAre DEF ReaperPlaces, EndPlaces, TellingEnd
    <3> QED
      BY <1>1, <1>2, <3>1, CutPlaces, TellersAre
  <2> QED
    BY <1>1, <1>2, <2>1 DEF EndInv, Telling, Stopped
<1>3. CASE p = Executor
  <2>1. at'["reaper"] = at["reaper"]
    BY <1>1, <1>3, TellersAre
  <2>2. /\ at'[p] \in {"gone", "catch", "completeCatch", "fallbackCatch"}
        /\ at'[p] \in {"completeCatch", "fallbackCatch"} => Telling(Executor)
    BY <1>3, CutPlaces, TellersAre DEF Telling, EndPlaces
  <2>3. Stopped' /\ at'[p] \notin StartPlaces \cup {"delta", "updating"}
        /\ (Telling(Executor)' => Telling(Executor))
    BY <1>1, <1>3, <2>2 DEF Telling, Stopped, EndPlaces, StartPlaces
  <2> QED
    BY <1>1, <1>3, <2>1, <2>3 DEF EndInv
<1>4. CASE p \notin {"reaper", Executor}
  <2>1. at'["reaper"] = at["reaper"] /\ at'[Executor] = at[Executor]
    BY <1>1, <1>4, TellersAre
  <2> QED
    BY <1>1, <2>1 DEF EndInv, Telling, Stopped
<1> QED
  BY <1>2, <1>3, <1>4

LEMMA NextEnd == BaseInv /\ EndInv /\ [Next]_vars => EndInv'
<1>1. BaseInv /\ EndInv /\ Still => EndInv'
  BY TellersAre DEF Still, EndInv, Telling, Stopped
<1> QED
  BY <1>1, StepsSeen, EndOfExecutor, EndOfNotifier, EndOfReaper, EndOfSender, EndOfCut

LEMMA EndAtStart == Init => EndInv
<1> SUFFICES ASSUME Init PROVE EndInv
  OBVIOUS
<1>1. at["reaper"] = "idle" /\ at[Executor] = "idle" /\ status = "queued" /\ marks = {}
  /\ card.status = "none"
  BY TellersAre DEF Init, HandlerInit, StoreInit, SenderInit, NoCard
<1> QED
  BY <1>1 DEF EndInv, Telling, Stopped, EndPlaces, Ends

(* No call that is under way is to show a running card again.              *)
LEMMA LateStep ==
  ASSUME BaseInv, EndInv, [Next]_vars, card.status \in Ends, card'.status = "running"
  PROVE  "inFlight" \in marks
<1>1. card' # card /\ "running" \notin Ends
  BY DEF Ends
<1>2. PICK p \in Callers : SenderActs(p)
  BY <1>1, StepsSeen, ExecutorGoes, NotifierGoes DEF Still, Reap, senderVars, UnlessSpent, Cut
<1>3. at[p] \in {"creating", "updating", "completing"} /\ card' = call[p].body
  BY <1>1, <1>2, SenderShows
<1>4. at[p] # "completing"
  <2>1. at[p] = "completing" => outcome[p] \in Ends /\ call[p].body.status = outcome[p]
    BY EndTellers DEF EndPlaces, BaseInv, Calls
  <2> QED
    BY <1>1, <1>3, <2>1
<1>5. p = Executor
  <2>1. p \in {"gateway", "reaper", Executor, Media}
    BY TellersAre, RunAssumption
  <2>2. at[Media] \notin {"creating", "updating"}
    BY DEF BaseInv, PlacesHold, MediaPlaces
  <2> QED
    BY <1>3, <1>4, <2>1, <2>2, TellersPlaces DEF GatewayPlaces, ReaperPlaces, EndPlaces
<1>6. at[Executor] = "updating" /\ ~Stopped
  BY <1>3, <1>4, <1>5 DEF EndInv, StartPlaces, Stopped, Telling, EndPlaces
<1> QED
  BY <1>6 DEF EndInv

(* A card that was closed shows a running one again only through an output *)
(* that was being told when the reaper ended the run under it: the executor*)
(* starts nothing that is told after the end, whoever has ended the run.   *)
THEOREM LateOutputs == Spec => LateOutputWasInFlight
<1>1. BaseInv /\ EndInv /\ [Next]_vars =>
        [card.status \in Ends /\ card'.status = "running" => "inFlight" \in marks]_vars
  BY LateStep
<1> QED
  BY <1>1, BaseAtStart, NextBase, EndAtStart, NextEnd, PTL DEF Spec, LateOutputWasInFlight

---------------------------------------------------------------------------
(* The files of the chat and what codex was told of them.                  *)

Sent == {i \in DOMAIN answers : answers[i] = "sent"}
Shown == at[Media] = "finishing" \/ (at[Media] = "delivering" /\ Succeeded(Media))
ShownFiles == Cardinality(Sent) + (IF Shown THEN 1 ELSE 0)
Requests == Len(answers) + (IF at[Media] = "idle" THEN 0 ELSE 1)

MediaInv ==
  /\ files >= ShownFiles
  /\ files > ShownFiles => spent > Requests
  /\ \A i \in DOMAIN mediaRows : mediaRows[i].status = "sent" => Sent # {}

LEMMA MediaCounts ==
  ASSUME BaseInv
  PROVE  /\ files \in Nat /\ spent \in Nat /\ answers \in Seq(Answers) /\ Len(answers) \in Nat
         /\ IsFiniteSet(Sent) /\ Cardinality(Sent) \in Nat /\ Sent \subseteq 1..Len(answers)
         /\ Requests <= spent /\ mediaRows \in Seq(MediaRow)
         /\ Media \in Callers /\ Media \notin Tellers
<1>1. /\ files \in Nat /\ spent \in Nat /\ answers \in Seq(Answers) /\ Len(answers) \in Nat
           /\ mediaRows \in Seq(MediaRow)
  BY SenderAssumption DEF BaseInv, SenderTyped, RunTyped, StoreTyped
<1>2. IsFiniteSet(1..Len(answers)) /\ Sent \subseteq 1..Len(answers)
  <2>1. IsFiniteSet(1..Len(answers))
    BY <1>1, FS_Interval
  <2>2. DOMAIN answers = 1..Len(answers)
    BY <1>1
  <2> QED
    BY <2>1, <2>2 DEF Sent
<1>3. IsFiniteSet(Sent)
  BY <1>2, FS_Subset
<1>4. Cardinality(Sent) \in Nat
  BY <1>3, FS_CardinalityType
<1>5. Requests <= spent
  BY <1>1 DEF Requests, BaseInv, RunTyped
<1>6. Media \in Callers /\ Media \notin Tellers
  BY RunAssumption DEF Media, Tellers
<1> QED
  BY <1>1, <1>2, <1>3, <1>4, <1>5, <1>6

(* One answer more.                                                        *)
LEMMA OneAnswerMore ==
  ASSUME BaseInv, NEW answer \in Answers, answers' = Append(answers, answer)
  PROVE  /\ Len(answers') = Len(answers) + 1
         /\ Sent \subseteq Sent'
         /\ IF answer = "sent" THEN Sent' # {} /\ Cardinality(Sent') = Cardinality(Sent) + 1
            ELSE Sent' = Sent
<1>1. /\ answers \in Seq(Answers) /\ Len(answers) \in Nat /\ IsFiniteSet(Sent)
           /\ Sent \subseteq 1..Len(answers)
  BY MediaCounts
<1>2. /\ Len(answers') = Len(answers) + 1 /\ DOMAIN answers' = 1..(Len(answers) + 1)
      /\ \A i \in 1..Len(answers) : answers'[i] = answers[i]
      /\ answers'[Len(answers) + 1] = answer /\ DOMAIN answers = 1..Len(answers)
  BY <1>1, AppendProperties
<1>3. Len(answers) + 1 \notin Sent
  BY <1>1
<1>4. Sent' = IF answer = "sent" THEN Sent \cup {Len(answers) + 1} ELSE Sent
  <2>1. \A i : i \in 1..(Len(answers) + 1) <=> i \in 1..Len(answers) \/ i = Len(answers) + 1
    BY <1>1
  <2>2. Len(answers) + 1 \notin 1..Len(answers)
    BY <1>1
  <2> QED
    BY <1>2, <2>1, <2>2 DEF Sent
<1>5. Cardinality(Sent \cup {Len(answers) + 1}) = Cardinality(Sent) + 1
  BY <1>1, <1>3, FS_AddElement
<1> QED
  BY <1>2, <1>4, <1>5

(* Steps of the others.                                                    *)
MediaAside ==
  /\ at'[Media] = at[Media] /\ call'[Media].stage = call[Media].stage
  /\ UNCHANGED <<answers, mediaRows, files>> /\ spent' >= spent

LEMMA AsideHolds ==
  ASSUME BaseInv, BaseInv', MediaInv, MediaAside
  PROVE  MediaInv'
<1>1. Sent' = Sent /\ Shown' = Shown /\ Requests' = Requests
  BY DEF MediaAside, Sent, Shown, Succeeded, Requests
<1>2. ShownFiles' = ShownFiles
  BY <1>1 DEF ShownFiles
<1>3. spent' \in Nat /\ spent \in Nat /\ Requests \in Nat
  BY MediaCounts DEF Requests, BaseInv, SenderTyped
<1> QED
  BY <1>1, <1>2, <1>3 DEF MediaInv, MediaAside

LEMMA AsideSteps ==
  ASSUME BaseInv, ExecutorActs \/ (\E p \in Tellers : NotifierActs(p)) \/ Reap \/ TokenExpires
                  \/ UNCHANGED vars \/ ExecutorDies \/ (\E p \in Tellers : InsertCollides(p))
                  \/ (\E p \in Callers \ {Media} : Rejected(p))
  PROVE  MediaAside
<1>1. /\ spent \in Nat /\ Media \in Callers /\ Media \notin Tellers /\ Executor \in Tellers
           /\ "reaper" \in Tellers
  BY MediaCounts, TellersAre
<1>2. ASSUME NEW p \in Callers, p # Media, NEW to, Go(p, to)
      PROVE  at'[Media] = at[Media]
  BY <1>1, <1>2 DEF Go, BaseInv, HandlersTyped
<1>3. CASE ExecutorActs
  <2>1. spent' >= spent /\ UNCHANGED <<answers, mediaRows, files>>
    BY <1>1, <1>3 DEF ExecutorActs, ExecutorStep, StartRun, Resume, Output, RetryFresh,
      TakeOutcome, PersistOutcome, CatchFailure, MarkRun, Spend, UnlessSpent, senderVars,
        mediaVars, storeVars
  <2> QED
    BY <1>1, <1>3, <2>1, ExecutorGoes DEF MediaAside
<1>4. CASE \E p \in Tellers : NotifierActs(p)
  <2>1. PICK p \in Tellers : NotifierActs(p)
    BY <1>4
  <2>2. at'[Media] = at[Media] /\ call'[Media] = call[Media]
    BY <1>1, <2>1, NotifierGoes
  <2>3. mediaRows' = mediaRows
    BY <2>1 DEF NotifierActs, NotifierStep, GetPending, InsertPending, HandleStarted,
      MarkStreaming, Degrade, SaveOutput, MarkTerminal, AttachFallback, Reacted, CardCreated,
        CardFails, CardUpdated, ReactionRemoved, CardCompleted, CompleteFails, FallbackSent,
          FallbackFails, React, CreateCard, HandleDelta, RemoveReaction, HandleTerminal, Reread,
            OnlyMoves, storeVars
  <2>4. files' = files /\ spent' = spent
    BY <2>1, NotifierAsks DEF NotifierActs, Answer, Ask, ExceptCall, senderVars
  <2>5. answers' = answers
    BY <2>1 DEF NotifierActs, mediaVars
  <2> QED
    BY <1>1, <2>2, <2>3, <2>4, <2>5 DEF MediaAside
<1>5. CASE Reap
  BY <1>1, <1>2, <1>5, TellersAre DEF Reap, MarkRun, Spend, UnlessSpent, senderVars, mediaVars,
    MediaAside
<1>6. CASE TokenExpires \/ UNCHANGED vars
  BY <1>1, <1>6 DEF TokenExpires, ExpireToken, Spend, vars, senderVars, handlerVars, storeVars,
    mediaVars, MediaAside
<1>7. CASE ExecutorDies
  BY <1>1, <1>7, DeathCuts, TellersAre DEF ExecutorDies, Spend, Cut, storeVars, mediaVars,
    MediaAside
<1>8. CASE \E p \in Tellers : InsertCollides(p)
  <2>1. PICK p \in Tellers : InsertCollides(p)
    BY <1>8
  <2> QED
    BY <1>1, <2>1, CollisionCuts, TellersAre DEF InsertCollides, Cut, senderVars, storeVars,
      mediaVars, MediaAside
<1>9. CASE \E p \in Callers \ {Media} : Rejected(p)
  <2>1. PICK p \in Callers \ {Media} : Rejected(p)
    BY <1>9
  <2> QED
    BY <1>1, <2>1, RejectedCuts DEF Rejected, Spend, Cut, storeVars, MediaAside
<1> QED
  BY <1>3, <1>4, <1>5, <1>6, <1>7, <1>8, <1>9

LEMMA MediaOfRequest ==
  ASSUME BaseInv, MediaInv, RequestMedia
  PROVE  MediaInv'
<1>1. /\ at[Media] = "idle" /\ at'[Media] = "checking" /\ spent' = spent + 1
      /\ UNCHANGED <<answers, mediaRows, files>>
  BY MediaCounts DEF RequestMedia, Spend, Go, storeVars, mediaVars, BaseInv, HandlersTyped
<1>2. Sent' = Sent /\ ~Shown /\ ~Shown' /\ Requests = Len(answers) /\ Requests' = Len(answers) + 1
  BY <1>1, MediaCounts DEF Sent, Shown, Requests
<1>3. ShownFiles' = ShownFiles
  BY <1>2 DEF ShownFiles
<1> QED
  BY <1>1, <1>2, <1>3, MediaCounts DEF MediaInv

LEMMA MediaOfRejected ==
  ASSUME BaseInv, MediaInv, Rejected(Media)
  PROVE  MediaInv'
<1>0. Cut(Media)
  BY MediaCounts, RejectedCuts
<1>1. /\ spent' = spent + 1 /\ UNCHANGED <<answers, mediaRows, files>> /\ call'[Media] = NoCall
      /\ at'[Media] \in {"sendingCatch", "rowCatch", "throws"} /\ at[Media] # "idle"
  <2>1. at'[Media] = CatchOf(Media)
    BY MediaCounts DEF Rejected, Go, BaseInv, HandlersTyped
  <2> QED
    BY <1>0, <2>1, CatchPlaces, MediaCounts DEF Rejected, Spend, storeVars, Cut
<1>2. Sent' = Sent /\ ~Shown' /\ Requests' = Requests
  BY <1>1 DEF Sent, Shown, Requests
<1>3. ShownFiles' <= ShownFiles /\ ShownFiles' \in Nat /\ ShownFiles \in Nat
  BY <1>2, MediaCounts DEF ShownFiles
<1>4. spent' > Requests' /\ files' = files /\ files \in Nat
  BY <1>1, <1>2, MediaCounts DEF Requests
<1> QED
  BY <1>1, <1>2, <1>3, <1>4 DEF MediaInv

LEMMA MediaOfSender ==
  ASSUME BaseInv, MediaInv, NEW p \in Callers, SenderActs(p), BaseInv'
  PROVE  MediaInv'
<1>1. /\ UNCHANGED <<at, answers, mediaRows>> /\ spent' >= spent
      /\ \A q \in Callers \ {p} : call'[q] = call[q]
      /\ call[p].stage \notin {"none", "done", "failed"}
  BY SenderShows, SenderCalls DEF SenderActs, storeVars, handlerVars, mediaVars
<1>2. call[p].op = "deliver" <=> at[p] = "delivering"
  BY <1>1, CallPlaces
<1>3. at[p] = "delivering" => p = Media
  <2>1. p \in {"gateway", "reaper", Executor, Media}
    BY TellersAre, RunAssumption
  <2> QED
    BY <2>1, TellersPlaces DEF GatewayPlaces, ReaperPlaces, ExecutorPlaces, StartPlaces,
      StreamPlaces, EndPlaces
<1>4. Effect(p) => files' = IF at[p] = "delivering" THEN files + 1 ELSE files
  BY <1>2 DEF Effect, PostCard, PatchRunning, PatchClosed, PostTerminal, PostReaction,
    DropReaction, PostAsset, PostMedia, Asks
<1>5. CASE at[p] # "delivering"
  <2>1. files' = files
    BY <1>4, <1>5 DEF SenderActs, SenderStep, TakeToken, IssueToken, RefuseToken, Accept, Fault
  <2>2. Sent' = Sent /\ Shown' = Shown /\ Requests' = Requests
    BY <1>1, <1>5, MediaCounts DEF Sent, Shown, Requests, Succeeded
  <2>3. ShownFiles' = ShownFiles
    BY <2>2 DEF ShownFiles
  <2>4. spent \in Nat /\ spent' \in Nat /\ Requests \in Nat
    BY MediaCounts DEF BaseInv, SenderTyped, Requests
  <2> QED
    BY <1>1, <2>1, <2>2, <2>3, <2>4 DEF MediaInv
<1>6. CASE at[p] = "delivering"
  <2>1. p = Media /\ ~Shown /\ Sent' = Sent /\ Requests' = Requests /\ call[p].op = "deliver"
    BY <1>1, <1>2, <1>3, <1>6 DEF Sent, Shown, Requests, Succeeded
  <2>2. Shown' <=> Succeeded(p)'
    BY <1>1, <1>6, <2>1 DEF Shown
  <2>3. \/ files' = files /\ ~Succeeded(p)'
        \/ files' = files + 1 /\ Succeeded(p)'
        \/ files' = files + 1 /\ ~Succeeded(p)' /\ spent' = spent + 1
    <3>1. call \in [Callers -> Call] /\ call[p] \in Call
      BY DEF BaseInv, SenderTyped
    <3>2. CASE TakeToken(p) \/ IssueToken(p) \/ RefuseToken(p)
      BY <3>1, <3>2 DEF TakeToken, IssueToken, RefuseToken, Advance, Succeeded, Call
    <3>3. CASE Accept(p)
      BY <1>4, <1>6, <2>1, <3>1, <3>3 DEF Accept, Advance, Succeeded, Call
    <3>4. CASE Fault(p)
      BY <1>4, <1>6, <3>1, <3>4 DEF Fault, Spend, Advance, Succeeded, Call
    <3> QED
      BY <3>2, <3>3, <3>4 DEF SenderActs, SenderStep
  <2>4. ShownFiles = Cardinality(Sent)
    /\ ShownFiles' = Cardinality(Sent) + (IF Succeeded(p)' THEN 1 ELSE 0)
    BY <2>1, <2>2, MediaCounts DEF ShownFiles
  <2>5. /\ files \in Nat /\ spent \in Nat /\ Cardinality(Sent) \in Nat /\ Requests <= spent
             /\ Requests \in Nat
        /\ spent' \in Nat
    BY MediaCounts DEF Requests, BaseInv, SenderTyped
  <2>6. files' >= ShownFiles' /\ (files' > ShownFiles' => spent' > Requests')
    <3>1. files >= Cardinality(Sent) /\ (files > Cardinality(Sent) => spent > Requests)
      /\ Requests' = Requests
      BY <2>1, <2>4 DEF MediaInv
    <3>2. CASE files' = files /\ ~Succeeded(p)'
      BY <1>1, <2>4, <2>5, <3>1, <3>2
    <3>3. CASE files' = files + 1 /\ Succeeded(p)'
      BY <1>1, <2>4, <2>5, <3>1, <3>3
    <3>4. CASE files' = files + 1 /\ ~Succeeded(p)' /\ spent' = spent + 1
      BY <2>4, <2>5, <3>1, <3>4
    <3> QED
      BY <2>3, <3>2, <3>3, <3>4
  <2> QED
    BY <1>1, <2>1, <2>6 DEF MediaInv
<1> QED
  BY <1>5, <1>6

LEMMA MediaOfMedia ==
  ASSUME BaseInv, MediaInv, MediaStep, Rest
  PROVE  MediaInv'
<1>0. MediaParts /\ Media \in Callers
  BY MediaCounts DEF MediaStep, MediaParts
<1>1. at[Media] # "idle" /\ spent' = spent
  BY <1>0, MediaSender
<1>2. files' = files
  BY MediaAsks DEF Answer, Ask, ExceptCall, senderVars
<1>3. call'[Media] = NoCall \/ at'[Media] \in {"uploading", "delivering"}
  <2>1. BaseInv'
    BY MediaBase
  <2> QED
    BY <1>0, <2>1 DEF BaseInv, Calls, PlacesHold, MediaPlaces, Waiting
<1>4. CASE Finish
  <2>1. at[Media] = "finishing" /\ at'[Media] = "idle" /\ answers' = Append(answers, "sent")
    BY <1>0, <1>4 DEF Finish, At, Tell, Go, BaseInv, HandlersTyped
  <2>2. /\ Len(answers') = Len(answers) + 1 /\ Sent' # {}
             /\ Cardinality(Sent') = Cardinality(Sent) + 1
    BY <2>1, OneAnswerMore DEF Answers
  <2>3. ShownFiles' = ShownFiles /\ Requests' = Requests
    BY <2>1, <2>2, MediaCounts DEF ShownFiles, Shown, Requests
  <2> QED
    BY <1>1, <1>2, <2>2, <2>3 DEF MediaInv
<1>5. CASE ~Finish
  <2>1. \/ answers' = answers /\ at'[Media] # "idle"
        \/ /\ \E answer \in Answers \ {"sent"} : answers' = Append(answers, answer)
           /\ at'[Media] = "idle" /\ ~Shown
    <3>1. CASE CheckContext \/ CreateRequest \/ SourceFails \/ Upload \/ Uploaded \/ UploadFails
      BY <1>0, <3>1 DEF CheckContext, CreateRequest, SourceFails, Upload, Uploaded, UploadFails,
        Tell, Go, At, Called, mediaVars, Answers, Shown, BaseInv, HandlersTyped
    <3>2. CASE Deliver \/ Delivered \/ DeliveryFails \/ SendingFails \/ MediaThrows
      BY <1>0, <3>2 DEF Deliver, Delivered, DeliveryFails, SendingFails, MediaThrows, Tell, Go,
        At, Called, mediaVars, Answers, Shown, Succeeded, Failed, BaseInv, HandlersTyped
    <3> QED
      BY <1>0, <1>5, <3>1, <3>2 DEF MediaParts
  <2>2. Sent' = Sent /\ Requests' = Requests
    <3>1. CASE answers' = answers /\ at'[Media] # "idle"
      BY <1>1, <3>1 DEF Sent, Requests
    <3>2. CASE \E answer \in Answers \ {"sent"} : answers' = Append(answers, answer)
      /\ at'[Media] = "idle"
      <4>1. Sent' = Sent /\ Len(answers') = Len(answers) + 1
        BY <3>2, OneAnswerMore
      <4> QED
        BY <1>1, <3>2, <4>1, MediaCounts DEF Requests
    <3> QED
      BY <2>1, <3>1, <3>2
  <2>3. Shown' <=> Shown
    <3>1. CASE Delivered
      BY <1>0, <3>1 DEF Delivered, Called, Go, Shown, BaseInv, HandlersTyped
    <3>2. CASE CheckContext \/ CreateRequest \/ SourceFails \/ Upload \/ Uploaded \/ UploadFails
      BY <1>0, <3>2 DEF CheckContext, CreateRequest, SourceFails, Upload, Uploaded, UploadFails,
        Tell, Go, At, Called, Shown, BaseInv, HandlersTyped
    <3>3. CASE DeliveryFails \/ SendingFails \/ MediaThrows
      BY <1>0, <3>3 DEF DeliveryFails, SendingFails, MediaThrows, Tell, Go, At, Called, Failed,
        Succeeded, Shown, BaseInv, HandlersTyped
    <3>4. CASE Deliver
      <4>1. at[Media] = "sending" /\ at'[Media] = "delivering" /\ call'[Media].stage = "token"
        BY <1>0, <3>4 DEF Deliver, At, Go, Ask, Begin, BaseInv, HandlersTyped, SenderTyped
      <4> QED
        BY <4>1 DEF Shown, Succeeded
    <3> QED
      BY <1>0, <1>5, <3>1, <3>2, <3>3, <3>4 DEF MediaParts
  <2>4. ShownFiles' = ShownFiles
    BY <2>2, <2>3 DEF ShownFiles
  <2>5. \A i \in DOMAIN mediaRows' : mediaRows'[i].status = "sent" => Sent # {}
    <3>1. mediaRows \in Seq(MediaRow) /\ Len(mediaRows) \in Nat
      /\ DOMAIN mediaRows = 1..Len(mediaRows)
          /\ StoreTyped
      BY MediaCounts DEF BaseInv
    <3>2. CASE mediaRows' = mediaRows
      BY <3>2 DEF MediaInv
    <3>3. CASE CreateRequest
      <4> DEFINE row == [status |-> "requested", stage |-> "none", ref |-> FALSE]
      <4>1. row \in MediaRow /\ row.status # "sent"
        BY DEF MediaRow
      <4>2. mediaRows' = Append(mediaRows, row)
        BY <3>3 DEF CreateRequest, CreateMediaDelivery
      <4> HIDE DEF row
      <4>3. /\ DOMAIN mediaRows' = 1..(Len(mediaRows) + 1) /\ mediaRows'[Len(mediaRows) + 1] = row
            /\ \A i \in 1..Len(mediaRows) : mediaRows'[i] = mediaRows[i]
        BY <3>1, <4>1, <4>2, AppendProperties
      <4>4. \A i \in 1..(Len(mediaRows) + 1) : i \in 1..Len(mediaRows) \/ i = Len(mediaRows) + 1
        BY <3>1
      <4> QED
        BY <3>1, <4>1, <4>3, <4>4 DEF MediaInv
    <3>4. CASE \E to \in {"source_failed", "uploading", "upload_failed", "sending", "failed"} :
                 \E stage \in {"none", "source", "upload", "delivery"},
                   ref \in BOOLEAN : UpdateMediaDelivery(to, stage, ref)
      <4>1. PICK to \in {"source_failed", "uploading", "upload_failed", "sending", "failed"},
                 stage \in {"none", "source", "upload", "delivery"},
                   ref \in BOOLEAN : UpdateMediaDelivery(to, stage, ref)
        BY <3>4
      <4>2. /\ mediaRows' \in Seq(MediaRow) /\ Len(mediaRows') = Len(mediaRows)
            /\ \A i \in 1..Len(mediaRows) : mediaRows'[i].status =
                 IF i = Len(mediaRows) THEN to ELSE mediaRows[i].status
        BY <3>1, <4>1, MediaRowTyped
      <4>3. DOMAIN mediaRows' = 1..Len(mediaRows)
        <5>1. \A s \in Seq(MediaRow) : DOMAIN s = 1..Len(s)
          OBVIOUS
        <5> QED
          BY <4>2, <5>1
      <4> QED
        BY <3>1, <4>1, <4>2, <4>3 DEF MediaInv
    <3> QED
      <4>1. uploaded \in BOOLEAN
        BY DEF BaseInv, RunTyped
      <4> QED
        BY <1>0, <1>5, <3>2, <3>3, <3>4, <4>1 DEF MediaParts, CheckContext, SourceFails, Upload,
          Uploaded, UploadFails, Deliver, Delivered, DeliveryFails, SendingFails, MediaThrows,
            storeVars
  <2> QED
    BY <1>1, <1>2, <2>2, <2>4, <2>5 DEF MediaInv
<1> QED
  BY <1>4, <1>5

LEMMA MediaHolds == Spec => [](BaseInv /\ MediaInv)
<1>1. Init => MediaInv
  <2> SUFFICES ASSUME Init PROVE MediaInv
    OBVIOUS
  <2>1. answers = <<>> /\ mediaRows = <<>> /\ files = 0 /\ at[Media] = "idle"
    BY BaseAtStart, MediaCounts DEF Init, MediaInit, StoreInit, SenderInit, HandlerInit, Media
  <2>2. Sent = {} /\ ~Shown /\ \A i \in DOMAIN mediaRows : FALSE
    BY <2>1 DEF Sent, Shown
  <2>3. ShownFiles = 0
    BY <2>2, FS_EmptySet DEF ShownFiles
  <2> QED
    BY <2>1, <2>2, <2>3 DEF MediaInv
<1>2. BaseInv /\ MediaInv /\ [Next]_vars => MediaInv'
  <2> SUFFICES ASSUME BaseInv, MediaInv, [Next]_vars PROVE MediaInv'
    OBVIOUS
  <2>1. BaseInv'
    BY NextBase
  <2>2. MediaStep /\ Rest => MediaInv'
    BY MediaOfMedia
  <2>3. RequestMedia => MediaInv'
    BY MediaOfRequest
  <2>4. (\E p \in Callers : SenderActs(p)) => MediaInv'
    BY <2>1, MediaOfSender
  <2>5. Rejected(Media) => MediaInv'
    BY MediaOfRejected
  <2>6. MediaAside => MediaInv'
    BY <2>1, AsideHolds
  <2> QED
    BY <2>2, <2>3, <2>4, <2>5, <2>6, AsideSteps, StepKinds DEF Elsewhere, ExecutorActs, NotifierActs
<1> QED
  BY <1>1, <1>2, BaseAtStart, NextBase, PTL DEF Spec

(* Whatever codex is told to be sent is in the chat, and if there is more  *)
(* in the chat, an answer of Feishu was lost or a row could not be written;*)
(* no row says "sent" unless codex was told so of a file.                  *)
THEOREM MediaToldHolds == Spec => []MediaTold
<1>1. BaseInv /\ MediaInv => MediaTold
  <2> SUFFICES ASSUME BaseInv, MediaInv, at[Media] = "idle"
               PROVE  /\ files >= Cardinality(Sent)
                      /\ files > Cardinality(Sent) => spent > Len(answers)
                      /\ \A i \in DOMAIN mediaRows : mediaRows[i].status = "sent" => Sent # {}
    BY DEF MediaTold, Sent
  <2>1. ShownFiles = Cardinality(Sent) /\ Requests = Len(answers)
    BY MediaCounts DEF ShownFiles, Shown, Requests
  <2> QED
    BY <2>1 DEF MediaInv
<1> QED
  BY <1>1, MediaHolds, PTL

---------------------------------------------------------------------------
(* What the rows claim is in the chat.                                     *)

CardCalls == {"creating", "updating", "completing"}
KindAt(place) ==
  CASE place = "creating" -> "card_create" [] place = "updating" -> "card_update"
    [] place = "completing" -> "card_complete" [] OTHER -> "fallback_terminal"

InChat(delivery, told, shown) ==
  delivery.status = "sent" =>
    IF delivery.kind = "fallback_terminal" THEN told # <<>> ELSE shown # "none"

ShownBy(p) ==
  /\ at[p] = "streaming" \/ (at[p] \in CardCalls /\ Succeeded(p)) => card.status # "none"
  /\ at[p] = "attach" \/ (at[p] = "falling" /\ Succeeded(p)) => posts # <<>>
  /\ at[p] \in CardCalls \cup {"falling"} =>
       deliveries[p] # <<>> /\ deliveries[p][Len(deliveries[p])].kind = KindAt(at[p])
  /\ \A i \in DOMAIN deliveries[p] : InChat(deliveries[p][i], posts, card.status)

ShownInv ==
  /\ presentation.card => card.status # "none"
  /\ presentation.fallback => posts # <<>>
  /\ \A p \in Tellers : ShownBy(p)

Marked(d, to) == [d EXCEPT ![Len(d)].status = to]

LEMMA MarkedTyped ==
  ASSUME NEW d \in Seq(Delivery), NEW to \in {"sent", "failed"}
  PROVE  /\ Len(Marked(d, to)) = Len(d) /\ DOMAIN Marked(d, to) = 1..Len(d)
         /\ \A i \in 1..Len(d) :
              /\ Marked(d, to)[i].kind = d[i].kind
              /\ Marked(d, to)[i].status = IF i = Len(d) THEN to ELSE d[i].status
<1>1. /\ Marked(d, to) \in Seq(Delivery) /\ Len(Marked(d, to)) = Len(d)
      /\ \A i \in 1..Len(d) :
              /\ Marked(d, to)[i].kind = d[i].kind
              /\ Marked(d, to)[i].status = IF i = Len(d) THEN to ELSE d[i].status
  BY MarkTyped DEF Marked
<1>2. \A s \in Seq(Delivery) : DOMAIN s = 1..Len(s)
  OBVIOUS
<1> QED
  BY <1>1, <1>2

(* What a step of the notifier does to the deliveries.                     *)
LEMMA NotifierDelivers ==
  ASSUME BaseInv, NEW p \in Tellers, NotifierActs(p)
  PROVE  /\ \A q \in Callers \ {p} : deliveries'[q] = deliveries[q]
         /\ \/ deliveries'[p] = deliveries[p] /\ at'[p] \notin CardCalls \cup {"falling"}
            \/ /\ at'[p] \in CardCalls \cup {"falling"}
               /\ deliveries'[p] = Append(deliveries[p], [kind |-> KindAt(at'[p]),
                    status |-> "pending"])
            \/ /\ at[p] \in CardCalls \cup {"falling"} /\ Succeeded(p)
               /\ at'[p] \notin CardCalls \cup {"falling"}
               /\ deliveries'[p] = Marked(deliveries[p], "sent")
            \/ /\ at'[p] \notin CardCalls \cup {"falling"}
               /\ deliveries'[p] = Marked(deliveries[p], "failed")
<1>0. /\ p \in Callers /\ DOMAIN deliveries = Callers /\ HandlersTyped
      /\ deliveries \in [Callers -> Seq(Delivery)]
  BY TellersAre DEF BaseInv, StoreTyped
<1>1. \A kind : CreateDelivery(p, kind) =>
        /\ deliveries'[p] = Append(deliveries[p], [kind |-> kind, status |-> "pending"])
        /\ \A q \in Callers \ {p} : deliveries'[q] = deliveries[q]
  BY <1>0 DEF CreateDelivery
<1>2. \A to : MarkDelivery(p, to) =>
        /\ deliveries'[p] = Marked(deliveries[p], to)
        /\ \A q \in Callers \ {p} : deliveries'[q] = deliveries[q]
  BY <1>0 DEF MarkDelivery, Marked
<1>3. CASE Quietly(p)
  BY <1>0, <1>3 DEF Quietly, GetPending, InsertPending, HandleStarted, MarkStreaming, Degrade,
    SaveOutput, MarkTerminal, AttachFallback, OnlyMoves, storeVars, Go, HandlersTyped,
      CardCalls, Continue
<1>4. CASE Reacted(p) \/ ReactionRemoved(p)
  BY <1>0, <1>4 DEF Reacted, ReactionRemoved, storeVars, Go, HandlersTyped, CardCalls
<1>5. CASE CardCreated(p) \/ CardUpdated(p) \/ CardCompleted(p) \/ FallbackSent(p)
  <2>1. /\ at[p] \in CardCalls \cup {"falling"} /\ Succeeded(p) /\ MarkDelivery(p, "sent")
        /\ at'[p] \notin CardCalls \cup {"falling"}
    BY <1>0, <1>5 DEF CardCreated, CardUpdated, CardCompleted, FallbackSent, Called, Go,
      HandlersTyped, CardCalls
  <2> QED
    BY <1>2, <2>1
<1>6. CASE CardFails(p) \/ CompleteFails(p) \/ FallbackFails(p)
  <2>1. MarkDelivery(p, "failed") /\ at'[p] \notin CardCalls \cup {"falling"}
    BY <1>0, <1>6 DEF CardFails, CompleteFails, FallbackFails, Go, HandlersTyped, CardCalls
  <2> QED
    BY <1>2, <2>1
<1>7. CASE React(p) \/ RemoveReaction(p)
  BY <1>0, <1>7 DEF React, RemoveReaction, storeVars, Go, HandlersTyped, CardCalls
<1>8. CASE CreateCard(p) \/ HandleDelta(p) \/ HandleTerminal(p) \/ Reread(p)
  <2>1. \/ deliveries' = deliveries /\ at'[p] \notin CardCalls \cup {"falling"}
        \/ at'[p] \in CardCalls \cup {"falling"} /\ CreateDelivery(p, KindAt(at'[p]))
    <3>1. KindAt("creating") = "card_create" /\ KindAt("updating") = "card_update"
          /\ KindAt("completing") = "card_complete" /\ KindAt("falling") = "fallback_terminal"
      BY DEF KindAt
    <3>2. CASE CreateCard(p)
      <4>1. at'[p] = "creating" /\ CreateDelivery(p, "card_create")
        BY <1>0, <3>2 DEF CreateCard, Go, HandlersTyped
      <4> QED
        BY <3>1, <4>1 DEF CardCalls
    <3>3. CASE HandleDelta(p)
      <4>1. \/ at'[p] = "updating" /\ CreateDelivery(p, "card_update")
            \/ at'[p] = "told" /\ deliveries' = deliveries
        BY <1>0, <3>3 DEF HandleDelta, Go, HandlersTyped
      <4> QED
        BY <3>1, <4>1 DEF CardCalls
    <3>4. CASE HandleTerminal(p)
      <4>1. \/ at'[p] = "completing" /\ CreateDelivery(p, "card_complete")
            \/ at'[p] \in {"told", "reread"} /\ deliveries' = deliveries
        BY <1>0, <3>4 DEF HandleTerminal, Go, HandlersTyped
      <4> QED
        BY <3>1, <4>1 DEF CardCalls
    <3>5. CASE Reread(p)
      <4>1. \/ at'[p] = "falling" /\ CreateDelivery(p, "fallback_terminal")
            \/ at'[p] = "told" /\ deliveries' = deliveries
        BY <1>0, <3>5 DEF Reread, Go, HandlersTyped
      <4> QED
        BY <3>1, <4>1 DEF CardCalls
    <3> QED
      BY <1>8, <3>2, <3>3, <3>4, <3>5
  <2> QED
    BY <1>1, <2>1
<1> QED
  BY <1>3, <1>4, <1>5, <1>6, <1>7, <1>8, NotifierKinds DEF NotifierActs, Answering, Asking

LEMMA ShownOfNotifier ==
  ASSUME BaseInv, ShownInv, NEW p \in Tellers, NotifierActs(p)
  PROVE  ShownInv'
<1>1. /\ StartWays(p) \/ OutputWays(p) \/ EndWays(p)
      /\ presentation'.card = (presentation.card \/ at[p] = "streaming")
      /\ presentation'.fallback = (presentation.fallback \/ at[p] = "attach")
      /\ \A q \in Tellers \ {p} : at'[q] = at[q] /\ call'[q] = call[q]
      /\ UNCHANGED <<card, posts>>
      /\ at'[p] \in Waiting => call'[p].stage = "token"
  BY NotifierGoes, TellersAre DEF RowWays
<1>2. ShownBy(p) /\ (\A q \in Tellers : ShownBy(q)) /\ p \in Callers
  BY TellersAre DEF ShownInv
<1>3. /\ \A q \in Callers \ {p} : deliveries'[q] = deliveries[q]
      /\ \/ deliveries'[p] = deliveries[p] /\ at'[p] \notin CardCalls \cup {"falling"}
         \/ /\ at'[p] \in CardCalls \cup {"falling"}
            /\ deliveries'[p] = Append(deliveries[p], [kind |-> KindAt(at'[p]),
                 status |-> "pending"])
         \/ /\ at[p] \in CardCalls \cup {"falling"} /\ Succeeded(p)
            /\ at'[p] \notin CardCalls \cup {"falling"}
            /\ deliveries'[p] = Marked(deliveries[p], "sent")
         \/ /\ at'[p] \notin CardCalls \cup {"falling"}
            /\ deliveries'[p] = Marked(deliveries[p], "failed")
  BY NotifierDelivers
<1>4. presentation'.card => card'.status # "none"
  BY <1>1, <1>2 DEF ShownInv, ShownBy
<1>5. presentation'.fallback => posts' # <<>>
  BY <1>1, <1>2 DEF ShownInv, ShownBy
<1>6. ASSUME NEW q \in Tellers \ {p} PROVE ShownBy(q)'
  <2>1. at'[q] = at[q] /\ call'[q] = call[q] /\ deliveries'[q] = deliveries[q]
    BY <1>1, <1>3, TellersAre
  <2> QED
    BY <1>1, <1>2, <2>1 DEF ShownBy, Succeeded, InChat
<1>7. /\ at'[p] = "streaming" \/ (at'[p] \in CardCalls /\ Succeeded(p)') => card'.status # "none"
      /\ at'[p] = "attach" \/ (at'[p] = "falling" /\ Succeeded(p)') => posts' # <<>>
  <2>1. at'[p] \in CardCalls \cup {"falling"} => ~Succeeded(p)'
    BY <1>1 DEF CardCalls, Waiting, Succeeded
  <2>2. at'[p] = "streaming" => at[p] = "creating" /\ Succeeded(p)
    BY <1>1, TellersPlaces, TellersAre DEF StartWays, OutputWays, EndWays, Continue
  <2>3. at'[p] = "attach" => at[p] = "falling" /\ Succeeded(p)
    BY <1>1 DEF StartWays, OutputWays, EndWays, Continue
  <2> QED
    BY <1>1, <1>2, <2>1, <2>2, <2>3 DEF ShownBy, CardCalls
<1>8. /\ at'[p] \in CardCalls \cup {"falling"} =>
           deliveries'[p] # <<>> /\ deliveries'[p][Len(deliveries'[p])].kind = KindAt(at'[p])
      /\ \A i \in DOMAIN deliveries'[p] : InChat(deliveries'[p][i], posts', card'.status)
  <2> DEFINE d == deliveries[p]
             e == deliveries'[p]
  <2>1. d \in Seq(Delivery) /\ Len(d) \in Nat /\ DOMAIN d = 1..Len(d)
    BY <1>2 DEF BaseInv, StoreTyped
  <2>2. posts' = posts /\ card' = card
    BY <1>1
  <2>3. \A i \in 1..Len(d) : InChat(d[i], posts, card.status)
    BY <1>2, <2>1 DEF ShownBy
  <2>4. CASE e = d /\ at'[p] \notin CardCalls \cup {"falling"}
    BY <2>1, <2>2, <2>3, <2>4
  <2>5. CASE /\ at'[p] \in CardCalls \cup {"falling"}
             /\ e = Append(d, [kind |-> KindAt(at'[p]), status |-> "pending"])
    <3> DEFINE row == [kind |-> KindAt(at'[p]), status |-> "pending"]
    <3>1. row \in Delivery /\ row.kind = KindAt(at'[p]) /\ row.status = "pending"
      BY DEF Delivery, DeliveryKinds, KindAt
    <3> HIDE DEF row
    <3>2. /\ Len(e) = Len(d) + 1 /\ DOMAIN e = 1..(Len(d) + 1) /\ e[Len(d) + 1] = row
          /\ \A i \in 1..Len(d) : e[i] = d[i]
      BY <2>1, <2>5, <3>1, AppendProperties DEF row
    <3>3. \A i \in 1..(Len(d) + 1) : i \in 1..Len(d) \/ i = Len(d) + 1
      BY <2>1
    <3>4. InChat(row, posts, card.status)
      BY <3>1 DEF InChat
    <3>5. e # <<>>
      BY <2>1, <3>2
    <3> QED
      BY <2>2, <2>3, <3>1, <3>2, <3>3, <3>4, <3>5
  <2>6. ASSUME NEW to \in {"sent", "failed"}, e = Marked(d, to),
               to = "sent" => at[p] \in CardCalls \cup {"falling"} /\ Succeeded(p)
        PROVE  \A i \in DOMAIN e : InChat(e[i], posts, card.status)
    <3>1. /\ Len(e) = Len(d) /\ DOMAIN e = 1..Len(d)
          /\ \A i \in 1..Len(d) :
               e[i].kind = d[i].kind /\ e[i].status = (IF i = Len(d) THEN to ELSE d[i].status)
      BY <2>1, <2>6, MarkedTyped
    <3>3. to = "sent"
      => IF d[Len(d)].kind = "fallback_terminal" THEN posts # <<>> ELSE card.status # "none"
      BY <1>2, <2>6 DEF ShownBy, CardCalls, KindAt
    <3> HIDE DEF d, e
    <3> QED
      BY <2>3, <3>1, <3>3 DEF InChat
  <2>7. CASE e = Marked(d, "sent") \/ e = Marked(d, "failed")
    BY <1>3, <2>2, <2>4, <2>5, <2>6, <2>7
  <2> QED
    BY <1>3, <2>4, <2>5, <2>7
<1>9. ShownBy(p)'
  BY <1>7, <1>8 DEF ShownBy
<1> QED
  BY <1>4, <1>5, <1>6, <1>9 DEF ShownInv

LEMMA ShownOfSender ==
  ASSUME BaseInv, ShownInv, NEW p \in Callers, SenderActs(p)
  PROVE  ShownInv'
<1>1. /\ UNCHANGED <<at, presentation, deliveries, outcome>>
      /\ \A q \in Callers \ {p} : call'[q] = call[q]
      /\ card' = card \/ (at[p] \in CardCalls /\ card' = call[p].body)
      /\ posts' = posts \/ (at[p] = "falling" /\ posts' = Append(posts, call[p].body.status))
      /\ Succeeded(p)' => /\ at[p] \in CardCalls => card' = call[p].body
                          /\ at[p] = "falling" => posts' = Append(posts, call[p].body.status)
  BY SenderShows DEF SenderActs, storeVars, handlerVars, CardCalls
<1>2. at[p] \in CardCalls => call[p].body.status # "none"
  <2>1. Calls(p) /\ "none" \notin Ends
    BY DEF BaseInv, Ends
  <2>2. at[p] = "completing" => outcome[p] \in Ends
    BY EndTellers DEF EndPlaces
  <2> QED
    BY <2>1, <2>2 DEF Calls, CardCalls
<1>3. posts \in Seq(Ends) /\ \A x : Append(posts, x) # <<>>
  <2>1. posts \in Seq(Ends)
    BY DEF BaseInv, SenderTyped
  <2>2. \A x : Len(Append(posts, x)) = Len(posts) + 1 /\ Len(posts) \in Nat
    BY <2>1
  <2> QED
    BY <2>1, <2>2
<1>4. /\ card.status # "none" => card'.status # "none"
      /\ posts # <<>> => posts' # <<>>
  BY <1>1, <1>2, <1>3
<1>5. ASSUME NEW q \in Tellers PROVE ShownBy(q)'
  <2>1. q \in Callers /\ ShownBy(q)
    BY TellersAre DEF ShownInv
  <2>2. Succeeded(q)' => Succeeded(q) \/ (q = p /\ Succeeded(p)')
    BY <1>1, <2>1 DEF Succeeded
  <2>3. \A d : InChat(d, posts, card.status) => InChat(d, posts', card'.status)
    BY <1>4 DEF InChat
  <2> QED
    BY <1>1, <1>2, <1>3, <1>4, <2>1, <2>2, <2>3 DEF ShownBy
<1> QED
  BY <1>1, <1>4, <1>5 DEF ShownInv

LEMMA ShownOfOthers ==
  ASSUME BaseInv, ShownInv, ExecutorActs \/ Still \/ Reap \/ \E p \in Callers : Cut(p)
  PROVE  ShownInv'
<1>1. \A p \in Tellers : ShownBy(p)
  BY DEF ShownInv
<1>2. ASSUME NEW p \in Tellers, UNCHANGED <<card, posts>>, deliveries'[p] = deliveries[p],
             \/ at'[p] = at[p] /\ call'[p] = call[p]
             \/ at'[p] \notin CardCalls \cup {"falling", "streaming", "attach"}
      PROVE  ShownBy(p)'
  BY <1>1, <1>2 DEF ShownBy, Succeeded
<1>3. CASE ExecutorActs
  <2>1. /\ UNCHANGED <<presentation, deliveries, card, posts, call>>
        /\ \A q \in Tellers \ {Executor} : at'[q] = at[q]
        /\ at'[Executor] \in {"started", "gone", "stream", "persist", "delta", "ended"}
    BY <1>3, ExecutorGoes, TellersAre DEF ExecutorWays
  <2> QED
    BY <1>2, <2>1 DEF ShownInv, CardCalls
<1>4. CASE Still
  BY <1>2, <1>4 DEF Still, ShownInv
<1>5. CASE Reap
  <2>1. /\ UNCHANGED <<presentation, deliveries, card, posts, call>>
        /\ \A q \in Tellers \ {"reaper"} : at'[q] = at[q]
        /\ at'["reaper"] = "ended"
    BY <1>5, TellersAre DEF Reap, MarkRun, senderVars, UnlessSpent, Go, BaseInv, HandlersTyped
  <2> QED
    BY <1>2, <2>1 DEF ShownInv, CardCalls
<1>6. CASE \E p \in Callers : Cut(p)
  <2>1. PICK p \in Callers : Cut(p)
    BY <1>6
  <2>2. /\ UNCHANGED <<presentation, deliveries, card, posts>>
        /\ \A q \in Tellers \ {p} : at'[q] = at[q] /\ call'[q] = call[q]
        /\ p \in Tellers => at'[p] \in {"gone", "catch", "completeCatch", "fallbackCatch"}
    BY <2>1, CutPlaces, TellersAre DEF Cut, storeVars
  <2> QED
    BY <1>2, <2>2 DEF ShownInv, CardCalls
<1> QED
  BY <1>3, <1>4, <1>5, <1>6

LEMMA NextShown == BaseInv /\ ShownInv /\ [Next]_vars => ShownInv'
BY StepsSeen, ShownOfNotifier, ShownOfSender, ShownOfOthers

LEMMA ShownAtStart == Init => ShownInv
<1> SUFFICES ASSUME Init PROVE ShownInv
  OBVIOUS
<1>1. /\ presentation = NoPresentation /\ \A p \in Tellers : at[p] \in {"queued", "idle"}
           /\ deliveries[p] = <<>>
  BY TellersAre DEF Init, HandlerInit, StoreInit
<1>2. \A p \in Tellers : DOMAIN deliveries[p] = {}
  BY <1>1
<1> QED
  BY <1>1, <1>2 DEF ShownInv, ShownBy, NoPresentation, CardCalls

---------------------------------------------------------------------------
(* Unless the reaper has ended the run under a living executor, one of the *)
(* two at most is telling its end, and what was told stays.                *)

Enders == {"reaper", Executor}

LEMMA OneEnds ==
  ASSUME BaseInv, EndInv, "overtaken" \notin marks, NEW p \in Enders, NEW q \in Enders,
         at[p] \notin {"idle", "gone"}, at[q] \notin {"idle", "gone"}
  PROVE  p = q
BY DEF EndInv, Enders

LEMMA StartsAlone ==
  ASSUME BaseInv, at[Executor] \in StartPlaces
  PROVE  at["reaper"] = "idle"
BY DEF BaseInv, PlacesHold

(* Whose calls change what the chat was told.                              *)
LEMMA ToldChanges ==
  ASSUME BaseInv, NEW p \in Callers, SenderActs(p)
  PROVE  /\ \/ ToldEnds' = ToldEnds
            \/ p \in Enders /\ at[p] \in CardCalls \cup {"falling"} /\ ~Succeeded(p) /\ ~Failed(p)
         /\ at[p] = "falling" => ToldEnds \subseteq ToldEnds'
         /\ at[p] \in {"completing", "falling"} /\ Succeeded(p)' => outcome[p] \in ToldEnds'
<1>1. /\ card' = card \/ (at[p] \in CardCalls /\ card' = call[p].body)
      /\ posts' = posts \/ (at[p] = "falling" /\ posts' = Append(posts, call[p].body.status))
      /\ Succeeded(p)' => /\ at[p] \in CardCalls => card' = call[p].body
                          /\ at[p] = "falling" => posts' = Append(posts, call[p].body.status)
      /\ ~Succeeded(p) /\ ~Failed(p)
  BY SenderShows DEF Succeeded, Failed, CardCalls
<1>2. at[p] \in CardCalls \cup {"falling"} => p \in Enders
  <2>1. p \in {"gateway", "reaper", Executor, Media}
    BY TellersAre, RunAssumption
  <2>2. at["gateway"] \notin CardCalls \cup {"falling"}
    /\ at[Media] \notin CardCalls \cup {"falling"}
    BY TellersPlaces DEF BaseInv, PlacesHold, GatewayPlaces, MediaPlaces, CardCalls
  <2> QED
    BY <2>1, <2>2 DEF Enders
<1>3. at[p] \in {"completing", "falling"} => outcome[p] \in Ends /\ call[p].body.status = outcome[p]
  BY EndTellers DEF EndPlaces, BaseInv, Calls
<1>4. posts \in Seq(Ends)
  BY DEF BaseInv, SenderTyped
<1>5. \A x \in Ends : Range(Append(posts, x)) = Range(posts) \cup {x}
  <2> TAKE x \in Ends
  <2>1. /\ DOMAIN posts = 1..Len(posts) /\ Len(posts) \in Nat
        /\ DOMAIN Append(posts, x) = 1..(Len(posts) + 1)
        /\ \A i \in 1..Len(posts) : Append(posts, x)[i] = posts[i]
        /\ Append(posts, x)[Len(posts) + 1] = x
    BY <1>4, AppendProperties
  <2>2. \A i : i \in 1..(Len(posts) + 1) <=> i \in 1..Len(posts) \/ i = Len(posts) + 1
    BY <2>1
  <2> QED
    BY <2>1, <2>2 DEF Range
<1>6. at[p] = "falling" => card' = card
  BY <1>1 DEF CardCalls
<1>7. at[p] = "completing" /\ Succeeded(p)' => outcome[p] \in ToldEnds'
  <2>1. at[p] = "completing" /\ Succeeded(p)' => card'.status = outcome[p] /\ outcome[p] \in Ends
    BY <1>1, <1>3 DEF CardCalls
  <2> QED
    BY <2>1 DEF ToldEnds
<1>8. at[p] = "falling" => ToldEnds \subseteq ToldEnds' /\ (Succeeded(p)'
  => outcome[p] \in ToldEnds')
  BY <1>1, <1>3, <1>5, <1>6 DEF ToldEnds
<1>9. card' = card /\ posts' = posts => ToldEnds' = ToldEnds
  BY DEF ToldEnds
<1> QED
  BY <1>1, <1>2, <1>7, <1>8, <1>9 DEF CardCalls

(* What was told is not taken back but by an output in flight.             *)
LEMMA ToldStays ==
  ASSUME BaseInv, EndInv, [Next]_vars, ToldEnds # {}, "inFlight" \notin marks
  PROVE  ToldEnds' # {}
<1>1. CASE UNCHANGED <<card, posts>>
  BY <1>1 DEF ToldEnds
<1>2. CASE \E p \in Callers : SenderActs(p)
  <2>1. PICK p \in Callers : SenderActs(p)
    BY <1>2
  <2>2. CASE ToldEnds' = ToldEnds \/ at[p] = "falling"
    BY <2>1, <2>2, ToldChanges
  <2>3. CASE card' = card /\ at[p] \in CardCalls
    BY <2>1, <2>3, SenderShows DEF ToldEnds, CardCalls
  <2>4. CASE card' # card /\ at[p] = "completing"
    <3>1. card'.status \in Ends
      BY <2>1, <2>4, SenderShows, EndTellers DEF EndPlaces, BaseInv, Calls
    <3> QED
      BY <3>1 DEF ToldEnds
  <2>5. CASE card' # card /\ at[p] \in {"creating", "updating"}
    <3>1. card'.status = "running" /\ posts' = posts
      BY <2>1, <2>5, SenderShows DEF BaseInv, Calls
    <3>2. card.status \notin Ends
      BY <3>1, LateStep
    <3> QED
      BY <3>1, <3>2 DEF ToldEnds
  <2> QED
    BY <2>1, <2>2, <2>3, <2>4, <2>5, ToldChanges DEF CardCalls
<1> QED
  BY <1>1, <1>2, StepsSeen, ExecutorGoes, NotifierGoes DEF Still, Reap, senderVars, UnlessSpent, Cut

---------------------------------------------------------------------------
(* The phase of a presentation and the status that its card shows.         *)

Round ==
  {"ended", "unreacting", "closing", "completing", "markTerminal", "completeCatch",
    "degradeClosing"}
Unended ==
  \/ at[Executor] \in StartPlaces \cup StreamPlaces \cup {"degrade", "persist"}
  \/ at[Executor] = "told" /\ outcome[Executor] = None
Undropped == marks \cap {"overtaken", "endDropped"} = {}
HasClosed(p) == at[p] = "markTerminal" \/ (at[p] = "completing" /\ Succeeded(p))

PhaseInv ==
  /\ presentation.phase \in Ends => presentation.card
  /\ \A p \in Enders : at[p] \in {"completing", "markTerminal", "completeCatch"}
       => presentation.card
  /\ Undropped =>
       /\ \A p \in Enders : HasClosed(p) => card.status = outcome[p]
       /\ presentation.phase \in Ends =>
            /\ ~Unended
            /\ \/ card.status = presentation.phase \/ at[Executor] = "catch"
               \/ \E p \in Enders : at[p] \in Round

LEMMA PhaseOfExecutor ==
  ASSUME BaseInv, PhaseInv, ExecutorActs
  PROVE  PhaseInv'
<1>1. /\ ExecutorWays
      /\ at'["reaper"] = at["reaper"] /\ outcome'["reaper"] = outcome["reaper"]
      /\ UNCHANGED <<presentation, card, call, marks>>
  BY ExecutorGoes, TellersAre
<1>2. /\ at'[Executor] \in {"started", "gone", "stream", "persist", "delta", "ended"}
      /\ at[Executor] \in {"idle", "told", "stream", "persist", "catch"}
      /\ at[Executor] = "catch" => at'[Executor] = "ended"
  BY <1>1 DEF ExecutorWays
<1>3. Unended' => Unended
  BY <1>1 DEF ExecutorWays, Unended, StartPlaces, StreamPlaces
<1>4. at[Executor] \notin Round /\ "ended" \in Round
  BY <1>2 DEF Round
<1>5. HasClosed(Executor)' = FALSE /\ HasClosed("reaper")' = HasClosed("reaper")
  BY <1>1, <1>2 DEF HasClosed, Succeeded
<1>6. (at[Executor] = "catch" \/ \E p \in Enders : at[p] \in Round) =>
        (\E p \in Enders : at'[p] \in Round)
  BY <1>1, <1>2, <1>4 DEF Enders
<1>7. \A p \in Enders :
        at'[p] \in {"completing", "markTerminal", "completeCatch"} => p = "reaper" /\ at'[p] = at[p]
  BY <1>1, <1>2 DEF Enders
<1> QED
  BY <1>1, <1>3, <1>5, <1>6, <1>7 DEF PhaseInv, Enders, Undropped

LEMMA PhaseOfNotifier ==
  ASSUME BaseInv, EndInv, PhaseInv, NEW p \in Tellers, NotifierActs(p)
  PROVE  PhaseInv'
<1>1. /\ StartWays(p) \/ OutputWays(p) \/ EndWays(p)
      /\ \A q \in Tellers \ {p} : at'[q] = at[q] /\ call'[q] = call[q]
      /\ UNCHANGED <<outcome, marks, card>>
      /\ presentation'.card = (presentation.card \/ at[p] = "streaming")
      /\ presentation'.phase =
           IF at[p] = "insertPending" THEN "pending_start"
           ELSE IF at[p] = "streaming" THEN "streaming"
           ELSE IF at[p] \in {"degrade", "degradeClosing"} THEN "degraded"
           ELSE IF at[p] = "markTerminal" THEN outcome[p]
           ELSE presentation.phase
      /\ at'[p] \in Waiting => call'[p].stage = "token"
  BY NotifierGoes, TellersAre DEF RowWays
<1>2. {"pending_start", "streaming", "degraded"} \cap Ends = {} /\ Enders \subseteq Tellers
  BY TellersAre DEF Ends, Enders
<1>3. presentation'.phase \in Ends =>
        \/ at[p] = "markTerminal" /\ presentation'.phase = outcome[p]
        \/ /\ presentation'.phase = presentation.phase
           /\ at[p] \notin {"insertPending", "streaming", "degrade", "degradeClosing",
                "markTerminal"}
  BY <1>1, <1>2
<1>4. at[p] \in {"markTerminal"} \cup Round => p \in Enders
  BY TellersPlaces, TellersAre DEF Enders, GatewayPlaces, Round
<1>5. presentation'.phase \in Ends => presentation'.card
  BY <1>1, <1>3, <1>4 DEF PhaseInv
<1>6. \A q \in Enders : at'[q] \in {"completing", "markTerminal", "completeCatch"}
  => presentation'.card
  <2>1. at'[p] \in {"completing", "markTerminal", "completeCatch"} =>
          (at[p] = "closing" /\ presentation.card) \/ at[p] = "completing"
    BY <1>1 DEF StartWays, OutputWays, EndWays, Continue
  <2> QED
    BY <1>1, <1>2, <2>1 DEF PhaseInv
<1>7. ASSUME Undropped'
      PROVE  /\ \A q \in Enders : HasClosed(q)' => card'.status = outcome'[q]
             /\ presentation'.phase \in Ends =>
                  /\ ~Unended'
                  /\ \/ card'.status = presentation'.phase \/ at'[Executor] = "catch"
                     \/ \E q \in Enders : at'[q] \in Round
  <2>1. Undropped
    BY <1>1, <1>7 DEF Undropped
  <2>2. HasClosed(p)' => HasClosed(p)
    <3>1. at'[p] = "markTerminal" => at[p] = "completing" /\ Succeeded(p)
      BY <1>1 DEF StartWays, OutputWays, EndWays, Continue
    <3> QED
      BY <1>1, <3>1 DEF HasClosed, Waiting, Succeeded
  <2>3. \A q \in Enders : HasClosed(q)' => card'.status = outcome'[q]
    BY <1>1, <1>2, <2>1, <2>2 DEF PhaseInv, HasClosed, Succeeded
  <2>4. ASSUME at[p] = "markTerminal", presentation'.phase = outcome[p]
        PROVE  ~Unended' /\ card'.status = presentation'.phase
    <3>1. p \in Enders /\ HasClosed(p) /\ at'[p] = "reread"
      BY <1>1, <1>4, <2>4 DEF HasClosed, StartWays, OutputWays, EndWays
    <3>2. card.status = outcome[p]
      BY <2>1, <3>1 DEF PhaseInv
    <3>3. p = Executor \/ at'[Executor] = "gone"
      BY <1>1, <2>1, <2>4, <3>1, TellersAre DEF EndInv, Undropped, Enders
    <3> QED
      BY <1>1, <2>4, <3>1, <3>2, <3>3 DEF Unended, StartPlaces, StreamPlaces
  <2>5. ASSUME presentation'.phase \in Ends, presentation'.phase = presentation.phase,
               at[p] \notin {"insertPending", "streaming", "degrade", "degradeClosing",
                 "markTerminal"}
        PROVE  /\ ~Unended'
               /\ \/ card'.status = presentation'.phase \/ at'[Executor] = "catch"
                  \/ \E q \in Enders : at'[q] \in Round
    <3>1. ~Unended /\ presentation.card
      BY <2>1, <2>5 DEF PhaseInv
    <3>2. p = Executor => EndWays(p) /\ outcome[p] \in Ends /\ at[p] \in EndPlaces
      <4>1. p = Executor => at[p] \notin StartPlaces \cup StreamPlaces \cup {"degrade"}
        BY <3>1 DEF Unended
      <4>2. p = Executor => EndWays(p)
        <5>1. p = Executor => at[p] \notin {"queued", "reacting"}
          BY TellersPlaces DEF ExecutorPlaces, StartPlaces, StreamPlaces, EndPlaces
        <5> QED
          BY <1>1, <4>1, <5>1 DEF StartWays, OutputWays, StartPlaces, StreamPlaces
      <4> QED
        BY <4>2, TellersAre, EndTellers DEF EndWays, EndPlaces
    <3>3. ~Unended'
      <4>1. CASE p = Executor
        <5>1. at'[p] \in EndPlaces \cup {"told"}
          BY <3>2, <4>1 DEF EndWays, EndPlaces
        <5>2. outcome'[p] # None
          /\ EndPlaces \cap (StartPlaces \cup StreamPlaces \cup {"degrade", "persist"}) = {}
          BY <1>1, <3>2, <4>1, RunAssumption DEF EndPlaces, StartPlaces, StreamPlaces
        <5> QED
          BY <4>1, <5>1, <5>2 DEF Unended, StartPlaces, StreamPlaces
      <4>2. CASE p # Executor
        BY <1>1, <3>1, <4>2, TellersAre DEF Unended
      <4> QED
        BY <4>1, <4>2
    <3>4. at[Executor] = "catch" => at'[Executor] = "catch"
      BY <1>1, <3>2, TellersAre DEF EndPlaces
    <3>5. at[p] \in Round => at'[p] \in Round
      <4>1. at[p] \in Round => EndWays(p)
        BY <1>1 DEF StartWays, OutputWays, Round
      <4>2. presentation # NoPresentation
        BY <3>1 DEF NoPresentation
      <4> QED
        BY <2>5, <3>1, <4>1, <4>2 DEF EndWays, Round
    <3> QED
      BY <1>1, <1>2, <2>1, <2>5, <3>3, <3>4, <3>5 DEF PhaseInv
  <2> QED
    BY <1>3, <2>3, <2>4, <2>5
<1> QED
  BY <1>5, <1>6, <1>7 DEF PhaseInv

LEMMA PhaseOfSender ==
  ASSUME BaseInv, EndInv, PhaseInv, NEW p \in Callers, SenderActs(p)
  PROVE  PhaseInv'
<1>1. /\ UNCHANGED <<at, outcome, presentation>>
      /\ \A q \in Callers \ {p} : call'[q] = call[q]
      /\ card' = card \/ (at[p] \in CardCalls /\ card' = call[p].body)
      /\ at[p] \in CardCalls /\ Succeeded(p)' => card' = call[p].body
      /\ at[p] \in Waiting /\ marks \subseteq marks' /\ ~Succeeded(p)
  BY SenderShows DEF SenderActs, storeVars, handlerVars, CardCalls, Succeeded
<1>2. ASSUME Undropped, at[p] \in CardCalls
      PROVE  /\ p \in Enders /\ at[p] \notin {"idle", "gone"}
             /\ at[p] = "completing" => call[p].body.status = outcome[p]
             /\ at[p] # "completing" => p = Executor /\ Unended
  <2>1. p \in {"gateway", "reaper", Executor, Media}
    BY TellersAre, RunAssumption
  <2>2. /\ at["gateway"] \notin CardCalls /\ at[Media] \notin CardCalls
        /\ at["reaper"] \notin {"creating", "updating"}
    BY TellersPlaces DEF BaseInv, PlacesHold, GatewayPlaces, ReaperPlaces, EndPlaces,
      MediaPlaces, CardCalls
  <2>3. at[p] = "completing" => call[p].body.status = outcome[p]
    BY DEF BaseInv, Calls
  <2> QED
    BY <1>2, <2>1, <2>2, <2>3 DEF Enders, CardCalls, Unended, StartPlaces, StreamPlaces
<1>3. Undropped' => Undropped
  BY <1>1 DEF Undropped
<1>4. ASSUME Undropped, NEW q \in Enders, HasClosed(q)'
      PROVE  card'.status = outcome'[q]
  <2>0. q \in Callers /\ at[q] \notin {"idle", "gone"}
    BY <1>1, <1>4, TellersAre DEF HasClosed, Enders
  <2>1. CASE q = p
    <3>1. at[p] = "completing" /\ Succeeded(p)'
      BY <1>1, <1>4, <2>1 DEF HasClosed, Waiting
    <3> QED
      BY <1>1, <1>2, <1>4, <2>1, <3>1 DEF CardCalls
  <2>2. CASE q # p
    <3>1. HasClosed(q)
      BY <1>1, <1>4, <2>0, <2>2 DEF HasClosed, Succeeded
    <3>2. at[p] \notin CardCalls
      BY <1>2, <1>4, <2>0, <2>2, OneEnds DEF Undropped
    <3> QED
      BY <1>1, <1>4, <3>1, <3>2 DEF PhaseInv
  <2> QED
    BY <2>1, <2>2
<1>5. ASSUME Undropped, presentation'.phase \in Ends
      PROVE  /\ ~Unended'
             /\ \/ card'.status = presentation'.phase \/ at'[Executor] = "catch"
                \/ \E q \in Enders : at'[q] \in Round
  <2>1. ~Unended
    BY <1>1, <1>5 DEF PhaseInv
  <2>2. card' = card \/ (p \in Enders /\ at[p] \in Round)
    BY <1>1, <1>2, <1>5, <2>1 DEF CardCalls, Round
  <2> QED
    BY <1>1, <1>5, <2>1, <2>2 DEF PhaseInv, Unended
<1> QED
  BY <1>1, <1>3, <1>4, <1>5 DEF PhaseInv

LEMMA PhaseOfCut ==
  ASSUME BaseInv, PhaseInv, NEW p \in Callers, Cut(p)
  PROVE  PhaseInv'
<1>1. /\ UNCHANGED <<presentation, card, outcome>>
      /\ \A q \in Callers \ {p} : at'[q] = at[q] /\ call'[q] = call[q]
      /\ marks \subseteq marks'
      /\ at'[p] = "gone" /\ TellingEnd(p) => "endDropped" \in marks'
  BY DEF Cut, storeVars
<1>2. /\ at'[p] = "completeCatch" => at[p] \in {"markTerminal", "completing"}
      /\ at'[p] = "fallbackCatch" => at[p] \in {"attach", "falling"}
      /\ p \in Tellers => at'[p] \in {"gone", "catch", "completeCatch", "fallbackCatch"}
      /\ at'[p] = "catch" => p = Executor
  BY CutPlaces
<1>3. Undropped' => Undropped
  BY <1>1 DEF Undropped
<1>4. \A q \in Enders : at'[q] \in {"completing", "markTerminal", "completeCatch"}
  => presentation'.card
  BY <1>1, <1>2, TellersAre DEF PhaseInv, Enders
<1>5. \A q \in Enders : HasClosed(q)' => HasClosed(q)
  BY <1>1, <1>2, TellersAre DEF HasClosed, Enders, Succeeded
<1>6. Unended' => Unended
  BY <1>1, <1>2, TellersAre DEF Unended, StartPlaces, StreamPlaces
<1>7. Undropped' /\ at[Executor] = "catch" => at'[Executor] = "catch"
  BY <1>1, <1>2, TellersAre DEF Undropped, TellingEnd
<1>8. ASSUME Undropped', NEW q \in Enders, at[q] \in Round
      PROVE  at'[Executor] = "catch" \/ at'[q] \in Round
  <2>1. CASE p = q
    <3>1. TellingEnd(p) /\ p \in Tellers /\ at[p] \notin {"attach", "falling"}
      BY <1>8, <2>1, TellersAre DEF Round, TellingEnd, Enders
    <3>2. at'[p] \in {"catch", "completeCatch"}
      BY <1>1, <1>2, <1>8, <3>1 DEF Undropped
    <3> QED
      BY <1>2, <2>1, <3>2 DEF Round
  <2>2. CASE p # q
    BY <1>1, <1>8, <2>2, TellersAre DEF Enders
  <2> QED
    BY <2>1, <2>2
<1> QED
  BY <1>1, <1>3, <1>4, <1>5, <1>6, <1>7, <1>8 DEF PhaseInv

LEMMA PhaseOfOthers ==
  ASSUME BaseInv, PhaseInv, Still \/ Reap
  PROVE  PhaseInv'
<1>1. CASE Still
  BY <1>1, TellersAre DEF Still, PhaseInv, Enders, Undropped, HasClosed, Succeeded, Unended
<1>2. CASE Reap
  <2>1. /\ UNCHANGED <<presentation, card, call>> /\ marks \subseteq marks'
        /\ at'["reaper"] = "ended" /\ at'[Executor] = at[Executor]
             /\ outcome'[Executor] = outcome[Executor]
    BY <1>2, TellersAre DEF Reap, MarkRun, Note, senderVars, UnlessSpent, Go, BaseInv, HandlersTyped
  <2>2. Undropped' => Undropped
    BY <2>1 DEF Undropped
  <2>3. "ended" \in Round
    BY DEF Round
  <2> QED
    BY <2>1, <2>2, <2>3 DEF PhaseInv, Enders, HasClosed, Succeeded, Unended
<1> QED
  BY <1>1, <1>2

LEMMA NextPhase == BaseInv /\ EndInv /\ PhaseInv /\ [Next]_vars => PhaseInv'
BY StepsSeen, PhaseOfExecutor, PhaseOfNotifier, PhaseOfSender, PhaseOfCut, PhaseOfOthers

LEMMA PhaseAtStart == Init => PhaseInv
<1> SUFFICES ASSUME Init PROVE PhaseInv
  OBVIOUS
<1>1. presentation = NoPresentation /\ at["reaper"] = "idle" /\ at[Executor] = "idle"
  BY TellersAre DEF Init, HandlerInit, StoreInit
<1> QED
  BY <1>1 DEF PhaseInv, NoPresentation, Enders, HasClosed, Ends

---------------------------------------------------------------------------
(* What the chat was told, and what the execution behind a scheduled run   *)
(* says of it.                                                             *)

HasTold(p) ==
  \/ at[p] \in {"markTerminal", "completeCatch", "attach", "fallbackCatch"}
  \/ at[p] \in {"completing", "falling"} /\ Succeeded(p)
Passed(p) ==
  \/ at[p] \in {"degradeClosing", "reread"} /\ presentation.card
  \/ at[p] = "told" /\ outcome[p] # None
Left == status \in Ends /\ at[Executor] = "gone" /\ at["reaper"] = "idle"

Settled == ToldEnds # {} \/ executionDelivery = "failed"
DeliveryInv ==
  source = "scheduled" /\ marks \cap {"endDropped", "inFlight"} = {} =>
    /\ \A p \in Enders : (HasTold(p) => ToldEnds # {}) /\ (Passed(p) => Settled)
    /\ Left => Settled

(* How an activity comes to have told an end.                              *)
LEMMA TellingGoes ==
  ASSUME BaseInv, CardInv, Interactive, NEW p \in Tellers, NotifierActs(p)
  PROVE  /\ HasTold(p)' => HasTold(p)
         /\ p \in Enders /\ Passed(p)' =>
              \/ HasTold(p) \/ Passed(p)
              \/ at[p] \in {"completing", "falling"} /\ Failed(p)
         /\ \A q \in Enders \ {p} : (HasTold(q)' => HasTold(q)) /\ (Passed(q)' => Passed(q))
         /\ Left' => Left
<1>1. /\ StartWays(p) \/ OutputWays(p) \/ EndWays(p)
      /\ \A q \in Tellers \ {p} : at'[q] = at[q] /\ call'[q] = call[q]
      /\ UNCHANGED <<outcome, status>>
      /\ presentation'.card = (presentation.card \/ at[p] = "streaming")
      /\ at'[p] \in Waiting => call'[p].stage = "token"
  BY NotifierGoes, TellersAre DEF RowWays
<1>2. HasTold(p)' => HasTold(p)
  <2>1. /\ at'[p] = "markTerminal" => at[p] = "completing" /\ Succeeded(p)
        /\ at'[p] = "attach" => at[p] = "falling" /\ Succeeded(p)
        /\ at'[p] \notin {"completeCatch", "fallbackCatch"}
    BY <1>1 DEF StartWays, OutputWays, EndWays, Continue
  <2>2. at'[p] \in {"completing", "falling"} => ~Succeeded(p)'
    BY <1>1 DEF Waiting, Succeeded
  <2> QED
    BY <2>1, <2>2 DEF HasTold
<1>3. ASSUME p \in Enders, Passed(p)'
      PROVE  \/ HasTold(p) \/ Passed(p)
             \/ at[p] \in {"completing", "falling"} /\ Failed(p)
  <2>1. CASE at'[p] \in {"degradeClosing", "reread"} /\ presentation'.card
    <3>1. at[p] # "streaming" /\ EndWays(p)
      BY <1>1, <2>1 DEF StartWays, OutputWays, EndWays, Continue
    <3> QED
      BY <1>1, <2>1, <3>1 DEF EndWays, HasTold, Passed
  <2>2. CASE at'[p] = "told" /\ outcome[p] # None
    <3>1. p \in Enders => EndWays(p)
      <4>1. p = Executor => at[p] \notin StartPlaces \cup StreamPlaces \cup {"degrade",
        "queued", "reacting"}
        BY <2>2, TellersPlaces DEF BaseInv, PlacesHold, ExecutorPlaces, StartPlaces,
          StreamPlaces, EndPlaces
      <4>2. p = "reaper" => at[p] \notin StartPlaces \cup StreamPlaces \cup {"degrade",
        "queued", "reacting"} \/ at[p] = "idle"
        BY TellersPlaces DEF ReaperPlaces, StartPlaces, StreamPlaces, EndPlaces
      <4> QED
        BY <1>1, <4>1, <4>2 DEF StartWays, OutputWays, StartPlaces, StreamPlaces, Enders
    <3>2. at[p] = "closing" => presentation # NoPresentation
      <4>1. at[p] = "closing" => p \in {"reaper", Executor}
        BY TellersAre, EndTellers DEF EndPlaces
      <4> QED
        BY <4>1 DEF CardInv, CardNeeded, Later, ExecutorPlaces, EndPlaces, StartPlaces, BaseInv,
          PlacesHold
    <3> QED
      BY <1>3, <2>2, <3>1, <3>2 DEF EndWays, HasTold, Passed
  <2> QED
    BY <1>1, <1>3, <2>1, <2>2 DEF Passed
<1>4. ASSUME NEW q \in Enders \ {p}
      PROVE  (HasTold(q)' => HasTold(q)) /\ (Passed(q)' => Passed(q))
  <2>1. at'[q] = at[q] /\ call'[q] = call[q]
    BY <1>1, <1>4, TellersAre DEF Enders
  <2>2. at[p] = "streaming" => p = Executor /\ q = "reaper" /\ at[q] = "idle"
    BY <1>4, StartsAlone, TellersPlaces, TellersAre DEF Enders, GatewayPlaces, ReaperPlaces,
      EndPlaces, StartPlaces
  <2> QED
    BY <1>1, <2>1, <2>2 DEF HasTold, Passed, Succeeded
<1>5. Left' => Left
  BY <1>1, TellersAre DEF Left, StartWays, OutputWays, EndWays, Continue
<1> QED
  BY <1>2, <1>3, <1>4, <1>5

(* How a step of the notifier changes the status of the delivery.          *)
LEMMA ExecutionTold ==
  ASSUME BaseInv, source # "chat", NEW p \in Tellers, NotifierActs(p)
  PROVE  /\ \/ executionDelivery' = executionDelivery
            \/ executionDelivery' = "failed"
            \/ at[p] = "creating"
            \/ at[p] \in {"completing", "falling"} /\ Succeeded(p)
         /\ at[p] \in {"completing", "falling"} /\ Failed(p) => executionDelivery' = "failed"
<1>1. CASE Quietly(p)
  <2>1. executionDelivery' = executionDelivery
    BY <1>1 DEF Quietly, GetPending, InsertPending, HandleStarted, MarkStreaming, Degrade,
      SaveOutput, MarkTerminal, AttachFallback, OnlyMoves, storeVars
  <2>2. at[p] \notin {"completing", "falling"}
    BY <1>1 DEF Quietly, GetPending, InsertPending, HandleStarted, MarkStreaming, Degrade,
      SaveOutput, MarkTerminal, AttachFallback, At
  <2> QED
    BY <2>1, <2>2
<1>2. CASE Asking(p)
  <2>1. executionDelivery' = executionDelivery
    BY <1>2 DEF Asking, React, CreateCard, HandleDelta, RemoveReaction, HandleTerminal, Reread,
      storeVars
  <2>2. at[p] \notin {"completing", "falling"}
    BY <1>2 DEF Asking, React, CreateCard, HandleDelta, RemoveReaction, HandleTerminal, Reread, At
  <2> QED
    BY <2>1, <2>2
<1>3. CASE Reacted(p) \/ ReactionRemoved(p) \/ CardFails(p) \/ CardUpdated(p)
  BY <1>3 DEF Reacted, ReactionRemoved, CardFails, CardUpdated, Called, storeVars
<1>4. CASE CardCreated(p) \/ CardCompleted(p) \/ FallbackSent(p)
  BY <1>4 DEF CardCreated, CardCompleted, FallbackSent, Called, Succeeded, Failed
<1>5. CASE CompleteFails(p) \/ FallbackFails(p)
  <2>1. executionDelivery' = "failed"
    BY <1>5 DEF CompleteFails, FallbackFails, MarkExecution
  <2> QED
    BY <2>1
<1> QED
  BY <1>1, <1>2, <1>3, <1>4, <1>5, NotifierKinds DEF NotifierActs, Answering

(* The other steps.                                                        *)
LEMMA TellingStays ==
  ASSUME BaseInv, EndInv,
         ExecutorActs \/ Still \/ Reap \/ (\E p \in Callers : Cut(p)),
         "endDropped" \notin marks'
  PROVE  /\ UNCHANGED <<source, card, posts, executionDelivery>> /\ marks \subseteq marks'
         /\ \A q \in Enders :
              /\ HasTold(q)' => HasTold(q) /\ outcome'[q] = outcome[q]
              /\ Passed(q)' => Passed(q) /\ outcome'[q] = outcome[q]
              /\ at'[q] \in {"completing", "falling"} /\ Failed(q)' =>
                   at[q] \in {"completing", "falling"} /\ Failed(q)
         /\ Left' => (Left /\ status' = status)
                     \/ (Passed(Executor) /\ status' = status
                           /\ ("overtaken" \notin marks => status = outcome[Executor]))
<1>1. CASE ExecutorActs
  <2>1. /\ ExecutorWays
        /\ at'["reaper"] = at["reaper"] /\ outcome'["reaper"] = outcome["reaper"]
        /\ UNCHANGED <<source, presentation, executionDelivery, card, posts, call, marks>>
    BY <1>1, ExecutorGoes, TellersAre
  <2>2. at'[Executor] \in {"started", "gone", "stream", "persist", "delta", "ended"}
    BY <2>1 DEF ExecutorWays
  <2>3. ~HasTold(Executor)' /\ ~Passed(Executor)' /\ at'[Executor] \notin {"completing", "falling"}
    BY <2>2 DEF HasTold, Passed
  <2>4. (HasTold("reaper")' => HasTold("reaper")) /\ (Passed("reaper")' => Passed("reaper"))
        /\ (Failed("reaper")' => Failed("reaper"))
    BY <2>1 DEF HasTold, Passed, Succeeded, Failed
  <2>5. ASSUME Left'
        PROVE  /\ Passed(Executor) /\ status' = status
               /\ "overtaken" \notin marks => status = outcome[Executor]
    <3>1. at'[Executor] = "gone" /\ status' \in Ends /\ at["reaper"] = "idle"
      BY <2>1, <2>5 DEF Left
    <3>2. status' = status /\ at[Executor] \in {"told", "stream"}
          /\ (at[Executor] = "told" => outcome[Executor] # None)
      BY <2>1, <3>1 DEF ExecutorWays
    <3>3. Stopped
      BY <3>1, <3>2 DEF EndInv
    <3>4. at[Executor] = "told" /\ Telling(Executor)
      BY <3>2, <3>3 DEF Stopped, Telling, EndPlaces
    <3> QED
      BY <3>2, <3>4 DEF Passed, EndInv
  <2> QED
    BY <2>1, <2>3, <2>4, <2>5 DEF Enders
<1>2. CASE Still
  BY <1>2, TellersAre DEF Still, HasTold, Passed, Left, Succeeded, Failed, Enders
<1>3. CASE Reap
  <2>1. /\ UNCHANGED <<source, presentation, executionDelivery, card, posts, call>>
             /\ marks \subseteq marks'
        /\ at'["reaper"] = "ended" /\ at'[Executor] = at[Executor]
             /\ outcome'[Executor] = outcome[Executor]
    BY <1>3, TellersAre DEF Reap, MarkRun, Note, senderVars, UnlessSpent, Go, BaseInv, HandlersTyped
  <2> QED
    BY <2>1 DEF HasTold, Passed, Left, Succeeded, Failed, Enders
<1>4. CASE \E p \in Callers : Cut(p)
  <2>1. PICK p \in Callers : Cut(p)
    BY <1>4
  <2>2. /\ UNCHANGED <<source, status, presentation, executionDelivery, card, posts, outcome>>
        /\ marks \subseteq marks'
        /\ \A q \in Callers \ {p} : at'[q] = at[q] /\ call'[q] = call[q]
        /\ at'[p] = "gone" => ~TellingEnd(p)
    BY <2>1 DEF Cut, storeVars
  <2>3. /\ at'[p] = "completeCatch" => at[p] = "markTerminal" \/ (at[p] = "completing"
             /\ Succeeded(p))
        /\ at'[p] = "fallbackCatch" => at[p] = "attach" \/ (at[p] = "falling" /\ Succeeded(p))
        /\ p \in Tellers => at'[p] \in {"gone", "catch", "completeCatch", "fallbackCatch"}
    BY <2>1, CutPlaces
  <2>4. ASSUME NEW q \in Enders
        PROVE  /\ HasTold(q)' => HasTold(q)
               /\ Passed(q)' => Passed(q)
               /\ at'[q] \in {"completing", "falling"} /\ Failed(q)' =>
                   at[q] \in {"completing", "falling"} /\ Failed(q)
    BY <2>2, <2>3, <2>4, TellersAre DEF Enders, HasTold, Passed, Succeeded, Failed
  <2>5. ASSUME Left', ~Left
        PROVE  /\ Passed(Executor)
               /\ "overtaken" \notin marks => status = outcome[Executor]
    <3>1. /\ status \in Ends /\ at'[Executor] = "gone" /\ at'["reaper"] = "idle"
      BY <2>2, <2>5 DEF Left
    <3>2. at["reaper"] = "idle"
      BY <2>2, <2>3, <3>1, TellersAre
    <3>3. Stopped /\ at[Executor] # "gone" /\ p = Executor
      BY <2>2, <2>5, <3>1, <3>2, TellersAre DEF EndInv, Left
    <3>4. at[Executor] = "told" /\ Telling(Executor)
      BY <2>2, <3>1, <3>3 DEF Stopped, Telling, EndPlaces, TellingEnd
    <3> QED
      BY <3>4 DEF Passed, Telling, EndPlaces, EndInv
  <2> QED
    BY <2>2, <2>4, <2>5
<1> QED
  BY <1>1, <1>2, <1>3, <1>4

LEMMA DeliveryOfNotifier ==
  ASSUME BaseInv, CardInv, EndInv, DeliveryInv, NEW p \in Tellers, NotifierActs(p)
  PROVE  DeliveryInv'
<1> SUFFICES ASSUME source' = "scheduled", marks' \cap {"endDropped", "inFlight"} = {}
             PROVE  /\ \A q \in Enders : (HasTold(q)' => ToldEnds' # {}) /\ (Passed(q)' => Settled')
                    /\ Left' => Settled'
  BY DEF DeliveryInv
<1>1. /\ source = "scheduled" /\ marks \cap {"endDropped", "inFlight"} = {}
      /\ ToldEnds' = ToldEnds /\ p \in Callers
  BY NotifierGoes, TellersAre DEF ToldEnds
<1>2. /\ \A q \in Enders : (HasTold(q) => ToldEnds # {}) /\ (Passed(q) => Settled)
      /\ Left => Settled
  BY <1>1 DEF DeliveryInv
<1>3. Interactive
  BY <1>1 DEF Interactive
<1>4. /\ \/ executionDelivery' = executionDelivery
         \/ executionDelivery' = "failed"
         \/ at[p] = "creating"
         \/ at[p] \in {"completing", "falling"} /\ Succeeded(p)
      /\ at[p] \in {"completing", "falling"} /\ Failed(p) => executionDelivery' = "failed"
  BY <1>1, ExecutionTold
<1>5. at[p] \in {"completing", "falling"} => p \in Enders
  BY <1>1, EndTellers DEF EndPlaces, Enders
<1>6. Settled => Settled' \/ at[p] = "creating"
  BY <1>1, <1>2, <1>4, <1>5 DEF Settled, HasTold
<1>7. at[p] = "creating" => p = Executor /\ at["reaper"] = "idle" /\ at'[p] \in {"streaming",
  "degrade"}
  <2>1. at[p] = "creating" => p = Executor
    BY TellersAre, TellersPlaces DEF GatewayPlaces, ReaperPlaces, EndPlaces
  <2>2. at[p] = "creating" => at'[p] \in {"streaming", "degrade"}
    BY NotifierGoes DEF StartWays, OutputWays, EndWays
  <2> QED
    BY <2>1, <2>2, StartsAlone DEF StartPlaces
<1>8. \A q \in Enders : HasTold(q)' => ToldEnds' # {}
  BY <1>1, <1>2, <1>3, TellingGoes
<1>9. ASSUME NEW q \in Enders, Passed(q)' PROVE Settled'
  <2>1. CASE at[p] = "creating"
    <3>1. q = "reaper" => ~Passed(q)
      BY <1>7, <2>1 DEF Passed
    <3>2. q = "reaper" => ~Passed(q)'
      BY <1>3, <1>7, <1>9, <2>1, <3>1, TellingGoes, TellersAre
    <3>3. q = Executor => outcome[q] = None /\ outcome'[q] = outcome[q]
      /\ at'[q] \in {"streaming", "degrade"}
      BY <1>7, <2>1, NotifierGoes DEF BaseInv, PlacesHold, StartPlaces
    <3> QED
      BY <1>9, <3>2, <3>3 DEF Passed, Enders
  <2>2. CASE at[p] # "creating"
    <3>1. CASE HasTold(q) \/ Passed(q)
      BY <1>1, <1>2, <1>6, <2>2, <3>1 DEF Settled
    <3>2. CASE q = p /\ at[p] \in {"completing", "falling"} /\ Failed(p)
      BY <1>4, <3>2 DEF Settled
    <3> QED
      BY <1>3, <1>9, <3>1, <3>2, TellingGoes
  <2> QED
    BY <2>1, <2>2
<1>10. Left' => Settled'
  <2>1. Left' => Left /\ at[p] # "creating"
    BY <1>3, <1>7, TellingGoes DEF Left
  <2> QED
    BY <1>2, <1>6, <2>1
<1> QED
  BY <1>8, <1>9, <1>10

LEMMA DeliveryOfSender ==
  ASSUME BaseInv, EndInv, DeliveryInv, NEW p \in Callers, SenderActs(p)
  PROVE  DeliveryInv'
<1>1. /\ UNCHANGED <<source, executionDelivery, status, at, outcome, presentation>>
      /\ \A q \in Callers \ {p} : call'[q] = call[q]
      /\ marks \subseteq marks'
  BY SenderShows DEF SenderActs, storeVars, handlerVars
<1>2. [Next]_vars
  BY DEF SenderActs, Next
<1>3. ASSUME "inFlight" \notin marks, ToldEnds # {} PROVE ToldEnds' # {}
  BY <1>2, <1>3, ToldStays
<1>4. ASSUME NEW q \in Enders, HasTold(q)', ~HasTold(q) PROVE ToldEnds' # {}
  <2>1. q = p /\ at[p] \in {"completing", "falling"} /\ Succeeded(p)'
    BY <1>1, <1>4, TellersAre DEF HasTold, Succeeded, Enders
  <2> QED
    BY <2>1, ToldChanges
<1>5. /\ \A q \in Enders : Passed(q)' => Passed(q)
      /\ Left' => Left
  BY <1>1 DEF Passed, Left
<1> QED
  BY <1>1, <1>3, <1>4, <1>5 DEF DeliveryInv, Settled

LEMMA DeliveryOfOthers ==
  ASSUME BaseInv, EndInv, DeliveryInv,
         ExecutorActs \/ Still \/ Reap \/ (\E p \in Callers : Cut(p))
  PROVE  DeliveryInv'
<1> SUFFICES ASSUME source' = "scheduled", marks' \cap {"endDropped", "inFlight"} = {}
             PROVE  /\ \A q \in Enders : (HasTold(q)' => ToldEnds' # {}) /\ (Passed(q)' => Settled')
                    /\ Left' => Settled'
  BY DEF DeliveryInv
<1>1. /\ UNCHANGED <<source, card, posts, executionDelivery>> /\ marks \subseteq marks'
      /\ \A q \in Enders : (HasTold(q)' => HasTold(q)) /\ (Passed(q)' => Passed(q))
      /\ Left' => Left \/ Passed(Executor)
  BY TellingStays
<1>2. ToldEnds' = ToldEnds /\ Settled' = Settled
  BY <1>1 DEF ToldEnds, Settled
<1> QED
  BY <1>1, <1>2 DEF DeliveryInv, Enders

LEMMA NextDelivery == BaseInv /\ CardInv /\ EndInv /\ DeliveryInv /\ [Next]_vars => DeliveryInv'
BY StepsSeen, DeliveryOfNotifier, DeliveryOfSender, DeliveryOfOthers

LEMMA NothingToldAtStart ==
  ASSUME Init
  PROVE  /\ \A p \in Enders : ~HasTold(p) /\ ~Passed(p) /\ at[p] = "idle"
         /\ ~Left /\ status \notin Ends /\ ~reaction /\ at["gateway"] = "queued"
<1>1. /\ status = "queued" /\ (\A p \in Enders : at[p] = "idle") /\ at["gateway"] = "queued"
           /\ reaction = FALSE
  BY TellersAre DEF Init, HandlerInit, StoreInit, SenderInit, Enders
<1> QED
  BY <1>1 DEF HasTold, Passed, Left, Ends

LEMMA DeliveryAtStart == Init => DeliveryInv
BY NothingToldAtStart DEF DeliveryInv

(* What the rows claim, once there is nobody left to change it.            *)
LEMMA RecordsFit ==
  ASSUME BaseInv, EndInv, ShownInv, PhaseInv, DeliveryInv
  PROVE  RecordsHold
<1>1. card.status # "none" => card # NoCard
  BY DEF NoCard
<1>2. /\ presentation.card => card # NoCard
      /\ presentation.fallback => posts # <<>>
      /\ \A p \in Tellers : \A i \in DOMAIN deliveries[p] :
           deliveries[p][i].status = "sent" =>
             IF deliveries[p][i].kind = "fallback_terminal" THEN posts # <<>> ELSE card # NoCard
  BY <1>1 DEF ShownInv, ShownBy, InChat
<1>3. Quiet => /\ at[Executor] = "gone" /\ at["reaper"] \in {"told", "gone", "idle"}
               /\ at["reaper"] = "gone" => "endDropped" \in marks
               /\ at["reaper"] = "told" => outcome["reaper"] = "failed" /\ None # "failed"
  BY RunAssumption DEF Quiet, EndInv, Ends
<1>4. Quiet /\ marks \cap {"overtaken", "endDropped"} = {} /\ presentation.phase \in Ends =>
        card.status = presentation.phase
  BY <1>3 DEF PhaseInv, Undropped, Enders, Round
<1>5. ASSUME Quiet, source = "scheduled", status \in Ends, ToldEnds = {}
      PROVE  executionDelivery = "failed" \/ marks \cap {"endDropped", "inFlight"} # {}
  BY <1>3, <1>5 DEF DeliveryInv, Enders, Passed, Left, Settled
<1> QED
  BY <1>2, <1>4, <1>5 DEF RecordsHold

(* The rows claim no more than what is in the chat, whoever ends the run:  *)
(* a card that was streamed to and a message that was attached are there,  *)
(* a phase that was reached is the one the card shows, and an execution    *)
(* whose chat was told nothing says that its delivery failed.              *)
THEOREM RecordsKept == Spec => []RecordsHold
<1>1. Init => EndInv /\ ShownInv /\ PhaseInv /\ DeliveryInv
  BY EndAtStart, ShownAtStart, PhaseAtStart, DeliveryAtStart
<1>2. /\ BaseInv /\ CardInv /\ EndInv /\ ShownInv /\ PhaseInv /\ DeliveryInv /\ [Next]_vars =>
           EndInv' /\ ShownInv' /\ PhaseInv' /\ DeliveryInv'
  BY NextEnd, NextShown, NextPhase, NextDelivery
<1>3. BaseInv /\ EndInv /\ ShownInv /\ PhaseInv /\ DeliveryInv => RecordsHold
  BY RecordsFit
<1> QED
  BY <1>1, <1>2, <1>3, CardHolds, PTL DEF Spec

---------------------------------------------------------------------------
(* The end that the chat was told, and the reaction.                       *)

Told(p) == IF "overtaken" \in marks THEN ToldEnds # {} ELSE outcome[p] \in ToldEnds
Unspoilt == marks \cap {"endFailed", "endDropped", "inFlight"} = {}

SettleInv ==
  Interactive /\ Unspoilt =>
    /\ \A p \in Enders :
         /\ HasTold(p) \/ Passed(p) => Told(p)
         /\ ~(at[p] \in {"completing", "falling"} /\ Failed(p))
    /\ "overtaken" \notin marks /\ Left => status \in ToldEnds

LEMMA SettleOfNotifier ==
  ASSUME BaseInv, CardInv, SettleInv, NEW p \in Tellers, NotifierActs(p)
  PROVE  SettleInv'
<1>1. /\ UNCHANGED <<source, status, outcome, marks>> /\ ToldEnds' = ToldEnds
      /\ \A q \in Tellers \ {p} : at'[q] = at[q] /\ call'[q] = call[q]
      /\ at'[p] \in Waiting => call'[p].stage = "token"
  BY NotifierGoes, TellersAre DEF ToldEnds
<1>2. at'[p] \in {"completing", "falling"} => ~Failed(p)'
  BY <1>1 DEF Waiting, Failed
<1>3. \A q \in Enders : Told(q)' = Told(q)
  BY <1>1 DEF Told
<1>4. \A q \in Enders \ {p} : at'[q] = at[q] /\ Failed(q)' = Failed(q)
  BY <1>1, TellersAre DEF Enders, Failed
<1>5. ASSUME Interactive, Unspoilt
      PROVE  /\ \A q \in Enders : HasTold(q)' \/ Passed(q)' => HasTold(q) \/ Passed(q)
             /\ Left' => Left
  BY <1>5, TellingGoes DEF SettleInv
<1> QED
  BY <1>1, <1>2, <1>3, <1>4, <1>5 DEF SettleInv, Interactive, Unspoilt

LEMMA SettleOfSender ==
  ASSUME BaseInv, EndInv, SettleInv, NEW p \in Callers, SenderActs(p)
  PROVE  SettleInv'
<1> SUFFICES ASSUME Interactive', Unspoilt'
             PROVE  /\ \A q \in Enders :
                         /\ HasTold(q)' \/ Passed(q)' => Told(q)'
                         /\ ~(at'[q] \in {"completing", "falling"} /\ Failed(q)')
                    /\ "overtaken" \notin marks' /\ Left' => status' \in ToldEnds'
  BY DEF SettleInv
<1>1. /\ UNCHANGED <<source, status, at, outcome, presentation>>
      /\ \A q \in Callers \ {p} : call'[q] = call[q]
      /\ marks' = marks \cup CallMarks(p)
      /\ call'[p].op = call[p].op
      /\ at[p] \in Waiting /\ ~Succeeded(p) /\ ~Failed(p)
      /\ [Next]_vars
  BY SenderShows DEF SenderActs, storeVars, handlerVars, Succeeded, Failed, Next
<1>2. Interactive /\ Unspoilt /\ ("overtaken" \in marks' <=> "overtaken" \in marks)
  BY <1>1 DEF Interactive, Unspoilt, CallMarks
<1>3. /\ \A q \in Enders :
           /\ HasTold(q) \/ Passed(q) => Told(q)
           /\ ~(at[q] \in {"completing", "falling"} /\ Failed(q))
      /\ "overtaken" \notin marks /\ Left => status \in ToldEnds
  BY <1>2 DEF SettleInv
<1>4. ASSUME NEW q \in Enders, at'[q] \in {"completing", "falling"}, Failed(q)' PROVE FALSE
  <2>1. q = p
    BY <1>1, <1>3, <1>4, TellersAre DEF Failed, Enders
  <2>2. call[p].op # "removeReaction" /\ TellingEnd(p)
    <3>1. Calls(p)
      BY DEF BaseInv
    <3> QED
      BY <1>1, <1>4, <2>1, <3>1 DEF Calls, Busy, TellingEnd
  <2>3. FailsNow(p)
    BY <1>1, <1>4, <2>1 DEF FailsNow, Failed
  <2> QED
    BY <1>1, <2>2, <2>3 DEF CallMarks, Unspoilt
<1>5. ASSUME NEW q \in Enders, HasTold(q)' \/ Passed(q)' PROVE Told(q)'
  <2>0. q \in Callers /\ at[q] \notin {"idle", "gone"} /\ at'[q] = at[q]
    BY <1>1, <1>5, TellersAre DEF HasTold, Passed, Enders
  <2>1. CASE HasTold(q) \/ Passed(q)
    <3>1. Told(q)
      BY <1>3, <2>1
    <3>2. CASE "overtaken" \in marks
      BY <1>1, <1>2, <3>1, <3>2, ToldStays DEF Told, Unspoilt
    <3>3. CASE "overtaken" \notin marks
      <4>1. CASE ToldEnds' = ToldEnds
        BY <1>1, <1>2, <3>1, <3>3, <4>1 DEF Told
      <4>2. CASE p \in Enders /\ at[p] \in CardCalls \cup {"falling"}
        <5>1. p = q
          BY <2>0, <3>3, <4>2, OneEnds DEF CardCalls
        <5> QED
          BY <1>1, <2>1, <4>2, <5>1 DEF HasTold, Passed, CardCalls
      <4> QED
        BY <4>1, <4>2, ToldChanges
    <3> QED
      BY <3>2, <3>3
  <2>2. CASE ~HasTold(q) /\ ~Passed(q)
    <3>1. q = p /\ at[p] \in {"completing", "falling"} /\ Succeeded(p)'
      BY <1>1, <1>5, <2>0, <2>2 DEF HasTold, Passed, Succeeded
    <3>2. outcome[q] \in ToldEnds'
      BY <3>1, ToldChanges
    <3> QED
      BY <1>1, <3>2 DEF Told
  <2> QED
    BY <2>1, <2>2
<1>6. ASSUME "overtaken" \notin marks', Left' PROVE status' \in ToldEnds'
  <2>1. Left /\ \A q \in Enders : at[q] \in {"idle", "gone"}
    BY <1>1, <1>6 DEF Left, Enders
  <2>2. ToldEnds' = ToldEnds
    BY <2>1, ToldChanges DEF CardCalls
  <2> QED
    BY <1>1, <1>2, <1>3, <1>6, <2>1, <2>2
<1> QED
  BY <1>4, <1>5, <1>6

LEMMA SettleOfOthers ==
  ASSUME BaseInv, EndInv, SettleInv,
         ExecutorActs \/ Still \/ Reap \/ (\E p \in Callers : Cut(p))
  PROVE  SettleInv'
<1> SUFFICES ASSUME Interactive', Unspoilt'
             PROVE  /\ \A q \in Enders :
                         /\ HasTold(q)' \/ Passed(q)' => Told(q)'
                         /\ ~(at'[q] \in {"completing", "falling"} /\ Failed(q)')
                    /\ "overtaken" \notin marks' /\ Left' => status' \in ToldEnds'
  BY DEF SettleInv
<1>1. /\ UNCHANGED <<source, card, posts>> /\ marks \subseteq marks'
      /\ \A q \in Enders :
              /\ HasTold(q)' => HasTold(q) /\ outcome'[q] = outcome[q]
              /\ Passed(q)' => Passed(q) /\ outcome'[q] = outcome[q]
              /\ at'[q] \in {"completing", "falling"} /\ Failed(q)' =>
                   at[q] \in {"completing", "falling"} /\ Failed(q)
      /\ Left' => (Left /\ status' = status)
                     \/ (Passed(Executor) /\ status' = status
                           /\ ("overtaken" \notin marks => status = outcome[Executor]))
  BY TellingStays DEF Unspoilt
<1>2. Interactive /\ Unspoilt /\ ToldEnds' = ToldEnds
  BY <1>1 DEF Interactive, Unspoilt, ToldEnds
<1>3. /\ \A q \in Enders :
           /\ HasTold(q) \/ Passed(q) => Told(q)
           /\ ~(at[q] \in {"completing", "falling"} /\ Failed(q))
      /\ "overtaken" \notin marks /\ Left => status \in ToldEnds
  BY <1>2 DEF SettleInv
<1>4. \A q \in Enders : Told(q) /\ outcome'[q] = outcome[q] => Told(q)'
  BY <1>1, <1>2 DEF Told
<1>5. "overtaken" \notin marks' /\ Left' => status' \in ToldEnds'
  BY <1>1, <1>2, <1>3 DEF Told, Enders
<1> QED
  BY <1>1, <1>3, <1>4, <1>5

LEMMA NextSettle == BaseInv /\ CardInv /\ EndInv /\ SettleInv /\ [Next]_vars => SettleInv'
BY StepsSeen, SettleOfNotifier, SettleOfSender, SettleOfOthers

LEMMA SettleAtStart == Init => SettleInv
BY NothingToldAtStart DEF SettleInv

ReactionInv ==
  /\ reaction \/ at["gateway"] = "reacting" => source = "chat"
  /\ reaction /\ status \in Ends /\ marks \cap {"late", "endDropped"} = {} =>
       at[Executor] = "catch" \/ \E p \in Enders :
         at[p] = "ended" \/ (at[p] = "unreacting" /\ ~Succeeded(p) /\ ~Failed(p))

(* What a call does to the reaction.                                       *)
LEMMA ReactionCalls ==
  ASSUME BaseInv, NEW p \in Callers, SenderActs(p)
  PROVE  /\ reaction' /\ ~reaction => at[p] = "reacting" /\ (status \in Ends => "late" \in marks')
         /\ at[p] = "unreacting" => /\ Succeeded(p)' => ~reaction'
                                    /\ Failed(p)' => "late" \in marks'
<1>1. /\ reaction' => reaction \/ at[p] = "reacting"
      /\ call[p].stage \notin {"none", "done", "failed"}
      /\ marks' = marks \cup CallMarks(p)
  BY SenderShows
<1>2. status \in Ends /\ reaction' /\ ~reaction => "late" \in marks'
  BY <1>1 DEF CallMarks
<1>3. ASSUME at[p] = "unreacting"
      PROVE  /\ Succeeded(p)' => ~reaction'
             /\ Failed(p)' => "late" \in marks'
  <2>1. call[p].op = "removeReaction"
    BY <1>3 DEF BaseInv, Calls, Busy
  <2>2. call \in [Callers -> Call] /\ call[p] \in Call
    BY DEF BaseInv, SenderTyped
  <2>3. Succeeded(p)' => Accept(p)
    BY <2>2 DEF SenderActs, SenderStep, TakeToken, IssueToken, RefuseToken, Accept, Fault,
      Advance, Succeeded, Call
  <2>4. Accept(p) => DropReaction(p)
    BY <2>1 DEF Accept, Effect, PostCard, PatchRunning, PatchClosed, PostTerminal, PostReaction,
      PostAsset, PostMedia, Asks
  <2>5. Accept(p) /\ Succeeded(p)' => AtStage(p, "delete") \/ ~reaction
    BY <2>1, <2>2 DEF Accept, Advance, Succeeded, Call, AtStage
  <2>6. Failed(p)' => "late" \in marks'
    BY <1>1, <2>1 DEF CallMarks, FailsNow, Failed
  <2> QED
    BY <2>3, <2>4, <2>5, <2>6 DEF DropReaction
<1> QED
  BY <1>1, <1>2, <1>3

LEMMA ReactionOfNotifier ==
  ASSUME BaseInv, ReactionInv, NEW p \in Tellers, NotifierActs(p)
  PROVE  ReactionInv'
<1>1. /\ StartWays(p) \/ OutputWays(p) \/ EndWays(p)
      /\ \A q \in Tellers \ {p} : at'[q] = at[q] /\ call'[q] = call[q]
      /\ UNCHANGED <<source, status, reaction, marks>>
      /\ at'[p] \in Waiting => call'[p].stage = "token"
  BY NotifierGoes, TellersAre
<1>2. at'[p] = "reacting" => source = "chat"
  BY <1>1 DEF StartWays, OutputWays, EndWays, Continue
<1>3. /\ at[p] # "catch"
      /\ at[p] = "ended" /\ source = "chat" => at'[p] = "unreacting" /\ ~Succeeded(p)'
           /\ ~Failed(p)'
      /\ at[p] = "unreacting" => Succeeded(p) \/ Failed(p)
  BY <1>1 DEF StartWays, OutputWays, EndWays, Waiting, Succeeded, Failed
<1>4. at[Executor] = "catch" => at'[Executor] = "catch"
  BY <1>1, <1>3, TellersAre
<1>5. ASSUME reaction, NEW q \in Enders,
             at[q] = "ended" \/ (at[q] = "unreacting" /\ ~Succeeded(q) /\ ~Failed(q))
      PROVE  at'[q] = "ended" \/ (at'[q] = "unreacting" /\ ~Succeeded(q)' /\ ~Failed(q)')
  BY <1>1, <1>3, <1>5, TellersAre DEF Enders, ReactionInv, Succeeded, Failed
<1> QED
  BY <1>1, <1>2, <1>4, <1>5, TellersAre DEF ReactionInv

LEMMA ReactionOfSender ==
  ASSUME BaseInv, ReactionInv, NEW p \in Callers, SenderActs(p)
  PROVE  ReactionInv'
<1>1. /\ UNCHANGED <<source, status, at>>
      /\ \A q \in Callers \ {p} : call'[q] = call[q]
      /\ marks \subseteq marks'
  BY SenderShows DEF SenderActs, storeVars, handlerVars
<1>2. at[p] = "reacting" => p = "gateway"
  <2>1. p \in {"gateway", "reaper", Executor, Media}
    BY TellersAre, RunAssumption
  <2>2. at["reaper"] # "reacting" /\ at[Executor] # "reacting" /\ at[Media] # "reacting"
    BY TellersPlaces DEF BaseInv, PlacesHold, ReaperPlaces, ExecutorPlaces, MediaPlaces,
      StartPlaces, StreamPlaces, EndPlaces
  <2> QED
    BY <2>1, <2>2
<1>3. reaction' \/ at'["gateway"] = "reacting" => source' = "chat"
  BY <1>1, <1>2, ReactionCalls DEF ReactionInv
<1>4. ASSUME reaction', status \in Ends, marks' \cap {"late", "endDropped"} = {}
      PROVE  at'[Executor] = "catch" \/ \E q \in Enders :
               at'[q] = "ended" \/ (at'[q] = "unreacting" /\ ~Succeeded(q)' /\ ~Failed(q)')
  <2>1. reaction
    BY <1>4, ReactionCalls
  <2>2. ASSUME NEW q \in Enders, at[q] = "unreacting", ~Succeeded(q), ~Failed(q)
        PROVE  ~Succeeded(q)' /\ ~Failed(q)'
    BY <1>1, <1>4, <2>2, ReactionCalls, TellersAre DEF Succeeded, Failed, Enders
  <2> QED
    BY <1>1, <1>4, <2>1, <2>2 DEF ReactionInv
<1> QED
  BY <1>1, <1>3, <1>4 DEF ReactionInv

LEMMA ReactionOfCut ==
  ASSUME BaseInv, ReactionInv, NEW p \in Callers, Cut(p)
  PROVE  ReactionInv'
<1>1. /\ UNCHANGED <<source, status, reaction>>
      /\ \A q \in Callers \ {p} : at'[q] = at[q] /\ call'[q] = call[q]
      /\ marks \subseteq marks'
      /\ at'[p] = "gone" /\ TellingEnd(p) => "late" \in marks'
  BY DEF Cut, storeVars
<1>2. /\ at'[p] = "completeCatch" => at[p] \in {"markTerminal", "completing"}
      /\ at'[p] = "fallbackCatch" => at[p] \in {"attach", "falling"}
      /\ p \in Tellers => at'[p] \in {"gone", "catch", "completeCatch", "fallbackCatch"}
      /\ at'[p] = "catch" => p = Executor
  BY CutPlaces
<1>3. at'["gateway"] = "reacting" => at["gateway"] = "reacting"
  BY <1>1, <1>2, TellersAre
<1>4. ASSUME "late" \notin marks', p \in Tellers, at[p] \in {"catch", "ended", "unreacting"}
      PROVE  p = Executor /\ at'[p] = "catch"
  BY <1>1, <1>2, <1>4 DEF TellingEnd
<1>5. ASSUME "late" \notin marks',
             at[Executor] = "catch" \/ \E q \in Enders :
               at[q] = "ended" \/ (at[q] = "unreacting" /\ ~Succeeded(q) /\ ~Failed(q))
      PROVE  at'[Executor] = "catch" \/ \E q \in Enders :
               at'[q] = "ended" \/ (at'[q] = "unreacting" /\ ~Succeeded(q)' /\ ~Failed(q)')
  BY <1>1, <1>4, <1>5, TellersAre DEF Enders, Succeeded, Failed
<1> QED
  BY <1>1, <1>3, <1>5 DEF ReactionInv

LEMMA ReactionOfOthers ==
  ASSUME BaseInv, ReactionInv, ExecutorActs \/ Still \/ Reap
  PROVE  ReactionInv'
<1>1. CASE ExecutorActs
  <2>1. /\ ExecutorWays
        /\ \A q \in Tellers \ {Executor} : at'[q] = at[q]
        /\ UNCHANGED <<source, reaction, call, marks>>
    BY <1>1, ExecutorGoes, TellersAre
  <2>2. status' = status \/ at'[Executor] = "ended" \/ status' = "running"
    BY <2>1 DEF ExecutorWays
  <2>3. at[Executor] = "catch" => at'[Executor] = "ended"
    BY <2>1 DEF ExecutorWays
  <2>4. at[Executor] \notin {"ended", "unreacting"} /\ "running" \notin Ends
    BY <2>1 DEF ExecutorWays, Ends
  <2> QED
    BY <2>1, <2>2, <2>3, <2>4, TellersAre DEF ReactionInv, Enders, Succeeded, Failed
<1>2. CASE Still
  BY <1>2, TellersAre DEF Still, ReactionInv, Enders, Succeeded, Failed
<1>3. CASE Reap
  <2>1. /\ UNCHANGED <<source, reaction>> /\ at'["reaper"] = "ended"
             /\ at'["gateway"] = at["gateway"]
    BY <1>3, TellersAre DEF Reap, MarkRun, senderVars, UnlessSpent, Go, BaseInv, HandlersTyped
  <2> QED
    BY <2>1 DEF ReactionInv, Enders
<1> QED
  BY <1>1, <1>2, <1>3

LEMMA NextReaction == BaseInv /\ ReactionInv /\ [Next]_vars => ReactionInv'
BY StepsSeen, ReactionOfNotifier, ReactionOfSender, ReactionOfCut, ReactionOfOthers

LEMMA ReactionAtStart == Init => ReactionInv
BY NothingToldAtStart DEF ReactionInv

LEMMA SettledWhenQuiet ==
  ASSUME BaseInv, EndInv, SettleInv, ReactionInv
  PROVE  ChatSettles
<1> SUFFICES ASSUME Quiet, Interactive, status \in Ends
             PROVE  /\ Unspoilt => IF "overtaken" \in marks THEN ToldEnds # {} ELSE status \in ToldEnds
                    /\ reaction => marks \cap {"late", "endDropped"} # {}
  BY DEF ChatSettles, Unspoilt
<1>1. at[Executor] = "gone" /\ at["reaper"] \in {"told", "gone", "idle"}
  BY DEF Quiet
<1>2. reaction => marks \cap {"late", "endDropped"} # {}
  BY <1>1 DEF ReactionInv, Enders
<1>3. ASSUME Unspoilt
      PROVE  IF "overtaken" \in marks THEN ToldEnds # {} ELSE status \in ToldEnds
  <2>1. CASE at["reaper"] = "told"
    <3>1. outcome["reaper"] = "failed" /\ None # "failed" /\ "reaper" \in Enders
          /\ ("overtaken" \notin marks => status = "failed")
      BY <2>1, RunAssumption DEF EndInv, Ends, Enders
    <3>2. Told("reaper")
      BY <1>3, <2>1, <3>1 DEF SettleInv, Passed
    <3> QED
      BY <3>1, <3>2 DEF Told
  <2>2. CASE at["reaper"] = "gone"
    BY <1>3, <2>2 DEF EndInv, Unspoilt
  <2>3. CASE at["reaper"] = "idle"
    BY <1>1, <1>3, <2>3 DEF EndInv, SettleInv, Left
  <2> QED
    BY <1>1, <2>1, <2>2, <2>3
<1> QED
  BY <1>2, <1>3

(* A run that has ended has told its chat so, and the reaction is gone,    *)
(* once everybody has had his say: neither an expired token, a card that   *)
(* cannot be created or a row that cannot be written, nor an executor that *)
(* dies before it tells the end, keeps the end from the chat.              *)
THEOREM ChatIsTold == Spec => []ChatSettles
<1>1. Init => EndInv /\ SettleInv /\ ReactionInv
  BY EndAtStart, SettleAtStart, ReactionAtStart
<1>2. BaseInv /\ CardInv /\ EndInv /\ SettleInv /\ ReactionInv /\ [Next]_vars =>
        EndInv' /\ SettleInv' /\ ReactionInv'
  BY NextEnd, NextSettle, NextReaction
<1>3. BaseInv /\ EndInv /\ SettleInv /\ ReactionInv => ChatSettles
  BY SettledWhenQuiet
<1> QED
  BY <1>1, <1>2, <1>3, CardHolds, PTL DEF Spec

---------------------------------------------------------------------------
(* What the card shows of the output: the deduplicated text, and its end.  *)

LEMMA DedupRuns ==
  ASSUME NEW C, NEW text \in Seq(C)
  PROVE  \E h : /\ h[0] = <<>>
                /\ \A k \in 0..(Len(text) - 1) :
                     h[k + 1] = IF h[k] # <<>> /\ Last(h[k]) = text[k + 1] THEN h[k]
                                ELSE Append(h[k], text[k + 1])
                /\ Deduplicated(text) = h[Len(text)]
<1> DEFINE op(kept, c) == IF kept # <<>> /\ Last(kept) = c THEN kept ELSE Append(kept, c)
           Eq(it) == it = [s \in SUBSET DOMAIN text |->
                             IF s = {} THEN <<>> ELSE op(it[s \ {Max(s)}], text[Max(s)])]
           iter == CHOOSE it : Eq(it)
<1>1. Deduplicated(text) = iter[DOMAIN text]
  BY DEF Deduplicated, FoldLeft, MapThenFoldSet
<1>2. Len(text) \in Nat /\ DOMAIN text = 1..Len(text) /\ \A k \in 1..Len(text) : text[k] \in C
  BY LenProperties, ElementOfSeq
<1>3. \E it : Eq(it)
  <2> DEFINE G == [x \in Seq(C) \X (Nat \ {0}) |->
                     IF x[2] \in DOMAIN text THEN op(x[1], text[x[2]]) ELSE x[1]]
  <2>1. \A x \in Seq(C) : \A i \in Nat \ {0} : G[<<x, i>>] \in Seq(C)
    BY <1>2, AppendProperties
  <2>2. <<>> \in Seq(C)
    BY EmptySeq
  <2>3. \A x \in Seq(C), i \in 1..Len(text) : G[<<x, i>>] = op(x, text[i])
    BY <1>2
  <2> HIDE DEF G
  <2>4. PICK it \in [SUBSET (1..Len(text)) -> Seq(C)] : Folds(Len(text), <<>>, G, it)
    BY <1>2, <2>1, <2>2, FoldExists
  <2>5. \A s \in SUBSET (1..Len(text)) : s # {} => Max(s) \in 1..Len(text)
    BY <1>2, MaxIsIn
  <2> HIDE DEF op
  <2>6. it = [s \in SUBSET DOMAIN text |->
                             IF s = {} THEN <<>> ELSE op(it[s \ {Max(s)}], text[Max(s)])]
    BY <1>2, <2>3, <2>4, <2>5 DEF Folds
  <2> QED
    BY <2>6
<1>4. Eq(iter)
  <2> HIDE DEF Eq
  <2> QED
    BY <1>3
<1>5. \A s \in SUBSET (1..Len(text)) :
        iter[s] = IF s = {} THEN <<>> ELSE op(iter[s \ {Max(s)}], text[Max(s)])
  <2> HIDE DEF iter, op
  <2> QED
   BY <1>2, <1>4
<1> HIDE DEF iter, op
<1> DEFINE h == [k \in 0..Len(text) |-> iter[1..k]]
<1>6. h[0] = <<>>
  <2>1. 1..0 = {} /\ 0 \in 0..Len(text) /\ {} \in SUBSET (1..Len(text))
    BY <1>2
  <2>2. h[0] = iter[{}]
    BY <2>1
  <2> QED
    BY <1>5, <2>1, <2>2
<1>7. ASSUME NEW k \in 0..(Len(text) - 1) PROVE h[k + 1] = op(h[k], text[k + 1])
  <2>1. Max(1..(k + 1)) = k + 1
    BY <1>2, MaxIsTop
  <2>2. (1..(k + 1)) \ {k + 1} = 1..k /\ 1..(k+1) # {} /\ 1..(k+1) \in SUBSET (1..Len(text))
    BY <1>2
  <2>3. h[k + 1] = iter[1..(k + 1)] /\ h[k] = iter[1..k]
    BY <1>2
  <2>4. iter[1..(k + 1)] = op(iter[(1..(k + 1)) \ {k + 1}], text[k + 1])
    BY <1>5, <2>1, <2>2
  <2> QED
    BY <2>2, <2>3, <2>4
<1>8. h[Len(text)] = Deduplicated(text)
  BY <1>1, <1>2
<1> HIDE DEF h
<1> QED
  BY <1>6, <1>7, <1>8 DEF op

LEMMA DedupOfNothing == Deduplicated(<<>>) = <<>>
<1>1. <<>> \in Seq({}) /\ Len(<<>>) = 0
  BY EmptySeq
<1> QED
  BY <1>1, DedupRuns

(* A chunk more: it is kept unless it is the last one again.               *)
LEMMA DedupGrows ==
  ASSUME NEW C, NEW s \in Seq(C), NEW c \in C
  PROVE  /\ Deduplicated(s) \in Seq(C)
         /\ Deduplicated(Append(s, c)) =
              IF s # <<>> /\ Last(s) = c THEN Deduplicated(s) ELSE Append(Deduplicated(s), c)
<1> DEFINE t == Append(s, c)
           n == Len(s)
<1>1. /\ n \in Nat /\ t \in Seq(C) /\ Len(t) = n + 1 /\ t[n + 1] = c
      /\ \A k \in 1..n : t[k] = s[k] /\ s[k] \in C
      /\ s = <<>> <=> n = 0
  BY LenProperties, ElementOfSeq, AppendProperties, EmptySeq
<1>2. PICK h : /\ h[0] = <<>>
               /\ \A k \in 0..(n - 1) :
                     h[k + 1] = IF h[k] # <<>> /\ Last(h[k]) = s[k + 1] THEN h[k]
                                ELSE Append(h[k], s[k + 1])
               /\ Deduplicated(s) = h[n]
  BY DedupRuns
<1>3. PICK g : /\ g[0] = <<>>
               /\ \A k \in 0..(Len(t) - 1) :
                     g[k + 1] = IF g[k] # <<>> /\ Last(g[k]) = t[k + 1] THEN g[k]
                                ELSE Append(g[k], t[k + 1])
               /\ Deduplicated(t) = g[Len(t)]
  <2> HIDE DEF t
  <2> QED
    BY <1>1, DedupRuns
<1> HIDE DEF t
<1> DEFINE S == {k \in 0..n : /\ g[k] = h[k] /\ h[k] \in Seq(C)
                              /\ k > 0 => h[k] # <<>> /\ Last(h[k]) = s[k]
                              /\ k = 0 => h[k] = <<>>}
<1>4. 0 \in S
  <2>1. 0 \in 0..n /\ ~(0 > 0)
    BY <1>1
  <2>2. 0 \in 0..(Len(t) - 1)
    BY <1>1
  <2>3. g[0] = h[0] /\ h[0] = <<>> /\ <<>> \in Seq(C)
    BY <1>2, <1>3, EmptySeq
  <2> QED
    BY <2>1, <2>3
<1>5. ASSUME NEW k \in 0..(n - 1), k \in S PROVE k + 1 \in S
  <2>1. s[k + 1] \in C /\ t[k + 1] = s[k + 1] /\ k + 1 \in 0..n /\ k \in 0..(Len(t) - 1)
    BY <1>1
  <2>2. /\ h[k + 1] = IF h[k] # <<>> /\ Last(h[k]) = s[k + 1] THEN h[k]
                      ELSE Append(h[k], s[k + 1])
        /\ g[k + 1] = h[k + 1]
    BY <1>2, <1>3, <1>5, <2>1
  <2>3. h[k] \in Seq(C)
    BY <1>5
  <2>4. /\ Append(h[k], s[k + 1]) \in Seq(C) /\ Append(h[k], s[k + 1]) # <<>>
        /\ Last(Append(h[k], s[k + 1])) = s[k + 1]
    BY <2>1, <2>3, AppendProperties, EmptySeq DEF Last
  <2>5. h[k + 1] \in Seq(C) /\ h[k + 1] # <<>> /\ Last(h[k + 1]) = s[k + 1]
    BY <2>2, <2>3, <2>4
  <2>6. k + 1 > 0 /\ k + 1 # 0
    BY <1>1
  <2> QED
    BY <2>1, <2>2, <2>5, <2>6
<1> HIDE DEF S
<1>6. n \in S
  <2>1. \A k \in 0..n : k \in S
    BY <1>1, <1>4, <1>5, ToEach
  <2> QED
    BY <1>1, <2>1
<1>7. g[n + 1] = IF g[n] # <<>> /\ Last(g[n]) = c THEN g[n] ELSE Append(g[n], c)
  BY <1>1, <1>3
<1> QED
  BY <1>1, <1>2, <1>3, <1>6, <1>7 DEF S, t, Last

LEMMA LastCharsOf ==
  ASSUME NEW C, NEW t \in Seq(C)
  PROVE  LET u == LastChars(t) IN
         /\ u \in Seq(C) /\ Len(u) = IF Len(t) > MaxChars THEN MaxChars ELSE Len(t)
         /\ \A i \in 1..Len(u) : u[i] = t[Len(t) - Len(u) + i]
         /\ Len(u) = MaxChars \/ u = t
<1>1. Len(t) \in Nat /\ MaxChars \in Nat \ {0} /\ \A i \in 1..Len(t) : t[i] \in C
  BY WindowAssumption, LenProperties, ElementOfSeq
<1>2. CASE Len(t) > MaxChars
  <2>1. LastChars(t) = SubSeq(t, Len(t) - MaxChars + 1, Len(t))
    BY <1>2 DEF LastChars
  <2>2. /\ Len(t) - MaxChars + 1 \in Int /\ \A i \in (Len(t) - MaxChars + 1)..Len(t) : t[i] \in C
        /\ Len(t) - (Len(t) - MaxChars + 1) + 1 = MaxChars
        /\ \A i \in 1..MaxChars : (Len(t) - MaxChars + 1) + i - 1 = Len(t) - MaxChars + i
    BY <1>1, <1>2
  <2>3. /\ LastChars(t) \in Seq(C) /\ Len(LastChars(t)) = MaxChars
        /\ \A i \in 1..MaxChars : LastChars(t)[i] = t[(Len(t) - MaxChars + 1) + i - 1]
    BY <1>1, <1>2, <2>1, <2>2, SubSeqProperties
  <2> QED
    BY <1>1, <1>2, <2>2, <2>3
<1>3. CASE ~(Len(t) > MaxChars)
  BY <1>1, <1>3 DEF LastChars
<1> QED
  BY <1>2, <1>3

LEMMA LastCharsGrow ==
  ASSUME NEW C, NEW t \in Seq(C), NEW c \in C
  PROVE  LastChars(Append(LastChars(t), c)) = LastChars(Append(t, c))
<1> DEFINE u == LastChars(t)
           more == Append(u, c)
           all == Append(t, c)
           v == LastChars(more)
           w == LastChars(all)
<1>1. /\ u \in Seq(C) /\ Len(u) = IF Len(t) > MaxChars THEN MaxChars ELSE Len(t)
      /\ \A i \in 1..Len(u) : u[i] = t[Len(t) - Len(u) + i]
      /\ Len(t) \in Nat /\ MaxChars \in Nat \ {0}
  BY LastCharsOf, WindowAssumption, LenProperties
<1> HIDE DEF u
<1>2. /\ more \in Seq(C) /\ Len(more) = Len(u) + 1 /\ more[Len(u) + 1] = c
      /\ \A i \in 1..Len(u) : more[i] = u[i]
      /\ all \in Seq(C) /\ Len(all) = Len(t) + 1 /\ all[Len(t) + 1] = c
      /\ \A i \in 1..Len(t) : all[i] = t[i]
  BY <1>1, AppendProperties
<1> HIDE DEF more, all
<1>3. /\ v \in Seq(C) /\ Len(v) = IF Len(more) > MaxChars THEN MaxChars ELSE Len(more)
      /\ \A i \in 1..Len(v) : v[i] = more[Len(more) - Len(v) + i]
  BY <1>2, LastCharsOf
<1>4. /\ w \in Seq(C) /\ Len(w) = IF Len(all) > MaxChars THEN MaxChars ELSE Len(all)
      /\ \A i \in 1..Len(w) : w[i] = all[Len(all) - Len(w) + i]
  BY <1>2, LastCharsOf
<1> HIDE DEF v, w
<1>5. Len(v) = Len(w) /\ Len(v) \in Nat /\ Len(v) <= Len(u) + 1 /\ Len(v) <= Len(t) + 1
  BY <1>1, <1>2, <1>3, <1>4
<1>6. ASSUME NEW i \in 1..Len(v) PROVE v[i] = w[i]
  <2>0. Len(u) \in Nat /\ Len(t) \in Nat
    BY <1>1
  <2> DEFINE j == Len(u) + 1 - Len(v) + i
             k == Len(t) + 1 - Len(v) + i
  <2>1. v[i] = more[j] /\ w[i] = all[k]
    <3>1. v[i] = more[Len(more) - Len(v) + i] /\ w[i] = all[Len(all) - Len(w) + i]
      BY <1>3, <1>4, <1>5
    <3>2. Len(more) - Len(v) + i = j /\ Len(all) - Len(w) + i = k
      BY <1>2, <1>5
    <3> QED
      BY <3>1, <3>2
  <2>2. CASE i = Len(v)
    <3>1. j = Len(u) + 1 /\ k = Len(t) + 1
      BY <1>5, <2>0, <2>2
    <3> HIDE DEF j, k
    <3> QED
      BY <1>2, <2>1, <3>1
  <2>3. CASE i # Len(v)
    <3>1. j \in 1..Len(u) /\ k \in 1..Len(t) /\ Len(t) - Len(u) + j = k
      BY <1>5, <2>0, <2>3
    <3> HIDE DEF j, k
    <3>2. more[j] = u[j] /\ all[k] = t[k] /\ u[j] = t[k]
      BY <1>1, <1>2, <3>1
    <3> QED
      BY <2>1, <3>2
  <2> QED
    BY <2>2, <2>3
<1>7. v = w
  BY <1>3, <1>4, <1>5, <1>6, SeqEqual
<1> QED
  BY <1>7 DEF u, v, w, more, all

LEMMA LastCharsSuffix ==
  ASSUME NEW C, NEW t \in Seq(C)
  PROVE  IsSuffix(LastChars(t), t)
<1> DEFINE u == LastChars(t)
<1>1. /\ u \in Seq(C) /\ Len(u) = IF Len(t) > MaxChars THEN MaxChars ELSE Len(t)
      /\ \A i \in 1..Len(u) : u[i] = t[Len(t) - Len(u) + i]
      /\ Len(t) \in Nat /\ MaxChars \in Nat \ {0}
      /\ \A i \in 1..Len(t) : t[i] \in C
  BY LastCharsOf, WindowAssumption, LenProperties, ElementOfSeq
<1> HIDE DEF u
<1>2. /\ Len(Reverse(u)) = Len(u) /\ \A i \in 1..Len(u) : Reverse(u)[i] = u[Len(u) - i + 1]
      /\ Len(Reverse(t)) = Len(t) /\ \A i \in 1..Len(t) : Reverse(t)[i] = t[Len(t) - i + 1]
  BY <1>1 DEF Reverse
<1>3. Len(u) \in Nat /\ Len(u) <= Len(t)
  BY <1>1
<1>4. ASSUME NEW i \in 1..Len(u) PROVE Reverse(u)[i] = Reverse(t)[i] /\ Reverse(u)[i] \in C
  <2>1. Len(u) - i + 1 \in 1..Len(u) /\ Len(t) - Len(u) + (Len(u) - i + 1) = Len(t) - i + 1
        /\ i \in 1..Len(t) /\ Len(t) - i + 1 \in 1..Len(t)
    <3>1. Len(u) \in Nat /\ Len(t) \in Nat /\ Len(u) <= Len(t)
      BY <1>1, <1>3
    <3> QED
      BY <3>1
  <2> QED
    BY <1>1, <1>2, <2>1
<1> DEFINE a == SubSeq(Reverse(u), 1, Len(u))
           b == SubSeq(Reverse(t), 1, Len(u))
<1>5. /\ a \in Seq(C) /\ Len(a) = Len(u) /\ \A i \in 1..Len(u) : a[i] = Reverse(u)[i]
  <2>1. \A i \in 1..(Len(u) - 1 + 1) : 1 + i - 1 = i
    OBVIOUS
  <2>2. Len(u) - 1 + 1 = Len(u) /\ 1 \in Int /\ Len(u) \in Int
    BY <1>3
  <2> QED
    BY <1>3, <1>4, <2>1, <2>2, SubSeqProperties
<1>6. /\ b \in Seq(C) /\ Len(b) = Len(u) /\ \A i \in 1..Len(u) : b[i] = Reverse(t)[i]
  <2>1. \A i \in 1..(Len(u) - 1 + 1) : 1 + i - 1 = i
    OBVIOUS
  <2>2. Len(u) - 1 + 1 = Len(u) /\ 1 \in Int /\ Len(u) \in Int
    BY <1>3
  <2> QED
    BY <1>3, <1>4, <2>1, <2>2, SubSeqProperties
<1> HIDE DEF a, b
<1>7. a = b
  BY <1>4, <1>5, <1>6, SeqEqual
<1> QED
  BY <1>2, <1>3, <1>7 DEF IsSuffix, IsPrefix, a, b, u
---------------------------------------------------------------------------
(* While a run streams, the window and the card follow what was said.      *)

Fits(w, text) ==
  /\ w.text = LastChars(Deduplicated(text))
  /\ w.last = Len(text)
  /\ w.chunk = IF text = <<>> THEN None ELSE Last(text)

Follows ==
  LET here == at[Executor] IN
  /\ here \in {"told", "stream", "output"} => Fits(window, said) /\ card = Running(window.text)
  /\ here = "delta" =>
       /\ said # <<>> /\ Fits(window, Front(said)) /\ card = Running(window.text)
       /\ delta = [sequence |-> Len(said), text |-> Last(said)]
  /\ here = "updating" =>
       /\ Fits(window, said) /\ call[Executor].body = Running(window.text)
       /\ Succeeded(Executor) => card = Running(window.text)

Streams ==
  /\ presentation.phase = "streaming" /\ outcome[Executor] = None
  /\ ~retried /\ "overtaken" \notin marks

OutputInv ==
  /\ presentation.phase = "streaming" => presentation.card
  /\ at[Executor] \in StartPlaces => said = <<>> /\ presentation.phase # "streaming"
  /\ at[Executor] = "creating" =>
       /\ call[Executor].body = Running(<<>>)
       /\ Succeeded(Executor) => card = Running(<<>>)
  /\ at[Executor] = "streaming" => card = Running(<<>>)
  /\ Streams => Follows

LEMMA FitsAtStart == Fits(NoWindow, <<>>)
<1>1. LastChars(<<>>) = <<>>
  <2>1. <<>> \in Seq({}) /\ Len(<<>>) = 0
    BY EmptySeq
  <2> QED
    BY <2>1, WindowAssumption DEF LastChars
<1> QED
  BY <1>1, DedupOfNothing, EmptySeq DEF Fits, NoWindow

(* The window of a text, moved on by a chunk, is that of the longer text.  *)
LEMMA FitsGrows ==
  ASSUME NEW C, NEW text \in Seq(C), NEW c \in C, None \notin C, NEW w, Fits(w, text),
         NEW d, d.sequence = Len(text) + 1, d.text = c
  PROVE  Fits(AppendDelta(w, d), Append(text, c))
<1> DEFINE more == Append(text, c)
           v == AppendDelta(w, d)
           dedup == Deduplicated(text)
<1>1. /\ more \in Seq(C) /\ Len(more) = Len(text) + 1 /\ Last(more) = c /\ more # <<>>
      /\ c # None
  BY AppendProperties, EmptySeq DEF Last
<1>2. /\ dedup \in Seq(C)
      /\ Deduplicated(more) = IF text # <<>> /\ Last(text) = c THEN dedup ELSE Append(dedup, c)
  BY DedupGrows
<1>3. v.text = LastChars(Deduplicated(more))
  <2>1. CASE c = w.chunk
    <3>1. text # <<>> /\ Last(text) = c
      BY <1>1, <2>1 DEF Fits
    <3>2. v.text = w.text
      BY <2>1 DEF AppendDelta
    <3> QED
      BY <1>2, <3>1, <3>2 DEF Fits
  <2>2. CASE c # w.chunk
    <3>1. ~(text # <<>> /\ Last(text) = c)
      BY <2>2 DEF Fits
    <3>2. v.text = LastChars(Append(w.text, c)) /\ w.text = LastChars(dedup)
      BY <2>2 DEF AppendDelta, Fits
    <3>3. LastChars(Append(LastChars(dedup), c)) = LastChars(Append(dedup, c))
      BY <1>2, LastCharsGrow
    <3> QED
      BY <1>2, <3>1, <3>2, <3>3
  <2> QED
    BY <2>1, <2>2
<1>4. v.last = Len(more) /\ v.chunk = Last(more)
  BY <1>1 DEF AppendDelta
<1> QED
  BY <1>1, <1>3, <1>4 DEF Fits

(* What nobody but the executor, at its place, changes.                    *)
Parting == {"gone", "catch", "completeCatch", "fallbackCatch"}

LEMMA OutputAside ==
  ASSUME BaseInv, [Next]_vars
  PROVE  \/ ExecutorActs \/ NotifierActs(Executor)
         \/ /\ UNCHANGED <<said, retried>>
            /\ UNCHANGED <<window, delta>> \/ at'[Executor] \in Parting
<1> DEFINE Kept == UNCHANGED <<said, retried, window, delta>>
<1>1. ASSUME NEW p \in Tellers, NotifierActs(p), p # Executor PROVE Kept
  <2>1. at[p] \notin {"streaming", "delta", "output"}
    BY <1>1, TellersAre, TellersPlaces DEF GatewayPlaces, ReaperPlaces, EndPlaces
  <2>2. UNCHANGED <<said, retried>>
    BY <1>1 DEF NotifierActs, Rest, executorVars
  <2>3. UNCHANGED <<window, delta>>
    <3>1. CASE Quietly(p)
      BY <2>1, <3>1 DEF Quietly, GetPending, OnlyMoves, InsertPending, HandleStarted,
        MarkStreaming, Degrade, SaveOutput, MarkTerminal, AttachFallback, At
    <3>2. CASE Answering(p)
      BY <3>2 DEF Answering, Reacted, CardCreated, CardFails, CardUpdated, ReactionRemoved,
        CardCompleted, CompleteFails, FallbackSent, FallbackFails
    <3>3. CASE Asking(p)
      BY <2>1, <3>3 DEF Asking, React, CreateCard, HandleDelta, RemoveReaction, HandleTerminal,
        Reread, At
    <3> QED
      BY <1>1, <3>1, <3>2, <3>3, NotifierKinds DEF NotifierActs
  <2> QED
    BY <2>2, <2>3
<1>2. MediaStep /\ Rest => Kept
  BY DEF MediaStep, Rest, executorVars
<1>3. ASSUME NEW p \in Callers, Rejected(p)
      PROVE  UNCHANGED <<said, retried, window>> /\ (delta' = delta \/ at'[Executor] \in Parting)
  <2>1. UNCHANGED <<said, retried, window>> /\ (p # Executor => delta' = delta)
    BY <1>3 DEF Rejected
  <2>2. p = Executor => at'[Executor] \in Parting
    BY <1>3, RejectedCuts, CutPlaces, TellersAre DEF Parting
  <2> QED
    BY <2>1, <2>2
<1>4. ExecutorDies => UNCHANGED <<said, retried>> /\ at'[Executor] \in Parting
  BY TellersAre DEF ExecutorDies, executorVars, Go, BaseInv, HandlersTyped, Parting
<1>5. /\ RequestMedia /\ UNCHANGED <<seen, outcome, delta, window>> /\ Rest => Kept
      /\ Reap => Kept
      /\ \A p \in Callers : SenderActs(p) => Kept
      /\ TokenExpires => Kept
      /\ \A p \in Tellers : InsertCollides(p) => Kept
      /\ UNCHANGED vars => Kept
  BY DEF RequestMedia, Rest, Reap, SenderActs, TokenExpires, InsertCollides, executorVars,
    handlerVars, vars
<1> HIDE DEF Kept
<1>6. Kept => UNCHANGED <<said, retried>> /\ UNCHANGED <<window, delta>>
  BY DEF Kept
<1> QED
  BY <1>1, <1>2, <1>3, <1>4, <1>5, <1>6, StepKinds DEF Elsewhere, ExecutorActs, NotifierActs

LEMMA OutputKept ==
  ASSUME OutputInv, UNCHANGED <<said, retried, window, delta>>,
         at'[Executor] = at[Executor], call'[Executor] = call[Executor], card' = card,
         outcome'[Executor] = outcome[Executor], "overtaken" \in marks => "overtaken" \in marks',
         presentation'.phase = "streaming" =>
           presentation.phase = "streaming" /\ (presentation.card => presentation'.card)
  PROVE  OutputInv'
<1>1. Streams' => Streams
  BY DEF Streams
<1>2. Follows => Follows'
  BY DEF Follows, Succeeded
<1> QED
  BY <1>1, <1>2 DEF OutputInv, Succeeded

LEMMA OutputLeft ==
  ASSUME at'[Executor] \notin StartPlaces \cup StreamPlaces \cup {"told"},
         presentation'.phase = "streaming" => presentation'.card
  PROVE  OutputInv'
<1>1. Follows'
  BY DEF Follows, StreamPlaces
<1> QED
  BY <1>1 DEF OutputInv, StartPlaces

LEMMA OutputOfExecutor ==
  ASSUME BaseInv, OutputInv, ExecutorActs
  PROVE  OutputInv'
<1>1. /\ UNCHANGED <<presentation, card, call, marks>>
      /\ Executor \in Callers /\ HandlersTyped /\ said \in Seq(Chunks)
  BY ExecutorGoes, TellersAre DEF BaseInv, RunTyped
<1>2. CASE StartRun
  <2>1. at[Executor] = "idle" /\ at'[Executor] = "started" /\ said' = said
    BY <1>1, <1>2 DEF StartRun, Doing, At, Go, HandlersTyped, executorVars
  <2>2. Follows'
    BY <2>1 DEF Follows
  <2> QED
    BY <1>1, <2>1, <2>2 DEF OutputInv, StartPlaces
<1>3. CASE Resume
  <2>1. /\ at[Executor] = "told" /\ UNCHANGED <<said, retried, window, delta>>
        /\ at'[Executor] \in {"gone", "stream", "persist"}
        /\ at'[Executor] = "stream" => outcome'[Executor] = outcome[Executor]
    BY <1>1, <1>3 DEF Resume, Doing, At, Go, HandlersTyped
  <2>2. CASE at'[Executor] = "stream"
    <3>1. Streams' => Streams
      BY <1>1, <2>1, <2>2 DEF Streams
    <3>2. Streams' => Follows'
      BY <1>1, <2>1, <2>2, <3>1 DEF OutputInv, Follows
    <3> QED
      BY <1>1, <2>2, <3>2 DEF OutputInv, StartPlaces
  <2>3. CASE at'[Executor] # "stream"
    BY <1>1, <2>1, <2>3, OutputLeft DEF OutputInv, StartPlaces, StreamPlaces
  <2> QED
    BY <2>2, <2>3
<1>4. CASE Output
  <2>1. PICK c \in Chunks : said' = Append(said, c)
                            /\ delta' = [sequence |-> Len(said) + 1, text |-> c]
    BY <1>4 DEF Output
  <2>2. /\ at[Executor] = "stream" /\ at'[Executor] = "delta"
        /\ UNCHANGED <<window, outcome, retried>>
    BY <1>1, <1>4 DEF Output, Doing, At, Go, HandlersTyped
  <2>3. /\ said' # <<>> /\ Len(said') = Len(said) + 1 /\ Last(said') = c /\ Front(said') = said
    <3>1. Len(said') = Len(said) + 1 /\ said'[Len(said) + 1] = c /\ said' \in Seq(Chunks)
          /\ Len(said) \in Nat /\ \A i \in 1..Len(said) : said'[i] = said[i]
      BY <1>1, <2>1, AppendProperties, LenProperties
    <3>2. said' # <<>> /\ Last(said') = c
      BY <3>1, EmptySeq DEF Last
    <3>3. Front(said') = said
      <4> DEFINE f == SubSeq(said', 1, Len(said))
      <4>1. \A i \in 1..Len(said) : said'[i] \in Chunks
        BY <1>1, <3>1, ElementOfSeq
      <4>2. 1 \in Int /\ Len(said) \in Int /\ Len(said) - 1 + 1 = Len(said)
            /\ \A i \in 1..Len(said) : 1 + i - 1 = i
        BY <3>1
      <4>3. f \in Seq(Chunks) /\ Len(f) = Len(said) /\ \A i \in 1..Len(said) : f[i] = said'[i]
        BY <3>1, <4>1, <4>2, SubSeqProperties
      <4> HIDE DEF f
      <4>4. f = said
        BY <1>1, <3>1, <4>3, SeqEqual
      <4>5. Len(said') - 1 = Len(said)
        BY <3>1
      <4> QED
        BY <4>4, <4>5 DEF Front, f
    <3> QED
      BY <3>1, <3>2, <3>3
  <2>4. Streams' => Follows'
    <3>1. Streams' => Streams
      BY <1>1, <2>2 DEF Streams
    <3> QED
      BY <1>1, <2>1, <2>2, <2>3, <3>1 DEF OutputInv, Follows
  <2> QED
    BY <1>1, <2>2, <2>4 DEF OutputInv, StartPlaces
<1>5. CASE RetryFresh
  <2>1. at'[Executor] = "stream" /\ retried'
    BY <1>1, <1>5 DEF RetryFresh, Doing, At, handlerVars
  <2> QED
    BY <1>1, <2>1 DEF OutputInv, Streams, StartPlaces
<1>6. CASE TakeOutcome \/ PersistOutcome \/ CatchFailure
  <2>1. at'[Executor] \in {"persist", "gone", "ended"}
    BY <1>1, <1>6 DEF TakeOutcome, PersistOutcome, CatchFailure, Go, HandlersTyped
  <2> QED
    BY <1>1, <2>1, OutputLeft DEF OutputInv, StartPlaces, StreamPlaces
<1> QED
  BY <1>2, <1>3, <1>4, <1>5, <1>6 DEF ExecutorActs, ExecutorStep

LEMMA FrontAndLast ==
  ASSUME NEW C, NEW text \in Seq(C), text # <<>>
  PROVE  /\ Front(text) \in Seq(C) /\ Last(text) \in C /\ Len(text) = Len(Front(text)) + 1
         /\ Append(Front(text), Last(text)) = text
<1> DEFINE n == Len(text)
           f == Front(text)
<1>1. n \in Nat /\ n # 0 /\ \A i \in 1..n : text[i] \in C
  BY EmptySeq, ElementOfSeq
<1>2. f \in Seq(C) /\ Len(f) = n - 1 /\ \A i \in 1..(n - 1) : f[i] = text[i]
  <2>1. /\ \A i \in 1..(n - 1) : text[i] \in C
        /\ n - 1 \in Int /\ 1 \in Int /\ (n - 1) - 1 + 1 = n - 1
        /\ \A i \in 1..(n - 1) : 1 + i - 1 = i
    BY <1>1
  <2>2. /\ f \in Seq(C) /\ Len(f) = IF 1 <= n - 1 THEN n - 1 ELSE 0
        /\ \A i \in 1..(n - 1) : f[i] = text[1 + i - 1]
    BY <2>1, SubSeqProperties DEF Front
  <2>3. n \in Nat /\ n # 0
    BY <1>1
  <2>4. 1 <= n - 1 \/ n - 1 = 0
    <3> HIDE DEF n
    <3> QED
      BY <2>3
  <2>5. Len(f) = n - 1
    BY <2>2, <2>4
  <2>6. \A i \in 1..(n - 1) : f[i] = text[i]
    BY <2>1, <2>2
  <2> QED
    BY <2>2, <2>5, <2>6
<1> HIDE DEF f
<1> DEFINE g == Append(f, text[n])
<1>3. g \in Seq(C) /\ Len(g) = n /\ \A i \in 1..n : g[i] = IF i <= n - 1 THEN f[i] ELSE text[n]
  BY <1>1, <1>2, AppendProperties
<1> HIDE DEF g
<1>4. \A i \in 1..n : g[i] = text[i]
  BY <1>1, <1>2, <1>3
<1>5. g = text
  BY <1>3, <1>4, SeqEqual
<1> QED
  BY <1>1, <1>2, <1>5 DEF f, g, Last

LEMMA OutputOfDelta ==
  ASSUME BaseInv, CardInv, OutputInv, HandleDelta(Executor), Rest
  PROVE  OutputInv'
<1>1. /\ at[Executor] = "delta" /\ at'[Executor] \in {"updating", "told"}
      /\ UNCHANGED <<presentation, outcome, card, said, retried, marks>>
      /\ Executor \in Callers /\ said \in Seq(Chunks) /\ SenderTyped /\ None \notin Chunks
  BY TellersAre, RunAssumption DEF HandleDelta, At, Go, Rest, executorVars, Ask, Begin, ExceptCall,
    senderVars, BaseInv, RunTyped, HandlersTyped
<1>2. Streams' => Follows'
  <2> SUFFICES ASSUME Streams' PROVE Follows'
    OBVIOUS
  <2>1. Streams /\ Follows
    BY <1>1 DEF Streams, OutputInv
  <2>2. Interactive
    <3>1. presentation.phase # "none"
      BY <2>1 DEF Streams
    <3> QED
      BY <3>1 DEF CardInv, NoPresentation
  <2>3. /\ Front(said) \in Seq(Chunks) /\ Last(said) \in Chunks /\ Len(said) = Len(Front(said)) + 1
        /\ Append(Front(said), Last(said)) = said
    BY <1>1, <2>1, FrontAndLast DEF Follows
  <2>4. Fits(window, Front(said)) /\ delta.sequence = Len(said) /\ delta.text = Last(said)
    BY <1>1, <2>1 DEF Follows
  <2>5. delta.sequence > window.last
    <3>1. Len(Front(said)) \in Nat
      BY <2>3, LenProperties
    <3> QED
      BY <2>3, <2>4, <3>1 DEF Fits
  <2>6. /\ window' = AppendDelta(window, delta)
        /\ Ask(Executor, "updateCard", Running(window'.text))
        /\ at'[Executor] = "updating"
    BY <1>1, <2>1, <2>2, <2>5 DEF HandleDelta, Streams, OutputInv, Go, BaseInv, HandlersTyped
  <2>7. Fits(window', said')
    BY <1>1, <2>3, <2>4, <2>6, FitsGrows
  <2>8. call'[Executor].body = Running(window'.text) /\ ~Succeeded(Executor)'
    BY <1>1, <2>6 DEF Ask, Begin, Succeeded, SenderTyped
  <2> QED
    BY <2>6, <2>7, <2>8 DEF Follows
<1> QED
  BY <1>1, <1>2 DEF OutputInv, StartPlaces

LEMMA OutputOfNotifier ==
  ASSUME BaseInv, CardInv, OutputInv, NotifierActs(Executor)
  PROVE  OutputInv'
<1> DEFINE p == Executor
<1>1. /\ p \in Tellers /\ p \in Callers /\ HandlersTyped /\ SenderTyped
      /\ StartWays(p) \/ OutputWays(p) \/ EndWays(p)
      /\ RowWays(p)
      /\ UNCHANGED <<outcome, marks, card, said, retried>>
  BY NotifierGoes, TellersAre DEF NotifierActs, Rest, executorVars, BaseInv
<1>2. at[p] \notin {"queued", "reacting"}
  BY TellersPlaces DEF ExecutorPlaces, StartPlaces, StreamPlaces, EndPlaces
<1>3. presentation'.phase = "streaming" => presentation'.card
  BY <1>1 DEF RowWays, OutputInv, BaseInv, PlacesHold, EndPlaces, Ends
<1>4. CASE HandleDelta(p)
  BY <1>4, OutputOfDelta DEF NotifierActs
<1>5. CASE CardUpdated(p) \/ SaveOutput(p)
  <2>1. CASE CardUpdated(p)
    <3>1. /\ at[p] = "updating" /\ at'[p] = "output" /\ Succeeded(p)
          /\ UNCHANGED <<presentation, window, delta>>
      BY <1>1, <2>1 DEF CardUpdated, Called, Go, HandlersTyped
    <3>2. Streams' => Follows'
      BY <1>1, <3>1 DEF Streams, Follows, OutputInv, Fits
    <3> QED
      BY <1>3, <3>1, <3>2 DEF OutputInv, StartPlaces
  <2>2. CASE SaveOutput(p)
    <3>1. at[p] = "output" /\ at'[p] = "told" /\ window' = window
      BY <1>1, <2>2 DEF SaveOutput, At, Go, HandlersTyped
    <3>2. presentation'.phase = presentation.phase
      BY <1>1, <3>1 DEF RowWays
    <3>3. Streams' => Follows'
      BY <1>1, <3>1, <3>2 DEF Streams, Follows, OutputInv, Fits
    <3> QED
      BY <1>3, <3>1, <3>3 DEF OutputInv, StartPlaces
  <2> QED
    BY <1>5, <2>1, <2>2
<1>6. CASE MarkStreaming(p)
  <2>1. /\ at[p] = "streaming" /\ at'[p] = "told" /\ window' = NoWindow
        /\ said = <<>> /\ card = Running(<<>>)
    BY <1>1, <1>6 DEF MarkStreaming, At, Go, HandlersTyped, OutputInv, StartPlaces
  <2>2. Follows'
    BY <1>1, <2>1, FitsAtStart DEF Follows, NoWindow
  <2> QED
    BY <1>3, <2>1, <2>2 DEF OutputInv, StartPlaces
<1>7. CASE CreateCard(p)
  <2>1. /\ at[p] = "cardCreate" /\ at'[p] = "creating" /\ UNCHANGED presentation
        /\ call'[p].body = Running(<<>>) /\ ~Succeeded(p)'
    BY <1>1, <1>7 DEF CreateCard, At, Go, HandlersTyped, Ask, Begin, Succeeded, SenderTyped
  <2>2. Follows'
    BY <2>1 DEF Follows
  <2> QED
    BY <1>1, <1>3, <2>1, <2>2 DEF OutputInv, StartPlaces
<1>8. CASE CardCreated(p)
  <2>1. /\ at[p] = "creating" /\ at'[p] = "streaming" /\ UNCHANGED presentation
        /\ card = Running(<<>>)
    BY <1>1, <1>8 DEF CardCreated, Called, Go, HandlersTyped, OutputInv
  <2>2. Follows'
    BY <2>1 DEF Follows
  <2> QED
    BY <1>1, <1>3, <2>1, <2>2 DEF OutputInv, StartPlaces
<1>9. CASE GetPending(p) \/ InsertPending(p) \/ HandleStarted(p)
  <2>1. at[p] \in {"started", "getPending", "insertPending"}
    BY <1>9 DEF GetPending, InsertPending, HandleStarted, At
  <2>2. at'[p] \in {"getPending", "insertPending", "cardCreate", "told"}
    BY <1>1, <2>1 DEF StartWays, OutputWays, EndWays, Continue
  <2>3. said' = <<>> /\ presentation'.phase # "streaming"
    BY <1>1, <2>1 DEF OutputInv, StartPlaces, RowWays
  <2> QED
    BY <2>2, <2>3 DEF OutputInv, Streams
<1>10. CASE CardFails(p) \/ Degrade(p)
  <2>1. CASE CardFails(p)
    <3>1. at'[p] = "degrade"
      BY <1>1, <2>1 DEF CardFails, Go, HandlersTyped
    <3> QED
      BY <1>3, <3>1, OutputLeft DEF StartPlaces, StreamPlaces
  <2>2. CASE Degrade(p)
    <3>1. at[p] \in {"degrade", "degradeClosing"} /\ at'[p] \in {"told", "reread"}
      BY <1>1, <2>2 DEF Degrade, At, Go, HandlersTyped
    <3>2. presentation'.phase # "streaming"
      BY <1>1, <3>1 DEF RowWays
    <3> QED
      BY <3>1, <3>2 DEF OutputInv, Streams, StartPlaces
  <2> QED
    BY <1>10, <2>1, <2>2
<1>11. CASE EndWays(p)
  <2>1. at[p] \in EndPlaces /\ at'[p] \in EndPlaces \cup {"told"}
    BY <1>11 DEF EndWays, EndPlaces
  <2>2. outcome[p] # None
    BY <2>1, RunAssumption DEF BaseInv, PlacesHold
  <2>3. EndPlaces \cap (StartPlaces \cup StreamPlaces) = {} /\ "told" \notin StartPlaces
        /\ "creating" \in StartPlaces /\ "streaming" \in StartPlaces
    BY DEF EndPlaces, StartPlaces, StreamPlaces
  <2> QED
    BY <1>1, <1>3, <2>1, <2>2, <2>3 DEF OutputInv, Streams
<1>12. \/ HandleDelta(p) \/ CardUpdated(p) \/ SaveOutput(p) \/ MarkStreaming(p) \/ CreateCard(p)
       \/ CardCreated(p) \/ GetPending(p) \/ InsertPending(p) \/ HandleStarted(p) \/ CardFails(p)
       \/ Degrade(p) \/ EndWays(p)
  <2>1. React(p) \/ Reacted(p) => at[p] \in {"queued", "reacting"}
    BY DEF React, Reacted, At, Called
  <2>2. RemoveReaction(p) \/ ReactionRemoved(p) \/ HandleTerminal(p) \/ CardCompleted(p)
          \/ MarkTerminal(p) \/ CompleteFails(p) \/ Reread(p) \/ FallbackSent(p)
          \/ AttachFallback(p) \/ FallbackFails(p) => at[p] \in EndPlaces
    BY DEF RemoveReaction, ReactionRemoved, HandleTerminal, CardCompleted, MarkTerminal,
      CompleteFails, Reread, FallbackSent, AttachFallback, FallbackFails, At, Called, EndPlaces
  <2>3. at[p] \in EndPlaces => EndWays(p)
    BY <1>1 DEF StartWays, OutputWays, EndPlaces
  <2>4. NotifierStep(p)
    BY DEF NotifierActs
  <2>5. React(p) \/ Reacted(p) => FALSE
    BY <1>2, <2>1
  <2> QED
    BY <2>2, <2>3, <2>4, <2>5 DEF NotifierStep
<1> QED
  BY <1>4, <1>5, <1>6, <1>7, <1>8, <1>9, <1>10, <1>11, <1>12

Aside ==
  /\ UNCHANGED <<said, retried>>
  /\ UNCHANGED <<window, delta>> \/ at'[Executor] \in Parting

LEMMA OutputOfOthers ==
  ASSUME BaseInv, EndInv, OutputInv, Aside,
         (\E p \in Tellers \ {Executor} : NotifierActs(p)) \/ Still \/ Reap
  PROVE  OutputInv'
<1>1. ASSUME NEW p \in Tellers \ {Executor}, NotifierActs(p) PROVE OutputInv'
  <2>1. /\ at'[Executor] = at[Executor] /\ call'[Executor] = call[Executor]
        /\ UNCHANGED <<outcome, marks, card>> /\ RowWays(p)
    BY <1>1, NotifierGoes, TellersAre
  <2>2. at[p] # "streaming" /\ (at[p] = "markTerminal" => outcome[p] # "streaming")
    BY <1>1, TellersAre, TellersPlaces
    DEF GatewayPlaces, ReaperPlaces, EndPlaces, BaseInv, HandlersTyped, PlacesHold, Ends
  <2>3. presentation'.phase = "streaming" =>
          presentation.phase = "streaming" /\ (presentation.card => presentation'.card)
    BY <2>1, <2>2 DEF RowWays
  <2>4. CASE UNCHANGED <<window, delta>>
    BY <2>1, <2>3, <2>4, OutputKept DEF Aside
  <2>5. CASE at'[Executor] \in Parting
    BY <2>3, <2>5, OutputLeft DEF Parting, StartPlaces, StreamPlaces, OutputInv
  <2> QED
    BY <2>4, <2>5 DEF Aside
<1>2. CASE Still
  <2>1. /\ at'[Executor] = at[Executor] /\ call'[Executor] = call[Executor]
        /\ UNCHANGED <<outcome, marks, card, presentation>>
    BY <1>2, TellersAre DEF Still
  <2>2. CASE UNCHANGED <<window, delta>>
    BY <2>1, <2>2, OutputKept DEF Aside
  <2>3. CASE at'[Executor] \in Parting
    BY <2>1, <2>3, OutputLeft DEF Parting, StartPlaces, StreamPlaces, OutputInv
  <2> QED
    BY <2>2, <2>3 DEF Aside
<1>3. CASE Reap
  <2>1. /\ at'[Executor] = at[Executor] /\ UNCHANGED <<presentation, card>> /\ beating
        /\ at[Executor] # "gone" => "overtaken" \in marks'
    BY <1>3, TellersAre DEF Reap, MarkRun, Note, Go, BaseInv, HandlersTyped, senderVars, UnlessSpent
  <2>2. at[Executor] \notin StartPlaces
    BY <2>1 DEF BaseInv, PlacesHold
  <2>3. CASE at[Executor] = "gone"
    BY <2>1, <2>3, OutputLeft DEF StartPlaces, StreamPlaces, OutputInv
  <2>4. CASE at[Executor] # "gone"
    BY <2>1, <2>2, <2>4 DEF OutputInv, Streams, StartPlaces
  <2> QED
    BY <2>3, <2>4
<1> QED
  BY <1>1, <1>2, <1>3

LEMMA OutputOfSender ==
  ASSUME BaseInv, EndInv, OutputInv, Aside, NEW p \in Callers, SenderActs(p)
  PROVE  OutputInv'
<1>1. /\ UNCHANGED <<presentation, at, outcome, window, delta, said, retried>>
      /\ marks \subseteq marks'
      /\ call'[p].body = call[p].body /\ \A q \in Callers \ {p} : call'[q] = call[q]
      /\ card' = card \/ (at[p] \in {"creating", "updating", "completing"} /\ card' = call[p].body)
      /\ Succeeded(p)' /\ at[p] \in {"creating", "updating"} => card' = call[p].body
      /\ at[p] \in Waiting
  BY SenderShows DEF SenderActs, storeVars, handlerVars, executorVars
<1>2. Streams' => Streams
  BY <1>1 DEF Streams
<1>3. CASE p = Executor
  <2>1. Streams' => Follows'
    <3>1. CASE at[p] = "updating"
      BY <1>1, <1>2, <1>3, <3>1 DEF OutputInv, Follows
    <3>2. CASE at[p] # "updating"
      BY <1>1, <1>3, <3>2 DEF Follows, Waiting
    <3> QED
      BY <3>1, <3>2
  <2>2. at[p] = "creating" => /\ call'[p].body = Running(<<>>)
                              /\ Succeeded(p)' => card' = Running(<<>>)
    BY <1>1, <1>3 DEF OutputInv
  <2>3. at[p] # "streaming"
    BY <1>1 DEF Waiting
  <2> QED
    BY <1>1, <1>3, <2>1, <2>2, <2>3 DEF OutputInv
<1>4. CASE p # Executor /\ card' = card
  BY <1>1, <1>4, TellersAre, OutputKept
<1>5. CASE p # Executor /\ card' # card
  <2>1. p = "reaper" /\ at["reaper"] = "completing"
    <3>1. at[p] \in {"creating", "updating", "completing"}
      BY <1>1, <1>5
    <3>2. p \in Tellers
      BY <3>1, RunAssumption DEF BaseInv, PlacesHold, MediaPlaces
    <3> QED
      BY <1>5, <3>1, <3>2, TellersAre, TellersPlaces DEF GatewayPlaces, ReaperPlaces, EndPlaces
  <2>2. at[Executor] \notin StartPlaces /\ ("overtaken" \notin marks => at[Executor] = "gone")
    BY <2>1 DEF BaseInv, PlacesHold, EndInv
  <2>3. ~Streams' \/ Follows'
    BY <1>1, <2>2 DEF Streams, Follows
  <2> QED
    BY <1>1, <2>2, <2>3 DEF OutputInv, StartPlaces
<1> QED
  BY <1>3, <1>4, <1>5

LEMMA OutputOfCut ==
  ASSUME BaseInv, OutputInv, Aside, NEW p \in Callers, Cut(p)
  PROVE  OutputInv'
<1>1. UNCHANGED <<presentation, outcome, card>> /\ marks \subseteq marks'
  BY DEF Cut, storeVars
<1>2. CASE at'[Executor] \in Parting
  BY <1>1, <1>2, OutputLeft DEF Parting, StartPlaces, StreamPlaces, OutputInv
<1>3. CASE at'[Executor] \notin Parting
  <2>1. p # Executor
    BY <1>3, CutPlaces, TellersAre DEF Parting
  <2>2. at'[Executor] = at[Executor] /\ call'[Executor] = call[Executor]
    BY <2>1, TellersAre DEF Cut
  <2> QED
    BY <1>1, <1>3, <2>2, OutputKept DEF Aside
<1> QED
  BY <1>2, <1>3

LEMMA NextOutput == BaseInv /\ CardInv /\ EndInv /\ OutputInv /\ [Next]_vars => OutputInv'
<1> SUFFICES ASSUME BaseInv, CardInv, EndInv, OutputInv, [Next]_vars PROVE OutputInv'
  OBVIOUS
<1>1. CASE ExecutorActs
  BY <1>1, OutputOfExecutor
<1>2. CASE NotifierActs(Executor)
  BY <1>2, OutputOfNotifier
<1>3. CASE ~ExecutorActs /\ ~NotifierActs(Executor)
  <2>1. Aside
    BY <1>3, OutputAside DEF Aside
  <2>2. \/ \E p \in Tellers \ {Executor} : NotifierActs(p)
        \/ Still \/ Reap \/ (\E p \in Callers : SenderActs(p)) \/ (\E p \in Callers : Cut(p))
    BY <1>3, StepsSeen
  <2> QED
    BY <2>1, <2>2, OutputOfOthers, OutputOfSender, OutputOfCut
<1> QED
  BY <1>1, <1>2, <1>3

(* While a run streams, its card shows the end of what codex has said, up  *)
(* to repetitions: as far as the window reaches, and all of it if that is  *)
(* not more.                                                               *)
THEOREM OutputIsShown == Spec => []OutputShown
<1>1. Init => OutputInv
  <2> SUFFICES ASSUME Init PROVE OutputInv
    OBVIOUS
  <2>1. at[Executor] = "idle" /\ said = <<>> /\ presentation.phase = "none"
    BY TellersAre DEF Init, HandlerInit, StoreInit, NoPresentation
  <2> QED
    BY <2>1 DEF OutputInv, Streams, StartPlaces
<1>2. BaseInv /\ OutputInv => OutputShown
  <2> SUFFICES ASSUME BaseInv, OutputInv, Doing("stream"), presentation.phase = "streaming",
                      ~retried, "overtaken" \notin marks
               PROVE  /\ card.status = "running"
                      /\ IsSuffix(card.shown, Deduplicated(said))
                      /\ Len(card.shown) = MaxChars \/ card.shown = Deduplicated(said)
    BY DEF OutputShown
  <2>1. at[Executor] = "stream" /\ outcome[Executor] = None
    BY DEF Doing, At, BaseInv, PlacesHold, StreamPlaces
  <2>2. card = Running(LastChars(Deduplicated(said)))
    BY <2>1 DEF OutputInv, Streams, Follows, Fits
  <2>3. Deduplicated(said) \in Seq(Chunks)
    <3>1. said \in Seq(Chunks)
      BY DEF BaseInv, RunTyped
    <3>2. CASE said = <<>>
      BY <3>2, DedupOfNothing, EmptySeq
    <3>3. CASE said # <<>>
      BY <3>1, <3>3, FrontAndLast, DedupGrows
    <3> QED
      BY <3>2, <3>3
  <2> QED
    BY <2>2, <2>3, LastCharsOf, LastCharsSuffix DEF Running
<1> QED
  BY <1>1, <1>2, EndAtStart, NextEnd, NextOutput, CardHolds, PTL DEF Spec
===========================================================================
