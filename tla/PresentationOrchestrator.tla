--------------------- MODULE PresentationOrchestrator ---------------------
(***************************************************************************)
(* The run notifier and the presentation orchestrator, as the gateway's    *)
(* message handler, its reaper and the executor run them, each with its    *)
(* own position: what is told to the chat when the run is queued and       *)
(* started, when it has output, and when it has ended.                     *)
(***************************************************************************)
EXTENDS PresentationStore, SequencesExt

CONSTANTS MaxChars   \* of the output window, in chunks

ASSUME WindowAssumption == MaxChars \in Nat \ {0}

VARIABLES
  at,        \* where each activity is
  seen,      \* the presentation it has read
  outcome,   \* the status that its terminal event tells
  delta,     \* the chunk and sequence number it is handed
  window     \* the executor's window of the run's output

handlerVars == <<at, seen, outcome, delta, window>>

Tellers == {"gateway", "reaper", "executor"}

NoDelta == [sequence |-> 0, text |-> None]
NoWindow == [last |-> 0, text |-> <<>>, chunk |-> None]

HandlerTypeOK ==
  /\ DOMAIN at = Callers
  /\ seen \in [Callers -> Presentation \cup {NoPresentation}]
  /\ outcome \in [Callers -> Ends \cup {None}]
  /\ window.last \in Nat /\ Len(window.text) <= MaxChars

HandlerInit ==
  /\ at = [p \in Callers |-> CASE p = "gateway" -> "queued" [] OTHER -> "idle"]
  /\ seen = [p \in Callers |-> NoPresentation]
  /\ outcome = [p \in Callers |-> None]
  /\ delta = NoDelta
  /\ window = NoWindow

At(p, where) == at[p] = where /\ Silent(p)
Go(p, to) == at' = [at EXCEPT ![p] = to]
Called(p, where) == at[p] = where /\ (Succeeded(p) \/ Failed(p))

(* A step of a handler that touches no table and makes no call.            *)
OnlyMoves == UNCHANGED <<storeVars, senderVars, outcome, delta, window>>

ExceptCall == <<token, cached, spent, card, posts, reaction, files>>

See(p) == seen' = [seen EXCEPT ![p] = presentation]
Ask(p, op, body) == Begin(p, op, body) /\ UNCHANGED ExceptCall
Answer(p) == Forget(p) /\ UNCHANGED ExceptCall

---------------------------------------------------------------------------
(* run.queued: the message gets its reaction, and the row is made unless   *)
(* the executor was faster. A second insert violates the primary key.      *)

React(p) ==
  /\ At(p, "queued")
  /\ IF source = "chat"
       THEN Ask(p, "addReaction", NoCard) /\ Go(p, "reacting")
       ELSE UNCHANGED senderVars /\ Go(p, IF Interactive THEN "getPending" ELSE "told")
  /\ UNCHANGED <<storeVars, seen, outcome, delta, window>>

Reacted(p) ==
  /\ Called(p, "reacting")
  /\ Answer(p)
  /\ Go(p, "getPending")
  /\ UNCHANGED <<storeVars, seen, outcome, delta, window>>

Continue(p) == IF p = "executor" THEN "cardCreate" ELSE "told"

GetPending(p) ==
  /\ At(p, "getPending")
  /\ Go(p, IF presentation = NoPresentation THEN "insertPending" ELSE Continue(p))
  /\ UNCHANGED seen
  /\ OnlyMoves

InsertPending(p) ==
  /\ At(p, "insertPending") /\ presentation = NoPresentation
  /\ Insert
  /\ Go(p, Continue(p))
  /\ UNCHANGED <<source, status, deliveries, executionDelivery, mediaRows, senderVars,
                 seen, outcome, delta, window>>

---------------------------------------------------------------------------
(* run.started: the card is created.                                       *)

HandleStarted(p) ==
  /\ At(p, "started")
  /\ Go(p, IF ~Interactive THEN "told"
           ELSE IF presentation = NoPresentation THEN "getPending" ELSE "cardCreate")
  /\ UNCHANGED seen
  /\ OnlyMoves

CreateCard(p) ==
  /\ At(p, "cardCreate")
  /\ CreateDelivery(p, "card_create")
  /\ Ask(p, "createCard", Running(<<>>))
  /\ Go(p, "creating")
  /\ UNCHANGED <<source, status, presentation, executionDelivery, mediaRows,
                 seen, outcome, delta, window>>

CardCreated(p) ==
  /\ Called(p, "creating") /\ Succeeded(p)
  /\ Answer(p)
  /\ MarkDelivery(p, "sent") /\ MarkExecution("sent")
  /\ Go(p, "streaming")
  /\ UNCHANGED <<source, status, presentation, mediaRows, seen, outcome, delta, window>>

(* Whatever phase the presentation is in by now.                           *)
MarkStreaming(p) ==
  /\ At(p, "streaming")
  /\ window' = NoWindow
  /\ MarkPresentationStreaming
  /\ Go(p, "told")
  /\ UNCHANGED <<source, status, deliveries, executionDelivery, mediaRows, senderVars,
                 seen, outcome, delta>>

(* A card that cannot be created or updated: the presentation is degraded. *)
CardFails(p) ==
  /\ Called(p, "creating") \/ Called(p, "updating")
  /\ Failed(p)
  /\ Answer(p)
  /\ MarkDelivery(p, "failed")
  /\ Go(p, "degrade")
  /\ UNCHANGED <<source, status, presentation, executionDelivery, mediaRows,
                 seen, outcome, delta, window>>

Degrade(p) ==
  /\ At(p, "degrade") \/ At(p, "degradeClosing")
  /\ MarkPresentationDegraded
  /\ Go(p, IF at[p] = "degrade" THEN "told" ELSE "reread")
  /\ UNCHANGED <<source, status, deliveries, executionDelivery, mediaRows, senderVars,
                 seen, outcome, delta, window>>

---------------------------------------------------------------------------
(* agent.output.delta: the window of what was said last is put on the      *)
(* card. A number that is not above the last one is passed over, and a     *)
(* chunk like the one before is not added.                                 *)

(* Mutant of LastChars: the first output stays.                            *)
FirstChars(text) == IF Len(text) > MaxChars THEN SubSeq(text, 1, MaxChars) ELSE text

LastChars(text) ==
  IF Len(text) > MaxChars THEN SubSeq(text, Len(text) - MaxChars + 1, Len(text)) ELSE text

(* Mutant of AppendDelta: nothing is ever cut off.                         *)
AppendDeltaWhole(w, d) ==
  [last |-> d.sequence, chunk |-> d.text, text |-> Append(w.text, d.text)]

AppendDelta(w, d) ==
  [last |-> d.sequence, chunk |-> d.text,
   text |-> IF d.text = w.chunk THEN w.text ELSE LastChars(Append(w.text, d.text))]

HandleDelta(p) ==
  /\ At(p, "delta")
  /\ IF Interactive /\ presentation.phase # "degraded" /\ presentation.card
          /\ delta.sequence > window.last
       THEN /\ window' = AppendDelta(window, delta)
            /\ CreateDelivery(p, "card_update")
            /\ Ask(p, "updateCard", Running(window'.text))
            /\ Go(p, "updating")
            /\ UNCHANGED delta
       ELSE /\ Go(p, "told") /\ delta' = NoDelta
            /\ UNCHANGED <<window, deliveries, senderVars>>
  /\ UNCHANGED <<source, status, presentation, executionDelivery, mediaRows, seen, outcome>>

CardUpdated(p) ==
  /\ Called(p, "updating") /\ Succeeded(p)
  /\ Answer(p)
  /\ MarkDelivery(p, "sent")
  /\ Go(p, "output")
  /\ UNCHANGED <<source, status, presentation, executionDelivery, mediaRows,
                 seen, outcome, delta, window>>

SaveOutput(p) ==
  /\ At(p, "output")
  /\ UpdatePresentationOutput(window.last)
  /\ Go(p, "told") /\ delta' = NoDelta
  /\ UNCHANGED <<source, status, deliveries, executionDelivery, mediaRows, senderVars,
                 seen, outcome, window>>

---------------------------------------------------------------------------
(* The terminal event: the reaction is removed and the card closed.        *)

RemoveReaction(p) ==
  /\ At(p, "ended")
  /\ IF source = "chat"
       THEN Ask(p, "removeReaction", NoCard) /\ Go(p, "unreacting")
       ELSE UNCHANGED senderVars /\ Go(p, "closing")
  /\ UNCHANGED <<storeVars, seen, outcome, delta, window>>

ReactionRemoved(p) ==
  /\ Called(p, "unreacting")
  /\ Answer(p)
  /\ Go(p, "closing")
  /\ UNCHANGED <<storeVars, seen, outcome, delta, window>>

(* What the result of a completed run says is its own; a failure or a      *)
(* cancellation quotes the last output.                                    *)
Document(end, row) == Closed(end, IF end = "completed" THEN 0 ELSE row.last)

HandleTerminal(p) ==
  /\ At(p, "closing")
  /\ See(p)
  /\ IF presentation.card
       THEN /\ CreateDelivery(p, "card_complete")
            /\ Ask(p, "completeCard", Document(outcome[p], presentation))
            /\ Go(p, "completing")
       ELSE /\ Go(p, IF presentation = NoPresentation THEN "told" ELSE "reread")
            /\ UNCHANGED <<deliveries, senderVars>>
  /\ UNCHANGED <<source, status, presentation, executionDelivery, mediaRows,
                 outcome, delta, window>>

CardCompleted(p) ==
  /\ Called(p, "completing") /\ Succeeded(p)
  /\ Answer(p)
  /\ MarkDelivery(p, "sent") /\ MarkExecution("sent")
  /\ Go(p, "markTerminal")
  /\ UNCHANGED <<source, status, presentation, mediaRows, seen, outcome, delta, window>>

MarkTerminal(p) ==
  /\ At(p, "markTerminal")
  /\ MarkPresentationTerminal(outcome[p], seen[p].last)
  /\ Go(p, "reread")
  /\ UNCHANGED <<source, status, deliveries, executionDelivery, mediaRows, senderVars,
                 seen, outcome, delta, window>>

(* Mutant of CompleteFails: the execution is not told.                     *)
CompleteFailsQuietly(p) ==
  /\ (Called(p, "completing") /\ Failed(p)) \/ At(p, "completeCatch")
  /\ Answer(p)
  /\ MarkDelivery(p, "failed")
  /\ Go(p, "degradeClosing")
  /\ UNCHANGED <<source, status, presentation, executionDelivery, mediaRows, seen, outcome, delta,
                 window>>

(* The call has failed, or a row of a call that succeeded was not written. *)
CompleteFails(p) ==
  /\ (Called(p, "completing") /\ Failed(p)) \/ At(p, "completeCatch")
  /\ Answer(p)
  /\ MarkDelivery(p, "failed") /\ MarkExecution("failed")
  /\ Go(p, "degradeClosing")
  /\ UNCHANGED <<source, status, presentation, mediaRows, seen, outcome, delta, window>>

(* Mutant of NeedsFallback: a degraded card is followed by a message.      *)
NeedsFallbackWhenDegraded(row) == ~row.card \/ row.phase = "degraded"

(* Mutant of NeedsFallback: a degraded presentation is left alone.         *)
NeedsFallbackWhenPending(row) == row.phase = "pending_start"

(* Only a run without a card gets a message of its own.                    *)
NeedsFallback(row) == ~row.card

Reread(p) ==
  /\ At(p, "reread")
  /\ IF NeedsFallback(presentation)
       THEN /\ CreateDelivery(p, "fallback_terminal")
            /\ Ask(p, "sendFallbackTerminal", Document(outcome[p], presentation))
            /\ Go(p, "falling")
       ELSE Go(p, "told") /\ UNCHANGED <<deliveries, senderVars>>
  /\ UNCHANGED <<source, status, presentation, executionDelivery, mediaRows,
                 seen, outcome, delta, window>>

FallbackSent(p) ==
  /\ Called(p, "falling") /\ Succeeded(p)
  /\ Answer(p)
  /\ MarkDelivery(p, "sent") /\ MarkExecution("sent")
  /\ Go(p, "attach")
  /\ UNCHANGED <<source, status, presentation, mediaRows, seen, outcome, delta, window>>

AttachFallback(p) ==
  /\ At(p, "attach")
  /\ AttachFallbackTerminal
  /\ Go(p, "told")
  /\ UNCHANGED <<source, status, deliveries, executionDelivery, mediaRows, senderVars,
                 seen, outcome, delta, window>>

FallbackFails(p) ==
  /\ (Called(p, "falling") /\ Failed(p)) \/ At(p, "fallbackCatch")
  /\ Answer(p)
  /\ MarkDelivery(p, "failed") /\ MarkExecution("failed")
  /\ Go(p, "told")
  /\ UNCHANGED <<source, status, presentation, mediaRows, seen, outcome, delta, window>>

---------------------------------------------------------------------------
NotifierStep(p) ==
  \/ React(p) \/ Reacted(p) \/ GetPending(p) \/ InsertPending(p)
  \/ HandleStarted(p) \/ CreateCard(p) \/ CardCreated(p) \/ MarkStreaming(p) \/ CardFails(p)
  \/ Degrade(p)
  \/ HandleDelta(p) \/ CardUpdated(p) \/ SaveOutput(p)
  \/ RemoveReaction(p) \/ ReactionRemoved(p) \/ HandleTerminal(p)
  \/ CardCompleted(p) \/ MarkTerminal(p) \/ CompleteFails(p)
  \/ Reread(p) \/ FallbackSent(p) \/ AttachFallback(p) \/ FallbackFails(p)
===========================================================================
