------------------------- MODULE PresentationStore ------------------------
(***************************************************************************)
(* The rows behind the presentation of one run: agent_runs.status,         *)
(* run_presentations, outbound_deliveries, run_media_deliveries, and the   *)
(* delivery status of the trigger execution it came from.                  *)
(***************************************************************************)
EXTENDS FeishuSender

CONSTANTS Sources, None

VARIABLES
  source,             \* where the run came from
  status,             \* of the run
  presentation,
  deliveries,         \* apart for each activity: nothing reads across them
  executionDelivery,  \* trigger_executions.delivery_status
  mediaRows

storeVars == <<source, status, presentation, deliveries, executionDelivery, mediaRows>>

(* A run asked for in a chat; a scheduled one with a chat to deliver to;   *)
(* one of an external webhook without a chat.                              *)
ASSUME SourceAssumption == Sources \subseteq {"chat", "scheduled", "silent"}

Interactive == source \in {"chat", "scheduled"}

NoPresentation ==
  [phase |-> "none", terminal |-> None, card |-> FALSE, fallback |-> FALSE,
   reason |-> FALSE, last |-> 0]
Pending == [NoPresentation EXCEPT !.phase = "pending_start"]

Presentation ==
  [phase : {"pending_start", "streaming", "degraded"} \cup Ends, terminal : Ends \cup {None},
   card : BOOLEAN, fallback : BOOLEAN, reason : BOOLEAN, last : Nat]

DeliveryKinds == {"card_create", "card_update", "card_complete", "fallback_terminal", "media"}

MediaRow ==
  [status : {"requested", "source_failed", "uploading", "upload_failed", "sending", "sent",
             "failed"}, stage : {"none", "source", "upload", "delivery"}, ref : BOOLEAN]

StoreTypeOK ==
  /\ source \in Sources
  /\ status \in Ends \cup {"queued", "running"}
  /\ presentation \in Presentation \cup {NoPresentation}
  /\ \A p \in Callers : \A i \in DOMAIN deliveries[p] :
       deliveries[p][i] \in [kind : DeliveryKinds, status : {"pending", "sent", "failed"}]
  /\ executionDelivery \in {"not_requested", "sent", "failed"}
  /\ \A i \in DOMAIN mediaRows : mediaRows[i] \in MediaRow

StoreInit ==
  /\ source \in Sources
  /\ status = "queued"
  /\ presentation = NoPresentation
  /\ deliveries = [p \in Callers |-> <<>>]
  /\ executionDelivery = "not_requested"
  /\ mediaRows = <<>>

---------------------------------------------------------------------------
Insert == presentation' = Pending

MarkPresentationStreaming ==
  presentation' = [presentation EXCEPT !.phase = "streaming", !.card = TRUE]

UpdatePresentationOutput(sequence) == presentation' = [presentation EXCEPT !.last = sequence]

MarkPresentationTerminal(end, last) ==
  presentation' = [presentation EXCEPT !.phase = end, !.terminal = end,
                                       !.last = IF last = 0 THEN @ ELSE last]

MarkPresentationDegraded ==
  presentation' = [presentation EXCEPT !.phase = "degraded", !.reason = TRUE]

AttachFallbackTerminal == presentation' = [presentation EXCEPT !.fallback = TRUE]

CreateDelivery(p, kind) ==
  deliveries' = [deliveries EXCEPT ![p] = Append(@, [kind |-> kind, status |-> "pending"])]

(* The delivery that an activity is at is the last one it has made. The    *)
(* execution behind the run, if there is one, is updated right after it.   *)
MarkDelivery(p, to) ==
  deliveries' = [deliveries EXCEPT ![p][Len(deliveries[p])].status = to]
MarkExecution(to) ==
  executionDelivery' = IF source = "chat" THEN executionDelivery ELSE to

CreateMediaDelivery ==
  mediaRows' = Append(mediaRows, [status |-> "requested", stage |-> "none", ref |-> FALSE])
UpdateMediaDelivery(to, stage, ref) ==
  mediaRows' = [mediaRows EXCEPT ![Len(mediaRows)] =
                  [status |-> to, stage |-> IF stage = "none" THEN @.stage ELSE stage,
                   ref |-> @.ref \/ ref]]
===========================================================================
