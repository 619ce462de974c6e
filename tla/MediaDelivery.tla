--------------------------- MODULE MediaDelivery --------------------------
(***************************************************************************)
(* carvis-media send: codex hands a file or an address to the gateway,     *)
(* which checks that the run is under way, reads the source, uploads it    *)
(* and delivers it to the chat. Two calls of the sender, a row of its own, *)
(* and one delivery.                                                       *)
(***************************************************************************)
EXTENDS PresentationOrchestrator

VARIABLES
  uploaded,   \* uploadTargetRef is set
  answers     \* what codex was told of each file

mediaVars == <<uploaded, answers>>

Media == "media"

Answers == {"sent", "invalid_context", "source_not_found", "upload_failed", "delivery_failed",
            "transport_failure"}

MediaTypeOK ==
  /\ uploaded \in BOOLEAN
  /\ Len(answers) <= spent
  /\ \A i \in DOMAIN answers : answers[i] \in Answers

MediaInit == uploaded = FALSE /\ answers = <<>>

Tell(answer) ==
  /\ answers' = Append(answers, answer)
  /\ uploaded' = FALSE
  /\ Go(Media, "idle")

TableOnly == UNCHANGED <<source, status, presentation, deliveries, executionDelivery>>

RequestMedia ==
  /\ at[Media] = "idle"
  /\ Spend(1)
  /\ Go(Media, "checking")
  /\ UNCHANGED <<token, cached, call, card, posts, reaction, files, storeVars, mediaVars>>

(* The run is running, in the session, the workspace and the chat of the   *)
(* request; one without a session has nothing to send a file to.           *)
CheckContext ==
  /\ At(Media, "checking")
  /\ IF status = "running" /\ source = "chat"
       THEN Go(Media, "requesting") /\ UNCHANGED mediaVars
       ELSE Tell("invalid_context")
  /\ UNCHANGED <<storeVars, senderVars>>

CreateRequest ==
  /\ At(Media, "requesting")
  /\ CreateMediaDelivery
  /\ Go(Media, "reading")
  /\ TableOnly /\ UNCHANGED <<senderVars, mediaVars>>

SourceFails ==
  /\ At(Media, "reading")
  /\ UpdateMediaDelivery("source_failed", "source", FALSE)
  /\ Tell("source_not_found")
  /\ TableOnly /\ UNCHANGED senderVars

Upload ==
  /\ At(Media, "reading")
  /\ UpdateMediaDelivery("uploading", "none", FALSE)
  /\ Ask(Media, "upload", NoCard)
  /\ Go(Media, "uploading")
  /\ TableOnly /\ UNCHANGED mediaVars

Uploaded ==
  /\ Called(Media, "uploading") /\ Succeeded(Media)
  /\ Answer(Media)
  /\ uploaded' = TRUE
  /\ UpdateMediaDelivery("sending", "none", TRUE)
  /\ Go(Media, "sending")
  /\ TableOnly /\ UNCHANGED answers

(* Without a token it is not the upload that has failed; codex is told so  *)
(* all the same.                                                           *)
UploadFails ==
  /\ Called(Media, "uploading") /\ Failed(Media)
  /\ UpdateMediaDelivery(IF call[Media].token = 0 THEN "failed" ELSE "upload_failed",
                         "upload", FALSE)
  /\ Answer(Media)
  /\ Tell("upload_failed")
  /\ TableOnly

Deliver ==
  /\ At(Media, "sending")
  /\ CreateDelivery(Media, "media")
  /\ Ask(Media, "deliver", NoCard)
  /\ Go(Media, "delivering")
  /\ UNCHANGED <<source, status, presentation, executionDelivery, mediaRows, mediaVars>>

(* Mutant of Delivered: the answer of the call is not looked at.           *)
DeliveredAnyway ==
  /\ Called(Media, "delivering")
  /\ Answer(Media)
  /\ MarkDelivery(Media, "sent")
  /\ Go(Media, "finishing")
  /\ UNCHANGED <<source, status, presentation, executionDelivery, mediaRows, mediaVars>>

Delivered ==
  /\ Called(Media, "delivering") /\ Succeeded(Media)
  /\ Answer(Media)
  /\ MarkDelivery(Media, "sent")
  /\ Go(Media, "finishing")
  /\ UNCHANGED <<source, status, presentation, executionDelivery, mediaRows, mediaVars>>

Finish ==
  /\ At(Media, "finishing")
  /\ UpdateMediaDelivery("sent", "none", TRUE)
  /\ Tell("sent")
  /\ TableOnly /\ UNCHANGED senderVars

(* Whatever is thrown after the upload is told as a failed delivery, a row *)
(* that could not be written for a file that was delivered included.       *)
DeliveryFails ==
  /\ (Called(Media, "delivering") /\ Failed(Media)) \/ At(Media, "rowCatch")
  /\ Answer(Media)
  /\ MarkDelivery(Media, "failed")
  /\ UpdateMediaDelivery("failed", "delivery", uploaded)
  /\ Tell("delivery_failed")
  /\ UNCHANGED <<source, status, presentation, executionDelivery>>

(* Before there is a delivery: the row could not be moved to "sending", or *)
(* the delivery not be created.                                            *)
SendingFails ==
  /\ At(Media, "sendingCatch")
  /\ UpdateMediaDelivery("failed", IF uploaded THEN "delivery" ELSE "upload", uploaded)
  /\ Tell(IF uploaded THEN "delivery_failed" ELSE "upload_failed")
  /\ TableOnly /\ UNCHANGED senderVars

(* Anything else is thrown through the route; carvis-media tells codex     *)
(* that the gateway could not be asked.                                    *)
MediaThrows ==
  /\ At(Media, "throws")
  /\ Tell("transport_failure")
  /\ UNCHANGED <<storeVars, senderVars>>

MediaStep ==
  /\ \/ CheckContext \/ CreateRequest \/ SourceFails \/ Upload \/ Uploaded \/ UploadFails
     \/ Deliver \/ Delivered \/ Finish \/ DeliveryFails \/ SendingFails \/ MediaThrows
  /\ UNCHANGED <<seen, outcome, delta, window>>
===========================================================================
