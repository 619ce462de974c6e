-------------------------- MODULE RunPresentation -------------------------
(***************************************************************************)
(* One run and what its chat sees of it: the gateway's handler announces   *)
(* it, the executor starts it, streams its output and ends it, codex sends *)
(* files through the gateway meanwhile, and the reaper ends it if its      *)
(* heartbeat expires. Calls of the database are rejected, the executor     *)
(* dies, tokens expire and calls of Feishu fail.                           *)
(***************************************************************************)
EXTENDS MediaDelivery

CONSTANTS Chunks   \* the texts of output

(* The activities are those below, and None is no text and no status.      *)
ASSUME RunAssumption ==
  /\ Callers = Tellers \cup {Media}
  /\ None \notin Chunks \cup Ends

VARIABLES
  said,        \* what codex has said in this attempt
  beating,     \* the run has a heartbeat
  caught,      \* the executor is inside execute's try block
  retried,     \* a second attempt was made in the run
  marks        \* history: what went wrong that a property excuses

vars == <<storeVars, senderVars, handlerVars, mediaVars,
          said, beating, caught, retried, marks>>

executorVars == <<said, beating, caught, retried>>

(* "overtaken": the reaper ended the run under a living executor, "inFlight":  *)
(* while that was telling output; "unrecorded": the card's creation failed or  *)
(* was not recorded; "endFailed": the end was told, and Feishu failed;         *)
(* "endDropped": whoever told the end died or threw; "tokenFailed": a call was *)
(* refused twice; "late": the reaction came after the end, or was not removed. *)
Marks == {"overtaken", "inFlight", "unrecorded", "endFailed", "endDropped", "tokenFailed", "late"}
Note(new) == marks' = marks \cup new

TypeOK ==
  /\ SenderTypeOK /\ StoreTypeOK /\ HandlerTypeOK /\ MediaTypeOK
  /\ Len(said) <= Budget + 1
  /\ beating \in BOOLEAN /\ caught \in BOOLEAN /\ retried \in BOOLEAN
  /\ marks \subseteq Marks

Init ==
  /\ SenderInit /\ StoreInit /\ HandlerInit /\ MediaInit
  /\ said = <<>>
  /\ beating = FALSE /\ caught = FALSE /\ retried = FALSE
  /\ marks = {}

UnlessSpent == <<token, cached, call, card, posts, reaction, files>>

---------------------------------------------------------------------------
(* The executor.                                                           *)

Executor == "executor"
Doing(where) == At(Executor, where)

MarkRun(to) ==
  status' = to /\ UNCHANGED <<source, presentation, deliveries, executionDelivery, mediaRows>>

StartRun ==
  /\ Doing("idle")
  /\ MarkRun("running")
  /\ Go(Executor, "started")
  /\ UNCHANGED <<senderVars, seen, outcome, delta, window, mediaVars, executorVars>>

(* What it goes on with once a notification has returned.                  *)
Resume ==
  /\ Doing("told")
  /\ IF outcome[Executor] # None
       THEN Go(Executor, "gone") /\ beating' = FALSE /\ UNCHANGED <<outcome, caught>>
       ELSE IF caught
         THEN Go(Executor, "stream") /\ UNCHANGED <<beating, caught, outcome>>
         ELSE \/ Go(Executor, "stream") /\ beating' = TRUE /\ caught' = TRUE /\ UNCHANGED outcome
              \/ /\ Go(Executor, "persist")
                 /\ outcome' = [outcome EXCEPT ![Executor] = "cancelled"]
                 /\ UNCHANGED <<beating, caught>>
  /\ seen' = [seen EXCEPT ![Executor] = NoPresentation]
  /\ UNCHANGED <<storeVars, senderVars, delta, window, mediaVars, said, retried>>

(* Mutant of Output: the row is not read again.                            *)
OutputUnread ==
  /\ Doing("stream")
  /\ IF said = <<>> THEN UNCHANGED spent ELSE Spend(1)
  /\ \E c \in Chunks :
       /\ said' = Append(said, c)
       /\ delta' = [sequence |-> Len(said) + 1, text |-> c]
  /\ Go(Executor, "delta")
  /\ UNCHANGED <<storeVars, UnlessSpent, seen, outcome, window, mediaVars, beating, caught, retried>>

(* Output of a run that is still running is told; output of one that the   *)
(* reaper has ended is passed over.                                        *)
Output ==
  /\ Doing("stream") /\ status = "running"
  /\ IF said = <<>> THEN UNCHANGED spent ELSE Spend(1)
  /\ \E c \in Chunks :
       /\ said' = Append(said, c)
       /\ delta' = [sequence |-> Len(said) + 1, text |-> c]
  /\ Go(Executor, "delta")
  /\ UNCHANGED <<storeVars, UnlessSpent, seen, outcome, window, mediaVars, beating, caught, retried>>

(* session_invalid: another attempt in the same run. Its transport numbers *)
(* the output from one again.                                              *)
RetryFresh ==
  /\ Doing("stream") /\ ~retried /\ status = "running" /\ source = "chat"
  /\ retried' = TRUE /\ Spend(1)
  /\ said' = <<>>
  /\ UNCHANGED <<storeVars, UnlessSpent, handlerVars, mediaVars, beating, caught>>

TakeOutcome ==
  /\ Doing("stream")
  /\ IF status = "running"
       THEN /\ Go(Executor, "persist")
            /\ \E end \in Ends : outcome' = [outcome EXCEPT ![Executor] = end]
            /\ UNCHANGED beating
       ELSE Go(Executor, "gone") /\ beating' = FALSE /\ UNCHANGED outcome
  /\ UNCHANGED <<storeVars, senderVars, seen, delta, window, mediaVars, said, caught, retried>>

PersistOutcome ==
  /\ Doing("persist")
  /\ MarkRun(outcome[Executor])
  /\ Go(Executor, "ended")
  /\ UNCHANGED <<senderVars, seen, outcome, delta, window, mediaVars, executorVars>>

(* execute's catch block writes "failed" whatever the row says, and tells  *)
(* it; nothing is caught from here on.                                     *)
CatchFailure ==
  /\ Doing("catch")
  /\ MarkRun("failed")
  /\ outcome' = [outcome EXCEPT ![Executor] = "failed"]
  /\ caught' = FALSE
  /\ delta' = NoDelta
  /\ Go(Executor, "ended")
  /\ UNCHANGED <<senderVars, seen, window, mediaVars, said, beating, retried>>

ExecutorStep ==
  \/ StartRun \/ Resume \/ Output \/ RetryFresh \/ TakeOutcome \/ PersistOutcome
  \/ CatchFailure

---------------------------------------------------------------------------
(* The reaper finds the heartbeat expired.                                 *)
Reap ==
  /\ at["reaper"] = "idle" /\ beating
  /\ IF at[Executor] = "gone" THEN UNCHANGED senderVars
     ELSE Spend(2) /\ UNCHANGED UnlessSpent
  /\ status = "running"
  /\ MarkRun("failed")
  /\ outcome' = [outcome EXCEPT !["reaper"] = "failed"]
  /\ Go("reaper", "ended")
  /\ Note((IF at[Executor] # "gone" THEN {"overtaken"} ELSE {})
            \cup (IF at[Executor] \in {"delta", "updating"} THEN {"inFlight"} ELSE {}))
  /\ UNCHANGED <<seen, delta, window, mediaVars, executorVars>>

---------------------------------------------------------------------------
(* Failures.                                                               *)

(* Where a throw of an activity is caught: in the orchestrator's or the    *)
(* media service's own try block, in execute's, or nowhere.                *)
OwnCatch(p) ==
  CASE (at[p] = "completing" /\ Succeeded(p)) \/ at[p] = "markTerminal" -> "completeCatch"
    [] (at[p] = "falling" /\ Succeeded(p)) \/ at[p] = "attach" -> "fallbackCatch"
    [] (at[p] = "uploading" /\ Succeeded(p)) \/ at[p] = "sending" -> "sendingCatch"
    [] (at[p] = "delivering" /\ Succeeded(p)) \/ at[p] = "finishing" -> "rowCatch"
    [] OTHER -> "none"

CatchOf(p) ==
  IF OwnCatch(p) # "none" THEN OwnCatch(p)
  ELSE IF p = Media THEN "throws"
  ELSE IF p = Executor /\ caught THEN "catch" ELSE "gone"

(* Positions at which the next thing an activity does is a database call.  *)
AtTable(p) ==
  \/ Silent(p) /\ at[p] \in {"queued", "getPending", "insertPending", "started", "cardCreate",
        "streaming", "degrade", "degradeClosing", "delta", "output", "ended", "closing",
        "markTerminal", "reread", "attach", "completeCatch", "fallbackCatch", "checking",
        "requesting", "reading", "sending", "finishing", "rowCatch", "sendingCatch",
        "stream", "persist"}
  \/ Called(p, "creating") \/ Called(p, "updating") \/ Called(p, "completing")
  \/ Called(p, "falling") \/ Called(p, "uploading") \/ Called(p, "delivering")

TellingEnd(p) ==
  at[p] \in {"catch", "ended", "unreacting", "closing", "completing", "markTerminal", "completeCatch",
            "degradeClosing", "reread", "falling", "attach", "fallbackCatch"}

CutShort(p, gone) ==
  Note((IF gone /\ TellingEnd(p) THEN {"endDropped", "late"} ELSE {})
         \cup (IF at[p] \in {"creating", "streaming"} THEN {"unrecorded"} ELSE {}))

Rejected(p) ==
  /\ AtTable(p)
  /\ Spend(1)
  /\ Go(p, CatchOf(p))
  /\ Forget(p) /\ UNCHANGED <<token, cached, card, posts, reaction, files>>
  /\ delta' = IF p = Executor THEN NoDelta ELSE delta
  /\ beating' = (beating /\ ~(p = Executor /\ CatchOf(p) = "gone"))
  /\ uploaded' = (uploaded \/ at[p] = "uploading")
  /\ CutShort(p, CatchOf(p) = "gone")
  /\ UNCHANGED <<storeVars, seen, outcome, window, answers, said, caught, retried>>

(* The other insert was first: a throw like any other.                     *)
InsertCollides(p) ==
  /\ At(p, "insertPending") /\ presentation # NoPresentation
  /\ Go(p, CatchOf(p))
  /\ UNCHANGED <<storeVars, senderVars, seen, outcome, delta, window, mediaVars, executorVars,
                 marks>>

ExecutorDies ==
  /\ at[Executor] \notin {"idle", "gone"}
  /\ Spend(1)
  /\ Go(Executor, "gone")
  /\ Forget(Executor) /\ cached' = [cached EXCEPT ![ProcessOf[Executor]] = 0]
  /\ delta' = NoDelta /\ window' = NoWindow
  /\ CutShort(Executor, TRUE)
  /\ UNCHANGED <<token, card, posts, reaction, files, storeVars, seen, outcome,
                 mediaVars, executorVars>>

---------------------------------------------------------------------------
Rest == UNCHANGED <<executorVars, marks>>

FailsNow(p) == ~Failed(p) /\ call'[p].stage = "failed"
CallMarks(p) ==
  (IF FailsNow(p) /\ spent' = spent THEN {"tokenFailed"} ELSE {})
  \cup (IF FailsNow(p) /\ call[p].op = "createCard" THEN {"unrecorded"} ELSE {})
  \cup (IF FailsNow(p) /\ TellingEnd(p) /\ call[p].op # "removeReaction" THEN {"endFailed"} ELSE {})
  \cup (IF (FailsNow(p) /\ call[p].op \in {"addReaction", "removeReaction"})
              \/ (status \in Ends /\ reaction' /\ ~reaction) THEN {"late"} ELSE {})

Next ==
  \/ ExecutorStep /\ UNCHANGED marks
  \/ \E p \in Tellers : NotifierStep(p) /\ UNCHANGED mediaVars /\ Rest
  \/ MediaStep /\ Rest
  \/ /\ RequestMedia /\ Doing("stream")
     /\ UNCHANGED <<seen, outcome, delta, window>> /\ Rest
  \/ Reap
  \/ \E p \in Callers :
       /\ SenderStep(p) /\ Note(CallMarks(p))
       /\ UNCHANGED <<storeVars, handlerVars, mediaVars, executorVars>>
  \/ ExpireToken /\ UNCHANGED <<storeVars, handlerVars, mediaVars>> /\ Rest
  \/ \E p \in Callers : Rejected(p)
  \/ \E p \in Tellers : InsertCollides(p)
  \/ ExecutorDies

Spec == Init /\ [][Next]_vars

---------------------------------------------------------------------------
(* Properties.                                                             *)

Quiet ==
  /\ at["gateway"] \in {"told", "gone"}
  /\ at[Executor] = "gone"
  /\ at["reaper"] \in {"told", "gone"} \/ (at["reaper"] = "idle" /\ ~(beating /\ status = "running"))

ToldEnds == (IF card.status \in Ends THEN {card.status} ELSE {}) \cup Range(posts)

(* Once everybody has had his say about a run that has ended, its chat has *)
(* been told the status that is recorded, and the reaction is gone: a      *)
(* token that expires, a card that cannot be created or updated, a row     *)
(* that cannot be written and an executor that dies in the middle do not   *)
(* keep the end from the chat. Only a call that tells the end and fails, a *)
(* teller that dies or throws, or an output in flight when the reaper ends *)
(* the run can; when the reaper ends it under a living executor, the end   *)
(* that is told last may be the other one.                                 *)
ChatSettles ==
  Quiet /\ Interactive /\ status \in Ends =>
    /\ marks \cap {"endFailed", "endDropped", "inFlight"} = {} =>
         IF "overtaken" \in marks THEN ToldEnds # {} ELSE status \in ToldEnds
    /\ reaction => marks \cap {"late", "endDropped"} # {}

(* A run has one message in its chat, the card or the message that takes   *)
(* its place, whoever ends it, unless the creation of the card failed or   *)
(* was not recorded.                                                       *)
OneMessage ==
  Len(posts) + (IF card = NoCard THEN 0 ELSE 1) > 1 => "unrecorded" \in marks

(* The rows claim no more than what is in the chat: a card that was        *)
(* streamed to, a phase that was reached, a message that was attached.     *)
RecordsHold ==
  /\ presentation.card => card # NoCard
  /\ presentation.fallback => posts # <<>>
  /\ \A p \in Tellers : \A i \in DOMAIN deliveries[p] :
       deliveries[p][i].status = "sent" =>
         IF deliveries[p][i].kind = "fallback_terminal" THEN posts # <<>> ELSE card # NoCard
  /\ Quiet /\ marks \cap {"overtaken", "endDropped"} = {} /\ presentation.phase \in Ends =>
       card.status = presentation.phase
  /\ Quiet /\ source = "scheduled" /\ status \in Ends /\ ToldEnds = {} =>
       executionDelivery = "failed" \/ marks \cap {"endDropped", "inFlight"} # {}

Deduplicated(text) ==
  FoldLeft(LAMBDA kept, c : IF kept # <<>> /\ Last(kept) = c THEN kept ELSE Append(kept, c),
           <<>>, text)

(* While a run streams, its card shows the end of what codex has said, up  *)
(* to repetitions, whatever came between the deltas; after a retry, whose  *)
(* numbers start anew, it may not.                                         *)
OutputShown ==
  Doing("stream") /\ presentation.phase = "streaming" /\ ~retried /\ "overtaken" \notin marks =>
    /\ card.status = "running"
    /\ IsSuffix(card.shown, Deduplicated(said))
    /\ Len(card.shown) = MaxChars \/ card.shown = Deduplicated(said)

(* One token that expires makes no call fail, whoever else is using the    *)
(* sender: a call is refused for good only after a second one has expired. *)
OneExpiryIsSurvived == "tokenFailed" \in marks => token > 2

(* Codex is told that a file was sent if and only if it is in the chat;    *)
(* a file it is told to have failed is there only if an answer was lost or *)
(* a row could not be written.                                             *)
MediaTold ==
  at[Media] = "idle" =>
    LET sent == {i \in DOMAIN answers : answers[i] = "sent"} IN
    /\ files >= Cardinality(sent)
    /\ files > Cardinality(sent) => spent > Len(answers)
    /\ \A i \in DOMAIN mediaRows : mediaRows[i].status = "sent" => sent # {}

(* A card that was closed shows a running one again only through an output *)
(* that was being told when the reaper ended the run under it.             *)
LateOutputWasInFlight ==
  [][card.status \in Ends /\ card'.status = "running" => "inFlight" \in marks]_vars
===========================================================================
