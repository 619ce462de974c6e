--------------------------- MODULE FeishuSender ---------------------------
(***************************************************************************)
(* The runtime sender of channel-feishu and the part of Feishu it talks    *)
(* to: the tenant access token that a process caches and all of its calls  *)
(* share, a second try when Feishu refuses the token, and what a chat      *)
(* shows. One run is looked at, so there is one card at most.              *)
(***************************************************************************)
EXTENDS Integers, Sequences

CONSTANTS
  Callers,      \* the activities that call the sender, one call at a time each
  Processes,    \* the processes, each with a sender of its own
  ProcessOf,
  Budget        \* bound on what happens out of the ordinary, all kinds together

ASSUME SenderAssumption ==
  /\ ProcessOf \in [Callers -> Processes]
  /\ Budget \in Nat

VARIABLES
  token,     \* the token that Feishu accepts
  cached,    \* tenantAccessToken of each process; 0 is null
  call,      \* the call of each caller
  spent,     \* of the budget
  card,      \* what the chat shows: the card of the run,
  posts,     \* the statuses told in a message of their own,
  reaction,  \* the reaction to the message that asked for the run,
  files      \* and the files

senderVars == <<token, cached, call, spent, card, posts, reaction, files>>

Ends == {"completed", "failed", "cancelled"}

(* shown is the body of a running card, quoted the sequence number of the  *)
(* last output that a closed one quotes.                                   *)
NoCard == [status |-> "none", shown |-> <<>>, quoted |-> 0]
Running(shown) == [status |-> "running", shown |-> shown, quoted |-> 0]
Closed(status, quoted) == [status |-> status, shown |-> <<>>, quoted |-> quoted]

Operations == {"addReaction", "removeReaction", "createCard", "updateCard",
               "completeCard", "sendFallbackTerminal", "upload", "deliver"}
Stages == {"token", "issuing", "request", "delete", "done", "failed"}

NoCall == [op |-> "none", body |-> NoCard, stage |-> "none", token |-> 0, refreshed |-> FALSE]

SenderTypeOK ==
  /\ spent \in 0..Budget
  /\ token \in 1..(Budget + 1)
  /\ cached \in [Processes -> 0..token]
  /\ \A p \in Callers : call[p] = NoCall \/
       /\ call[p].op \in Operations /\ call[p].stage \in Stages
       /\ call[p].token <= token /\ call[p].refreshed \in BOOLEAN
  /\ card.status \in Ends \cup {"none", "running"}
  /\ \A i \in DOMAIN posts : posts[i] \in Ends
  /\ reaction \in BOOLEAN /\ files \in Nat

SenderInit ==
  /\ token = 1
  /\ cached = [a \in Processes |-> 0]
  /\ call = [p \in Callers |-> NoCall]
  /\ spent = 0
  /\ card = NoCard /\ posts = <<>> /\ reaction = FALSE /\ files = 0

---------------------------------------------------------------------------
(* For the callers: a call is begun, and its result is taken.              *)

Begin(p, op, body) ==
  call' = [call EXCEPT ![p] =
             [op |-> op, body |-> body, stage |-> "token", token |-> 0, refreshed |-> FALSE]]
Silent(p) == call[p].stage = "none"
Succeeded(p) == call[p].stage = "done"
Failed(p) == call[p].stage = "failed"
Forget(p) == call' = [call EXCEPT ![p] = NoCall]

---------------------------------------------------------------------------
(* withTenantAccessToken.                                                  *)

Spend(cost) == spent + cost <= Budget /\ spent' = spent + cost

AtStage(p, stage) == call[p].stage = stage
Advance(p, stage) == call' = [call EXCEPT ![p].stage = stage]

TakeToken(p) ==
  /\ AtStage(p, "token")
  /\ LET t == cached[ProcessOf[p]] IN
     call' = [call EXCEPT ![p].stage = IF t = 0 THEN "issuing" ELSE "request", ![p].token = t]
  /\ UNCHANGED <<token, cached, spent, card, posts, reaction, files>>

IssueToken(p) ==
  /\ AtStage(p, "issuing")
  /\ cached' = [cached EXCEPT ![ProcessOf[p]] = token]
  /\ call' = [call EXCEPT ![p].stage = "request", ![p].token = token]
  /\ UNCHANGED <<token, spent, card, posts, reaction, files>>

(* Mutant of RefuseToken: the refused token stays in the cache.            *)
RefuseTokenKeeps(p) ==
  /\ AtStage(p, "request") \/ AtStage(p, "delete")
  /\ call[p].token # token
  /\ IF call[p].refreshed
       THEN Advance(p, "failed")
       ELSE call' = [call EXCEPT ![p].stage = "token", ![p].refreshed = TRUE]
  /\ UNCHANGED <<token, cached, spent, card, posts, reaction, files>>

(* Feishu refuses an expired token: the cache is emptied, whichever token  *)
(* is in it by now, and the call is tried a second time, not a third.      *)
RefuseToken(p) ==
  /\ AtStage(p, "request") \/ AtStage(p, "delete")
  /\ call[p].token # token
  /\ IF call[p].refreshed
       THEN Advance(p, "failed") /\ UNCHANGED cached
       ELSE /\ call' = [call EXCEPT ![p].stage = "token", ![p].refreshed = TRUE]
            /\ cached' = [cached EXCEPT ![ProcessOf[p]] = 0]
  /\ UNCHANGED <<token, spent, card, posts, reaction, files>>

(* What the requests do to the chat.                                       *)
Asks(p, op) == call[p].op = op

PostCard(p) ==
  /\ Asks(p, "createCard") /\ card' = call[p].body
  /\ UNCHANGED <<posts, reaction, files>>
PatchRunning(p) ==
  /\ Asks(p, "updateCard") /\ card' = call[p].body
  /\ UNCHANGED <<posts, reaction, files>>
PatchClosed(p) ==
  /\ Asks(p, "completeCard") /\ card' = call[p].body
  /\ UNCHANGED <<posts, reaction, files>>
PostTerminal(p) ==
  /\ Asks(p, "sendFallbackTerminal") /\ posts' = Append(posts, call[p].body.status)
  /\ UNCHANGED <<card, reaction, files>>
PostReaction(p) ==
  /\ Asks(p, "addReaction") /\ reaction' = TRUE
  /\ UNCHANGED <<card, posts, files>>
DropReaction(p) ==
  /\ Asks(p, "removeReaction") /\ reaction' = (reaction /\ ~AtStage(p, "delete"))
  /\ UNCHANGED <<card, posts, files>>
PostAsset(p) ==
  /\ Asks(p, "upload")
  /\ UNCHANGED <<card, posts, reaction, files>>
PostMedia(p) ==
  /\ Asks(p, "deliver") /\ files' = files + 1
  /\ UNCHANGED <<card, posts, reaction>>

Effect(p) ==
  \/ PostCard(p) \/ PatchRunning(p) \/ PatchClosed(p) \/ PostTerminal(p)
  \/ PostReaction(p) \/ DropReaction(p) \/ PostAsset(p) \/ PostMedia(p)

(* removeReaction lists the reactions of the message first.                *)
Accept(p) ==
  /\ AtStage(p, "request") \/ AtStage(p, "delete")
  /\ call[p].token = token
  /\ Effect(p)
  /\ Advance(p, IF call[p].op = "removeReaction" /\ AtStage(p, "request") /\ reaction
                THEN "delete" ELSE "done")
  /\ UNCHANGED <<token, cached, spent>>

(* Any other error: the request was not carried out, or only its answer    *)
(* was lost.                                                               *)
Fault(p) ==
  /\ Spend(1)
  /\ call[p].stage \in {"issuing", "request", "delete"}
  /\ \/ UNCHANGED <<card, posts, reaction, files>>
     \/ ~AtStage(p, "issuing") /\ call[p].token = token /\ Effect(p)
  /\ Advance(p, "failed")
  /\ UNCHANGED <<token, cached>>

ExpireToken ==
  /\ Spend(1)
  /\ token' = token + 1
  /\ UNCHANGED <<cached, call, card, posts, reaction, files>>

SenderStep(p) ==
  TakeToken(p) \/ IssueToken(p) \/ RefuseToken(p) \/ Accept(p) \/ Fault(p)
===========================================================================
