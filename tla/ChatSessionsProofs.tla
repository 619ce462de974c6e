------------------------ MODULE ChatSessionsProofs ------------------------
(***************************************************************************)
(* Proofs about ChatSessions for every set of chats, workspaces, modes and *)
(* messages, every number of handlers and every bound.                     *)
(***************************************************************************)
EXTENDS ChatSessions, SequenceTheorems, FiniteSetTheorems, WellFoundedInduction, TLAPS

---------------------------------------------------------------------------
(* The types, and what a handler holds at each of its steps.               *)

Steps ==
  {"idle", "createSession", "reply", "readConversation", "readBinding", "saveBinding",
   "readOverride", "deleteOverride", "resetConversation", "findActive", "resolveKey",
   "createWorkspace", "bindManual", "bindCreated", "bindReset", "bindClear", "resetMode",
   "setMode", "readLatest", "statusActive", "statusAhead", "createRun", "pushRun",
   "savePosition"}

Seen ==
  [conversation : Conversation, key : Keys \cup {None}, source : Sources,
   mode : Modes \cup {None}, active : BOOLEAN, run : Nat, position : Nat]

StoreTyped ==
  /\ clock \in 0..MaxTime
  /\ sessions \subseteq Chats
  /\ binding \in [Chats -> Binding]
  /\ catalog \subseteq Keys
  /\ override \in [Chats -> Override]
  /\ \A c \in Chats : override[c].workspace # None => override[c].mode \in Modes
  /\ conversation \in [Chats -> Conversation]

RunsTyped ==
  /\ runs \in Seq(Run) /\ Len(runs) <= MaxRuns
  /\ phase \in Seq(Phases) /\ Len(phase) = Len(runs)
  /\ returned \in Seq(Nat) /\ Len(returned) = Len(runs)
  /\ \A r \in 1..Len(runs) :
       /\ phase[r] \in {"queued", "popped"} => runs[r].status = "queued"
       /\ phase[r] \in Fresh \cup Retrying => runs[r].status # "queued"

HandlersTyped ==
  /\ step \in [Handlers -> Steps]
  /\ DOMAIN message = Handlers
  /\ seen \in [Handlers -> Seen]
  /\ received \in 0..MaxMessages
  /\ report \in [Chats -> [run : Nat, ahead : Nat]]
  /\ \A c \in Chats : report[c].run <= Len(runs)

(* What a handler is at, and what it has got so far.                       *)
BindSteps == {"resolveKey", "createWorkspace", "bindManual", "bindCreated", "bindReset", "bindClear"}
RunSteps  == {"statusActive", "statusAhead", "pushRun", "savePosition"}

HandledAs(s, m, n, length) ==
  /\ s = "idle" => m = NoMessage /\ n = NothingSeen
  /\ s # "idle" => m.chat \in Chats
  /\ m.command \in Commands \cup {"empty", "prompt"}
  /\ m.command = "/bind" /\ s \notin {"createSession", "reply"} => m.arg \in Keys
  /\ s \in BindSteps => m.command = "/bind"
  /\ s = "setMode" => m.arg \in Modes
  /\ s \in RunSteps \cup {"createRun", "saveBinding", "readOverride", "setMode"}
       \/ (s = "findActive" /\ m.command = "prompt")
       => n.key \in Keys
  /\ s = "createRun" \/ (s = "findActive" /\ m.command = "prompt") => n.mode \in Modes
  /\ s \in {"createSession", "readConversation", "readBinding", "saveBinding", "readOverride"} =>
       n.mode = None
  /\ n.run <= length
  /\ s \in RunSteps => n.run # 0

Handled(h) == HandledAs(step[h], message[h], seen[h], Len(runs))

QueueTyped ==
  /\ queue \in [Keys -> Seq(Nat)]
  /\ \A k \in Keys : \A i \in 1..Len(queue[k]) : queue[k][i] \in 1..Len(runs)

BoundOrNot == \A c \in Chats : binding[c] = Unbound \/ binding[c].key \in Keys

BaseInv ==
  /\ StoreTyped /\ RunsTyped /\ HandlersTyped /\ QueueTyped /\ BoundOrNot
  /\ \A h \in Handlers : Handled(h)
  /\ mishaps \in 0..MaxMishaps

(* A codex session belongs to the run that made it: whoever holds it, the  *)
(* binding of a chat, a handler that has read it or a run that asks for    *)
(* it, is of the same chat, workspace and mode.                            *)
Fits(conv, c) ==
  conv.bridge # 0 =>
    /\ conv.bridge \in 1..Len(runs)
    /\ runs[conv.bridge].chat = c
    /\ runs[conv.bridge].workspace = conv.workspace
    /\ runs[conv.bridge].mode = conv.mode

RunFits(r) ==
  /\ runs[r].requested # 0 =>
       /\ runs[r].requested \in 1..(r - 1)
       /\ runs[runs[r].requested].chat = runs[r].chat
       /\ runs[runs[r].requested].workspace = runs[r].workspace
       /\ runs[runs[r].requested].mode = runs[r].mode
  /\ returned[r] \in {0, r, runs[r].requested}

FitsInv ==
  /\ BaseInv
  /\ \A c \in Chats : Fits(conversation[c], c)
  /\ \A h \in Handlers : step[h] # "idle" => Fits(seen[h].conversation, message[h].chat)
  /\ \A r \in 1..Len(runs) : RunFits(r)

(* What is in a list is in no hands yet, and is there once.                *)
QueueInv ==
  /\ \A k \in Keys : \A i \in 1..Len(queue[k]) : phase[queue[k][i]] = "queued"
  /\ \A k, l \in Keys : \A i \in 1..Len(queue[k]), j \in 1..Len(queue[l]) :
       queue[k][i] = queue[l][j] => k = l /\ i = j
  /\ \A h \in Handlers : step[h] = "pushRun" =>
       /\ phase[seen[h].run] = "queued"
       /\ \A k \in Keys : \A i \in 1..Len(queue[k]) : queue[k][i] # seen[h].run
       /\ \A g \in Handlers : g # h /\ step[g] = "pushRun" => seen[g].run # seen[h].run

(* What handlers that come one after the other leave of a chat.            *)
OverrideAsked(c) ==
  override[c].workspace # None =>
    /\ intent[c].mode = override[c].mode
    /\ intent[c].workspace = override[c].workspace
    /\ intent[c].until = override[c].expiresAt

BindingAsked(c) ==
  intent[c].key # None =>
    \/ binding[c].key = intent[c].key
    \/ \E h \in Handlers : step[h] \in {"bindReset", "bindClear"} /\ message[h].chat = c

SessionAsked(c) ==
  intent[c].active = {} =>
    /\ conversation[c].bridge \notin 1..intent[c].fresh
    /\ \A r \in 1..Len(runs) : runs[r].chat = c =>
         /\ r <= intent[c].fresh => phase[r] = "ended"
         /\ runs[r].requested \in 1..intent[c].fresh => phase[r] = "ended"

AtHand(h) ==
  LET c == message[h].chat IN
  /\ step[h] = "resetConversation" => override[c] = NoOverride
  /\ step[h] \in {"bindReset", "bindClear"} => binding[c].key = message[h].arg
  /\ step[h] = "saveBinding" => binding[c] = Unbound \/ binding[c].key = seen[h].key
  /\ step[h] \in {"resolveKey", "createWorkspace", "bindManual", "bindCreated"} =>
       binding[c].key = None \/ ActiveOf(c) = {}
  /\ step[h] # "idle" /\ intent[c].active = {} =>
       seen[h].conversation.bridge \notin 1..intent[c].fresh

CalmInv ==
  /\ \A g, h \in AtWork : g = h
  /\ \A c \in Chats : OverrideAsked(c) /\ BindingAsked(c) /\ SessionAsked(c)
  /\ \A h \in Handlers : AtHand(h)

Intent ==
  [key : Keys \cup {None}, mode : Modes \cup {None}, workspace : Keys \cup {None}, until : Nat,
   fresh : Nat, active : SUBSET Nat]

IntentTyped == intent \in [Chats -> Intent] /\ \A c \in Chats : intent[c].fresh <= Len(runs)

CourseInv ==
  /\ FitsInv /\ QueueInv /\ IntentTyped
  /\ IsFiniteSet(AtWork)
  /\ ~overlapped => CalmInv

---------------------------------------------------------------------------
(* What the operators return.                                              *)

(* A bounded set of natural numbers that is not empty has a greatest one.  *)
LEMMA GreatestExists ==
  ASSUME NEW n \in Nat, NEW S \in SUBSET (1..n), S # {}
  PROVE  \E u \in S : \A v \in S : v <= u
<1> DEFINE T == {n - x : x \in S}
<1>1. T \in SUBSET Nat /\ T # {}
  <2>1. \A x \in S : n - x \in Nat
    OBVIOUS
  <2> QED
    BY <2>1
<1>2. PICK t \in T : \A s \in T : ~(<<s, t>> \in OpToRel(<, Nat))
  BY <1>1, NatLessThanWellFounded, WFMin, Zenon
<1>3. \A s \in T : ~(s < t)
  BY <1>1, <1>2, Zenon DEF OpToRel
<1>4. PICK u \in S : t = n - u
  BY <1>2
<1>5. ASSUME NEW v \in S PROVE v <= u
  <2>1. n - v \in T /\ v \in Nat /\ u \in Nat
    OBVIOUS
  <2> QED
    BY <1>3, <1>4, <2>1
<1> QED
  BY <1>5

LEMMA LatestIsRun ==
  ASSUME runs \in Seq(Run), NEW c, RunsOf(c) # {}
  PROVE  Latest(c) \in 1..Len(runs) /\ runs[Latest(c)].chat = c
<1>1. RunsOf(c) \in SUBSET (1..Len(runs)) /\ Len(runs) \in Nat
  BY LenProperties DEF RunsOf
<1>2. \E r \in RunsOf(c) : \A q \in RunsOf(c) : q <= r
  BY <1>1, GreatestExists
<1>3. Latest(c) \in RunsOf(c)
  BY <1>2 DEF Latest
<1> QED
  BY <1>1, <1>3 DEF RunsOf

LEMMA AheadIsNat ==
  ASSUME NEW k \in Keys, queue[k] \in Seq(Nat), NEW r, NEW b \in BOOLEAN
  PROVE  AheadCount(k, r, b) \in Nat
<1> DEFINE before == {i \in DOMAIN queue[k] : \A j \in 1..i : queue[k][j] # r}
<1>1. IsFiniteSet(1..Len(queue[k])) /\ before \subseteq 1..Len(queue[k])
  <2>1. Len(queue[k]) \in Int /\ DOMAIN queue[k] = 1..Len(queue[k])
    BY LenProperties
  <2> QED
    BY <2>1, FS_Interval
<1>2. Cardinality(before) \in Nat
  BY <1>1, FS_Subset, FS_CardinalityType
<1> QED
  BY <1>2 DEF AheadCount

LEMMA Blanks ==
  /\ NoConversation \in Conversation /\ NothingSeen \in Seen
  /\ NoOverride \in Override /\ Unbound \in Binding
<1>1. MaxRuns \in Nat
  BY StoreAssumption
<1> QED
  BY <1>1 DEF NoConversation, Conversation, NothingSeen, Seen, NoOverride, Override, Unbound,
              Binding, Sources

(* The workspace a message is handled in, before it is looked up.          *)
LEMMA ChoiceTyped ==
  ASSUME StoreTyped, BoundOrNot, NEW c \in Chats
  PROVE  /\ Choice(c).key \in Keys \cup {None} /\ Choice(c).source \in Sources
         /\ Choice(c) # Unbound => Choice(c).key \in Keys
         /\ binding[c] # Unbound => Choice(c) = binding[c]
<1>1. binding[c] \in Binding /\ (binding[c] # Unbound => binding[c].key \in Keys)
  BY DEF StoreTyped, BoundOrNot
<1>2. DefaultKey \in Keys /\ ChatBindings[c] \in Keys \cup {None}
  BY StoreAssumption
<1>3. Choice(c) \in {binding[c], Unbound, [key |-> DefaultKey, source |-> "default"],
                     [key |-> ChatBindings[c], source |-> "config"]}
  BY DEF Choice
<1>4. Choice(c) = [key |-> ChatBindings[c], source |-> "config"] => ChatBindings[c] # None
         \/ binding[c] = Choice(c)
  BY DEF Choice, Unbound
<1> QED
  BY <1>1, <1>2, <1>3, <1>4 DEF Choice, Unbound, Binding, Sources

---------------------------------------------------------------------------
(* A step of a handler, as the state of the handler after it.              *)

Moved(h, s, m, n) ==
  /\ step' \in [Handlers -> Steps] /\ DOMAIN message' = Handlers /\ seen' \in [Handlers -> Seen]
  /\ step'[h] = s /\ message'[h] = m /\ seen'[h] = n
  /\ \A g \in Handlers : g # h =>
       step'[g] = step[g] /\ message'[g] = message[g] /\ seen'[g] = seen[g]

LEMMA GoMoves ==
  ASSUME HandlersTyped, NEW h \in Handlers, NEW s \in Steps, NEW n \in Seen,
         Go(h, s), See(h, n)
  PROVE  Moved(h, s, message[h], n) /\ UNCHANGED <<received, report>>
<1> QED
  BY DEF HandlersTyped, Go, See, Moved

LEMMA GotoMoves ==
  ASSUME HandlersTyped, NEW h \in Handlers, NEW s \in Steps, Goto(h, s)
  PROVE  Moved(h, s, message[h], seen[h]) /\ UNCHANGED <<received, report>>
<1> QED
  BY DEF HandlersTyped, Go, Goto, Moved

LEMMA EndMoves ==
  ASSUME HandlersTyped, NEW h \in Handlers, End(h)
  PROVE  Moved(h, "idle", NoMessage, NothingSeen) /\ UNCHANGED received
<1>1. "idle" \in Steps
  BY DEF Steps
<1> QED
  BY <1>1, Blanks DEF HandlersTyped, End, Moved

(* What a handler has seen, with one more thing.                           *)
SameBut(m, n) == m \in Seen /\ m.conversation = n.conversation /\ m.run = n.run

LEMMA SeenMode ==
  ASSUME NEW n \in Seen, NEW k \in Modes \cup {None}
  PROVE  /\ SameBut([n EXCEPT !.mode = k], n)
         /\ [n EXCEPT !.mode = k].mode = k /\ [n EXCEPT !.mode = k].key = n.key
<1> QED
  BY DEF Seen, SameBut

LEMMA SeenRun ==
  ASSUME NEW n \in Seen, NEW r \in Nat
  PROVE  /\ [n EXCEPT !.run = r] \in Seen
         /\ [n EXCEPT !.run = r].run = r /\ [n EXCEPT !.run = r].key = n.key
         /\ [n EXCEPT !.run = r].conversation = n.conversation
<1> QED
  BY DEF Seen

LEMMA SeenActive ==
  ASSUME NEW n \in Seen, NEW b \in BOOLEAN
  PROVE  /\ SameBut([n EXCEPT !.active = b], n)
         /\ [n EXCEPT !.active = b].key = n.key /\ [n EXCEPT !.active = b].mode = n.mode
<1> QED
  BY DEF Seen, SameBut

LEMMA SeenPosition ==
  ASSUME NEW n \in Seen, NEW p \in Nat
  PROVE  /\ SameBut([n EXCEPT !.position = p], n) /\ [n EXCEPT !.position = p].key = n.key
<1> QED
  BY DEF Seen, SameBut

LEMMA SeenConversation ==
  ASSUME NEW n \in Seen, NEW v \in Conversation
  PROVE  /\ [n EXCEPT !.conversation = v] \in Seen
         /\ [n EXCEPT !.conversation = v].conversation = v
         /\ [n EXCEPT !.conversation = v].run = n.run
         /\ [n EXCEPT !.conversation = v].mode = n.mode
<1> QED
  BY DEF Seen

LEMMA MovedBase ==
  ASSUME BaseInv, NEW h \in Handlers, NEW s, NEW m, NEW n, Moved(h, s, m, n),
         Len(runs) \in Nat, Len(runs') \in Nat, Len(runs) <= Len(runs'),
         HandledAs(s, m, n, Len(runs'))
  PROVE  \A g \in Handlers : Handled(g)'
<1> SUFFICES ASSUME NEW g \in Handlers PROVE Handled(g)'
  OBVIOUS
<1>1. CASE g = h
  BY <1>1 DEF Moved, Handled
<1>2. CASE g # h
  <2>1. Handled(g) /\ seen[g].run \in Nat
    BY DEF BaseInv, HandlersTyped, Seen
  <2>2. step'[g] = step[g] /\ message'[g] = message[g] /\ seen'[g] = seen[g]
    BY <1>2 DEF Moved
  <2> QED
    BY <2>1, <2>2 DEF Handled, HandledAs
<1> QED
  BY <1>1, <1>2

(* Where a handler goes with a step, and what it has seen by then.         *)
GoesTo(h) ==
  \E s \in Steps, n \in Seen : \E m :
    /\ Moved(h, s, m, n) /\ HandledAs(s, m, n, Len(runs'))
    /\ s # "idle" /\ step[h] # "idle" => m = message[h]
    /\ s # "idle" =>
         \/ n.conversation = seen[h].conversation
         \/ step[h] = "readConversation" /\ n.conversation = conversation[message[h].chat]

LEMMA NothingHeld ==
  HandledAs("idle", NoMessage, NothingSeen, Len(runs)) /\ NothingSeen.run = 0
  /\ NothingSeen.mode = None
<1> QED
  BY DEF HandledAs, NoMessage, NothingSeen, Commands, BindSteps, RunSteps

LEMMA Received ==
  ASSUME BaseInv, NEW h \in Handlers, ReceiveMessage(h), Len(runs) \in Nat
  PROVE  GoesTo(h) /\ received' \in 0..MaxMessages /\ UNCHANGED report
<1>1. PICK event \in Events :
        /\ Accepted(event)
        /\ message' = [message EXCEPT ![h] = Envelope(event)]
        /\ step' = [step EXCEPT ![h] =
             IF event.chat \in sessions THEN FirstStep(Envelope(event)) ELSE "createSession"]
  BY DEF ReceiveMessage
<1> DEFINE m == Envelope(event)
           s == IF event.chat \in sessions THEN FirstStep(m) ELSE "createSession"
<1>2. m.chat \in Chats /\ m.command \in Commands \cup {"empty", "prompt"}
  BY <1>1, HandlerAssumption
  DEF Envelope, ParseCommand, Slashes, Accepted, AcceptedByWebsocket, AcceptedByWebhook, IsAllowed,
      Commands
<1>3. /\ s \in {"createSession", "readConversation", "deleteOverride", "readBinding", "reply"}
      /\ s = "readBinding" /\ m.command = "/bind" => m.arg \in Keys
      /\ s \in {"readConversation", "deleteOverride"} => m.command # "/bind"
  BY <1>2 DEF FirstStep
<1>4. /\ step[h] = "idle" /\ seen[h] = NothingSeen /\ step \in [Handlers -> Steps]
      /\ seen \in [Handlers -> Seen] /\ DOMAIN message = Handlers /\ seen' = seen
      /\ received' = received + 1 /\ received < MaxMessages /\ received \in 0..MaxMessages
      /\ UNCHANGED <<runs, report>>
  BY DEF ReceiveMessage, At, BaseInv, HandlersTyped, Handled, HandledAs, storeVars
<1>5. s \in Steps
  BY <1>3 DEF Steps
<1> HIDE DEF s, m
<1>6. Moved(h, s, m, NothingSeen)
  BY <1>1, <1>4, <1>5 DEF Moved, s, m
<1>7. HandledAs(s, m, NothingSeen, Len(runs'))
  BY <1>2, <1>3, <1>4, NothingHeld DEF HandledAs, BindSteps, RunSteps
<1>8. received' \in 0..MaxMessages
  BY <1>4, HandlerAssumption
<1> QED
  BY <1>4, <1>5, <1>6, <1>7, <1>8, Blanks DEF GoesTo

(* A step to a further call, with nothing more read.                       *)
LEMMA GoesOn ==
  ASSUME BaseInv, NEW h \in Handlers, NEW s \in Steps, Goto(h, s), s # "idle",
         HandledAs(s, message[h], seen[h], Len(runs'))
  PROVE  GoesTo(h) /\ UNCHANGED <<received, report>>
<1>1. Moved(h, s, message[h], seen[h]) /\ UNCHANGED <<received, report>>
  BY GotoMoves DEF BaseInv
<1>2. seen[h] \in Seen
  BY DEF BaseInv, HandlersTyped
<1> QED
  BY <1>1, <1>2 DEF GoesTo

(* A step to a further call, with something read.                          *)
LEMMA GoesOnSeen ==
  ASSUME BaseInv, NEW h \in Handlers, NEW s \in Steps, NEW n \in Seen, Go(h, s), See(h, n),
         s # "idle", HandledAs(s, message[h], n, Len(runs')),
         \/ n.conversation = seen[h].conversation
         \/ step[h] = "readConversation" /\ n.conversation = conversation[message[h].chat]
  PROVE  GoesTo(h) /\ UNCHANGED <<received, report>>
<1>1. Moved(h, s, message[h], n) /\ UNCHANGED <<received, report>>
  BY GoMoves DEF BaseInv
<1> QED
  BY <1>1 DEF GoesTo

LEMMA Ended ==
  ASSUME BaseInv, NEW h \in Handlers, End(h)
  PROVE  GoesTo(h) /\ UNCHANGED received
<1>1. Moved(h, "idle", NoMessage, NothingSeen) /\ UNCHANGED received
  BY EndMoves DEF BaseInv
<1>2. "idle" \in Steps /\ NothingSeen \in Seen
  BY Blanks DEF Steps
<1>3. HandledAs("idle", NoMessage, NothingSeen, Len(runs'))
  BY NothingHeld DEF HandledAs, NoMessage, NothingSeen, Commands, BindSteps, RunSteps
<1> QED
  BY <1>1, <1>2, <1>3 DEF GoesTo

(* What a handler has at hand.                                             *)
LEMMA HandlerFacts ==
  ASSUME BaseInv, NEW h \in Handlers
  PROVE  /\ seen[h] \in Seen /\ step[h] \in Steps /\ Len(runs) \in Nat
         /\ HandledAs(step[h], message[h], seen[h], Len(runs))
         /\ step[h] # "idle" => message[h].chat \in Chats /\ message[h].chat = Chat(h)
         /\ seen[h].run \in 0..Len(runs)
<1>1. seen[h] \in Seen /\ step[h] \in Steps /\ Len(runs) \in Nat
  BY LenProperties DEF BaseInv, HandlersTyped, RunsTyped
<1>2. HandledAs(step[h], message[h], seen[h], Len(runs))
  BY DEF BaseInv, Handled
<1> QED
  BY <1>1, <1>2 DEF HandledAs, Chat, Seen

LEMMA ReadsBinding ==
  ASSUME BaseInv, NEW h \in Handlers, ReadBinding(h)
  PROVE  GoesTo(h) /\ UNCHANGED <<received, report>>
<1>1. PICK c \in Chats : c = Chat(h) /\ c = message[h].chat
  BY HandlerFacts DEF ReadBinding, At
<1>2. PICK k \in Keys \cup {None}, s \in Sources :
        /\ k = Choice(c).key /\ s = Choice(c).source
        /\ Choice(c) # Unbound => k \in Keys
  BY ChoiceTyped DEF BaseInv
<1> DEFINE n == [seen[h] EXCEPT !.key = k, !.source = s]
           t == IF Choice(c) # Unbound THEN "saveBinding"
                ELSE CASE message[h].command = "/bind" -> "resolveKey"
                       [] message[h].command = "/status" -> "readLatest"
                       [] OTHER -> "reply"
<1>3. /\ n \in Seen /\ n.key = k /\ n.run = seen[h].run /\ n.conversation = seen[h].conversation
      /\ n.mode = seen[h].mode
      /\ seen[h].run \in 0..Len(runs)
  <2>1. PICK w \in Seen : w = seen[h]
    BY HandlerFacts
  <2>2. SameBut([w EXCEPT !.key = k, !.source = s], w)
        /\ [w EXCEPT !.key = k, !.source = s].key = k
        /\ [w EXCEPT !.key = k, !.source = s].mode = w.mode
    BY DEF Seen, SameBut
  <2> QED
    BY <2>1, <2>2, HandlerFacts DEF SameBut
<1>4. See(h, n) /\ Go(h, t) /\ UNCHANGED runs
  BY <1>1, <1>2 DEF ReadBinding, storeVars
<1>5. /\ t \in {"saveBinding", "resolveKey", "readLatest", "reply"} /\ t \in Steps /\ t # "idle"
      /\ t = "resolveKey" => message[h].command = "/bind"
      /\ t = "saveBinding" => k \in Keys
  BY <1>2 DEF Steps
<1>6. HandledAs("readBinding", message[h], seen[h], Len(runs))
  BY HandlerFacts DEF ReadBinding, At
<1> HIDE DEF n, t
<1>7. HandledAs(t, message[h], n, Len(runs'))
  BY <1>3, <1>4, <1>5, <1>6 DEF HandledAs, BindSteps, RunSteps
<1> QED
  BY <1>3, <1>4, <1>5, <1>7, GoesOnSeen

LEMMA ReadsOverride ==
  ASSUME BaseInv, NEW h \in Handlers, ReadOverride(h)
  PROVE  GoesTo(h) /\ UNCHANGED <<received, report>>
<1>1. PICK c \in Chats : c = Chat(h) /\ c = message[h].chat
  BY HandlerFacts DEF ReadOverride, At
<1>2. HandledAs("readOverride", message[h], seen[h], Len(runs)) /\ seen[h].key \in Keys
  BY HandlerFacts DEF ReadOverride, At, HandledAs
<1>3. PICK m \in Modes : m = ResolveForChat(c, seen[h].key)
  BY <1>2, StoreAssumption DEF BaseInv, StoreTyped, ResolveForChat
<1> DEFINE n == [seen[h] EXCEPT !.mode = m]
           t == CASE message[h].command = "prompt" -> "findActive"
                  [] message[h].arg = "reset" -> "resetMode"
                  [] message[h].arg \in Modes -> "setMode"
                  [] OTHER -> "reply"
<1>4. /\ n \in Seen /\ n.key = seen[h].key /\ n.mode = m /\ n.run = seen[h].run
      /\ n.conversation = seen[h].conversation /\ seen[h].run \in 0..Len(runs)
  <2>1. PICK w \in Seen : w = seen[h]
    BY HandlerFacts
  <2>2. /\ SameBut([w EXCEPT !.mode = m], w)
        /\ [w EXCEPT !.mode = m].mode = m /\ [w EXCEPT !.mode = m].key = w.key
    BY SeenMode
  <2> QED
    BY <2>1, <2>2, HandlerFacts DEF SameBut
<1>5. See(h, n) /\ Go(h, t) /\ UNCHANGED runs
  BY <1>1, <1>3 DEF ReadOverride, storeVars
<1>6. /\ t \in {"findActive", "resetMode", "setMode", "reply"}
      /\ t = "setMode" => message[h].arg \in Modes
      /\ t = "findActive" => message[h].command = "prompt"
  BY Zenon
<1>7. t \in Steps /\ t # "idle"
  BY <1>6 DEF Steps
<1> HIDE DEF n, t
<1>8. HandledAs(t, message[h], n, Len(runs'))
  BY <1>2, <1>4, <1>5, <1>6 DEF HandledAs, BindSteps, RunSteps
<1> QED
  BY <1>4, <1>5, <1>7, <1>8, GoesOnSeen

(* What a handler holds when it is about to take its next step.            *)
LEMMA HeldAt ==
  ASSUME BaseInv, NEW h \in Handlers, NEW s, At(h, s), s # "idle"
  PROVE  /\ HandledAs(s, message[h], seen[h], Len(runs)) /\ seen[h].run \in 0..Len(runs)
         /\ message[h].chat \in Chats /\ message[h].chat = Chat(h) /\ Len(runs) \in Nat
<1> QED
  BY HandlerFacts DEF At

LEMMA RepliesEnd ==
  ASSUME BaseInv, NEW h \in Handlers, Reply(h)
  PROVE  GoesTo(h) /\ UNCHANGED <<received, report>>
<1> QED
  BY Ended DEF Reply

LEMMA SessionCreated ==
  ASSUME BaseInv, NEW h \in Handlers, CreateSession(h)
  PROVE  GoesTo(h) /\ UNCHANGED <<received, report>>
<1>1. CASE Chat(h) \in sessions
  BY <1>1, RepliesEnd DEF CreateSession
<1>2. CASE Chat(h) \notin sessions
  <2> DEFINE s == FirstStep(message[h])
  <2>1. Goto(h, s) /\ UNCHANGED runs
    BY <1>2 DEF CreateSession
  <2>2. HandledAs("createSession", message[h], seen[h], Len(runs))
    BY HeldAt DEF CreateSession
  <2>3. /\ s \in {"readConversation", "deleteOverride", "readBinding", "reply"}
        /\ s = "readBinding" /\ message[h].command = "/bind" => message[h].arg \in Keys
        /\ s \in {"readConversation", "deleteOverride"} => message[h].command # "/bind"
    BY DEF FirstStep
  <2>4. s \in Steps /\ s # "idle"
    BY <2>3 DEF Steps
  <2> HIDE DEF s
  <2>5. HandledAs(s, message[h], seen[h], Len(runs'))
    BY <2>1, <2>2, <2>3 DEF HandledAs, BindSteps, RunSteps
  <2> QED
    BY <2>1, <2>4, <2>5, GoesOn
<1> QED
  BY <1>1, <1>2

LEMMA ResolvedSaved ==
  ASSUME BaseInv, NEW h \in Handlers, SaveResolved(h)
  PROVE  GoesTo(h) /\ UNCHANGED <<received, report>>
<1>1. CASE ~Exists(seen[h].key)
  BY <1>1, RepliesEnd DEF SaveResolved
<1>2. CASE Exists(seen[h].key)
  <2> DEFINE s == CASE message[h].command = "/bind" ->
                             IF message[h].arg = seen[h].key THEN "reply" ELSE "findActive"
                    [] message[h].command = "/status" -> "readLatest"
                    [] OTHER -> "readOverride"
  <2>1. Goto(h, s) /\ UNCHANGED runs
    BY <1>2 DEF SaveResolved
  <2>2. HandledAs("saveBinding", message[h], seen[h], Len(runs))
    BY HeldAt DEF SaveResolved
  <2>3. /\ s \in {"reply", "findActive", "readLatest", "readOverride"}
        /\ s = "findActive" => message[h].command = "/bind"
    OBVIOUS
  <2>4. s \in Steps /\ s # "idle"
    BY <2>3 DEF Steps
  <2> HIDE DEF s
  <2>5. HandledAs(s, message[h], seen[h], Len(runs'))
    BY <2>1, <2>2, <2>3 DEF HandledAs, BindSteps, RunSteps
  <2> QED
    BY <2>1, <2>4, <2>5, GoesOn
<1> QED
  BY <1>1, <1>2

LEMMA OverrideDropped ==
  ASSUME BaseInv, NEW h \in Handlers, NewDeleteOverride(h)
  PROVE  GoesTo(h) /\ UNCHANGED <<received, report>>
<1>1. HandledAs("deleteOverride", message[h], seen[h], Len(runs))
  BY HeldAt DEF NewDeleteOverride
<1>2. HandledAs("resetConversation", message[h], seen[h], Len(runs')) /\ "resetConversation" \in Steps
  BY <1>1 DEF NewDeleteOverride, HandledAs, BindSteps, RunSteps, Steps
<1> QED
  BY <1>2, GoesOn DEF NewDeleteOverride

LEMMA ActiveRefused ==
  ASSUME BaseInv, NEW h \in Handlers, BindRefusesActive(h)
  PROVE  GoesTo(h) /\ UNCHANGED <<received, report>>
<1> DEFINE s == IF ActiveOf(Chat(h)) # {} THEN "reply" ELSE "resolveKey"
<1>1. HandledAs("findActive", message[h], seen[h], Len(runs)) /\ message[h].command = "/bind"
      /\ UNCHANGED runs /\ Goto(h, s)
  BY HeldAt DEF BindRefusesActive, storeVars
<1>2. s \in {"reply", "resolveKey"} /\ s \in Steps /\ s # "idle"
  BY DEF Steps
<1> HIDE DEF s
<1>3. HandledAs(s, message[h], seen[h], Len(runs'))
  BY <1>1, <1>2 DEF HandledAs, BindSteps, RunSteps
<1> QED
  BY <1>1, <1>2, <1>3, GoesOn

LEMMA KeyResolved ==
  ASSUME BaseInv, NEW h \in Handlers, BindResolve(h)
  PROVE  GoesTo(h) /\ UNCHANGED <<received, report>>
<1> DEFINE s == IF Exists(message[h].arg) THEN "bindManual" ELSE "createWorkspace"
<1>1. HandledAs("resolveKey", message[h], seen[h], Len(runs)) /\ UNCHANGED runs /\ Goto(h, s)
  BY HeldAt DEF BindResolve, storeVars
<1>2. s \in {"bindManual", "createWorkspace"} /\ s \in Steps /\ s # "idle"
  BY DEF Steps
<1> HIDE DEF s
<1>3. HandledAs(s, message[h], seen[h], Len(runs'))
  BY <1>1, <1>2 DEF HandledAs, BindSteps, RunSteps
<1> QED
  BY <1>1, <1>2, <1>3, GoesOn

LEMMA WorkspaceCreated ==
  ASSUME BaseInv, NEW h \in Handlers, BindCreate(h)
  PROVE  GoesTo(h) /\ UNCHANGED <<received, report>>
<1>1. CASE Goto(h, "bindCreated")
  <2>1. HandledAs("createWorkspace", message[h], seen[h], Len(runs)) /\ UNCHANGED runs
    BY HeldAt DEF BindCreate
  <2>2. HandledAs("bindCreated", message[h], seen[h], Len(runs')) /\ "bindCreated" \in Steps
    BY <2>1 DEF HandledAs, BindSteps, RunSteps, Steps
  <2> QED
    BY <1>1, <2>2, GoesOn
<1>2. CASE Reply(h)
  BY <1>2, RepliesEnd
<1> QED
  BY <1>1, <1>2 DEF BindCreate

LEMMA BindingSaved ==
  ASSUME BaseInv, NEW h \in Handlers, BindSave(h)
  PROVE  GoesTo(h) /\ UNCHANGED <<received, report>>
<1>1. HandledAs(step[h], message[h], seen[h], Len(runs)) /\ UNCHANGED runs
      /\ step[h] \in {"bindManual", "bindCreated"}
  BY HandlerFacts DEF BindSave
<1>2. HandledAs("bindReset", message[h], seen[h], Len(runs')) /\ "bindReset" \in Steps
  BY <1>1 DEF HandledAs, BindSteps, RunSteps, Steps
<1> QED
  BY <1>2, GoesOn DEF BindSave

LEMMA BoundIsReset ==
  ASSUME BaseInv, NEW h \in Handlers, BindReset(h)
  PROVE  GoesTo(h) /\ UNCHANGED <<received, report>>
<1>1. HandledAs("bindReset", message[h], seen[h], Len(runs)) /\ UNCHANGED runs
  BY HeldAt DEF BindReset
<1>2. HandledAs("bindClear", message[h], seen[h], Len(runs')) /\ "bindClear" \in Steps
  BY <1>1 DEF HandledAs, BindSteps, RunSteps, Steps
<1> QED
  BY <1>2, GoesOn DEF BindReset

LEMMA LatestRead ==
  ASSUME BaseInv, NEW h \in Handlers, StatusLatest(h)
  PROVE  GoesTo(h) /\ UNCHANGED <<received, report>>
<1>1. HandledAs("readLatest", message[h], seen[h], Len(runs)) /\ UNCHANGED runs
  BY HeldAt DEF StatusLatest, storeVars
<1>2. CASE seen[h].key # None /\ RunsOf(Chat(h)) # {} /\ runs[Latest(Chat(h))].status = "queued"
  <2>1. PICK w \in Seen, r \in 1..Len(runs) : w = seen[h] /\ r = Latest(Chat(h))
    BY <1>2, LatestIsRun, HandlerFacts DEF BaseInv, RunsTyped
  <2> DEFINE n == [w EXCEPT !.run = r]
  <2>2. n \in Seen /\ n.run = r /\ n.key = w.key /\ n.conversation = w.conversation
    BY SeenRun
  <2>3. See(h, n) /\ Go(h, "statusActive")
    BY <1>2, <2>1 DEF StatusLatest
  <2>4. w.key \in Keys /\ Len(runs) \in Nat
    BY <1>2, <2>1, HandlerFacts DEF Seen
  <2> HIDE DEF n
  <2>5. HandledAs("statusActive", message[h], n, Len(runs')) /\ "statusActive" \in Steps
    BY <1>1, <2>1, <2>2, <2>4 DEF HandledAs, BindSteps, RunSteps, Steps
  <2> QED
    BY <2>1, <2>2, <2>3, <2>5, GoesOnSeen
<1>3. CASE Goto(h, "reply")
  <2>1. HandledAs("reply", message[h], seen[h], Len(runs')) /\ "reply" \in Steps
    BY <1>1 DEF HandledAs, BindSteps, RunSteps, Steps
  <2> QED
    BY <1>3, <2>1, GoesOn
<1> QED
  BY <1>2, <1>3 DEF StatusLatest

LEMMA ActiveRead ==
  ASSUME BaseInv, NEW h \in Handlers, StatusActive(h)
  PROVE  GoesTo(h) /\ UNCHANGED <<received, report>>
<1>1. HandledAs("statusActive", message[h], seen[h], Len(runs)) /\ UNCHANGED runs
  BY HeldAt DEF StatusActive, storeVars
<1>2. PICK w \in Seen, b \in BOOLEAN : w = seen[h] /\ b = (ActiveIn(seen[h].key) # {})
  BY HandlerFacts
<1> DEFINE n == [w EXCEPT !.active = b]
<1>3. /\ n \in Seen /\ n.run = w.run /\ n.key = w.key /\ n.mode = w.mode
      /\ n.conversation = w.conversation
  BY SeenActive DEF SameBut
<1>4. See(h, n) /\ Go(h, "statusAhead")
  BY <1>2 DEF StatusActive
<1> HIDE DEF n
<1>5. HandledAs("statusAhead", message[h], n, Len(runs')) /\ "statusAhead" \in Steps
  BY <1>1, <1>2, <1>3 DEF HandledAs, BindSteps, RunSteps, Steps
<1> QED
  BY <1>2, <1>3, <1>4, <1>5, GoesOnSeen

LEMMA ActiveFound ==
  ASSUME BaseInv, NEW h \in Handlers, PromptFindsActive(h)
  PROVE  GoesTo(h) /\ UNCHANGED <<received, report>>
<1>1. /\ HandledAs("findActive", message[h], seen[h], Len(runs)) /\ UNCHANGED runs
      /\ message[h].command = "prompt"
  BY HeldAt DEF PromptFindsActive, storeVars
<1>2. PICK w \in Seen, b \in BOOLEAN : w = seen[h] /\ b = (ActiveIn(seen[h].key) # {})
  BY HandlerFacts
<1> DEFINE n == [w EXCEPT !.active = b]
<1>3. /\ n \in Seen /\ n.run = w.run /\ n.key = w.key /\ n.mode = w.mode
      /\ n.conversation = w.conversation
  BY SeenActive DEF SameBut
<1>4. See(h, n) /\ Go(h, "createRun")
  BY <1>2 DEF PromptFindsActive
<1> HIDE DEF n
<1>5. HandledAs("createRun", message[h], n, Len(runs')) /\ "createRun" \in Steps
  BY <1>1, <1>2, <1>3 DEF HandledAs, BindSteps, RunSteps, Steps
<1> QED
  BY <1>2, <1>3, <1>4, <1>5, GoesOnSeen

LEMMA AheadReported ==
  ASSUME BaseInv, NEW h \in Handlers, StatusAhead(h)
  PROVE  /\ GoesTo(h) /\ UNCHANGED received
         /\ report' \in [Chats -> [run : Nat, ahead : Nat]]
         /\ \A c \in Chats : report'[c].run <= Len(runs)
<1>1. GoesTo(h) /\ UNCHANGED received
  BY Ended DEF StatusAhead
<1>2. /\ HandledAs("statusAhead", message[h], seen[h], Len(runs)) /\ seen[h].run \in 0..Len(runs)
      /\ Len(runs) \in Nat /\ Chat(h) \in Chats
  BY HeldAt DEF StatusAhead
<1>3. PICK k \in Keys, r \in 0..Len(runs), b \in BOOLEAN :
        k = seen[h].key /\ r = seen[h].run /\ b = seen[h].active
  BY <1>2, HandlerFacts DEF HandledAs, RunSteps, Seen
<1>4. queue[k] \in Seq(Nat)
  BY DEF BaseInv, QueueTyped
<1>5. PICK n \in Nat : n = AheadCount(k, r, b)
  BY <1>4, AheadIsNat
<1>6. report' = [report EXCEPT ![Chat(h)] = [run |-> r, ahead |-> n]]
  BY <1>3, <1>5 DEF StatusAhead
<1>7. /\ report \in [Chats -> [run : Nat, ahead : Nat]]
      /\ \A c \in Chats : report[c].run <= Len(runs)
  BY DEF BaseInv, HandlersTyped
<1> QED
  BY <1>1, <1>2, <1>6, <1>7

LEMMA ConversationRead ==
  ASSUME BaseInv, NEW h \in Handlers, ReadConversation(h)
  PROVE  GoesTo(h) /\ UNCHANGED <<received, report>>
<1>1. /\ HandledAs("readConversation", message[h], seen[h], Len(runs)) /\ UNCHANGED runs
      /\ Chat(h) \in Chats /\ Chat(h) = message[h].chat
  BY HeldAt DEF ReadConversation, storeVars
<1>2. PICK w \in Seen, v \in Conversation : w = seen[h] /\ v = conversation[Chat(h)]
  BY <1>1, HandlerFacts DEF BaseInv, StoreTyped
<1> DEFINE n == [w EXCEPT !.conversation = v]
<1>3. n \in Seen /\ n.run = w.run /\ n.conversation = v /\ n.mode = w.mode
  BY SeenConversation
<1>4. See(h, n) /\ Go(h, "readBinding") /\ step[h] = "readConversation"
  BY <1>2 DEF ReadConversation, At
<1> HIDE DEF n
<1>5. HandledAs("readBinding", message[h], n, Len(runs')) /\ "readBinding" \in Steps
  BY <1>1, <1>2, <1>3 DEF HandledAs, BindSteps, RunSteps, Steps
<1> QED
  BY <1>1, <1>2, <1>3, <1>4, <1>5, GoesOnSeen

LEMMA RunPushed ==
  ASSUME BaseInv, NEW h \in Handlers, PromptPushesRun(h)
  PROVE  GoesTo(h) /\ UNCHANGED <<received, report>>
<1>1. HandledAs("pushRun", message[h], seen[h], Len(runs)) /\ UNCHANGED runs
  BY HeldAt DEF PromptPushesRun
<1>2. seen[h].key \in Keys
  BY <1>1 DEF HandledAs, RunSteps
<1>3. PICK w \in Seen, p \in Nat : w = seen[h] /\ p = PositionOf(h)
  <2>1. Len(queue[seen[h].key]) \in Nat
    BY <1>2, LenProperties DEF BaseInv, QueueTyped
  <2>2. PICK l \in Nat : l = Len(queue[seen[h].key])
    BY <2>1
  <2>3. PositionOf(h) = l + 0 \/ PositionOf(h) = l + 1
    BY <2>2, Zenon DEF PositionOf
  <2> QED
    BY <2>2, <2>3, HandlerFacts
<1> DEFINE n == [w EXCEPT !.position = p]
<1>4. n \in Seen /\ n.run = w.run /\ n.key = w.key /\ n.conversation = w.conversation
  BY SeenPosition DEF SameBut
<1>5. See(h, n) /\ Go(h, "savePosition")
  BY <1>3 DEF PromptPushesRun
<1> HIDE DEF n
<1>6. HandledAs("savePosition", message[h], n, Len(runs')) /\ "savePosition" \in Steps
  BY <1>1, <1>3, <1>4 DEF HandledAs, BindSteps, RunSteps, Steps
<1> QED
  BY <1>3, <1>4, <1>5, <1>6, GoesOnSeen

LEMMA RunCreated ==
  ASSUME BaseInv, NEW h \in Handlers, PromptCreatesRun(h)
  PROVE  GoesTo(h) /\ UNCHANGED <<received, report>>
<1>1. /\ HandledAs("createRun", message[h], seen[h], Len(runs)) /\ Len(runs) \in Nat
      /\ Len(runs') = Len(runs) + 1
  <2>1. runs \in Seq(Run)
    BY DEF BaseInv, RunsTyped
  <2> QED
    BY <2>1, HeldAt, AppendProperties DEF PromptCreatesRun, CreateQueuedRun
<1>2. PICK w \in Seen : w = seen[h]
  BY HandlerFacts
<1>3. PICK r \in Nat : r = Len(runs) + 1
  BY <1>1
<1> DEFINE n == [w EXCEPT !.run = r]
<1>4. n \in Seen /\ n.run = r /\ n.key = w.key /\ n.conversation = w.conversation
  BY SeenRun
<1>5. See(h, n) /\ Go(h, "pushRun")
  BY <1>2, <1>3 DEF PromptCreatesRun
<1> HIDE DEF n
<1>6. HandledAs("pushRun", message[h], n, Len(runs')) /\ "pushRun" \in Steps
  BY <1>1, <1>2, <1>3, <1>4 DEF HandledAs, BindSteps, RunSteps, Steps
<1> QED
  BY <1>2, <1>4, <1>5, <1>6, GoesOnSeen

(* Every step of a handler is one of these.                                *)
LEMMA HandlerGoes ==
  ASSUME BaseInv, NEW h \in Handlers, HandlerStep(h) \/ CallRejected(h)
  PROVE  /\ GoesTo(h) /\ received' \in 0..MaxMessages
         /\ report' \in [Chats -> [run : Nat, ahead : Nat]]
         /\ \A c \in Chats : report'[c].run <= Len(runs)
<1>1. /\ received \in 0..MaxMessages /\ report \in [Chats -> [run : Nat, ahead : Nat]]
      /\ \A c \in Chats : report[c].run <= Len(runs)
  BY DEF BaseInv, HandlersTyped
<1>2. ASSUME GoesTo(h), UNCHANGED <<received, report>>
      PROVE  /\ GoesTo(h) /\ received' \in 0..MaxMessages
             /\ report' \in [Chats -> [run : Nat, ahead : Nat]]
             /\ \A c \in Chats : report'[c].run <= Len(runs)
  BY <1>1, <1>2
<1>3. CASE CallRejected(h)
  BY <1>2, <1>3, RepliesEnd DEF CallRejected
<1>4. CASE PromptCreatesRun(h)
  BY <1>2, <1>4, RunCreated
<1>5. CASE PromptStep(h)
  <2>1. CASE PromptSavesPosition(h)
    BY <1>2, <2>1, RepliesEnd DEF PromptSavesPosition
  <2> QED
    BY <1>2, <1>5, <2>1, ConversationRead, ActiveFound, RunPushed DEF PromptStep
<1>6. CASE CommandStep(h)
  <2>1. CASE ReceiveMessage(h)
    BY <1>1, <2>1, Received, HandlerFacts
  <2>2. CASE StatusAhead(h)
    BY <1>1, <2>2, AheadReported
  <2>3. CASE SendReply(h) \/ NewReset(h) \/ BindClear(h) \/ ModeReset(h) \/ ModeSet(h)
    BY <1>2, <2>3, RepliesEnd DEF SendReply, NewReset, BindClear, ModeReset, ModeSet
  <2>4. CASE \/ CreateSession(h) \/ ReadBinding(h) \/ SaveResolved(h) \/ ReadOverride(h)
             \/ NewDeleteOverride(h)
    BY <1>2, <2>4, SessionCreated, ReadsBinding, ResolvedSaved, ReadsOverride, OverrideDropped
  <2>5. CASE \/ BindRefusesActive(h) \/ BindResolve(h) \/ BindCreate(h) \/ BindSave(h)
             \/ BindReset(h)
    BY <1>2, <2>5, ActiveRefused, KeyResolved, WorkspaceCreated, BindingSaved, BoundIsReset
  <2>6. CASE StatusLatest(h) \/ StatusActive(h)
    BY <1>2, <2>6, LatestRead, ActiveRead
  <2> QED
    BY <1>6, <2>1, <2>2, <2>3, <2>4, <2>5, <2>6 DEF CommandStep
<1> QED
  BY <1>3, <1>4, <1>5, <1>6 DEF HandlerStep

---------------------------------------------------------------------------
(* The tables.                                                             *)

(* The codex sessions that bindings offer are dropped and never made up.   *)
ConversationsKept ==
  \A c \in Chats : conversation'[c].bridge # 0 =>
    /\ conversation'[c].bridge = conversation[c].bridge
    /\ conversation'[c].workspace = conversation[c].workspace
    /\ conversation'[c].mode = conversation[c].mode

RunsKept ==
  /\ Len(runs) <= Len(runs')
  /\ \A r \in 1..Len(runs) :
       /\ runs'[r].chat = runs[r].chat /\ runs'[r].workspace = runs[r].workspace
       /\ runs'[r].mode = runs[r].mode /\ runs'[r].requested = runs[r].requested

TablesGoOn == StoreTyped' /\ BoundOrNot' /\ ConversationsKept
RunsGoOn == RunsTyped' /\ QueueTyped' /\ RunsKept /\ \A r \in 1..Len(runs') : RunFits(r)'

LEMMA KeptTyped ==
  ASSUME StoreTyped, NEW c \in Chats
  PROVE  /\ Kept(c) \in Conversation
         /\ Kept(c).bridge = conversation[c].bridge /\ Kept(c).mode = conversation[c].mode
<1>1. conversation[c] \in Conversation /\ DefaultKey \in Keys
  BY StoreAssumption DEF StoreTyped
<1> QED
  BY <1>1 DEF Kept, Conversation

LEMMA ResetKept ==
  ASSUME StoreTyped, Len(runs) \in 0..MaxRuns, NEW c \in Chats, MarkBindingReset(c)
  PROVE  conversation' \in [Chats -> Conversation] /\ ConversationsKept
<1>1. PICK v \in Conversation : v = Kept(c)
  BY KeptTyped
<1>2. PICK w \in Conversation : w.bridge = 0
        /\ w = [v EXCEPT !.bridge = 0, !.mode = None, !.status = "reset", !.resetAt = Len(runs)]
  <2>1. 0 \in 0..MaxRuns
    BY StoreAssumption
  <2> QED
    BY <2>1 DEF Conversation
<1>3. conversation' = [conversation EXCEPT ![c] = w] /\ conversation \in [Chats -> Conversation]
  BY <1>1, <1>2 DEF MarkBindingReset, StoreTyped
<1> QED
  BY <1>2, <1>3 DEF ConversationsKept

LEMMA InvalidatedKept ==
  ASSUME StoreTyped, NEW c \in Chats, NEW recovery \in {"none", "failed"},
         MarkBindingInvalidated(c, recovery)
  PROVE  conversation' \in [Chats -> Conversation] /\ ConversationsKept
<1>1. PICK v \in Conversation : v = Kept(c)
  BY KeptTyped
<1>2. PICK w \in Conversation : w.bridge = 0
        /\ w = [v EXCEPT !.bridge = 0, !.mode = None, !.status = "invalidated",
                         !.recovery = IF recovery = "none" THEN @ ELSE recovery]
  <2>1. 0 \in 0..MaxRuns
    BY StoreAssumption
  <2>2. PICK x \in {"none", "recovered", "failed"} :
          x = IF recovery = "none" THEN v.recovery ELSE recovery
    BY DEF Conversation
  <2>3. [v EXCEPT !.bridge = 0, !.mode = None, !.status = "invalidated", !.recovery = x]
          \in Conversation
    BY <2>1 DEF Conversation
  <2> QED
    BY <2>2, <2>3 DEF Conversation
<1>3. conversation' = [conversation EXCEPT ![c] = w] /\ conversation \in [Chats -> Conversation]
  BY <1>1, <1>2 DEF MarkBindingInvalidated, StoreTyped
<1> QED
  BY <1>2, <1>3 DEF ConversationsKept

LEMMA BindingTyped ==
  ASSUME StoreTyped, BoundOrNot, NEW c \in Chats, NEW k \in Keys, NEW s \in Sources,
         SaveBinding(c, k, s)
  PROVE  binding' \in [Chats -> Binding] /\ BoundOrNot'
<1>1. [key |-> k, source |-> s] \in Binding
  BY DEF Binding
<1>2. binding' = [binding EXCEPT ![c] = [key |-> k, source |-> s]] /\ binding \in [Chats -> Binding]
  BY DEF SaveBinding, StoreTyped
<1> QED
  BY <1>1, <1>2 DEF BoundOrNot

LEMMA DroppedTyped ==
  ASSUME StoreTyped, NEW c \in Chats, DeleteOverride(c)
  PROVE  /\ override' \in [Chats -> Override]
         /\ \A d \in Chats : override'[d].workspace # None => override'[d].mode \in Modes
<1>1. NoOverride \in Override /\ NoOverride.workspace = None
  BY Blanks DEF NoOverride
<1> QED
  BY <1>1 DEF DeleteOverride, StoreTyped

LEMMA UpsertTyped ==
  ASSUME StoreTyped, NEW c \in Chats, NEW k \in Keys, NEW m \in Modes, UpsertOverride(c, k, m)
  PROVE  /\ override' \in [Chats -> Override]
         /\ \A d \in Chats : override'[d].workspace # None => override'[d].mode \in Modes
<1>1. PICK o \in Override : o = [workspace |-> k, mode |-> m, expiresAt |-> clock + OverrideTtl]
  <2>1. clock + OverrideTtl \in Nat
    BY StoreAssumption DEF StoreTyped
  <2> QED
    BY <2>1 DEF Override
<1> QED
  BY <1>1 DEF UpsertOverride, StoreTyped

LEMMA SameTables ==
  ASSUME StoreTyped, BoundOrNot, UNCHANGED <<clock, sessions, binding, catalog, override, conversation>>
  PROVE  TablesGoOn
<1> QED
  BY DEF TablesGoOn, StoreTyped, BoundOrNot, ConversationsKept

LEMMA HandlerTables ==
  ASSUME BaseInv, NEW h \in Handlers, HandlerStep(h) \/ CallRejected(h)
  PROVE  TablesGoOn
<1>1. StoreTyped /\ BoundOrNot /\ Len(runs) \in 0..MaxRuns
  <2>1. Len(runs) \in Nat /\ Len(runs) <= MaxRuns
    BY HandlerFacts DEF BaseInv, RunsTyped
  <2> QED
    BY <2>1, StoreAssumption DEF BaseInv
<1>2. CASE \/ CallRejected(h) \/ PromptCreatesRun(h) \/ PromptStep(h) \/ ReceiveMessage(h)
           \/ SendReply(h) \/ ReadBinding(h) \/ ReadOverride(h) \/ BindRefusesActive(h)
           \/ BindResolve(h) \/ StatusLatest(h) \/ StatusActive(h) \/ StatusAhead(h)
  <2>1. UNCHANGED <<clock, sessions, binding, catalog, override, conversation>>
    BY <1>2
    DEF storeVars, CallRejected, PromptCreatesRun, PromptStep, ReadConversation, PromptFindsActive,
        PromptPushesRun, PromptSavesPosition, ReceiveMessage, SendReply, ReadBinding,
        ReadOverride, BindRefusesActive, BindResolve, StatusLatest, StatusActive, StatusAhead
  <2> QED
    BY <1>1, <2>1, SameTables
<1>3. CASE CreateSession(h)
  <2>1. Chat(h) \in Chats
    BY <1>3, HeldAt DEF CreateSession
  <2> QED
    BY <1>1, <1>3, <2>1 DEF CreateSession, TablesGoOn, StoreTyped, BoundOrNot, ConversationsKept
<1>4. CASE SaveResolved(h)
  <2>1. /\ Chat(h) \in Chats /\ seen[h].key \in Keys /\ seen[h].source \in Sources
    BY <1>4, HeldAt, HandlerFacts DEF SaveResolved, HandledAs, Seen
  <2>2. binding' \in [Chats -> Binding] /\ BoundOrNot'
    BY <1>1, <1>4, <2>1, BindingTyped DEF SaveResolved, StoreTyped, BoundOrNot
  <2> QED
    BY <1>1, <1>4, <2>2 DEF SaveResolved, TablesGoOn, StoreTyped, ConversationsKept
<1>5. CASE NewDeleteOverride(h) \/ BindClear(h) \/ ModeReset(h)
  <2>1. Chat(h) \in Chats /\ DeleteOverride(Chat(h))
        /\ UNCHANGED <<clock, sessions, binding, catalog, conversation>>
    BY <1>5, HeldAt DEF NewDeleteOverride, BindClear, ModeReset
  <2>2. /\ override' \in [Chats -> Override]
        /\ \A d \in Chats : override'[d].workspace # None => override'[d].mode \in Modes
    BY <1>1, <2>1, DroppedTyped
  <2> QED
    BY <1>1, <2>1, <2>2 DEF TablesGoOn, StoreTyped, BoundOrNot, ConversationsKept
<1>6. CASE ModeSet(h)
  <2>1. Chat(h) \in Chats /\ seen[h].key \in Keys /\ message[h].arg \in Modes
    BY <1>6, HeldAt DEF ModeSet, HandledAs
  <2>2. UpsertOverride(Chat(h), seen[h].key, message[h].arg)
        /\ UNCHANGED <<clock, sessions, binding, catalog, conversation>>
    BY <1>6 DEF ModeSet
  <2>3. /\ override' \in [Chats -> Override]
        /\ \A d \in Chats : override'[d].workspace # None => override'[d].mode \in Modes
    BY <1>1, <2>1, <2>2, UpsertTyped
  <2> QED
    BY <1>1, <2>2, <2>3 DEF TablesGoOn, StoreTyped, BoundOrNot, ConversationsKept
<1>7. CASE NewReset(h) \/ BindReset(h)
  <2>1. Chat(h) \in Chats /\ UNCHANGED <<clock, sessions, binding, catalog, override>>
    BY <1>7, HeldAt DEF NewReset, BindReset
  <2>2. CASE UNCHANGED conversation
    BY <1>1, <2>1, <2>2, SameTables
  <2>3. CASE MarkBindingReset(Chat(h))
    <3>1. conversation' \in [Chats -> Conversation] /\ ConversationsKept
      BY <1>1, <2>1, <2>3, ResetKept
    <3> QED
      BY <1>1, <2>1, <3>1 DEF TablesGoOn, StoreTyped, BoundOrNot
  <2> QED
    BY <1>7, <2>2, <2>3 DEF NewReset, BindReset
<1>8. CASE BindCreate(h)
  <2>1. message[h].arg \in Keys
    BY <1>8, HeldAt DEF BindCreate, HandledAs, BindSteps
  <2> QED
    BY <1>1, <1>8, <2>1
    DEF BindCreate, CreateEntry, TablesGoOn, StoreTyped, BoundOrNot, ConversationsKept
<1>9. CASE BindSave(h)
  <2>1. step[h] \in {"bindManual", "bindCreated"} /\ HandledAs(step[h], message[h], seen[h], Len(runs))
        /\ Chat(h) \in Chats
    BY <1>9, HandlerFacts DEF BindSave
  <2>2. PICK s \in Sources : s = IF At(h, "bindManual") THEN "manual" ELSE "created"
    BY DEF Sources
  <2>3. message[h].arg \in Keys
    BY <2>1 DEF HandledAs, BindSteps
  <2>4. SaveBinding(Chat(h), message[h].arg, s)
        /\ UNCHANGED <<clock, sessions, catalog, override, conversation>>
    BY <1>9, <2>2 DEF BindSave
  <2>5. binding' \in [Chats -> Binding] /\ BoundOrNot'
    BY <1>1, <2>1, <2>3, <2>4, BindingTyped
  <2> QED
    BY <1>1, <2>4, <2>5 DEF TablesGoOn, StoreTyped, ConversationsKept
<1> QED
  BY <1>2, <1>3, <1>4, <1>5, <1>6, <1>7, <1>8, <1>9 DEF HandlerStep, CommandStep

---------------------------------------------------------------------------
(* The runs and their queues.                                              *)

LEMMA RunFacts ==
  ASSUME FitsInv
  PROVE  /\ Len(runs) \in Nat /\ DOMAIN runs = 1..Len(runs) /\ runs \in Seq(Run)
         /\ Len(runs) <= MaxRuns /\ MaxRuns \in Nat
         /\ phase \in Seq(Phases) /\ Len(phase) = Len(runs)
         /\ returned \in Seq(Nat) /\ Len(returned) = Len(runs)
         /\ \A r \in 1..Len(runs) :
              runs[r] \in Run /\ RunFits(r) /\ returned[r] \in Nat /\ phase[r] \in Phases
<1>1. runs \in Seq(Run) /\ phase \in Seq(Phases) /\ Len(phase) = Len(runs)
      /\ returned \in Seq(Nat) /\ Len(returned) = Len(runs) /\ Len(runs) <= MaxRuns
  BY DEF FitsInv, BaseInv, RunsTyped
<1> QED
  BY <1>1, LenProperties, ElementOfSeq, StoreAssumption DEF FitsInv

LEMMA StatusOfPhase ==
  ASSUME FitsInv, NEW r \in 1..Len(runs)
  PROVE  /\ phase[r] \in {"queued", "popped"} => runs[r].status = "queued"
         /\ phase[r] \in Fresh \cup Retrying => runs[r].status # "queued"
         /\ runs[r].status \in {"queued", "running", "ended"}
<1>1. runs[r] \in Run
  BY RunFacts
<1> QED
  BY <1>1 DEF FitsInv, BaseInv, RunsTyped, Run

(* The controller enters a phase of a run.                                 *)
LEMMA Entered ==
  ASSUME FitsInv, NEW r \in 1..Len(runs), NEW to \in Phases, Enter(r, to)
  PROVE  /\ phase' \in Seq(Phases) /\ Len(phase') = Len(phase)
         /\ \A q \in 1..Len(runs) : phase'[q] = IF q = r THEN to ELSE phase[q]
<1>1. phase \in Seq(Phases) /\ r \in 1..Len(phase)
  BY RunFacts
<1> QED
  BY <1>1, ExceptSeq, RunFacts DEF Enter

LEMMA Marked ==
  ASSUME FitsInv, NEW r \in 1..Len(runs), NEW s \in {"queued", "running", "ended"}, MarkRun(r, s)
  PROVE  /\ runs' \in Seq(Run) /\ Len(runs') = Len(runs) /\ RunsKept
         /\ \A q \in 1..Len(runs) : runs'[q].status = IF q = r THEN s ELSE runs[q].status
<1>1. runs \in Seq(Run) /\ runs[r] \in Run
  BY RunFacts
<1>2. PICK v \in Run : v = [runs[r] EXCEPT !.status = s]
  BY <1>1 DEF Run
<1>3. /\ v.status = s /\ v.chat = runs[r].chat /\ v.workspace = runs[r].workspace
      /\ v.mode = runs[r].mode /\ v.requested = runs[r].requested
  BY <1>1, <1>2 DEF Run
<1>4. runs' = [runs EXCEPT ![r] = v]
  BY <1>2 DEF MarkRun
<1>5. /\ runs' \in Seq(Run) /\ Len(runs') = Len(runs)
      /\ \A q \in 1..Len(runs) : runs'[q] = IF q = r THEN v ELSE runs[q]
  BY <1>1, <1>4, ExceptSeq
<1>6. ASSUME NEW q \in 1..Len(runs)
      PROVE  /\ runs'[q].status = IF q = r THEN s ELSE runs[q].status
             /\ runs'[q].chat = runs[q].chat /\ runs'[q].workspace = runs[q].workspace
             /\ runs'[q].mode = runs[q].mode /\ runs'[q].requested = runs[q].requested
  <2>1. CASE q = r
    BY <2>1, <1>3, <1>5
  <2>2. CASE q # r
    BY <2>2, <1>5
  <2> QED
    BY <2>1, <2>2
<1>7. Len(runs) \in Nat
  BY RunFacts
<1>8. RunsKept
  BY <1>5, <1>6, <1>7 DEF RunsKept
<1> QED
  BY <1>5, <1>6, <1>8

LEMMA PositionSaved ==
  ASSUME FitsInv, NEW r \in 1..Len(runs), NEW n \in Nat, UpdateQueuePosition(r, n)
  PROVE  /\ runs' \in Seq(Run) /\ Len(runs') = Len(runs) /\ RunsKept
         /\ \A q \in 1..Len(runs) : runs'[q].status = runs[q].status
<1>1. runs \in Seq(Run) /\ runs[r] \in Run
  BY RunFacts
<1>2. PICK v \in Run : v = [runs[r] EXCEPT !.position = n]
  BY <1>1 DEF Run
<1>3. /\ v.status = runs[r].status /\ v.chat = runs[r].chat /\ v.workspace = runs[r].workspace
      /\ v.mode = runs[r].mode /\ v.requested = runs[r].requested
  BY <1>1, <1>2 DEF Run
<1>4. runs' = [runs EXCEPT ![r] = v]
  BY <1>2 DEF UpdateQueuePosition
<1>5. /\ runs' \in Seq(Run) /\ Len(runs') = Len(runs)
      /\ \A q \in 1..Len(runs) : runs'[q] = IF q = r THEN v ELSE runs[q]
  BY <1>1, <1>4, ExceptSeq
<1>6. ASSUME NEW q \in 1..Len(runs)
      PROVE  /\ runs'[q].status = runs[q].status
             /\ runs'[q].chat = runs[q].chat /\ runs'[q].workspace = runs[q].workspace
             /\ runs'[q].mode = runs[q].mode /\ runs'[q].requested = runs[q].requested
  <2>1. CASE q = r
    BY <2>1, <1>3, <1>5
  <2>2. CASE q # r
    BY <2>2, <1>5
  <2> QED
    BY <2>1, <2>2
<1>7. Len(runs) \in Nat
  BY RunFacts
<1>8. RunsKept
  BY <1>5, <1>6, <1>7 DEF RunsKept
<1> QED
  BY <1>5, <1>6, <1>8

(* Runs of which only the status or the position changes.                  *)
LEMMA SameRunsFit ==
  ASSUME FitsInv, Len(runs') = Len(runs), RunsKept,
         \A r \in 1..Len(runs) : returned'[r] \in {0, r, runs[r].requested}
  PROVE  \A r \in 1..Len(runs') : RunFits(r)'
<1> SUFFICES ASSUME NEW r \in 1..Len(runs) PROVE RunFits(r)'
  OBVIOUS
<1>1. RunFits(r) /\ r \in 1..Len(runs) /\ Len(runs) \in Nat
  BY RunFacts
<1>2. PICK s : s = runs[r].requested
  OBVIOUS
<1>3. s # 0 => s \in 1..Len(runs)
  BY <1>1, <1>2 DEF RunFits
<1> QED
  BY <1>1, <1>2, <1>3 DEF RunFits, RunsKept

LEMMA NothingRuns ==
  ASSUME FitsInv, UNCHANGED <<runs, queue, phase, returned>>
  PROVE  RunsGoOn
<1>1. RunsTyped' /\ QueueTyped'
  BY DEF FitsInv, BaseInv, RunsTyped, QueueTyped
<1>2. RunsKept /\ \A r \in 1..Len(runs') : RunFits(r)'
  BY RunFacts DEF RunsKept, RunFits
<1> QED
  BY <1>1, <1>2 DEF RunsGoOn

LEMMA RunAdded ==
  ASSUME FitsInv, NEW h \in Handlers, PromptCreatesRun(h), phase' = Append(phase, "queued"),
         returned' = Append(returned, 0)
  PROVE  /\ RunsGoOn /\ phase'[Len(runs) + 1] = "queued"
         /\ \A q \in 1..Len(runs) : runs'[q] = runs[q] /\ phase'[q] = phase[q]
         /\ Len(runs') = Len(runs) + 1 /\ runs'[Len(runs) + 1].chat = Chat(h)
         /\ runs'[Len(runs) + 1].requested \in {0, seen[h].conversation.bridge}
         /\ runs'[Len(runs) + 1].workspace = seen[h].key
<1>1. /\ HandledAs("createRun", message[h], seen[h], Len(runs)) /\ Chat(h) \in Chats
      /\ Chat(h) = message[h].chat /\ step[h] # "idle" /\ seen[h] \in Seen
  BY HeldAt, HandlerFacts DEF PromptCreatesRun, At, FitsInv
<1>2. PICK k \in Keys, m \in Modes : k = seen[h].key /\ m = seen[h].mode
  BY <1>1 DEF HandledAs
<1>3. Fits(seen[h].conversation, Chat(h)) /\ seen[h].conversation \in Conversation
  BY <1>1 DEF FitsInv, Seen
<1>4. PICK s \in 0..MaxRuns :
        /\ s = ResolveRequestedSession(seen[h]) /\ s \in {0, seen[h].conversation.bridge}
        /\ s # 0 => /\ s \in 1..Len(runs) /\ runs[s].chat = Chat(h)
                    /\ runs[s].workspace = k /\ runs[s].mode = m
  BY <1>2, <1>3, StoreAssumption DEF ResolveRequestedSession, Fits, Conversation
<1>5. PICK v \in Run :
        /\ v = [chat |-> Chat(h), workspace |-> k, mode |-> m, requested |-> s,
                status |-> "queued", position |-> -1]
        /\ v.chat = Chat(h) /\ v.workspace = k /\ v.mode = m /\ v.requested = s
        /\ v.status = "queued"
  <2> DEFINE w == [chat |-> Chat(h), workspace |-> k, mode |-> m, requested |-> s,
                   status |-> "queued", position |-> -1]
  <2>1. w \in Run
    BY <1>1 DEF Run
  <2> QED
    BY <2>1
<1>6. runs' = Append(runs, v) /\ Len(runs) < MaxRuns /\ queue' = queue
  BY <1>2, <1>4, <1>5 DEF PromptCreatesRun, CreateQueuedRun
<1>7. /\ runs' \in Seq(Run) /\ Len(runs') = Len(runs) + 1 /\ runs'[Len(runs) + 1] = v
      /\ \A q \in 1..Len(runs) : runs'[q] = runs[q]
  BY <1>6, RunFacts, AppendProperties
<1>8. /\ phase' \in Seq(Phases) /\ Len(phase') = Len(runs) + 1 /\ phase'[Len(runs) + 1] = "queued"
      /\ \A q \in 1..Len(runs) : phase'[q] = phase[q]
  <2>1. "queued" \in Phases
    BY DEF Phases
  <2> QED
    BY <2>1, RunFacts, AppendProperties
<1>9. /\ returned' \in Seq(Nat) /\ Len(returned') = Len(runs) + 1 /\ returned'[Len(runs) + 1] = 0
      /\ \A q \in 1..Len(runs) : returned'[q] = returned[q]
  BY RunFacts, AppendProperties
<1>10. Len(runs) \in Nat /\ Len(runs') <= MaxRuns
  BY <1>6, <1>7, RunFacts
<1>11. RunsTyped'
  <2>1. \A r \in 1..Len(runs') :
          /\ phase'[r] \in {"queued", "popped"} => runs'[r].status = "queued"
          /\ phase'[r] \in Fresh \cup Retrying => runs'[r].status # "queued"
    BY <1>5, <1>7, <1>8, <1>10, StatusOfPhase DEF Fresh, Retrying
  <2> QED
    BY <1>7, <1>8, <1>9, <1>10, <2>1 DEF RunsTyped
<1>12. QueueTyped'
  BY <1>6, <1>7, <1>10 DEF FitsInv, BaseInv, QueueTyped
<1>13. ASSUME NEW r \in 1..Len(runs') PROVE RunFits(r)'
  <2>1. CASE r = Len(runs) + 1
    BY <1>4, <1>5, <1>7, <1>9, <1>10, <2>1 DEF RunFits
  <2>2. CASE r \in 1..Len(runs)
    <3>1. RunFits(r)
      BY <2>2, RunFacts
    <3>2. PICK t : t = runs[r].requested /\ t = runs'[r].requested
      BY <1>7, <2>2
    <3>3. t # 0 => t \in 1..Len(runs)
      BY <1>10, <2>2, <3>1, <3>2 DEF RunFits
    <3> QED
      BY <1>7, <1>9, <2>2, <3>1, <3>2, <3>3 DEF RunFits
  <2> QED
    BY <1>7, <1>10, <2>1, <2>2
<1>14. RunsKept
  BY <1>7, <1>10 DEF RunsKept
<1> QED
  BY <1>2, <1>4, <1>5, <1>7, <1>8, <1>11, <1>12, <1>13, <1>14 DEF RunsGoOn

LEMMA HandlerRuns ==
  ASSUME FitsInv, NEW h \in Handlers, HandlerStep(h) \/ CallRejected(h)
  PROVE  RunsGoOn
<1>1. CASE PromptCreatesRun(h) /\ phase' = Append(phase, "queued") /\ returned' = Append(returned, 0)
  BY <1>1, RunAdded
<1>2. CASE PromptPushesRun(h) /\ UNCHANGED <<phase, returned>>
  <2>1. /\ HandledAs("pushRun", message[h], seen[h], Len(runs)) /\ seen[h].run \in 0..Len(runs)
        /\ UNCHANGED runs /\ Len(runs) \in Nat
    BY <1>2, HeldAt DEF PromptPushesRun, FitsInv
  <2>2. PICK k \in Keys, r \in 1..Len(runs) :
          k = seen[h].key /\ r = seen[h].run /\ queue' = [queue EXCEPT ![k] = Append(queue[k], r)]
    <3>1. seen[h].key \in Keys /\ seen[h].run \in 1..Len(runs)
      BY <2>1 DEF HandledAs, RunSteps
    <3>2. queue' = [queue EXCEPT ![seen[h].key] = Append(queue[seen[h].key], seen[h].run)]
      BY <1>2 DEF PromptPushesRun, Enqueue
    <3> QED
      BY <3>1, <3>2
  <2>3. queue \in [Keys -> Seq(Nat)] /\ \A i \in 1..Len(queue[k]) : queue[k][i] \in 1..Len(runs)
    BY DEF FitsInv, BaseInv, QueueTyped
  <2>4. /\ Append(queue[k], r) \in Seq(Nat) /\ Len(Append(queue[k], r)) = Len(queue[k]) + 1
        /\ \A i \in 1..Len(queue[k]) : Append(queue[k], r)[i] = queue[k][i]
        /\ Append(queue[k], r)[Len(queue[k]) + 1] = r /\ Len(queue[k]) \in Nat
    BY <2>3, AppendProperties, LenProperties
  <2>5. QueueTyped'
    <3>1. queue' \in [Keys -> Seq(Nat)]
      BY <2>2, <2>3, <2>4
    <3>2. \A i \in 1..Len(queue'[k]) : queue'[k][i] \in 1..Len(runs)
      BY <2>2, <2>3, <2>4
    <3>3. \A l \in Keys : l # k => queue'[l] = queue[l]
      BY <2>2, <2>3
    <3> QED
      BY <2>1, <3>1, <3>2, <3>3 DEF QueueTyped, FitsInv, BaseInv
  <2>6. RunsTyped' /\ RunsKept /\ \A r1 \in 1..Len(runs') : RunFits(r1)'
    <3>1. UNCHANGED <<runs, phase, returned>>
      BY <1>2, <2>1
    <3> QED
      BY <3>1, RunFacts DEF RunsKept, RunFits, RunsTyped, FitsInv, BaseInv
  <2> QED
    BY <2>5, <2>6 DEF RunsGoOn
<1>3. CASE PromptSavesPosition(h) /\ UNCHANGED <<phase, returned>>
  <2>1. /\ HandledAs("savePosition", message[h], seen[h], Len(runs)) /\ seen[h].run \in 0..Len(runs)
        /\ UNCHANGED queue /\ Len(runs) \in Nat /\ seen[h].position \in Nat
    BY <1>3, HeldAt, HandlerFacts DEF PromptSavesPosition, FitsInv, Seen
  <2>2. seen[h].run \in 1..Len(runs)
    BY <2>1 DEF HandledAs, RunSteps
  <2>3. /\ runs' \in Seq(Run) /\ Len(runs') = Len(runs) /\ RunsKept
        /\ \A q \in 1..Len(runs) : runs'[q].status = runs[q].status
    BY <1>3, <2>1, <2>2, PositionSaved DEF PromptSavesPosition
  <2>4. RunsTyped' /\ QueueTyped'
    BY <1>3, <2>1, <2>3 DEF RunsTyped, QueueTyped, FitsInv, BaseInv
  <2>5. \A r \in 1..Len(runs) : returned'[r] \in {0, r, runs[r].requested}
    BY <1>3, RunFacts DEF RunFits
  <2> QED
    BY <2>3, <2>4, <2>5, SameRunsFit DEF RunsGoOn
<1>4. CASE \/ CallRejected(h)
           \/ (CommandStep(h) \/ ReadConversation(h) \/ PromptFindsActive(h))
                /\ UNCHANGED <<phase, returned>>
  <2>1. CommandStep(h) => UNCHANGED <<runs, queue>>
    BY DEF CommandStep, storeVars, ReceiveMessage, CreateSession, SendReply, ReadBinding, SaveResolved,
           ReadOverride, NewDeleteOverride, NewReset, BindRefusesActive, BindResolve, BindCreate,
           BindSave, BindReset, BindClear, ModeReset, ModeSet, StatusLatest, StatusActive, StatusAhead
  <2>2. UNCHANGED <<runs, queue, phase, returned>>
    BY <1>4, <2>1 DEF CallRejected, ReadConversation, PromptFindsActive, storeVars
  <2> QED
    BY <2>2, NothingRuns
<1> QED
  BY <1>1, <1>2, <1>3, <1>4 DEF HandlerStep, PromptStep

---------------------------------------------------------------------------
(* Sessions of codex and the runs that made them.                          *)

LEMMA FitStays ==
  ASSUME FitsInv, RunsKept, NEW v, NEW c, Fits(v, c), Len(runs') \in Nat
  PROVE  v.bridge # 0 =>
           /\ v.bridge \in 1..Len(runs')
           /\ runs'[v.bridge].chat = c
           /\ runs'[v.bridge].workspace = v.workspace
           /\ runs'[v.bridge].mode = v.mode
<1>1. PICK b : b = v.bridge
  OBVIOUS
<1> QED
  BY <1>1, RunFacts DEF Fits, RunsKept

LEMMA ConversationsFit ==
  ASSUME FitsInv, RunsKept, ConversationsKept, Len(runs') \in Nat
  PROVE  \A c \in Chats : Fits(conversation[c], c)'
<1> SUFFICES ASSUME NEW c \in Chats PROVE Fits(conversation[c], c)'
  OBVIOUS
<1>1. CASE conversation'[c].bridge = 0
  BY <1>1 DEF Fits
<1>2. CASE conversation'[c].bridge # 0
  <2>1. PICK v : v = conversation[c] /\ Fits(v, c)
    BY DEF FitsInv
  <2>2. v.bridge # 0 =>
           /\ v.bridge \in 1..Len(runs') /\ runs'[v.bridge].chat = c
           /\ runs'[v.bridge].workspace = v.workspace /\ runs'[v.bridge].mode = v.mode
    BY <2>1, FitStays
  <2> QED
    BY <1>2, <2>1, <2>2 DEF ConversationsKept, Fits
<1> QED
  BY <1>1, <1>2

(* What a handler has read fits, as long as it is at work.                 *)
HandlersFit == \A h \in Handlers : step[h] # "idle" => Fits(seen[h].conversation, message[h].chat)

LEMMA HandlersStillFit ==
  ASSUME FitsInv, NEW h \in Handlers, GoesTo(h), RunsKept, Len(runs') \in Nat
  PROVE  HandlersFit'
<1>1. PICK s \in Steps, n \in Seen : \E m :
    /\ Moved(h, s, m, n)
    /\ s # "idle" /\ step[h] # "idle" => m = message[h]
    /\ s # "idle" =>
         \/ n.conversation = seen[h].conversation
         \/ step[h] = "readConversation" /\ n.conversation = conversation[message[h].chat]
  BY DEF GoesTo
<1>2. PICK m :
    /\ Moved(h, s, m, n)
    /\ s # "idle" /\ step[h] # "idle" => m = message[h]
    /\ s # "idle" =>
         \/ n.conversation = seen[h].conversation
         \/ step[h] = "readConversation" /\ n.conversation = conversation[message[h].chat]
  BY <1>1
<1> SUFFICES ASSUME NEW g \in Handlers, step'[g] # "idle"
             PROVE  Fits(seen[g].conversation, message[g].chat)'
  BY DEF HandlersFit
<1>3. CASE g # h
  <2>1. PICK v, c : v = seen[g].conversation /\ c = message[g].chat
    OBVIOUS
  <2>2. step'[g] = step[g] /\ message'[g] = message[g] /\ seen'[g] = seen[g]
    BY <1>2, <1>3 DEF Moved
  <2>3. Fits(v, c)
    BY <2>1, <2>2 DEF FitsInv
  <2>4. v.bridge # 0 =>
           /\ v.bridge \in 1..Len(runs') /\ runs'[v.bridge].chat = c
           /\ runs'[v.bridge].workspace = v.workspace /\ runs'[v.bridge].mode = v.mode
    BY <2>3, FitStays
  <2> QED
    BY <2>1, <2>2, <2>4 DEF Fits
<1>4. CASE g = h
  <2>1. step'[h] = s /\ message'[h] = m /\ seen'[h] = n /\ s # "idle"
    BY <1>2, <1>4 DEF Moved
  <2>2. CASE step[h] = "idle"
    <3>1. seen[h] = NothingSeen
      BY <2>2 DEF FitsInv, BaseInv, Handled, HandledAs
    <3>2. n.conversation.bridge = 0
      BY <1>2, <2>1, <2>2, <3>1 DEF NothingSeen, NoConversation
    <3> QED
      BY <1>4, <2>1, <3>2 DEF Fits
  <2>3. CASE step[h] # "idle"
    <3>1. PICK v, c : v = n.conversation /\ c = message[h].chat
      OBVIOUS
    <3>2. m = message[h] /\ c \in Chats
      BY <1>2, <2>1, <2>3, <3>1, HandlerFacts DEF FitsInv
    <3>3. Fits(v, c)
      BY <1>2, <2>1, <2>3, <3>1, <3>2 DEF FitsInv
    <3>4. v.bridge # 0 =>
             /\ v.bridge \in 1..Len(runs') /\ runs'[v.bridge].chat = c
             /\ runs'[v.bridge].workspace = v.workspace /\ runs'[v.bridge].mode = v.mode
      BY <3>3, FitStays
    <3> QED
      BY <1>4, <2>1, <3>1, <3>2, <3>4 DEF Fits
  <2> QED
    BY <2>2, <2>3
<1> QED
  BY <1>3, <1>4

(* The invariant after a step, from its parts.                             *)
LEMMA FitsParts ==
  ASSUME StoreTyped', RunsTyped', HandlersTyped', QueueTyped', BoundOrNot',
         (\A h \in Handlers : Handled(h))', mishaps' \in 0..MaxMishaps,
         (\A c \in Chats : Fits(conversation[c], c))', HandlersFit',
         (\A r \in 1..Len(runs) : RunFits(r))'
  PROVE  FitsInv'
<1> QED
  BY DEF FitsInv, BaseInv, HandlersFit

LEMMA HandlerFits ==
  ASSUME FitsInv, NEW h \in Handlers, HandlerStep(h) \/ CallRejected(h)
  PROVE  FitsInv'
<1>1. BaseInv /\ TablesGoOn /\ RunsGoOn /\ GoesTo(h) /\ received' \in 0..MaxMessages
      /\ report' \in [Chats -> [run : Nat, ahead : Nat]]
      /\ \A c \in Chats : report'[c].run <= Len(runs)
  <2>1. BaseInv
    BY DEF FitsInv
  <2> QED
    BY <2>1, HandlerTables, HandlerRuns, HandlerGoes
<1>2. StoreTyped' /\ BoundOrNot' /\ ConversationsKept
  BY <1>1 DEF TablesGoOn
<1>3. RunsTyped' /\ QueueTyped' /\ RunsKept /\ (\A r \in 1..Len(runs) : RunFits(r))'
  BY <1>1 DEF RunsGoOn
<1>4. Len(runs') \in Nat /\ Len(runs) \in Nat /\ Len(runs) <= Len(runs')
  BY <1>3, RunFacts, LenProperties DEF RunsTyped, RunsKept
<1>5. (\A g \in Handlers : Handled(g))'
  <2>1. PICK s \in Steps, n \in Seen : \E m : Moved(h, s, m, n) /\ HandledAs(s, m, n, Len(runs'))
    BY <1>1 DEF GoesTo
  <2> QED
    BY <1>1, <1>4, <2>1, MovedBase
<1>6. HandlersTyped'
  <2>1. step' \in [Handlers -> Steps] /\ DOMAIN message' = Handlers /\ seen' \in [Handlers -> Seen]
    BY <1>1 DEF GoesTo, Moved
  <2>2. \A c \in Chats : report'[c].run <= Len(runs')
    <3> SUFFICES ASSUME NEW c \in Chats PROVE report'[c].run <= Len(runs')
      OBVIOUS
    <3>1. report'[c].run \in Nat /\ report'[c].run <= Len(runs)
      BY <1>1
    <3> QED
      BY <1>4, <3>1
  <2> QED
    BY <1>1, <2>1, <2>2 DEF HandlersTyped
<1>7. mishaps' \in 0..MaxMishaps
  BY MishapAssumption DEF HandlerStep, CallRejected, FitsInv, BaseInv
<1>8. (\A c \in Chats : Fits(conversation[c], c))'
  BY <1>2, <1>3, <1>4, ConversationsFit
<1>9. HandlersFit'
  BY <1>1, <1>3, <1>4, HandlersStillFit
<1> QED
  BY <1>2, <1>3, <1>5, <1>6, <1>7, <1>8, <1>9, FitsParts

(* The controller, on the tables and the runs.                             *)
ControllerGoesOn ==
  RunsGoOn /\ StoreTyped' /\ UNCHANGED binding /\ Len(runs') = Len(runs)
    /\ (\A c \in Chats : Fits(conversation[c], c))'

(* A run comes to another phase, or its row to another status.             *)
LEMMA RunsTypedAgain ==
  ASSUME FitsInv, NEW r \in 1..Len(runs), NEW s \in {"queued", "running", "ended"},
         NEW to \in Phases, Enter(r, to),
         (runs' = runs /\ s = runs[r].status) \/ MarkRun(r, s),
         to \in {"queued", "popped"} => s = "queued", to \in Fresh \cup Retrying => s # "queued",
         returned' \in Seq(Nat), Len(returned') = Len(returned),
         \A q \in 1..Len(runs) : returned'[q] \in {0, q, runs[q].requested}
  PROVE  /\ RunsTyped' /\ RunsKept /\ Len(runs') = Len(runs)
         /\ \A q \in 1..Len(runs') : RunFits(q)'
<1>1. /\ phase' \in Seq(Phases) /\ Len(phase') = Len(phase)
      /\ \A q \in 1..Len(runs) : phase'[q] = IF q = r THEN to ELSE phase[q]
  BY Entered
<1>2. /\ runs' \in Seq(Run) /\ Len(runs') = Len(runs) /\ RunsKept
      /\ \A q \in 1..Len(runs) : runs'[q].status = IF q = r THEN s ELSE runs[q].status
  <2>1. CASE MarkRun(r, s)
    BY <2>1, Marked
  <2>2. CASE runs' = runs /\ s = runs[r].status
    BY <2>2, RunFacts DEF RunsKept
  <2> QED
    BY <2>1, <2>2
<1>3. \A q \in 1..Len(runs) :
        /\ phase'[q] \in {"queued", "popped"} => runs'[q].status = "queued"
        /\ phase'[q] \in Fresh \cup Retrying => runs'[q].status # "queued"
  BY <1>1, <1>2, StatusOfPhase
<1>4. RunsTyped'
  BY <1>1, <1>2, <1>3, RunFacts DEF RunsTyped
<1> QED
  BY <1>2, <1>4, SameRunsFit

LEMMA ReturnedKept ==
  ASSUME FitsInv, UNCHANGED returned
  PROVE  /\ returned' \in Seq(Nat) /\ Len(returned') = Len(returned)
         /\ \A q \in 1..Len(runs) : returned'[q] \in {0, q, runs[q].requested}
<1> QED
  BY RunFacts DEF RunFits

LEMMA QueueStays ==
  ASSUME FitsInv, UNCHANGED queue, Len(runs') = Len(runs)
  PROVE  QueueTyped'
<1> QED
  BY DEF FitsInv, BaseInv, QueueTyped

LEMMA PhaseStays ==
  ASSUME FitsInv, NEW r \in 1..Len(runs), UNCHANGED phase
  PROVE  Enter(r, phase[r])
<1>1. phase \in Seq(Phases)
  BY RunFacts
<1> QED
  BY <1>1 DEF Enter

(* A step that leaves the tables of the chats alone.                       *)
LEMMA OnlyRunsMove ==
  ASSUME FitsInv, NEW r \in 1..Len(runs), NEW s \in {"queued", "running", "ended"},
         NEW to \in Phases, Enter(r, to),
         (runs' = runs /\ s = runs[r].status) \/ MarkRun(r, s),
         to \in {"queued", "popped"} => s = "queued", to \in Fresh \cup Retrying => s # "queued",
         returned' \in Seq(Nat), Len(returned') = Len(returned),
         \A q \in 1..Len(runs) : returned'[q] \in {0, q, runs[q].requested},
         UNCHANGED <<clock, sessions, binding, catalog, override, conversation>>,
         UNCHANGED queue \/ QueueTyped'
  PROVE  ControllerGoesOn
<1>1. RunsTyped' /\ RunsKept /\ Len(runs') = Len(runs) /\ \A q \in 1..Len(runs') : RunFits(q)'
  BY RunsTypedAgain
<1>2. QueueTyped' /\ StoreTyped' /\ ConversationsKept /\ UNCHANGED binding
  BY <1>1, QueueStays DEF StoreTyped, FitsInv, BaseInv, ConversationsKept
<1>3. (\A c \in Chats : Fits(conversation[c], c))'
  BY <1>1, <1>2, ConversationsFit, RunFacts
<1> QED
  BY <1>1, <1>2, <1>3 DEF ControllerGoesOn, RunsGoOn

(* A list without its first, and a list with one more.                     *)
LEMMA TailTyped ==
  ASSUME FitsInv, NEW k \in Keys, queue[k] # <<>>, queue' = [queue EXCEPT ![k] = Tail(queue[k])],
         Len(runs') = Len(runs)
  PROVE  QueueTyped'
<1>1. queue \in [Keys -> Seq(Nat)] /\ \A i \in 1..Len(queue[k]) : queue[k][i] \in 1..Len(runs)
  BY DEF FitsInv, BaseInv, QueueTyped
<1>2. /\ Tail(queue[k]) \in Seq(Nat) /\ Len(Tail(queue[k])) = Len(queue[k]) - 1
      /\ \A i \in 1..Len(Tail(queue[k])) : Tail(queue[k])[i] = queue[k][i + 1]
      /\ Len(queue[k]) \in Nat
  BY <1>1, HeadTailProperties, LenProperties
<1>3. queue' \in [Keys -> Seq(Nat)]
  BY <1>1, <1>2
<1>4. \A i \in 1..Len(queue'[k]) : queue'[k][i] \in 1..Len(runs)
  BY <1>1, <1>2
<1>5. \A l \in Keys : l # k => queue'[l] = queue[l]
  BY <1>1
<1> QED
  BY <1>3, <1>4, <1>5 DEF QueueTyped, FitsInv, BaseInv

LEMMA LongerTyped ==
  ASSUME FitsInv, NEW k \in Keys, NEW r \in 1..Len(runs), Enqueue(k, r), Len(runs') = Len(runs)
  PROVE  QueueTyped'
<1>1. /\ queue \in [Keys -> Seq(Nat)] /\ \A i \in 1..Len(queue[k]) : queue[k][i] \in 1..Len(runs)
      /\ Len(runs) \in Nat
  BY RunFacts DEF FitsInv, BaseInv, QueueTyped
<1>2. queue' = [queue EXCEPT ![k] = Append(queue[k], r)]
  BY DEF Enqueue
<1>3. /\ Append(queue[k], r) \in Seq(Nat) /\ Len(Append(queue[k], r)) = Len(queue[k]) + 1
      /\ \A i \in 1..Len(queue[k]) : Append(queue[k], r)[i] = queue[k][i]
      /\ Append(queue[k], r)[Len(queue[k]) + 1] = r /\ Len(queue[k]) \in Nat
  BY <1>1, AppendProperties, LenProperties
<1>4. queue' \in [Keys -> Seq(Nat)]
  BY <1>1, <1>2, <1>3
<1>5. \A i \in 1..Len(queue'[k]) : queue'[k][i] \in 1..Len(runs)
  BY <1>1, <1>2, <1>3
<1>6. \A l \in Keys : l # k => queue'[l] = queue[l]
  BY <1>1, <1>2
<1> QED
  BY <1>4, <1>5, <1>6 DEF QueueTyped, FitsInv, BaseInv

LEMMA RunPopped ==
  ASSUME FitsInv, QueueInv, NEW k \in Keys, PopRun(k)
  PROVE  ControllerGoesOn
<1>1. PICK r \in 1..Len(runs) : r = Head(queue[k]) /\ phase[r] = "queued"
  <2>1. queue[k] \in Seq(Nat) /\ \A i \in 1..Len(queue[k]) : queue[k][i] \in 1..Len(runs)
    BY DEF FitsInv, BaseInv, QueueTyped
  <2>2. Len(queue[k]) \in Nat /\ Len(queue[k]) # 0 /\ Head(queue[k]) = queue[k][1]
    BY <2>1, LenProperties, EmptySeq DEF PopRun
  <2> QED
    BY <2>1, <2>2 DEF QueueInv
<1>2. runs[r].status = "queued" /\ "popped" \in Phases /\ "popped" \notin Fresh \cup Retrying
  BY <1>1, StatusOfPhase DEF Phases, Fresh, Retrying
<1>3. Enter(r, "popped") /\ UNCHANGED runs /\ UNCHANGED returned
      /\ UNCHANGED <<clock, sessions, binding, catalog, override, conversation>>
  BY <1>1 DEF PopRun
<1>4. QueueTyped'
  BY <1>3, TailTyped DEF PopRun
<1> QED
  BY <1>2, <1>3, <1>4, OnlyRunsMove, ReturnedKept

LEMMA RunStarts ==
  ASSUME FitsInv, NEW r \in 1..Len(runs), StartRun(r)
  PROVE  ControllerGoesOn
<1>1. "bridge" \in Phases /\ "bridge" \notin {"queued", "popped"}
  BY DEF Phases, Fresh
<1> QED
  BY <1>1, OnlyRunsMove, ReturnedKept DEF StartRun

LEMMA RunRequeued ==
  ASSUME FitsInv, NEW r \in 1..Len(runs), RequeueRun(r)
  PROVE  ControllerGoesOn
<1>1. /\ runs[r].status = "queued" /\ runs[r].workspace \in Keys
      /\ "queued" \in Phases /\ "queued" \notin Fresh \cup Retrying
  BY StatusOfPhase, RunFacts DEF RequeueRun, InPhase, Phases, Fresh, Retrying, Run
<1>2. QueueTyped'
  BY <1>1, LongerTyped DEF RequeueRun
<1> QED
  BY <1>1, <1>2, OnlyRunsMove, ReturnedKept DEF RequeueRun

(* The steps of a controller at work, that only take it further.           *)
LEMMA ControllerAtWork ==
  ASSUME FitsInv, NEW r \in 1..Len(runs), SessionInvalid(r) \/ ReadsBack(r) \/ RunStops(r)
  PROVE  ControllerGoesOn
<1>1. PICK to \in Phases : Enter(r, to) /\ to \in Fresh \cup Retrying
  BY DEF SessionInvalid, ReadsBack, RunStops, Phases, Fresh, Retrying
<1>2. phase[r] \in Fresh \cup Retrying /\ UNCHANGED storeVars /\ UNCHANGED returned
  BY DEF SessionInvalid, ReadsBack, RunStops, InPhase, Fresh, Retrying
<1>3. to \notin {"queued", "popped"}
  BY <1>1 DEF Fresh, Retrying
<1> QED
  BY <1>1, <1>2, <1>3, StatusOfPhase, OnlyRunsMove, ReturnedKept DEF storeVars

LEMMA RunLeft ==
  ASSUME FitsInv, NEW r \in 1..Len(runs), ControllerLeaves(r)
  PROVE  ControllerGoesOn
<1>1. "ended" \in Phases /\ "ended" \notin {"queued", "popped"} \cup Fresh \cup Retrying
  BY DEF Phases, Fresh, Retrying
<1> QED
  BY <1>1, StatusOfPhase, OnlyRunsMove, ReturnedKept DEF ControllerLeaves, storeVars

LEMMA RunClosed ==
  ASSUME FitsInv, NEW r \in 1..Len(runs), RunEnds(r) \/ ReaperEnds(r)
  PROVE  ControllerGoesOn
<1>1. PICK to \in Phases : Enter(r, to) /\ to \notin {"queued", "popped"}
  <2>1. CASE UNCHANGED phase
    <3>1. Enter(r, phase[r]) /\ phase[r] \in Phases
      BY <2>1, PhaseStays, RunFacts
    <3>2. phase[r] \notin {"queued", "popped"}
      BY StatusOfPhase DEF RunEnds, ReaperEnds, InPhase
    <3> QED
      BY <3>1, <3>2
  <2>2. CASE Enter(r, "ended")
    BY <2>2 DEF Phases
  <2> QED
    BY <2>1, <2>2 DEF RunEnds, ReaperEnds
<1>2. MarkRun(r, "ended") /\ UNCHANGED queue /\ UNCHANGED returned
      /\ UNCHANGED <<clock, sessions, binding, catalog, override, conversation>>
  BY DEF RunEnds, ReaperEnds
<1> QED
  BY <1>1, <1>2, OnlyRunsMove, ReturnedKept

LEMMA BindingInvalidated ==
  ASSUME FitsInv, NEW r \in 1..Len(runs), Invalidates(r) \/ RecoveryFails(r)
  PROVE  ControllerGoesOn
<1>1. PICK to \in Phases, x \in {"none", "failed"} :
        /\ to \in Fresh \cup Retrying /\ Enter(r, to) /\ MarkBindingInvalidated(runs[r].chat, x)
        /\ UNCHANGED <<clock, sessions, binding, catalog, override, runs, queue, returned>>
        /\ phase[r] \in Retrying
  <2>1. {"retry", "ending", "endRetried"} \subseteq Phases \cap (Fresh \cup Retrying)
    BY DEF Phases, Fresh, Retrying
  <2>2. "invalid" \in Retrying
    BY DEF Retrying
  <2> QED
    BY <2>1, <2>2 DEF Invalidates, RecoveryFails, InPhase
<1>2. runs[r].status \in {"queued", "running", "ended"} /\ runs[r].status # "queued"
      /\ runs[r].chat \in Chats /\ to \notin {"queued", "popped"}
  BY <1>1, StatusOfPhase, RunFacts DEF Run, Fresh, Retrying
<1>3. RunsTyped' /\ RunsKept /\ Len(runs') = Len(runs) /\ \A q \in 1..Len(runs') : RunFits(q)'
  BY <1>1, <1>2, RunsTypedAgain, ReturnedKept
<1>4. conversation' \in [Chats -> Conversation] /\ ConversationsKept
  BY <1>1, <1>2, InvalidatedKept DEF FitsInv, BaseInv
<1>5. StoreTyped' /\ QueueTyped'
  BY <1>1, <1>3, <1>4, QueueStays DEF StoreTyped, FitsInv, BaseInv
<1>6. (\A c \in Chats : Fits(conversation[c], c))'
  BY <1>3, <1>4, ConversationsFit, RunFacts
<1> QED
  BY <1>1, <1>3, <1>5, <1>6 DEF ControllerGoesOn, RunsGoOn

LEMMA BridgeReturns ==
  ASSUME FitsInv, NEW r \in 1..Len(runs), BridgeCompletes(r)
  PROVE  ControllerGoesOn
<1>1. PICK s \in {0, r, runs[r].requested} : returned' = [returned EXCEPT ![r] = s]
  BY DEF BridgeCompletes
<1>2. PICK to \in Phases : to \notin {"queued", "popped"} /\ Enter(r, to)
  BY DEF BridgeCompletes, Phases, Fresh, Retrying
<1>3. runs[r].status = "running" /\ runs[r].requested \in Nat /\ UNCHANGED storeVars
  BY RunFacts DEF BridgeCompletes, Run
<1>4. /\ returned' \in Seq(Nat) /\ Len(returned') = Len(returned)
      /\ \A q \in 1..Len(runs) : returned'[q] = IF q = r THEN s ELSE returned[q]
  BY <1>1, <1>3, RunFacts, ExceptSeq
<1>5. \A q \in 1..Len(runs) : returned'[q] \in {0, q, runs[q].requested}
  BY <1>4, RunFacts DEF RunFits
<1> QED
  BY <1>2, <1>3, <1>4, <1>5, OnlyRunsMove DEF storeVars

(* The session that a run returns was made by it or by the run it resumes. *)
LEMMA BindingWrittenBack ==
  ASSUME FitsInv, NEW r \in 1..Len(runs), WritesBack(r)
  PROVE  ControllerGoesOn
<1>1. PICK to \in Phases :
        /\ to \notin {"queued", "popped"} /\ Enter(r, to)
        /\ UNCHANGED <<clock, sessions, binding, catalog, override, runs, queue, returned>>
  BY DEF WritesBack, Phases, Fresh, Retrying
<1>2. runs[r].status \in {"queued", "running", "ended"} /\ runs[r].status # "queued"
  BY StatusOfPhase DEF WritesBack, InPhase, Fresh, Retrying
<1>3. RunsTyped' /\ RunsKept /\ Len(runs') = Len(runs) /\ \A q \in 1..Len(runs') : RunFits(q)'
  BY <1>1, <1>2, RunsTypedAgain, ReturnedKept
<1>4. PICK c \in Chats, k \in Keys, m \in Modes :
        c = runs[r].chat /\ k = runs[r].workspace /\ m = runs[r].mode
  BY RunFacts DEF Run
<1>5. PICK s \in 0..MaxRuns :
        /\ s = returned[r]
        /\ s # 0 => s \in 1..Len(runs) /\ runs[s].chat = c /\ runs[s].workspace = k /\ runs[s].mode = m
  <2>1. PICK t : t = runs[r].requested
    OBVIOUS
  <2>2. RunFits(r) /\ Len(runs) \in Nat /\ Len(runs) <= MaxRuns /\ MaxRuns \in Nat
    BY RunFacts
  <2>3. t # 0 => t \in 1..Len(runs) /\ runs[t].chat = c /\ runs[t].workspace = k /\ runs[t].mode = m
    BY <1>4, <2>1, <2>2 DEF RunFits
  <2>4. returned[r] \in {0, r, t}
    BY <2>1, <2>2 DEF RunFits
  <2> QED
    BY <1>4, <2>2, <2>3, <2>4
<1>6. PICK b \in BOOLEAN : b = (phase[r] # "saveBound")
  OBVIOUS
<1>7. PICK v \in Conversation : v = conversation[c]
  BY DEF FitsInv, BaseInv, StoreTyped
<1>8. PICK x \in {"none", "recovered", "failed"} : x = IF b THEN "recovered" ELSE v.recovery
  BY DEF Conversation
<1>9. PICK w \in Conversation :
        /\ w.bridge = s /\ w.workspace = k /\ w.mode = m
        /\ w = [v EXCEPT !.bridge = s, !.workspace = k, !.mode = m,
                         !.status = IF b THEN "recovered" ELSE "bound", !.recovery = x]
  <2>1. (IF b THEN "recovered" ELSE "bound") \in {"recovered", "bound"}
    OBVIOUS
  <2> QED
    BY <2>1 DEF Conversation
<1>10. conversation' = [conversation EXCEPT ![c] = w]
  <2>1. SaveBindingContinuation(r, s, b)
    BY <1>5, <1>6 DEF WritesBack
  <2>2. conversation' = [conversation EXCEPT ![c] =
          [v EXCEPT !.bridge = s, !.workspace = k, !.mode = m,
                    !.status = IF b THEN "recovered" ELSE "bound",
                    !.recovery = IF b THEN "recovered" ELSE v.recovery]]
    <3>1. conversation' = [conversation EXCEPT ![runs[r].chat] =
            [conversation[runs[r].chat] EXCEPT
               !.bridge = s, !.workspace = runs[r].workspace, !.mode = runs[r].mode,
               !.status = IF b THEN "recovered" ELSE "bound",
               !.recovery = IF b THEN "recovered" ELSE conversation[runs[r].chat].recovery]]
      BY <2>1 DEF SaveBindingContinuation
    <3> QED
      BY <1>4, <1>7, <3>1, Zenon
  <2> QED
    BY <1>8, <1>9, <2>2
<1>11. conversation' \in [Chats -> Conversation] /\ conversation'[c] = w
       /\ \A d \in Chats : d # c => conversation'[d] = conversation[d]
  BY <1>10 DEF FitsInv, BaseInv, StoreTyped
<1>12. StoreTyped' /\ QueueTyped'
  BY <1>1, <1>3, <1>11, QueueStays DEF StoreTyped, FitsInv, BaseInv
<1>13. (\A d \in Chats : Fits(conversation[d], d))'
  <2> SUFFICES ASSUME NEW d \in Chats PROVE Fits(conversation[d], d)'
    OBVIOUS
  <2>1. CASE d = c
    BY <1>1, <1>5, <1>9, <1>11, <2>1 DEF Fits
  <2>2. CASE d # c
    BY <1>1, <1>11, <2>2 DEF Fits, FitsInv
  <2> QED
    BY <2>1, <2>2
<1> QED
  BY <1>1, <1>3, <1>12, <1>13 DEF ControllerGoesOn, RunsGoOn

LEMMA ControllerKeeps ==
  ASSUME FitsInv, QueueInv, ControllerStep
  PROVE  ControllerGoesOn
<1>1. ASSUME NEW k \in Keys, PopRun(k) PROVE ControllerGoesOn
  BY <1>1, RunPopped
<1>2. ASSUME NEW r \in 1..Len(runs),
             StartRun(r) \/ RequeueRun(r) \/ SessionInvalid(r) \/ Invalidates(r)
               \/ BridgeCompletes(r) \/ ReadsBack(r) \/ WritesBack(r)
      PROVE ControllerGoesOn
  BY <1>2, RunStarts, RunRequeued, ControllerAtWork, BindingInvalidated, BridgeReturns,
     BindingWrittenBack
<1>3. ASSUME NEW r \in 1..Len(runs),
             RecoveryFails(r) \/ RunStops(r) \/ RunEnds(r) \/ ControllerLeaves(r) \/ ReaperEnds(r)
      PROVE ControllerGoesOn
  BY <1>3, BindingInvalidated, ControllerAtWork, RunClosed, RunLeft
<1> QED
  BY <1>1, <1>2, <1>3, RunFacts DEF ControllerStep

---------------------------------------------------------------------------
(* The first invariant, for every step.                                    *)

LEMMA FitsAtStart ==
  ASSUME Init
  PROVE  FitsInv
<1>1. /\ MaxTime \in Nat /\ MaxRuns \in Nat /\ MaxMessages \in Nat /\ MaxMishaps \in Nat
      /\ Len(<<>>) = 0 /\ 0 \in Nat
  BY StoreAssumption, HandlerAssumption, MishapAssumption, EmptySeq
<1>2. StoreTyped /\ BoundOrNot
  BY <1>1, Blanks DEF Init, StoreInit, StoreTyped, BoundOrNot, NoOverride
<1>3. RunsTyped
  BY <1>1, EmptySeq DEF Init, StoreInit, RunsTyped
<1>4. HandlersTyped
  BY <1>1, <1>3, Blanks DEF Init, StoreInit, HandlerInit, HandlersTyped, Steps
<1>5. QueueTyped
  <2>1. queue = [k \in Keys |-> <<>>] /\ <<>> \in Seq(Nat)
    BY EmptySeq DEF Init, StoreInit
  <2> QED
    BY <1>1, <2>1 DEF QueueTyped
<1>6. \A h \in Handlers : Handled(h)
  BY <1>1, NothingHeld DEF Init, HandlerInit, Handled
<1>7. \A c \in Chats : Fits(conversation[c], c)
  BY DEF Init, StoreInit, NoConversation, Fits
<1>8. \A h \in Handlers : step[h] = "idle"
  BY DEF Init, HandlerInit
<1>9. \A r \in 1..Len(runs) : RunFits(r)
  BY <1>1 DEF Init, StoreInit
<1>10. mishaps \in 0..MaxMishaps
  BY <1>1 DEF Init
<1> QED
  BY <1>2, <1>3, <1>4, <1>5, <1>6, <1>7, <1>8, <1>9, <1>10 DEF FitsInv, BaseInv

LEMMA HandlersWait ==
  ASSUME FitsInv, UNCHANGED handlerVars, RunsKept, Len(runs') = Len(runs)
  PROVE  HandlersTyped' /\ (\A h \in Handlers : Handled(h))' /\ HandlersFit'
<1>1. UNCHANGED <<step, message, seen, received, report>>
  BY DEF handlerVars
<1>2. HandlersTyped' /\ (\A h \in Handlers : Handled(h))'
  BY <1>1 DEF FitsInv, BaseInv, HandlersTyped, Handled, HandledAs
<1>3. HandlersFit'
  <2> SUFFICES ASSUME NEW h \in Handlers, step'[h] # "idle"
               PROVE  Fits(seen[h].conversation, message[h].chat)'
    BY DEF HandlersFit
  <2>1. PICK v, c : v = seen[h].conversation /\ c = message[h].chat
    OBVIOUS
  <2>2. Fits(v, c)
    BY <1>1, <2>1 DEF FitsInv
  <2>3. v.bridge # 0 =>
           /\ v.bridge \in 1..Len(runs') /\ runs'[v.bridge].chat = c
           /\ runs'[v.bridge].workspace = v.workspace /\ runs'[v.bridge].mode = v.mode
    BY <2>2, FitStays, RunFacts
  <2> QED
    BY <1>1, <2>1, <2>3 DEF Fits
<1> QED
  BY <1>2, <1>3

LEMMA FitsNext ==
  ASSUME FitsInv, QueueInv, [Next]_vars
  PROVE  FitsInv'
<1>1. CASE \E h \in Handlers : (HandlerStep(h) \/ CallRejected(h)) /\ Observe(h)
  BY <1>1, HandlerFits
<1>2. CASE ControllerStep /\ UNCHANGED <<handlerVars, mishaps>>
  <2>1. /\ StoreTyped' /\ UNCHANGED binding /\ Len(runs') = Len(runs)
        /\ RunsTyped' /\ QueueTyped' /\ RunsKept /\ (\A r \in 1..Len(runs) : RunFits(r))'
        /\ (\A c \in Chats : Fits(conversation[c], c))'
    BY <1>2, ControllerKeeps DEF ControllerGoesOn, RunsGoOn
  <2>2. HandlersTyped' /\ (\A h \in Handlers : Handled(h))' /\ HandlersFit'
    BY <1>2, <2>1, HandlersWait
  <2>3. BoundOrNot' /\ mishaps' \in 0..MaxMishaps
    BY <1>2, <2>1 DEF BoundOrNot, FitsInv, BaseInv
  <2> QED
    BY <2>1, <2>2, <2>3, FitsParts
<1>3. ASSUME UNCHANGED <<handlerVars, phase, returned, mishaps, sessions, binding, catalog, override,
                         conversation, runs, queue>>,
             clock' \in 0..MaxTime
      PROVE  FitsInv'
  <2>1. RunsGoOn
    BY <1>3, NothingRuns
  <2>2. RunsTyped' /\ QueueTyped' /\ RunsKept /\ (\A r \in 1..Len(runs) : RunFits(r))'
    BY <2>1 DEF RunsGoOn
  <2>3. HandlersTyped' /\ (\A h \in Handlers : Handled(h))' /\ HandlersFit'
    BY <1>3, <2>2, HandlersWait
  <2>4. StoreTyped' /\ BoundOrNot' /\ mishaps' \in 0..MaxMishaps
    BY <1>3 DEF StoreTyped, BoundOrNot, FitsInv, BaseInv
  <2>5. (\A c \in Chats : Fits(conversation[c], c))'
    BY <1>3 DEF Fits, FitsInv
  <2> QED
    BY <2>2, <2>3, <2>4, <2>5, FitsParts
<1>4. CASE Tick /\ UNCHANGED <<handlerVars, phase, returned, mishaps>>
  <2>1. clock' \in 0..MaxTime
    BY <1>4, StoreAssumption DEF Tick, FitsInv, BaseInv, StoreTyped
  <2> QED
    BY <1>3, <1>4, <2>1 DEF Tick
<1>5. CASE UNCHANGED vars
  <2>1. clock' \in 0..MaxTime
    BY <1>5 DEF vars, storeVars, FitsInv, BaseInv, StoreTyped
  <2> QED
    BY <1>3, <1>5, <2>1 DEF vars, storeVars
<1> QED
  BY <1>1, <1>2, <1>4, <1>5 DEF Next

---------------------------------------------------------------------------
(* A run is queued once, and is started from the queue only.               *)

QueuedOnly == \A k \in Keys : \A i \in 1..Len(queue[k]) : phase[queue[k][i]] = "queued"

QueuedOnce ==
  \A k, l \in Keys : \A i \in 1..Len(queue[k]), j \in 1..Len(queue[l]) :
    queue[k][i] = queue[l][j] => k = l /\ i = j

NotYetQueued(h) ==
  step[h] = "pushRun" =>
    /\ phase[seen[h].run] = "queued"
    /\ \A k \in Keys : \A i \in 1..Len(queue[k]) : queue[k][i] # seen[h].run
    /\ \A g \in Handlers : g # h /\ step[g] = "pushRun" => seen[g].run # seen[h].run

LEMMA QueueParts ==
  ASSUME QueuedOnly', QueuedOnce', (\A h \in Handlers : NotYetQueued(h))'
  PROVE  QueueInv'
<1> QED
  BY DEF QueueInv, QueuedOnly, QueuedOnce, NotYetQueued

LEMMA QueueFacts ==
  ASSUME FitsInv, QueueInv
  PROVE  /\ QueuedOnly /\ QueuedOnce /\ \A h \in Handlers : NotYetQueued(h)
         /\ queue \in [Keys -> Seq(Nat)]
         /\ \A k \in Keys : Len(queue[k]) \in Nat
         /\ \A k \in Keys : \A i \in 1..Len(queue[k]) : queue[k][i] \in 1..Len(runs)
<1>1. QueuedOnly /\ QueuedOnce /\ \A h \in Handlers : NotYetQueued(h)
  BY DEF QueueInv, QueuedOnly, QueuedOnce, NotYetQueued
<1> QED
  BY <1>1, LenProperties DEF FitsInv, BaseInv, QueueTyped

LEMMA OnlyOnce ==
  ASSUME FitsInv, QueueInv, NEW k \in Keys, NEW l \in Keys,
         NEW i \in 1..Len(queue[k]), NEW j \in 1..Len(queue[l]), queue[k][i] = queue[l][j]
  PROVE  k = l /\ i = j
<1> QED
  BY DEF QueueInv

(* Steps that leave the queues alone, and what is queued.                  *)
LEMMA QueueLeft ==
  ASSUME FitsInv, QueueInv, UNCHANGED queue,
         \A r \in 1..Len(runs) : phase[r] = "queued" => phase'[r] = "queued",
         \A h \in Handlers : step'[h] = "pushRun" =>
           /\ step[h] = "pushRun" /\ seen'[h].run = seen[h].run
  PROVE  QueueInv'
<1>1. QueuedOnly'
  BY QueueFacts DEF QueuedOnly
<1>2. QueuedOnce'
  BY QueueFacts DEF QueuedOnce
<1>3. (\A h \in Handlers : NotYetQueued(h))'
  <2> SUFFICES ASSUME NEW h \in Handlers, step'[h] = "pushRun" PROVE NotYetQueued(h)'
    BY DEF NotYetQueued
  <2>1. step[h] = "pushRun" /\ seen'[h].run = seen[h].run /\ NotYetQueued(h)
    BY QueueFacts
  <2>2. seen[h].run \in 1..Len(runs)
    <3>1. BaseInv
      BY DEF FitsInv
    <3> QED
      BY <2>1, <3>1, HandlerFacts DEF HandledAs, RunSteps
  <2> QED
    BY <2>1, <2>2 DEF NotYetQueued
<1> QED
  BY <1>1, <1>2, <1>3, QueueParts

(* A run that is in no list comes to the end of one.                       *)
LEMMA QueueGains ==
  ASSUME FitsInv, QueueInv, NEW k \in Keys, NEW r \in 1..Len(runs), Enqueue(k, r),
         \A q \in 1..Len(runs) : q # r => phase'[q] = phase[q], phase'[r] = "queued",
         \A l \in Keys : \A i \in 1..Len(queue[l]) : queue[l][i] # r,
         \A g \in Handlers : step'[g] = "pushRun" =>
           step[g] = "pushRun" /\ seen'[g].run = seen[g].run /\ seen[g].run # r
  PROVE  QueueInv'
<1>1. queue' = [queue EXCEPT ![k] = Append(queue[k], r)]
  BY DEF Enqueue
<1>2. queue[k] \in Seq(Nat) /\ Len(queue[k]) \in Nat
  BY QueueFacts
<1>3. /\ Len(queue'[k]) = Len(queue[k]) + 1 /\ queue'[k][Len(queue[k]) + 1] = r
      /\ \A i \in 1..Len(queue[k]) : queue'[k][i] = queue[k][i]
      /\ \A l \in Keys : l # k => queue'[l] = queue[l]
  BY <1>1, <1>2, AppendProperties, QueueFacts
<1>4. ASSUME NEW l \in Keys, NEW x \in 1..Len(queue'[l])
      PROVE  \/ x \in 1..Len(queue[l]) /\ queue'[l][x] = queue[l][x] /\ queue'[l][x] # r
             \/ l = k /\ x = Len(queue[k]) + 1 /\ queue'[l][x] = r
  <2>1. CASE l = k
    BY <1>2, <1>3, <2>1
  <2>2. CASE l # k
    BY <1>3, <2>2
  <2> QED
    BY <2>1, <2>2
<1>5. QueuedOnly'
  <2>1. QueuedOnly /\ \A l \in Keys : \A i \in 1..Len(queue[l]) : queue[l][i] \in 1..Len(runs)
    BY QueueFacts
  <2> QED
    BY <1>4, <2>1 DEF QueuedOnly
<1>6. QueuedOnce'
  <2> SUFFICES ASSUME NEW a \in Keys, NEW b \in Keys, NEW i \in 1..Len(queue'[a]),
                      NEW j \in 1..Len(queue'[b]), queue'[a][i] = queue'[b][j]
               PROVE  a = b /\ i = j
    BY DEF QueuedOnce
  <2>1. \/ i \in 1..Len(queue[a]) /\ queue'[a][i] = queue[a][i] /\ queue'[a][i] # r
        \/ a = k /\ i = Len(queue[k]) + 1 /\ queue'[a][i] = r
    BY <1>4
  <2>2. \/ j \in 1..Len(queue[b]) /\ queue'[b][j] = queue[b][j] /\ queue'[b][j] # r
        \/ b = k /\ j = Len(queue[k]) + 1 /\ queue'[b][j] = r
    BY <1>4
  <2> QED
    BY <2>1, <2>2, OnlyOnce
<1>7. (\A g \in Handlers : NotYetQueued(g))'
  <2> SUFFICES ASSUME NEW g \in Handlers, step'[g] = "pushRun" PROVE NotYetQueued(g)'
    BY DEF NotYetQueued
  <2>1. /\ step[g] = "pushRun" /\ seen'[g].run = seen[g].run /\ NotYetQueued(g)
        /\ seen[g].run # r
    BY QueueFacts
  <2>2. \A l \in Keys : \A i \in 1..Len(queue'[l]) : queue'[l][i] # seen[g].run
    <3>1. \A l \in Keys : \A i \in 1..Len(queue[l]) : queue[l][i] # seen[g].run
      BY <2>1 DEF NotYetQueued
    <3> QED
      BY <1>4, <2>1, <3>1
  <2>3. \A f \in Handlers : f # g /\ step'[f] = "pushRun" => seen'[f].run # seen'[g].run
    BY <2>1 DEF NotYetQueued
  <2>4. phase'[seen[g].run] = "queued"
    <3>1. BaseInv
      BY DEF FitsInv
    <3>2. seen[g].run \in 1..Len(runs)
      BY <2>1, <3>1, HandlerFacts DEF HandledAs, RunSteps
    <3> QED
      BY <2>1, <3>2 DEF NotYetQueued
  <2> QED
    BY <2>1, <2>2, <2>3, <2>4 DEF NotYetQueued
<1> QED
  BY <1>5, <1>6, <1>7, QueueParts

LEMMA QueuePushed ==
  ASSUME FitsInv, QueueInv, NEW h \in Handlers, PromptPushesRun(h), UNCHANGED phase,
         \A g \in Handlers : g # h => step'[g] = step[g] /\ seen'[g] = seen[g],
         step'[h] = "savePosition"
  PROVE  QueueInv'
<1>1. /\ HandledAs("pushRun", message[h], seen[h], Len(runs)) /\ seen[h].run \in 0..Len(runs)
      /\ step[h] = "pushRun"
  BY HeldAt DEF PromptPushesRun, FitsInv, At
<1>2. PICK k \in Keys, r \in 1..Len(runs) : k = seen[h].key /\ r = seen[h].run
  BY <1>1 DEF HandledAs, RunSteps
<1>3. /\ phase[r] = "queued"
      /\ \A l \in Keys : \A i \in 1..Len(queue[l]) : queue[l][i] # r
      /\ \A g \in Handlers : g # h /\ step[g] = "pushRun" => seen[g].run # r
  BY <1>1, <1>2, QueueFacts DEF NotYetQueued
<1>4. Enqueue(k, r)
  BY <1>2 DEF PromptPushesRun
<1>5. \A g \in Handlers : step'[g] = "pushRun" =>
        step[g] = "pushRun" /\ seen'[g].run = seen[g].run /\ seen[g].run # r
  BY <1>3
<1> QED
  BY <1>3, <1>4, <1>5, QueueGains

LEMMA QueueAdded ==
  ASSUME FitsInv, QueueInv, NEW h \in Handlers, PromptCreatesRun(h),
         \A q \in 1..Len(runs) : phase'[q] = phase[q], phase'[Len(runs) + 1] = "queued",
         \A g \in Handlers : g # h => step'[g] = step[g] /\ seen'[g] = seen[g],
         seen'[h].run = Len(runs) + 1
  PROVE  QueueInv'
<1>1. UNCHANGED queue /\ Len(runs) \in Nat
  BY RunFacts DEF PromptCreatesRun
<1>2. QueuedOnly'
  BY <1>1, QueueFacts DEF QueuedOnly
<1>3. QueuedOnce'
  <2>1. QueuedOnce
    BY QueueFacts
  <2> QED
    BY <1>1, <2>1 DEF QueuedOnce
<1>4. ASSUME NEW g \in Handlers, g # h, step'[g] = "pushRun"
      PROVE  /\ phase'[seen'[g].run] = "queued" /\ seen'[g].run # seen'[h].run
             /\ \A k \in Keys : \A i \in 1..Len(queue'[k]) : queue'[k][i] # seen'[g].run
             /\ \A f \in Handlers : f # g /\ step'[f] = "pushRun" => seen'[f].run # seen'[g].run
  <2>1. step[g] = "pushRun" /\ seen'[g] = seen[g] /\ NotYetQueued(g)
    BY <1>4, QueueFacts
  <2>2. seen[g].run \in 1..Len(runs)
    <3>1. BaseInv
      BY DEF FitsInv
    <3> QED
      BY <2>1, <3>1, HandlerFacts DEF HandledAs, RunSteps
  <2>3. seen'[g].run # seen'[h].run
    BY <1>1, <2>1, <2>2
  <2> QED
    BY <1>1, <2>1, <2>2, <2>3 DEF NotYetQueued
<1>5. /\ phase'[seen'[h].run] = "queued"
      /\ \A k \in Keys : \A i \in 1..Len(queue'[k]) : queue'[k][i] # seen'[h].run
  <2>1. \A k \in Keys : \A i \in 1..Len(queue[k]) : queue[k][i] \in 1..Len(runs)
    BY QueueFacts
  <2> QED
    BY <1>1, <2>1
<1>6. (\A g \in Handlers : NotYetQueued(g))'
  BY <1>4, <1>5 DEF NotYetQueued
<1> QED
  BY <1>2, <1>3, <1>6, QueueParts

LEMMA HeadIsRun ==
  ASSUME FitsInv, QueueInv, NEW k \in Keys, queue[k] # <<>>
  PROVE  /\ Head(queue[k]) = queue[k][1] /\ 1 \in 1..Len(queue[k])
         /\ Head(queue[k]) \in 1..Len(runs) /\ phase[Head(queue[k])] = "queued"
<1>1. queue[k] \in Seq(Nat) /\ Len(queue[k]) \in Nat
  BY QueueFacts
<1>2. Len(queue[k]) # 0 /\ Head(queue[k]) = queue[k][1]
  BY <1>1, EmptySeq
<1> QED
  BY <1>1, <1>2, QueueFacts DEF QueuedOnly

LEMMA QueuePopped ==
  ASSUME FitsInv, QueueInv, NEW k \in Keys, PopRun(k), UNCHANGED <<step, seen>>
  PROVE  QueueInv'
<1>1. PICK r \in 1..Len(runs) : r = Head(queue[k]) /\ r = queue[k][1] /\ 1 \in 1..Len(queue[k])
  BY HeadIsRun DEF PopRun
<1>2. \A q \in 1..Len(runs) : q # r => phase'[q] = phase[q]
  <2>1. "popped" \in Phases
    BY DEF Phases
  <2> QED
    BY <1>1, <2>1, Entered DEF PopRun
<1>3. queue' = [queue EXCEPT ![k] = Tail(queue[k])] /\ queue[k] # <<>>
  BY DEF PopRun
<1>4. /\ Len(queue'[k]) = Len(queue[k]) - 1 /\ Len(queue[k]) \in Nat
      /\ \A i \in 1..Len(queue'[k]) : queue'[k][i] = queue[k][i + 1]
      /\ \A l \in Keys : l # k => queue'[l] = queue[l]
  BY <1>3, HeadTailProperties, QueueFacts
<1>5. ASSUME NEW l \in Keys, NEW i \in 1..Len(queue'[l])
      PROVE  /\ queue'[l][i] \in 1..Len(runs) /\ queue'[l][i] # r
             /\ phase[queue'[l][i]] = "queued"
             /\ \E j \in 1..Len(queue[l]) :
                  queue'[l][i] = queue[l][j] /\ j = IF l = k THEN i + 1 ELSE i
  <2>1. PICK j \in 1..Len(queue[l]) :
          queue'[l][i] = queue[l][j] /\ j = IF l = k THEN i + 1 ELSE i
    <3>1. CASE l = k
      BY <1>4, <3>1
    <3>2. CASE l # k
      BY <1>4, <3>2
    <3> QED
      BY <3>1, <3>2
  <2>2. queue[l][j] # queue[k][1]
    <3>1. l = k => j # 1
      BY <1>4, <2>1
    <3> QED
      BY <1>1, <3>1, QueueFacts DEF QueuedOnce
  <2> QED
    BY <1>1, <2>1, <2>2, QueueFacts DEF QueuedOnly
<1>6. QueuedOnly'
  BY <1>2, <1>5 DEF QueuedOnly
<1>7. QueuedOnce'
  <2> SUFFICES ASSUME NEW a \in Keys, NEW b \in Keys, NEW i \in 1..Len(queue'[a]),
                      NEW j \in 1..Len(queue'[b]), queue'[a][i] = queue'[b][j]
               PROVE  a = b /\ i = j
    BY DEF QueuedOnce
  <2>1. PICK x \in 1..Len(queue[a]) :
          queue'[a][i] = queue[a][x] /\ x = IF a = k THEN i + 1 ELSE i
    BY <1>5
  <2>2. PICK y \in 1..Len(queue[b]) :
          queue'[b][j] = queue[b][y] /\ y = IF b = k THEN j + 1 ELSE j
    BY <1>5
  <2>3. queue[a][x] = queue[b][y]
    BY <2>1, <2>2
  <2>4. a = b /\ x = y
    BY <2>3, OnlyOnce
  <2> QED
    BY <2>1, <2>2, <2>4
<1>8. (\A h \in Handlers : NotYetQueued(h))'
  <2> SUFFICES ASSUME NEW h \in Handlers, step'[h] = "pushRun" PROVE NotYetQueued(h)'
    BY DEF NotYetQueued
  <2>1. NotYetQueued(h) /\ step[h] = "pushRun"
    BY QueueFacts
  <2>2. seen[h].run \in 1..Len(runs)
    <3>1. BaseInv
      BY DEF FitsInv
    <3> QED
      BY <2>1, <3>1, HandlerFacts DEF HandledAs, RunSteps
  <2>3. seen[h].run # r
    BY <1>1, <2>1 DEF NotYetQueued
  <2>4. \A l \in Keys : \A i \in 1..Len(queue'[l]) : queue'[l][i] # seen[h].run
    BY <1>5, <2>1 DEF NotYetQueued
  <2> QED
    BY <1>2, <2>1, <2>2, <2>3, <2>4 DEF NotYetQueued
<1> QED
  BY <1>6, <1>7, <1>8, QueueParts

(* Only the step that creates a run leads to the one that queues it.       *)
LEMMA PushFollowsCreate ==
  ASSUME HandlersTyped, NEW h \in Handlers, CommandStep(h) \/ PromptStep(h) \/ CallRejected(h)
  PROVE  step'[h] # "pushRun"
<1>1. DOMAIN step = Handlers
  BY DEF HandlersTyped
<1>2. \A m : FirstStep(m) # "pushRun"
  BY DEF FirstStep
<1>3. CASE End(h) \/ Reply(h)
  BY <1>1, <1>3 DEF End, Reply
<1>4. CASE ReceiveMessage(h) \/ CreateSession(h)
  BY <1>1, <1>2, <1>3, <1>4 DEF ReceiveMessage, CreateSession, Goto, Go
<1>5. CASE ReadBinding(h) \/ SaveResolved(h)
  BY <1>1, <1>3, <1>5 DEF ReadBinding, SaveResolved, Goto, Go
<1>6. CASE ReadOverride(h)
  BY <1>1, <1>6 DEF ReadOverride, Goto, Go
<1>7. CASE NewDeleteOverride(h) \/ BindRefusesActive(h) \/ BindResolve(h) \/ BindCreate(h)
  BY <1>1, <1>3, <1>7 DEF NewDeleteOverride, BindRefusesActive, BindResolve, BindCreate, Goto, Go
<1>8. CASE BindSave(h) \/ BindReset(h) \/ StatusLatest(h) \/ StatusActive(h)
  BY <1>1, <1>8 DEF BindSave, BindReset, StatusLatest, StatusActive, Goto, Go
<1>9. CASE ReadConversation(h) \/ PromptFindsActive(h) \/ PromptPushesRun(h)
  BY <1>1, <1>9 DEF ReadConversation, PromptFindsActive, PromptPushesRun, Go
<1>10. CASE \/ SendReply(h) \/ NewReset(h) \/ BindClear(h) \/ ModeReset(h) \/ ModeSet(h)
            \/ PromptSavesPosition(h) \/ StatusAhead(h) \/ CallRejected(h)
  BY <1>3, <1>10
  DEF SendReply, NewReset, BindClear, ModeReset, ModeSet, PromptSavesPosition, StatusAhead,
      CallRejected
<1> QED
  BY <1>4, <1>5, <1>6, <1>7, <1>8, <1>9, <1>10 DEF CommandStep, PromptStep

LEMMA OthersWait ==
  ASSUME NEW h \in Handlers, GoesTo(h)
  PROVE  \A g \in Handlers : g # h =>
           step'[g] = step[g] /\ message'[g] = message[g] /\ seen'[g] = seen[g]
<1> QED
  BY DEF GoesTo, Moved

LEMMA HandlerRunsLeft ==
  ASSUME FitsInv, NEW h \in Handlers, CommandStep(h) \/ PromptStep(h) \/ CallRejected(h)
  PROVE  /\ runs' \in Seq(Run) /\ Len(runs') = Len(runs) /\ RunsKept
         /\ \A r \in 1..Len(runs) : runs'[r].status = runs[r].status
<1>1. CASE PromptSavesPosition(h)
  <2>1. /\ HandledAs("savePosition", message[h], seen[h], Len(runs)) /\ seen[h].run \in 0..Len(runs)
        /\ Len(runs) \in Nat /\ seen[h].position \in Nat
    BY <1>1, HeldAt, HandlerFacts DEF PromptSavesPosition, FitsInv, Seen
  <2>2. seen[h].run \in 1..Len(runs)
    BY <2>1 DEF HandledAs, RunSteps
  <2> QED
    BY <1>1, <2>1, <2>2, PositionSaved DEF PromptSavesPosition
<1>2. CASE ~PromptSavesPosition(h)
  <2>1. CommandStep(h) => UNCHANGED runs
    BY DEF CommandStep, storeVars, ReceiveMessage, CreateSession, SendReply, ReadBinding, SaveResolved,
           ReadOverride, NewDeleteOverride, NewReset, BindRefusesActive, BindResolve, BindCreate,
           BindSave, BindReset, BindClear, ModeReset, ModeSet, StatusLatest, StatusActive, StatusAhead
  <2>2. UNCHANGED runs
    BY <1>2, <2>1 DEF PromptStep, CallRejected, ReadConversation, PromptFindsActive,
                     PromptPushesRun, storeVars
  <2> QED
    BY <2>2, RunFacts DEF RunsKept
<1> QED
  BY <1>1, <1>2

LEMMA HandlerQueues ==
  ASSUME FitsInv, QueueInv, NEW h \in Handlers, HandlerStep(h) \/ CallRejected(h)
  PROVE  QueueInv'
<1>1. BaseInv /\ HandlersTyped
  BY DEF FitsInv, BaseInv
<1>2. GoesTo(h)
  BY <1>1, HandlerGoes
<1>3. CASE PromptCreatesRun(h) /\ phase' = Append(phase, "queued") /\ returned' = Append(returned, 0)
  <2>1. seen'[h].run = Len(runs) + 1
    BY <1>1, <1>3 DEF PromptCreatesRun, See, HandlersTyped, Seen
  <2> QED
    BY <1>2, <1>3, <2>1, RunAdded, OthersWait, QueueAdded
<1>4. CASE PromptPushesRun(h) /\ UNCHANGED phase
  <2>1. step'[h] = "savePosition"
    BY <1>1, <1>4 DEF PromptPushesRun, Go, HandlersTyped
  <2> QED
    BY <1>2, <1>4, <2>1, OthersWait, QueuePushed
<1>5. CASE (CommandStep(h) \/ PromptStep(h) \/ CallRejected(h)) /\ ~PromptPushesRun(h)
             /\ UNCHANGED phase
  <2>1. UNCHANGED queue
    <3>1. CommandStep(h) => UNCHANGED queue
      BY DEF CommandStep, storeVars, ReceiveMessage, CreateSession, SendReply, ReadBinding, SaveResolved,
             ReadOverride, NewDeleteOverride, NewReset, BindRefusesActive, BindResolve, BindCreate,
             BindSave, BindReset, BindClear, ModeReset, ModeSet, StatusLatest, StatusActive, StatusAhead
    <3> QED
      BY <1>5, <3>1 DEF PromptStep, CallRejected, ReadConversation, PromptFindsActive,
                       PromptSavesPosition, storeVars
  <2>2. step'[h] # "pushRun"
    BY <1>1, <1>5, PushFollowsCreate
  <2> QED
    BY <1>2, <1>5, <2>1, <2>2, OthersWait, QueueLeft
<1> QED
  BY <1>3, <1>4, <1>5 DEF HandlerStep, CallRejected

(* Where a step of the controller takes a run.                             *)
LEMMA PhaseMoves ==
  ASSUME FitsInv, NEW r \in 1..Len(runs),
         \/ StartRun(r) \/ SessionInvalid(r) \/ Invalidates(r) \/ BridgeCompletes(r) \/ ReadsBack(r)
         \/ WritesBack(r) \/ RecoveryFails(r) \/ RunStops(r) \/ RunEnds(r) \/ ControllerLeaves(r)
         \/ ReaperEnds(r)
  PROVE  /\ UNCHANGED queue
         /\ \A q \in 1..Len(runs) : phase'[q] = phase[q] \/ phase[q] \notin {"queued", "ended"}
<1>1. UNCHANGED queue
  BY DEF StartRun, SessionInvalid, Invalidates, BridgeCompletes, ReadsBack, WritesBack, RecoveryFails,
         RunStops, RunEnds, ControllerLeaves, ReaperEnds, storeVars
<1>2. UNCHANGED phase \/ \E to \in Phases : Enter(r, to)
  BY DEF StartRun, SessionInvalid, Invalidates, BridgeCompletes, ReadsBack, WritesBack, RecoveryFails,
         RunStops, RunEnds, ControllerLeaves, ReaperEnds, Phases, Fresh, Retrying
<1>3. UNCHANGED phase \/ phase[r] \notin {"queued", "ended"}
  BY DEF StartRun, SessionInvalid, Invalidates, BridgeCompletes, ReadsBack, WritesBack, RecoveryFails,
         RunStops, RunEnds, ControllerLeaves, ReaperEnds, InPhase, Fresh, Retrying
<1> QED
  BY <1>1, <1>2, <1>3, Entered

LEMMA RunRequeues ==
  ASSUME FitsInv, QueueInv, NEW r \in 1..Len(runs), RequeueRun(r), UNCHANGED <<step, seen>>
  PROVE  QueueInv'
<1>1. PICK k \in Keys : k = runs[r].workspace /\ Enqueue(k, r)
  BY RunFacts DEF RequeueRun, Run
<1>2. phase[r] = "popped" /\ \A q \in 1..Len(runs) : phase'[q] = IF q = r THEN "queued" ELSE phase[q]
  <2>1. "queued" \in Phases
    BY DEF Phases
  <2> QED
    BY <2>1, Entered DEF RequeueRun, InPhase
<1>3. \A l \in Keys : \A i \in 1..Len(queue[l]) : queue[l][i] # r
  BY <1>2, QueueFacts DEF QueuedOnly
<1>4. \A g \in Handlers : step[g] = "pushRun" => seen[g].run # r
  BY <1>2, QueueFacts DEF NotYetQueued
<1> QED
  BY <1>1, <1>2, <1>3, <1>4, QueueGains

LEMMA ControllerQueues ==
  ASSUME FitsInv, QueueInv, ControllerStep, UNCHANGED <<step, seen>>
  PROVE  QueueInv'
<1>1. ASSUME NEW k \in Keys, PopRun(k) PROVE QueueInv'
  BY <1>1, QueuePopped
<1>2. ASSUME NEW r \in 1..Len(runs), RequeueRun(r) PROVE QueueInv'
  BY <1>2, RunRequeues
<1>3. ASSUME NEW r \in 1..Len(runs),
             \/ StartRun(r) \/ SessionInvalid(r) \/ Invalidates(r) \/ BridgeCompletes(r)
             \/ ReadsBack(r) \/ WritesBack(r) \/ RecoveryFails(r) \/ RunStops(r) \/ RunEnds(r)
             \/ ControllerLeaves(r) \/ ReaperEnds(r)
      PROVE QueueInv'
  <2>1. UNCHANGED queue /\ \A q \in 1..Len(runs) : phase[q] = "queued" => phase'[q] = "queued"
    BY <1>3, PhaseMoves
  <2> QED
    BY <2>1, QueueLeft
<1> QED
  BY <1>1, <1>2, <1>3, RunFacts DEF ControllerStep

---------------------------------------------------------------------------
(* Handlers that come one after the other.                                 *)

Alone(h) ==
  \A g \in Handlers : g # h =>
    step[g] = "idle" /\ step'[g] = "idle" /\ message'[g] = message[g]

ChatCalm(c) == OverrideAsked(c) /\ BindingAsked(c) /\ SessionAsked(c)

(* What a step for one chat leaves of the others.                          *)
OthersLeft(c) ==
  \A d \in Chats : d # c =>
    /\ binding'[d] = binding[d] /\ override'[d] = override[d]
    /\ conversation'[d] = conversation[d] /\ intent'[d] = intent[d]

RunsLeft(c) ==
  /\ Len(runs') \in Nat /\ Len(runs) <= Len(runs')
  /\ \A r \in 1..Len(runs) :
       /\ runs'[r].chat = runs[r].chat /\ runs'[r].requested = runs[r].requested
       /\ runs'[r].status = runs[r].status /\ phase'[r] = phase[r]
  /\ \A r \in 1..Len(runs') : r > Len(runs) => runs'[r].chat = c

LEMMA OneAtMost ==
  ASSUME NEW S, IsFiniteSet(S), NEW x \in S, NEW y \in S, Cardinality(S) <= 1
  PROVE  x = y
<1> SUFFICES ASSUME x # y PROVE FALSE
  OBVIOUS
<1>1. {x, y} \subseteq S /\ IsFiniteSet({x, y})
  BY FS_Subset
<1>2. Cardinality({x, y}) <= Cardinality(S) /\ Cardinality(S) \in Nat
  BY <1>1, FS_Subset, FS_CardinalityType
<1>3. Cardinality({x}) = 1 /\ IsFiniteSet({x})
  BY FS_Singleton
<1>4. Cardinality({x} \cup {y}) = 2
  BY <1>3, FS_AddElement
<1>5. {x} \cup {y} = {x, y}
  OBVIOUS
<1> QED
  BY <1>2, <1>4, <1>5

LEMMA AtWorkStaysFinite ==
  ASSUME NEW h \in Handlers, GoesTo(h), IsFiniteSet(AtWork)
  PROVE  IsFiniteSet(AtWork')
<1>1. AtWork' \subseteq AtWork \cup {h}
  BY OthersWait DEF AtWork
<1>2. IsFiniteSet(AtWork \cup {h})
  BY FS_AddElement
<1> QED
  BY <1>1, <1>2, FS_Subset

LEMMA IdleReceives ==
  ASSUME HandlersTyped, NEW h \in Handlers, HandlerStep(h), step[h] = "idle"
  PROVE  ReceiveMessage(h) /\ step'[h] # "idle"
<1>1. ReceiveMessage(h)
  <2>1. ~PromptCreatesRun(h) /\ ~PromptStep(h)
    BY DEF PromptCreatesRun, PromptStep, ReadConversation, PromptFindsActive, PromptPushesRun,
           PromptSavesPosition, At
  <2>2. ~(CreateSession(h) \/ SendReply(h) \/ ReadBinding(h) \/ SaveResolved(h) \/ ReadOverride(h)
            \/ NewDeleteOverride(h) \/ NewReset(h))
    BY DEF CreateSession, SendReply, ReadBinding, SaveResolved, ReadOverride, NewDeleteOverride,
           NewReset, At
  <2>3. ~(BindRefusesActive(h) \/ BindResolve(h) \/ BindCreate(h) \/ BindSave(h) \/ BindReset(h)
            \/ BindClear(h) \/ ModeReset(h) \/ ModeSet(h))
    BY DEF BindRefusesActive, BindResolve, BindCreate, BindSave, BindReset, BindClear, ModeReset,
           ModeSet, At
  <2>4. ~(StatusLatest(h) \/ StatusActive(h) \/ StatusAhead(h))
    BY DEF StatusLatest, StatusActive, StatusAhead, At
  <2> QED
    BY <2>1, <2>2, <2>3, <2>4 DEF HandlerStep, CommandStep
<1>2. \A m : FirstStep(m) # "idle"
  BY DEF FirstStep
<1> QED
  BY <1>1, <1>2 DEF ReceiveMessage, HandlersTyped

LEMMA WorksAlone ==
  ASSUME FitsInv, NEW h \in Handlers, HandlerStep(h), IsFiniteSet(AtWork), CalmInv,
         Cardinality(AtWork') <= 1
  PROVE  Alone(h)
<1>1. BaseInv /\ HandlersTyped
  BY DEF FitsInv, BaseInv
<1>2. GoesTo(h)
  BY <1>1, HandlerGoes
<1>3. \A g \in Handlers : g # h => step'[g] = step[g] /\ message'[g] = message[g]
  BY <1>2, OthersWait
<1> SUFFICES ASSUME NEW g \in Handlers, g # h, step[g] # "idle" PROVE FALSE
  BY <1>3 DEF Alone
<1>4. CASE step[h] # "idle"
  BY <1>4 DEF CalmInv, AtWork
<1>5. CASE step[h] = "idle"
  <2>1. step'[h] # "idle" /\ step'[g] # "idle"
    BY <1>1, <1>3, <1>5, IdleReceives
  <2>2. g \in AtWork' /\ h \in AtWork'
    BY <2>1 DEF AtWork
  <2>3. IsFiniteSet(AtWork')
    BY <1>2, AtWorkStaysFinite
  <2>4. g = h
    BY <2>2, <2>3, OneAtMost
  <2> QED
    BY <2>4
<1> QED
  BY <1>4, <1>5

(* Nothing older than the last /new can come back to a chat.               *)
LEMMA SessionStays ==
  ASSUME FitsInv, NEW c \in Chats, SessionAsked(c), Len(runs') = Len(runs),
         intent'[c].active = intent[c].active, intent'[c].fresh = intent[c].fresh,
         \A r \in 1..Len(runs) :
           /\ runs'[r].chat = runs[r].chat /\ runs'[r].requested = runs[r].requested
           /\ phase[r] = "ended" => phase'[r] = "ended",
         intent[c].active = {} => conversation'[c].bridge \notin 1..intent[c].fresh
  PROVE  SessionAsked(c)'
<1> SUFFICES ASSUME intent[c].active = {} PROVE SessionAsked(c)'
  BY DEF SessionAsked
<1>1. \A r \in 1..Len(runs) : runs[r].chat = c =>
        /\ r <= intent[c].fresh => phase[r] = "ended"
        /\ runs[r].requested \in 1..intent[c].fresh => phase[r] = "ended"
  BY DEF SessionAsked
<1> QED
  BY <1>1 DEF SessionAsked

LEMMA OtherChatsCalm ==
  ASSUME FitsInv, CalmInv, NEW h \in Handlers, NEW c, step[h] # "idle" => message[h].chat = c,
         Alone(h), OthersLeft(c), RunsLeft(c), NEW d \in Chats, d # c
  PROVE  ChatCalm(d)'
<1>1. OverrideAsked(d) /\ BindingAsked(d) /\ SessionAsked(d)
  BY DEF CalmInv
<1>2. /\ binding'[d] = binding[d] /\ override'[d] = override[d]
      /\ conversation'[d] = conversation[d] /\ intent'[d] = intent[d]
  BY DEF OthersLeft
<1>3. OverrideAsked(d)'
  BY <1>1, <1>2 DEF OverrideAsked
<1>4. BindingAsked(d)'
  <2>1. \A g \in Handlers : ~(step[g] \in {"bindReset", "bindClear"} /\ message[g].chat = d)
    BY DEF Alone
  <2> QED
    BY <1>1, <1>2, <2>1 DEF BindingAsked
<1>5. SessionAsked(d)'
  <2> SUFFICES ASSUME intent[d].active = {} PROVE SessionAsked(d)'
    BY <1>2 DEF SessionAsked
  <2>1. /\ conversation[d].bridge \notin 1..intent[d].fresh
        /\ \A r \in 1..Len(runs) : runs[r].chat = d =>
             /\ r <= intent[d].fresh => phase[r] = "ended"
             /\ runs[r].requested \in 1..intent[d].fresh => phase[r] = "ended"
    BY <1>1 DEF SessionAsked
  <2>2. \A r \in 1..Len(runs') : runs'[r].chat = d => r \in 1..Len(runs)
    BY RunFacts DEF RunsLeft
  <2>3. \A r \in 1..Len(runs) :
         /\ runs'[r].chat = runs[r].chat /\ runs'[r].requested = runs[r].requested
         /\ phase'[r] = phase[r]
    BY DEF RunsLeft
  <2> QED
    BY <1>2, <2>1, <2>2, <2>3 DEF SessionAsked
<1> QED
  BY <1>3, <1>4, <1>5 DEF ChatCalm

LEMMA CalmParts ==
  ASSUME (\A g, h \in AtWork : g = h)', (\A c \in Chats : ChatCalm(c))',
         (\A h \in Handlers : AtHand(h))'
  PROVE  CalmInv'
<1> QED
  BY DEF CalmInv, ChatCalm

(* A step of the only handler at work, as what becomes of its chat.        *)
CalmStep(h) ==
  \E c \in Chats :
    /\ step[h] # "idle" => message[h].chat = c
    /\ OthersLeft(c) /\ RunsLeft(c) /\ ChatCalm(c)' /\ AtHand(h)'

LEMMA StaysCalm ==
  ASSUME FitsInv, CalmInv, NEW h \in Handlers, Alone(h), CalmStep(h)
  PROVE  CalmInv'
<1>1. PICK c \in Chats :
    /\ step[h] # "idle" => message[h].chat = c
    /\ OthersLeft(c) /\ RunsLeft(c) /\ ChatCalm(c)' /\ AtHand(h)'
  BY DEF CalmStep
<1>2. (\A g, f \in AtWork : g = f)'
  BY DEF Alone, AtWork
<1>3. (\A d \in Chats : ChatCalm(d))'
  <2> SUFFICES ASSUME NEW d \in Chats PROVE ChatCalm(d)'
    OBVIOUS
  <2>1. CASE d = c
    BY <1>1, <2>1
  <2>2. CASE d # c
    BY <1>1, <2>2, OtherChatsCalm
  <2> QED
    BY <2>1, <2>2
<1>4. (\A g \in Handlers : AtHand(g))'
  <2> SUFFICES ASSUME NEW g \in Handlers PROVE AtHand(g)'
    OBVIOUS
  <2>1. CASE g = h
    BY <1>1, <2>1
  <2>2. CASE g # h
    BY <2>2 DEF Alone, AtHand
  <2> QED
    BY <2>1, <2>2
<1> QED
  BY <1>2, <1>3, <1>4, CalmParts

---------------------------------------------------------------------------
(* The steps of the only handler at work.                                  *)

CalmBefore(h) ==
  /\ FitsInv /\ IntentTyped /\ CalmInv /\ Alone(h) /\ intent' = Asked(h)
  /\ PromptCreatesRun(h) \/ UNCHANGED phase

LEMMA CalmFacts ==
  ASSUME NEW h \in Handlers, CalmBefore(h), step[h] # "idle"
  PROVE  /\ Chat(h) \in Chats /\ message[h].chat = Chat(h) /\ AtHand(h)
         /\ OverrideAsked(Chat(h)) /\ BindingAsked(Chat(h)) /\ SessionAsked(Chat(h))
         /\ HandledAs(step[h], message[h], seen[h], Len(runs))
         /\ DOMAIN step = Handlers /\ DOMAIN message = Handlers /\ seen \in [Handlers -> Seen]
         /\ intent[Chat(h)] \in Intent /\ intent[Chat(h)].fresh <= Len(runs)
<1>1. FitsInv /\ BaseInv /\ HandlersTyped /\ CalmInv /\ IntentTyped
  BY DEF CalmBefore, FitsInv, BaseInv
<1>2. Chat(h) \in Chats /\ message[h].chat = Chat(h)
  BY <1>1, HandlerFacts
<1> QED
  BY <1>1, <1>2, HandlerFacts DEF CalmInv, IntentTyped, HandlersTyped

LEMMA NothingAsked ==
  ASSUME NEW h \in Handlers, CalmBefore(h),
         step[h] \notin {"resetConversation", "bindClear", "resetMode", "setMode"}
  PROVE  UNCHANGED intent
<1> QED
  BY DEF CalmBefore, Asked, At

(* The step goes on with the same message.                                 *)
LEMMA HandKept ==
  ASSUME NEW h \in Handlers, CalmBefore(h), step[h] # "idle", NEW c, c = message[h].chat,
         message'[h] = message[h], intent' = intent,
         \/ seen'[h].conversation = seen[h].conversation
         \/ seen'[h].conversation = conversation[c],
         step'[h] = "resetConversation" => override'[c] = NoOverride,
         step'[h] \in {"bindReset", "bindClear"} => binding'[c].key = message[h].arg,
         step'[h] = "saveBinding" => binding'[c] = Unbound \/ binding'[c].key = seen'[h].key,
         step'[h] \in {"resolveKey", "createWorkspace", "bindManual", "bindCreated"} =>
           binding'[c].key = None \/ ActiveOf(c)' = {}
  PROVE  AtHand(h)'
<1>1. intent[c].active = {} => conversation[c].bridge \notin 1..intent[c].fresh
                               /\ seen[h].conversation.bridge \notin 1..intent[c].fresh
  BY CalmFacts DEF AtHand, SessionAsked
<1> QED
  BY <1>1 DEF AtHand

LEMMA HandIdle ==
  ASSUME NEW h \in Handlers, step'[h] = "idle"
  PROVE  AtHand(h)'
<1> QED
  BY DEF AtHand

LEMMA HandEmpty ==
  ASSUME NEW h \in Handlers, CalmBefore(h), End(h)
  PROVE  AtHand(h)'
<1>1. step'[h] = "idle"
  BY DEF End, CalmBefore, FitsInv, BaseInv, HandlersTyped
<1> QED
  BY <1>1, HandIdle

LEMMA RunsAreLeft ==
  ASSUME NEW h \in Handlers, CalmBefore(h), CommandStep(h) \/ PromptStep(h)
  PROVE  /\ \A c : RunsLeft(c)
         /\ Len(runs') = Len(runs) /\ \A c : ActiveOf(c)' = ActiveOf(c)
<1>1. FitsInv
  BY DEF CalmBefore
<1>2. /\ Len(runs') = Len(runs) /\ RunsKept /\ Len(runs) \in Nat /\ DOMAIN runs = 1..Len(runs)
      /\ \A r \in 1..Len(runs) : runs'[r].status = runs[r].status
      /\ runs' \in Seq(Run) /\ runs \in Seq(Run)
  BY <1>1, HandlerRunsLeft, RunFacts
<1>3. UNCHANGED phase
  <2>1. ASSUME NEW v, runs' = Append(runs, v) PROVE FALSE
    <3>1. Len(runs') = Len(runs) + 1
      BY <1>2, <2>1
    <3> QED
      BY <1>2, <3>1
  <2>2. ~PromptCreatesRun(h)
    BY <2>1 DEF PromptCreatesRun, CreateQueuedRun
  <2> QED
    BY <2>2 DEF CalmBefore
<1> QED
  BY <1>2, <1>3, LenProperties DEF RunsLeft, RunsKept, ActiveOf

(* Steps that neither ask for anything nor touch what was asked for.       *)
LEMMA QuietCalm ==
  ASSUME NEW h \in Handlers, CalmBefore(h), CommandStep(h) \/ PromptStep(h), NEW c \in Chats,
         step[h] # "idle" => message[h].chat = c,
         UNCHANGED <<binding, override, conversation, intent>>,
         step[h] \notin {"bindReset", "bindClear"}, AtHand(h)'
  PROVE  CalmStep(h)
<1>1. FitsInv /\ CalmInv /\ Alone(h)
  BY DEF CalmBefore
<1>2. OverrideAsked(c) /\ BindingAsked(c) /\ SessionAsked(c)
  BY <1>1 DEF CalmInv
<1>3. OverrideAsked(c)'
  BY <1>2 DEF OverrideAsked
<1>4. BindingAsked(c)'
  <2>1. \A g \in Handlers : ~(step[g] \in {"bindReset", "bindClear"} /\ message[g].chat = c)
    BY <1>1 DEF Alone
  <2> QED
    BY <1>2, <2>1 DEF BindingAsked
<1>5. SessionAsked(c)'
  <2>1. intent[c].active = {} => conversation'[c].bridge \notin 1..intent[c].fresh
    BY <1>2 DEF SessionAsked
  <2>2. \A r \in 1..Len(runs) :
           /\ runs'[r].chat = runs[r].chat /\ runs'[r].requested = runs[r].requested
           /\ phase[r] = "ended" => phase'[r] = "ended"
    BY RunsAreLeft DEF RunsLeft
  <2> QED
    BY <1>1, <1>2, <2>1, <2>2, RunsAreLeft, SessionStays
<1>6. OthersLeft(c) /\ RunsLeft(c)
  BY RunsAreLeft DEF OthersLeft
<1> QED
  BY <1>3, <1>4, <1>5, <1>6 DEF CalmStep, ChatCalm

(* A handler that takes no further step with what it holds.                *)
LEMMA QuietEnd ==
  ASSUME NEW h \in Handlers, CalmBefore(h), CommandStep(h) \/ PromptStep(h), End(h), step[h] # "idle",
         UNCHANGED <<binding, override, conversation>>,
         step[h] \notin {"bindReset", "bindClear", "resetConversation", "resetMode", "setMode"}
  PROVE  CalmStep(h)
<1> QED
  BY QuietCalm, HandEmpty, NothingAsked, CalmFacts

LEMMA CalmReceive ==
  ASSUME NEW h \in Handlers, CalmBefore(h), ReceiveMessage(h)
  PROVE  CalmStep(h)
<1>1. BaseInv /\ HandlersTyped /\ Len(runs) \in Nat /\ CalmInv
  BY RunFacts DEF CalmBefore, FitsInv, BaseInv
<1>2. /\ step[h] = "idle" /\ UNCHANGED <<binding, override, conversation, seen>>
      /\ HandledAs(step[h], message[h], seen[h], Len(runs))
  BY <1>1, HandlerFacts DEF ReceiveMessage, At, storeVars
<1>3. seen'[h].conversation.bridge = 0
  BY <1>2 DEF HandledAs, NothingSeen, NoConversation
<1>4. UNCHANGED intent
  BY <1>2, NothingAsked
<1>5. PICK event \in Events :
        /\ Accepted(event)
        /\ message'[h] = Envelope(event)
        /\ step'[h] = IF event.chat \in sessions THEN FirstStep(Envelope(event)) ELSE "createSession"
  BY <1>1 DEF ReceiveMessage, HandlersTyped
<1>6. \A m : FirstStep(m) \in {"readConversation", "deleteOverride", "readBinding", "reply"}
  BY DEF FirstStep
<1>7. step'[h] \in {"createSession", "readConversation", "deleteOverride", "readBinding", "reply"}
  BY <1>5, <1>6
<1>8. AtHand(h)'
  BY <1>3, <1>7 DEF AtHand
<1>9. Envelope(event).chat \in Chats
  BY <1>5, HandlerAssumption
  DEF Envelope, Accepted, AcceptedByWebsocket, AcceptedByWebhook, IsAllowed
<1> QED
  BY <1>2, <1>4, <1>8, <1>9, QuietCalm DEF CommandStep

LEMMA CalmCreateSession ==
  ASSUME NEW h \in Handlers, CalmBefore(h), CreateSession(h)
  PROVE  CalmStep(h)
<1>1. step[h] = "createSession" /\ UNCHANGED <<binding, override, conversation>>
  BY DEF CreateSession, At
<1>2. CASE Reply(h)
  BY <1>1, <1>2, QuietEnd DEF Reply, CommandStep
<1>3. CASE Goto(h, FirstStep(message[h]))
  <2>1. /\ step'[h] = FirstStep(message[h]) /\ message'[h] = message[h] /\ seen'[h] = seen[h]
        /\ UNCHANGED intent /\ message[h].chat \in Chats
    BY <1>1, <1>3, NothingAsked, CalmFacts DEF Goto, Go
  <2>2. FirstStep(message[h]) \in {"readConversation", "deleteOverride", "readBinding", "reply"}
    BY DEF FirstStep
  <2>3. AtHand(h)'
    BY <1>1, <2>1, <2>2, HandKept
  <2> QED
    BY <1>1, <2>1, <2>3, QuietCalm DEF CommandStep
<1> QED
  BY <1>2, <1>3 DEF CreateSession

LEMMA CalmReadBinding ==
  ASSUME NEW h \in Handlers, CalmBefore(h), ReadBinding(h)
  PROVE  CalmStep(h)
<1>1. /\ step[h] = "readBinding" /\ UNCHANGED <<binding, override, conversation>> /\ UNCHANGED intent
      /\ BaseInv
  BY NothingAsked DEF ReadBinding, At, storeVars, CalmBefore, FitsInv
<1>2. PICK c \in Chats : c = Chat(h) /\ c = message[h].chat
  BY <1>1, CalmFacts
<1>3. PICK k \in Keys \cup {None}, s \in Sources :
        /\ k = Choice(c).key /\ s = Choice(c).source
        /\ Choice(c) # Unbound => k \in Keys
        /\ binding[c] # Unbound => Choice(c) = binding[c]
  BY <1>1, ChoiceTyped DEF BaseInv
<1>4. PICK w \in Seen : w = seen[h]
  BY <1>1, CalmFacts
<1>5. /\ seen'[h] = [w EXCEPT !.key = k, !.source = s] /\ message'[h] = message[h]
      /\ step'[h] = IF Choice(c) # Unbound THEN "saveBinding"
                    ELSE CASE message[h].command = "/bind" -> "resolveKey"
                           [] message[h].command = "/status" -> "readLatest"
                           [] OTHER -> "reply"
  BY <1>1, <1>2, <1>3, <1>4, CalmFacts DEF ReadBinding, See, Go
<1>6. seen'[h].conversation = seen[h].conversation /\ seen'[h].key = k
  <2>1. SameBut([w EXCEPT !.key = k, !.source = s], w)
        /\ [w EXCEPT !.key = k, !.source = s].key = k
    BY DEF Seen, SameBut
  <2> QED
    BY <1>4, <1>5, <2>1 DEF SameBut
<1>7. /\ step'[h] \in {"saveBinding", "resolveKey", "readLatest", "reply"}
      /\ step'[h] = "resolveKey" => Choice(c) = Unbound
  BY <1>5
<1>8. /\ step'[h] = "saveBinding" => binding'[c] = Unbound \/ binding'[c].key = seen'[h].key
      /\ step'[h] = "resolveKey" => binding'[c].key = None
  BY <1>1, <1>3, <1>6, <1>7 DEF Unbound
<1>9. AtHand(h)'
  BY <1>1, <1>2, <1>5, <1>6, <1>7, <1>8, HandKept
<1> QED
  BY <1>1, <1>2, <1>9, QuietCalm DEF CommandStep

LEMMA SessionLeft ==
  ASSUME NEW h \in Handlers, CalmBefore(h), CommandStep(h) \/ PromptStep(h), NEW c \in Chats,
         intent'[c].active = intent[c].active, intent'[c].fresh = intent[c].fresh,
         conversation'[c].bridge \in {0, conversation[c].bridge}
  PROVE  SessionAsked(c)'
<1>1. FitsInv /\ SessionAsked(c)
  BY DEF CalmBefore, CalmInv
<1>2. intent[c].active = {} => conversation'[c].bridge \notin 1..intent[c].fresh
  BY <1>1 DEF SessionAsked
<1>3. \A r \in 1..Len(runs) :
         /\ runs'[r].chat = runs[r].chat /\ runs'[r].requested = runs[r].requested
         /\ phase[r] = "ended" => phase'[r] = "ended"
  BY RunsAreLeft DEF RunsLeft
<1> QED
  BY <1>1, <1>2, <1>3, RunsAreLeft, SessionStays

(* What the binding of the chat is before a handler moves it.              *)
LEMMA BindingBefore ==
  ASSUME NEW h \in Handlers, CalmBefore(h), step[h] # "idle",
         step[h] \notin {"bindReset", "bindClear"}
  PROVE  intent[Chat(h)].key # None => binding[Chat(h)].key = intent[Chat(h)].key
<1>1. \A g \in Handlers : step[g] \notin {"bindReset", "bindClear"}
  BY DEF CalmBefore, Alone
<1> QED
  BY <1>1, CalmFacts DEF BindingAsked

LEMMA CalmSaveResolved ==
  ASSUME NEW h \in Handlers, CalmBefore(h), SaveResolved(h)
  PROVE  CalmStep(h)
<1>1. step[h] = "saveBinding" /\ UNCHANGED <<override, conversation>> /\ UNCHANGED intent
  BY NothingAsked DEF SaveResolved, At
<1>2. CASE Reply(h) /\ UNCHANGED binding
  BY <1>1, <1>2, QuietEnd DEF Reply, CommandStep
<1>3. CASE ~(Reply(h) /\ UNCHANGED binding)
  <2>1. PICK c \in Chats : c = Chat(h) /\ c = message[h].chat
    BY <1>1, CalmFacts
  <2> DEFINE s == CASE message[h].command = "/bind" ->
                             IF message[h].arg = seen[h].key THEN "reply" ELSE "findActive"
                    [] message[h].command = "/status" -> "readLatest"
                    [] OTHER -> "readOverride"
  <2>2. SaveBinding(c, seen[h].key, seen[h].source) /\ Goto(h, s)
    BY <1>3, <2>1 DEF SaveResolved
  <2>3. s \in {"reply", "findActive", "readLatest", "readOverride"}
    OBVIOUS
  <2> HIDE DEF s
  <2>4. step'[h] = s /\ message'[h] = message[h] /\ seen'[h] = seen[h]
    BY <1>1, <2>2, CalmFacts DEF Goto, Go
  <2>5. AtHand(h)'
    BY <1>1, <2>1, <2>3, <2>4, HandKept
  <2>6. /\ binding'[c].key = seen[h].key /\ \A d \in Chats : d # c => binding'[d] = binding[d]
    BY <2>2 DEF SaveBinding, CalmBefore, FitsInv, BaseInv, StoreTyped
  <2>7. binding[c] = Unbound \/ binding[c].key = seen[h].key
    BY <1>1, <2>1, CalmFacts DEF AtHand
  <2>8. BindingAsked(c)'
    <3>1. intent[c].key # None => binding[c].key = intent[c].key
      BY <1>1, <2>1, BindingBefore
    <3>2. Unbound.key = None /\ intent' = intent
      BY <1>1 DEF Unbound
    <3>3. intent'[c].key # None => binding'[c].key = intent'[c].key
      BY <2>6, <2>7, <3>1, <3>2
    <3> QED
      BY <3>3 DEF BindingAsked
  <2>9. OverrideAsked(c)'
    BY <1>1, <2>1, CalmFacts DEF OverrideAsked
  <2>10. SessionAsked(c)'
    BY <1>1, SessionLeft DEF CommandStep
  <2>11. OthersLeft(c) /\ RunsLeft(c)
    BY <1>1, <2>6, RunsAreLeft DEF OthersLeft, CommandStep
  <2> QED
    BY <2>1, <2>5, <2>8, <2>9, <2>10, <2>11 DEF CalmStep, ChatCalm
<1> QED
  BY <1>2, <1>3

LEMMA CalmReadOverride ==
  ASSUME NEW h \in Handlers, CalmBefore(h), ReadOverride(h)
  PROVE  CalmStep(h)
<1>1. /\ step[h] = "readOverride" /\ UNCHANGED <<binding, override, conversation>> /\ UNCHANGED intent
  BY NothingAsked DEF ReadOverride, At, storeVars
<1>2. PICK c \in Chats : c = Chat(h) /\ c = message[h].chat
  BY <1>1, CalmFacts
<1>3. PICK w \in Seen : w = seen[h]
  BY <1>1, CalmFacts
<1>4. /\ seen'[h] = [w EXCEPT !.mode = ResolveForChat(c, w.key)] /\ message'[h] = message[h]
      /\ step'[h] = CASE message[h].command = "prompt" -> "findActive"
             [] message[h].arg = "reset" -> "resetMode"
             [] message[h].arg \in Modes -> "setMode"
             [] OTHER -> "reply"
  BY <1>1, <1>2, <1>3, CalmFacts DEF ReadOverride, See, Go
<1>5. step'[h] \in {"findActive", "resetMode", "setMode", "reply"}
  BY <1>4, Zenon
<1>6. seen'[h].conversation = seen[h].conversation
  BY <1>3, <1>4 DEF Seen
<1>7. AtHand(h)'
  BY <1>1, <1>2, <1>4, <1>5, <1>6, HandKept
<1> QED
  BY <1>1, <1>2, <1>7, QuietCalm DEF CommandStep

LEMMA CalmDeleteOverride ==
  ASSUME NEW h \in Handlers, CalmBefore(h), NewDeleteOverride(h)
  PROVE  CalmStep(h)
<1>1. step[h] = "deleteOverride" /\ UNCHANGED <<binding, conversation>> /\ UNCHANGED intent
  BY NothingAsked DEF NewDeleteOverride, At
<1>2. PICK c \in Chats : c = Chat(h) /\ c = message[h].chat
  BY <1>1, CalmFacts
<1>3. override'[c] = NoOverride /\ \A d \in Chats : d # c => override'[d] = override[d]
  BY <1>2 DEF NewDeleteOverride, DeleteOverride, CalmBefore, FitsInv, BaseInv, StoreTyped
<1>4. step'[h] = "resetConversation" /\ message'[h] = message[h] /\ seen'[h] = seen[h]
  BY <1>1, CalmFacts DEF NewDeleteOverride, Goto, Go
<1>5. AtHand(h)'
  BY <1>1, <1>2, <1>3, <1>4, HandKept
<1>6. OverrideAsked(c)'
  BY <1>3 DEF OverrideAsked, NoOverride
<1>7. BindingAsked(c)'
  BY <1>1, <1>2, BindingBefore DEF BindingAsked
<1>8. SessionAsked(c)'
  BY <1>1, SessionLeft DEF CommandStep
<1>9. OthersLeft(c) /\ RunsLeft(c)
  BY <1>1, <1>3, RunsAreLeft DEF OthersLeft, CommandStep
<1> QED
  BY <1>2, <1>5, <1>6, <1>7, <1>8, <1>9 DEF CalmStep, ChatCalm

(* The chat starts afresh: what is unfinished may write its session back.  *)
LEMMA CalmNewReset ==
  ASSUME NEW h \in Handlers, CalmBefore(h), NewReset(h)
  PROVE  CalmStep(h)
<1>1. step[h] = "resetConversation" /\ UNCHANGED <<binding, override, runs>>
  BY DEF NewReset, At
<1>2. PICK c \in Chats : c = Chat(h) /\ c = message[h].chat
  BY <1>1, CalmFacts
<1>3. PICK v \in Intent : v = intent[c]
  BY <1>1, <1>2, CalmFacts
<1>4. /\ intent'[c].fresh = Len(runs) /\ intent'[c].active = Unfinished(c) /\ intent'[c].key = v.key
      /\ \A d \in Chats : d # c => intent'[d] = intent[d]
  <2>1. intent' = [intent EXCEPT ![c].mode = None, ![c].fresh = Len(runs), ![c].active = Unfinished(c)]
    BY <1>1, <1>2 DEF CalmBefore, Asked, At
  <2> QED
    BY <1>3, <2>1 DEF CalmBefore, IntentTyped, Intent
<1>5. conversation'[c].bridge = 0 /\ \A d \in Chats : d # c => conversation'[d] = conversation[d]
  <2>1. PICK u \in Conversation : u = Kept(c)
    BY KeptTyped DEF CalmBefore, FitsInv, BaseInv
  <2>2. conversation' = [conversation EXCEPT ![c] =
          [u EXCEPT !.bridge = 0, !.mode = None, !.status = "reset", !.resetAt = Len(runs)]]
    BY <1>2, <2>1 DEF NewReset, MarkBindingReset
  <2> QED
    BY <2>1, <2>2 DEF Conversation, CalmBefore, FitsInv, BaseInv, StoreTyped
<1>6. AtHand(h)'
  BY HandEmpty DEF NewReset, Reply
<1>7. OverrideAsked(c)'
  BY <1>1, <1>2, CalmFacts DEF AtHand, OverrideAsked, NoOverride
<1>8. BindingAsked(c)'
  BY <1>1, <1>2, <1>3, <1>4, BindingBefore DEF BindingAsked
<1>9. SessionAsked(c)'
  <2> SUFFICES ASSUME Unfinished(c) = {} PROVE SessionAsked(c)'
    BY <1>4 DEF SessionAsked
  <2>1. \A r \in 1..Len(runs) : runs[r].chat = c => phase[r] = "ended"
    BY RunFacts DEF Unfinished, RunsOf, CalmBefore
  <2>2. \A r \in 1..Len(runs) : phase'[r] = phase[r]
    BY RunsAreLeft DEF RunsLeft, CommandStep
  <2> QED
    BY <1>1, <1>4, <1>5, <2>1, <2>2 DEF SessionAsked
<1>10. OthersLeft(c) /\ RunsLeft(c)
  BY <1>1, <1>4, <1>5, RunsAreLeft DEF OthersLeft, CommandStep
<1> QED
  BY <1>2, <1>6, <1>7, <1>8, <1>9, <1>10 DEF CalmStep, ChatCalm

LEMMA CalmBindRefuses ==
  ASSUME NEW h \in Handlers, CalmBefore(h), BindRefusesActive(h)
  PROVE  CalmStep(h)
<1>1. step[h] = "findActive" /\ UNCHANGED <<binding, override, conversation>> /\ UNCHANGED intent
  BY NothingAsked DEF BindRefusesActive, At, storeVars
<1>2. PICK c \in Chats : c = Chat(h) /\ c = message[h].chat
  BY <1>1, CalmFacts
<1>3. /\ step'[h] = IF ActiveOf(c) # {} THEN "reply" ELSE "resolveKey"
      /\ message'[h] = message[h] /\ seen'[h] = seen[h]
  BY <1>1, <1>2, CalmFacts DEF BindRefusesActive, Goto, Go
<1>4. ActiveOf(c)' = ActiveOf(c)
  BY RunsAreLeft DEF CommandStep
<1>5. AtHand(h)'
  BY <1>1, <1>2, <1>3, <1>4, HandKept
<1> QED
  BY <1>1, <1>2, <1>5, QuietCalm DEF CommandStep

LEMMA CalmBindResolve ==
  ASSUME NEW h \in Handlers, CalmBefore(h), BindResolve(h) \/ BindCreate(h)
  PROVE  CalmStep(h)
<1>1. /\ step[h] \in {"resolveKey", "createWorkspace"} /\ UNCHANGED <<binding, override, conversation>>
      /\ UNCHANGED intent
  BY NothingAsked DEF BindResolve, BindCreate, At, storeVars
<1>2. PICK c \in Chats : c = Chat(h) /\ c = message[h].chat
  BY <1>1, CalmFacts
<1>3. CASE Reply(h)
  BY <1>1, <1>3, QuietEnd DEF Reply, CommandStep
<1>4. CASE ~Reply(h)
  <2>1. /\ step'[h] \in {"createWorkspace", "bindManual", "bindCreated"}
        /\ message'[h] = message[h] /\ seen'[h] = seen[h]
    BY <1>1, <1>2, <1>4, CalmFacts DEF BindResolve, BindCreate, Goto, Go
  <2>2. binding[c].key = None \/ ActiveOf(c) = {}
    BY <1>1, <1>2, CalmFacts DEF AtHand
  <2>3. ActiveOf(c)' = ActiveOf(c)
    BY RunsAreLeft DEF CommandStep
  <2>4. AtHand(h)'
    BY <1>1, <1>2, <2>1, <2>2, <2>3, HandKept
  <2> QED
    BY <1>1, <1>2, <2>4, QuietCalm DEF CommandStep
<1> QED
  BY <1>3, <1>4

LEMMA CalmBindSave ==
  ASSUME NEW h \in Handlers, CalmBefore(h), BindSave(h)
  PROVE  CalmStep(h)
<1>1. /\ step[h] \in {"bindManual", "bindCreated"} /\ UNCHANGED <<override, conversation>>
      /\ UNCHANGED intent
  BY NothingAsked DEF BindSave, At
<1>2. PICK c \in Chats : c = Chat(h) /\ c = message[h].chat
  BY <1>1, CalmFacts
<1>3. /\ binding'[c].key = message[h].arg /\ \A d \in Chats : d # c => binding'[d] = binding[d]
  BY <1>2 DEF BindSave, SaveBinding, CalmBefore, FitsInv, BaseInv, StoreTyped
<1>4. step'[h] = "bindReset" /\ message'[h] = message[h] /\ seen'[h] = seen[h]
  BY <1>1, CalmFacts DEF BindSave, Goto, Go
<1>5. AtHand(h)'
  BY <1>1, <1>2, <1>3, <1>4, HandKept
<1>6. OverrideAsked(c)'
  BY <1>1, <1>2, CalmFacts DEF OverrideAsked
<1>7. BindingAsked(c)'
  BY <1>2, <1>4 DEF BindingAsked
<1>8. SessionAsked(c)'
  BY <1>1, SessionLeft DEF CommandStep
<1>9. OthersLeft(c) /\ RunsLeft(c)
  BY <1>1, <1>3, RunsAreLeft DEF OthersLeft, CommandStep
<1> QED
  BY <1>2, <1>5, <1>6, <1>7, <1>8, <1>9 DEF CalmStep, ChatCalm

LEMMA CalmBindReset ==
  ASSUME NEW h \in Handlers, CalmBefore(h), BindReset(h)
  PROVE  CalmStep(h)
<1>1. step[h] = "bindReset" /\ UNCHANGED <<binding, override>> /\ UNCHANGED intent
  BY NothingAsked DEF BindReset, At
<1>2. PICK c \in Chats : c = Chat(h) /\ c = message[h].chat
  BY <1>1, CalmFacts
<1>3. /\ conversation'[c].bridge \in {0, conversation[c].bridge}
      /\ \A d \in Chats : d # c => conversation'[d] = conversation[d]
  <2>1. PICK u \in Conversation : u = Kept(c)
    BY KeptTyped DEF CalmBefore, FitsInv, BaseInv
  <2>2. CASE UNCHANGED conversation
    BY <2>2
  <2>3. CASE conversation' = [conversation EXCEPT ![c] =
          [u EXCEPT !.bridge = 0, !.mode = None, !.status = "reset", !.resetAt = Len(runs)]]
    BY <2>1, <2>3 DEF Conversation, CalmBefore, FitsInv, BaseInv, StoreTyped
  <2> QED
    BY <1>2, <2>1, <2>2, <2>3 DEF BindReset, MarkBindingReset
<1>4. step'[h] = "bindClear" /\ message'[h] = message[h] /\ seen'[h] = seen[h]
  BY <1>1, CalmFacts DEF BindReset, Goto, Go
<1>5. AtHand(h)'
  <2>1. binding'[c].key = message[h].arg
    BY <1>1, <1>2, CalmFacts DEF AtHand
  <2> QED
    BY <1>1, <1>2, <1>4, <2>1, HandKept
<1>6. OverrideAsked(c)'
  BY <1>1, <1>2, CalmFacts DEF OverrideAsked
<1>7. BindingAsked(c)'
  BY <1>2, <1>4 DEF BindingAsked
<1>8. SessionAsked(c)'
  BY <1>1, <1>3, SessionLeft DEF CommandStep
<1>9. OthersLeft(c) /\ RunsLeft(c)
  BY <1>1, <1>3, RunsAreLeft DEF OthersLeft, CommandStep
<1> QED
  BY <1>2, <1>5, <1>6, <1>7, <1>8, <1>9 DEF CalmStep, ChatCalm

LEMMA CalmBindClear ==
  ASSUME NEW h \in Handlers, CalmBefore(h), BindClear(h)
  PROVE  CalmStep(h)
<1>1. step[h] = "bindClear" /\ UNCHANGED <<binding, conversation>>
  BY DEF BindClear, At
<1>2. PICK c \in Chats : c = Chat(h) /\ c = message[h].chat
  BY <1>1, CalmFacts
<1>3. PICK v, a : v \in Intent /\ v = intent[c] /\ a = message[h].arg
  BY <1>1, <1>2, CalmFacts
<1>4. /\ intent'[c].fresh = v.fresh /\ intent'[c].active = v.active /\ intent'[c].key = a
      /\ \A d \in Chats : d # c => intent'[d] = intent[d]
  <2>1. intent' = [intent EXCEPT ![c].key = a, ![c].mode = None]
    BY <1>1, <1>2, <1>3 DEF CalmBefore, Asked, At
  <2> QED
    BY <1>3, <2>1 DEF CalmBefore, IntentTyped, Intent
<1>5. override'[c] = NoOverride /\ \A d \in Chats : d # c => override'[d] = override[d]
  BY <1>2 DEF BindClear, DeleteOverride, CalmBefore, FitsInv, BaseInv, StoreTyped
<1>6. AtHand(h)'
  BY HandEmpty DEF BindClear, Reply
<1>7. OverrideAsked(c)'
  BY <1>5 DEF OverrideAsked, NoOverride
<1>8. BindingAsked(c)'
  BY <1>1, <1>2, <1>3, <1>4, CalmFacts DEF BindingAsked, AtHand
<1>9. SessionAsked(c)'
  BY <1>1, <1>3, <1>4, SessionLeft DEF CommandStep
<1>10. OthersLeft(c) /\ RunsLeft(c)
  BY <1>1, <1>4, <1>5, RunsAreLeft DEF OthersLeft, CommandStep
<1> QED
  BY <1>2, <1>6, <1>7, <1>8, <1>9, <1>10 DEF CalmStep, ChatCalm

LEMMA CalmMode ==
  ASSUME NEW h \in Handlers, CalmBefore(h), ModeReset(h) \/ ModeSet(h)
  PROVE  CalmStep(h)
<1>1. step[h] \in {"resetMode", "setMode"} /\ UNCHANGED <<binding, conversation>>
  BY DEF ModeReset, ModeSet, At
<1>2. PICK c \in Chats : c = Chat(h) /\ c = message[h].chat
  BY <1>1, CalmFacts
<1>3. PICK v, a, k, t : /\ v \in Intent /\ v = intent[c] /\ a = message[h].arg
                       /\ k = seen[h].key /\ t = clock + OverrideTtl
  BY <1>1, <1>2, CalmFacts
<1>4. /\ intent'[c].fresh = v.fresh /\ intent'[c].active = v.active /\ intent'[c].key = v.key
      /\ \A d \in Chats : d # c => intent'[d] = intent[d]
      /\ ModeSet(h) => intent'[c].mode = a /\ intent'[c].workspace = k /\ intent'[c].until = t
  <2>1. CASE ModeReset(h)
    <3>1. intent' = [intent EXCEPT ![c].mode = None] /\ ~ModeSet(h)
      BY <1>2, <2>1 DEF CalmBefore, Asked, At, ModeReset, ModeSet
    <3> QED
      BY <1>3, <3>1 DEF CalmBefore, IntentTyped, Intent
  <2>2. CASE ModeSet(h)
    <3>1. intent' = [intent EXCEPT ![c].mode = a, ![c].workspace = k, ![c].until = t]
      BY <1>2, <1>3, <2>2 DEF CalmBefore, Asked, At, ModeSet
    <3> QED
      BY <1>3, <3>1 DEF CalmBefore, IntentTyped, Intent
  <2> QED
    BY <2>1, <2>2
<1>5. /\ \A d \in Chats : d # c => override'[d] = override[d]
      /\ \/ ModeReset(h) /\ override'[c] = NoOverride
         \/ ModeSet(h) /\ override'[c] = [workspace |-> k, mode |-> a, expiresAt |-> t]
  BY <1>2, <1>3
  DEF ModeReset, ModeSet, DeleteOverride, UpsertOverride, CalmBefore, FitsInv, BaseInv, StoreTyped
<1>6. AtHand(h)'
  BY HandEmpty DEF ModeReset, ModeSet, Reply
<1>7. OverrideAsked(c)'
  BY <1>4, <1>5 DEF OverrideAsked, NoOverride
<1>8. BindingAsked(c)'
  BY <1>1, <1>2, <1>3, <1>4, BindingBefore DEF BindingAsked
<1>9. SessionAsked(c)'
  BY <1>1, <1>3, <1>4, SessionLeft DEF CommandStep
<1>10. OthersLeft(c) /\ RunsLeft(c)
  BY <1>1, <1>4, <1>5, RunsAreLeft DEF OthersLeft, CommandStep
<1> QED
  BY <1>2, <1>6, <1>7, <1>8, <1>9, <1>10 DEF CalmStep, ChatCalm

LEMMA CalmStatus ==
  ASSUME NEW h \in Handlers, CalmBefore(h), StatusLatest(h) \/ StatusActive(h)
  PROVE  CalmStep(h)
<1>1. /\ step[h] \in {"readLatest", "statusActive"} /\ UNCHANGED <<binding, override, conversation>>
      /\ UNCHANGED intent
  BY NothingAsked DEF StatusLatest, StatusActive, At, storeVars
<1>2. PICK c \in Chats : c = Chat(h) /\ c = message[h].chat
  BY <1>1, CalmFacts
<1>3. PICK w \in Seen : w = seen[h]
  BY <1>1, CalmFacts
<1>4. /\ step'[h] \in {"statusActive", "statusAhead", "reply"} /\ message'[h] = message[h]
      /\ \/ seen'[h] = w \/ seen'[h] = [w EXCEPT !.run = Latest(c)]
         \/ seen'[h] = [w EXCEPT !.active = ActiveIn(w.key) # {}]
  BY <1>1, <1>2, <1>3, CalmFacts DEF StatusLatest, StatusActive, See, Goto, Go
<1>5. seen'[h].conversation = seen[h].conversation
  BY <1>3, <1>4 DEF Seen
<1>6. AtHand(h)'
  BY <1>1, <1>2, <1>4, <1>5, HandKept
<1> QED
  BY <1>1, <1>2, <1>6, QuietCalm DEF CommandStep

LEMMA CalmPrompt ==
  ASSUME NEW h \in Handlers, CalmBefore(h), PromptStep(h)
  PROVE  CalmStep(h)
<1>1. /\ step[h] \in {"readConversation", "findActive", "pushRun", "savePosition"}
      /\ UNCHANGED <<binding, override, conversation>>
  BY DEF PromptStep, ReadConversation, PromptFindsActive, PromptPushesRun, PromptSavesPosition, At,
         storeVars
<1>2. PICK c \in Chats, w \in Seen : c = Chat(h) /\ c = message[h].chat /\ w = seen[h]
  BY <1>1, CalmFacts
<1>3. CASE PromptSavesPosition(h)
  BY <1>1, <1>3, QuietEnd DEF PromptSavesPosition, Reply
<1>4. CASE ~PromptSavesPosition(h)
  <2>1. /\ step'[h] \in {"readBinding", "createRun", "savePosition"} /\ message'[h] = message[h]
        /\ \/ seen'[h] = [w EXCEPT !.conversation = conversation[c]]
           \/ seen'[h] = [w EXCEPT !.active = ActiveIn(w.key) # {}]
           \/ seen'[h] = [w EXCEPT !.position = PositionOf(h)]
    BY <1>1, <1>2, <1>4, CalmFacts
    DEF PromptStep, ReadConversation, PromptFindsActive, PromptPushesRun, See, Go
  <2>2. \/ seen'[h].conversation = seen[h].conversation
        \/ seen'[h].conversation = conversation[c]
    BY <1>2, <2>1 DEF Seen
  <2>3. UNCHANGED intent
    BY <1>1, NothingAsked
  <2>4. AtHand(h)'
    BY <1>1, <1>2, <2>1, <2>2, <2>3, HandKept
  <2> QED
    BY <1>1, <1>2, <2>3, <2>4, QuietCalm
<1> QED
  BY <1>3, <1>4

LEMMA CalmCreateRun ==
  ASSUME NEW h \in Handlers, CalmBefore(h), PromptCreatesRun(h),
         phase' = Append(phase, "queued"), returned' = Append(returned, 0)
  PROVE  CalmStep(h)
<1>1. /\ step[h] = "createRun" /\ UNCHANGED <<binding, override, conversation>> /\ UNCHANGED intent
  BY NothingAsked DEF PromptCreatesRun, At
<1>2. PICK c \in Chats, w \in Seen : c = Chat(h) /\ c = message[h].chat /\ w = seen[h]
  BY <1>1, CalmFacts
<1>3. /\ FitsInv /\ Len(runs) \in Nat /\ runs'[Len(runs) + 1].chat = c
      /\ \A q \in 1..Len(runs) : runs'[q] = runs[q] /\ phase'[q] = phase[q]
      /\ Len(runs') = Len(runs) + 1
      /\ runs'[Len(runs) + 1].requested \in {0, seen[h].conversation.bridge}
  <2>1. FitsInv
    BY DEF CalmBefore
  <2> QED
    BY <1>2, <2>1, RunAdded, RunFacts
<1>4. /\ step'[h] = "pushRun" /\ message'[h] = message[h]
      /\ seen'[h] = [w EXCEPT !.run = Len(runs) + 1]
  BY <1>1, <1>2, CalmFacts DEF PromptCreatesRun, See, Go
<1>5. seen'[h].conversation = seen[h].conversation
  BY <1>2, <1>4 DEF Seen
<1>6. AtHand(h)'
  BY <1>1, <1>2, <1>4, <1>5, HandKept
<1>7. OverrideAsked(c)'
  BY <1>1, <1>2, CalmFacts DEF OverrideAsked
<1>8. BindingAsked(c)'
  BY <1>1, <1>2, BindingBefore DEF BindingAsked
<1>9. SessionAsked(c)'
  <2> SUFFICES ASSUME intent[c].active = {} PROVE SessionAsked(c)'
    BY <1>1 DEF SessionAsked
  <2>1. PICK f \in Nat : f = intent[c].fresh /\ f <= Len(runs)
    BY <1>1, <1>2, CalmFacts DEF Intent
  <2>2. /\ conversation[c].bridge \notin 1..f
        /\ \A r \in 1..Len(runs) : runs[r].chat = c =>
             /\ r <= f => phase[r] = "ended"
             /\ runs[r].requested \in 1..f => phase[r] = "ended"
        /\ seen[h].conversation.bridge \notin 1..f
    BY <1>1, <1>2, <2>1, CalmFacts DEF SessionAsked, AtHand
  <2>3. \A r \in 1..Len(runs') : r \in 1..Len(runs) \/ r = Len(runs) + 1
    BY <1>3
  <2>4. runs'[Len(runs) + 1].requested \notin 1..f /\ ~(Len(runs) + 1 <= f)
    BY <1>3, <2>1, <2>2
  <2>5. \A r \in 1..Len(runs') : runs'[r].chat = c =>
             /\ r <= f => phase'[r] = "ended"
             /\ runs'[r].requested \in 1..f => phase'[r] = "ended"
    BY <1>3, <2>2, <2>3, <2>4
  <2> QED
    BY <1>1, <2>1, <2>2, <2>5 DEF SessionAsked
<1>10. OthersLeft(c) /\ RunsLeft(c)
  <2>1. OthersLeft(c)
    BY <1>1 DEF OthersLeft
  <2>2. \A r \in 1..Len(runs) :
          /\ runs'[r].chat = runs[r].chat /\ runs'[r].requested = runs[r].requested
          /\ runs'[r].status = runs[r].status /\ phase'[r] = phase[r]
    BY <1>3
  <2>3. \A r \in 1..Len(runs') : r > Len(runs) => runs'[r].chat = c
    <3> SUFFICES ASSUME NEW r \in 1..Len(runs'), r > Len(runs) PROVE runs'[r].chat = c
      OBVIOUS
    <3>1. r = Len(runs) + 1
      BY <1>3
    <3> QED
      BY <1>3, <3>1
  <2>4. Len(runs') \in Nat /\ Len(runs) <= Len(runs')
    BY <1>3
  <2>5. RunsLeft(c)
    BY <2>2, <2>3, <2>4 DEF RunsLeft
  <2> QED
    BY <2>1, <2>5
<1> QED
  BY <1>2, <1>6, <1>7, <1>8, <1>9, <1>10 DEF CalmStep, ChatCalm

LEMMA HandlerCalm ==
  ASSUME NEW h \in Handlers, CalmBefore(h), HandlerStep(h)
  PROVE  CalmStep(h)
<1>1. CASE PromptCreatesRun(h) /\ phase' = Append(phase, "queued") /\ returned' = Append(returned, 0)
  BY <1>1, CalmCreateRun
<1>2. CASE PromptStep(h)
  BY <1>2, CalmPrompt
<1>3. CASE CommandStep(h)
  <2>1. CASE SendReply(h)
    <3>1. step[h] = "reply" /\ End(h) /\ UNCHANGED <<binding, override, conversation>>
      BY <2>1 DEF SendReply, At, Reply, storeVars
    <3> QED
      BY <1>3, <3>1, QuietEnd
  <2>2. CASE StatusAhead(h)
    <3>1. step[h] = "statusAhead" /\ End(h) /\ UNCHANGED <<binding, override, conversation>>
      BY <2>2 DEF StatusAhead, At, storeVars
    <3> QED
      BY <1>3, <3>1, QuietEnd
  <2>3. CASE ReceiveMessage(h) \/ CreateSession(h) \/ ReadBinding(h) \/ SaveResolved(h)
    BY <2>3, CalmReceive, CalmCreateSession, CalmReadBinding, CalmSaveResolved
  <2>4. CASE ReadOverride(h) \/ NewDeleteOverride(h) \/ NewReset(h) \/ BindRefusesActive(h)
    BY <2>4, CalmReadOverride, CalmDeleteOverride, CalmNewReset, CalmBindRefuses
  <2>5. CASE BindResolve(h) \/ BindCreate(h) \/ BindSave(h) \/ BindReset(h) \/ BindClear(h)
    BY <2>5, CalmBindResolve, CalmBindSave, CalmBindReset, CalmBindClear
  <2>6. CASE ModeReset(h) \/ ModeSet(h) \/ StatusLatest(h) \/ StatusActive(h)
    BY <2>6, CalmMode, CalmStatus
  <2> QED
    BY <1>3, <2>1, <2>2, <2>3, <2>4, <2>5, <2>6 DEF CommandStep
<1> QED
  BY <1>1, <1>2, <1>3 DEF HandlerStep

(* A step of a handler is calm unless another handler is at work too.      *)
LEMMA CalmAfterHandler ==
  ASSUME CourseInv, NEW h \in Handlers, HandlerStep(h) \/ CallRejected(h), Observe(h), ~overlapped'
  PROVE  CalmInv' /\ CalmBefore(h) /\ HandlerStep(h) /\ ~overlapped
<1>1. /\ ~overlapped /\ CalmInv /\ mishaps' = mishaps /\ intent' = Asked(h)
      /\ ~(Cardinality(AtWork') > 1) /\ FitsInv /\ IntentTyped /\ IsFiniteSet(AtWork) /\ BaseInv
  BY DEF Observe, CourseInv, FitsInv
<1>2. HandlerStep(h)
  BY <1>1 DEF CallRejected, BaseInv
<1>3. IsFiniteSet(AtWork')
  BY <1>1, <1>2, HandlerGoes, AtWorkStaysFinite
<1>4. Cardinality(AtWork') <= 1
  BY <1>1, <1>3, FS_CardinalityType
<1>5. Alone(h)
  BY <1>1, <1>2, <1>4, WorksAlone
<1>6. CalmBefore(h)
  BY <1>1, <1>2, <1>5 DEF CalmBefore, HandlerStep
<1>7. CalmStep(h)
  BY <1>2, <1>6, HandlerCalm
<1> QED
  BY <1>1, <1>2, <1>5, <1>6, <1>7, StaysCalm

LEMMA IntentKept ==
  ASSUME FitsInv, IntentTyped, NEW h \in Handlers, HandlerStep(h) \/ CallRejected(h),
         intent' = intent \/ intent' = Asked(h)
  PROVE  IntentTyped'
<1>1. Len(runs) \in Nat /\ Len(runs') \in Nat /\ Len(runs) <= Len(runs')
  BY HandlerRuns, RunFacts, LenProperties DEF RunsGoOn, RunsKept, RunsTyped
<1>2. CASE intent' = intent
  <2> SUFFICES ASSUME NEW c \in Chats PROVE intent'[c].fresh <= Len(runs')
    BY <1>2 DEF IntentTyped
  <2>1. intent[c].fresh \in Nat /\ intent[c].fresh <= Len(runs)
    BY DEF IntentTyped, Intent
  <2> QED
    BY <1>1, <1>2, <2>1
<1>3. CASE intent' # intent
  <2>1. intent' = Asked(h) /\ step[h] \in {"resetConversation", "bindClear", "resetMode", "setMode"}
    BY <1>3 DEF Asked, At
  <2>2. PICK c \in Chats, v \in Intent : c = Chat(h) /\ v = intent[c]
    BY <2>1, HandlerFacts DEF IntentTyped, FitsInv
  <2>3. HandledAs(step[h], message[h], seen[h], Len(runs))
    BY HandlerFacts DEF FitsInv
  <2>4. PICK u \in Intent : u.fresh <= Len(runs) /\ intent' = [intent EXCEPT ![c] = u]
    <3>1. CASE step[h] = "resetConversation"
      <4>1. intent' = [intent EXCEPT ![c] =
               [v EXCEPT !.mode = None, !.fresh = Len(runs), !.active = Unfinished(c)]]
        BY <2>1, <2>2, <3>1 DEF Asked, At, IntentTyped
      <4>2. Unfinished(c) \in SUBSET Nat
        BY RunFacts DEF Unfinished, RunsOf
      <4>3. PICK u \in Intent : u.fresh = Len(runs)
              /\ u = [v EXCEPT !.mode = None, !.fresh = Len(runs), !.active = Unfinished(c)]
        BY <1>1, <4>2 DEF Intent
      <4>4. u.fresh <= Len(runs)
        BY <1>1, <4>3
      <4>5. intent' = [intent EXCEPT ![c] = u]
        BY <4>1, <4>3, Zenon
      <4> QED
        BY <4>4, <4>5, Zenon
    <3>2. CASE step[h] = "bindClear"
      <4>1. intent' = [intent EXCEPT ![c] = [v EXCEPT !.key = message[h].arg, !.mode = None]]
        BY <2>1, <2>2, <3>2 DEF Asked, At, IntentTyped
      <4>2. message[h].arg \in Keys /\ v.fresh <= Len(runs)
        BY <2>2, <2>3, <3>2 DEF HandledAs, BindSteps, IntentTyped
      <4>3. PICK u \in Intent : u.fresh = v.fresh
              /\ u = [v EXCEPT !.key = message[h].arg, !.mode = None]
        BY <4>2 DEF Intent
      <4> QED
        BY <4>1, <4>2, <4>3
    <3>3. CASE step[h] = "resetMode"
      <4>1. intent' = [intent EXCEPT ![c] = [v EXCEPT !.mode = None]]
        BY <2>1, <2>2, <3>3 DEF Asked, At, IntentTyped
      <4>2. PICK u \in Intent : u.fresh = v.fresh /\ u = [v EXCEPT !.mode = None]
        BY DEF Intent
      <4> QED
        BY <2>2, <4>1, <4>2 DEF IntentTyped
    <3>4. CASE step[h] = "setMode"
      <4>1. PICK t \in Nat, a \in Modes, k \in Keys :
              t = clock + OverrideTtl /\ a = message[h].arg /\ k = seen[h].key
        BY <2>3, <3>4, StoreAssumption DEF HandledAs, FitsInv, BaseInv, StoreTyped
      <4>2. intent' = [intent EXCEPT ![c] = [v EXCEPT !.mode = a, !.workspace = k, !.until = t]]
        BY <2>1, <2>2, <3>4, <4>1 DEF Asked, At, IntentTyped
      <4>3. PICK u \in Intent : u.fresh = v.fresh
              /\ u = [v EXCEPT !.mode = a, !.workspace = k, !.until = t]
        BY DEF Intent
      <4> QED
        BY <2>2, <4>2, <4>3 DEF IntentTyped
    <3> QED
      BY <2>1, <3>1, <3>2, <3>3, <3>4
  <2>5. intent' \in [Chats -> Intent]
    BY <2>4 DEF IntentTyped
  <2>6. \A d \in Chats : intent'[d] = IF d = c THEN u ELSE intent[d]
    BY <2>4 DEF IntentTyped
  <2>7. ASSUME NEW d \in Chats PROVE intent'[d].fresh <= Len(runs')
    <3>1. intent'[d].fresh \in Nat /\ intent'[d].fresh <= Len(runs)
      BY <2>4, <2>5, <2>6 DEF IntentTyped, Intent
    <3> QED
      BY <1>1, <3>1
  <2> QED
    BY <2>5, <2>7 DEF IntentTyped
<1> QED
  BY <1>2, <1>3

---------------------------------------------------------------------------
(* The controller, between the steps of the handlers.                      *)

(* Nothing that a chat asked for depends on where its runs are, but that   *)
(* those before the last /new have ended.                                  *)
LEMMA CalmBetween ==
  ASSUME FitsInv, CalmInv, UNCHANGED <<step, message, seen, intent, binding, override>>,
         Len(runs') = Len(runs), Len(runs) \in Nat, DOMAIN runs' = 1..Len(runs'),
         \A r \in 1..Len(runs) :
           /\ runs'[r].chat = runs[r].chat /\ runs'[r].requested = runs[r].requested
           /\ runs[r].status = "ended" => runs'[r].status = "ended"
           /\ phase[r] = "ended" => phase'[r] = "ended",
         \A c \in Chats : intent[c].active = {} =>
           conversation'[c].bridge \notin 1..intent[c].fresh
  PROVE  CalmInv'
<1>1. (\A g, h \in AtWork : g = h)'
  BY DEF CalmInv, AtWork
<1>2. (\A c \in Chats : ChatCalm(c))'
  <2> SUFFICES ASSUME NEW c \in Chats PROVE ChatCalm(c)'
    OBVIOUS
  <2>1. OverrideAsked(c) /\ BindingAsked(c) /\ SessionAsked(c)
    BY DEF CalmInv
  <2>2. OverrideAsked(c)' /\ BindingAsked(c)'
    BY <2>1 DEF OverrideAsked, BindingAsked
  <2>3. SessionAsked(c)'
    BY <2>1, SessionStays
  <2> QED
    BY <2>2, <2>3 DEF ChatCalm
<1>3. (\A h \in Handlers : AtHand(h))'
  <2> SUFFICES ASSUME NEW h \in Handlers PROVE AtHand(h)'
    OBVIOUS
  <2>1. AtHand(h)
    BY DEF CalmInv
  <2>2. ActiveOf(message[h].chat) = {} => ActiveOf(message[h].chat)' = {}
    BY RunFacts DEF ActiveOf
  <2> QED
    BY <2>1, <2>2 DEF AtHand
<1> QED
  BY <1>1, <1>2, <1>3, CalmParts

(* What has ended stays so: the row of a run and the controller's work.    *)
LEMMA EndedStays ==
  ASSUME FitsInv, QueueInv, ControllerStep
  PROVE  \A q \in 1..Len(runs) :
           /\ runs[q].status = "ended" => runs'[q].status = "ended"
           /\ phase[q] = "ended" => phase'[q] = "ended"
<1>1. ASSUME NEW k \in Keys, PopRun(k)
      PROVE  UNCHANGED runs /\ \A q \in 1..Len(runs) : phase[q] = "ended" => phase'[q] = "ended"
  <2>1. PICK r \in 1..Len(runs) : r = Head(queue[k]) /\ phase[r] = "queued"
    BY <1>1, HeadIsRun DEF PopRun
  <2>2. "popped" \in Phases
    BY DEF Phases
  <2> QED
    BY <1>1, <2>1, <2>2, Entered DEF PopRun
<1>2. ASSUME NEW r \in 1..Len(runs), RequeueRun(r)
      PROVE  UNCHANGED runs /\ \A q \in 1..Len(runs) : phase[q] = "ended" => phase'[q] = "ended"
  <2>1. "queued" \in Phases
    BY DEF Phases
  <2> QED
    BY <1>2, <2>1, Entered DEF RequeueRun, InPhase
<1>3. ASSUME NEW r \in 1..Len(runs), StartRun(r) \/ RunEnds(r) \/ ReaperEnds(r)
      PROVE  \A q \in 1..Len(runs) : /\ runs[q].status = "ended" => runs'[q].status = "ended"
                                     /\ phase[q] = "ended" => phase'[q] = "ended"
  <2>1. \A q \in 1..Len(runs) : phase[q] = "ended" => phase'[q] = "ended"
    BY <1>3, PhaseMoves
  <2>2. CASE StartRun(r)
    <3>1. runs[r].status = "queued"
      BY <2>2, StatusOfPhase DEF StartRun, InPhase
    <3> QED
      BY <2>1, <2>2, <3>1, Marked DEF StartRun
  <2>3. CASE RunEnds(r) \/ ReaperEnds(r)
    BY <2>1, <2>3, Marked DEF RunEnds, ReaperEnds
  <2> QED
    BY <1>3, <2>2, <2>3
<1>4. ASSUME NEW r \in 1..Len(runs),
             \/ SessionInvalid(r) \/ Invalidates(r) \/ BridgeCompletes(r) \/ ReadsBack(r)
             \/ WritesBack(r) \/ RecoveryFails(r) \/ RunStops(r) \/ ControllerLeaves(r)
      PROVE  UNCHANGED runs /\ \A q \in 1..Len(runs) : phase[q] = "ended" => phase'[q] = "ended"
  <2>1. UNCHANGED runs
    BY <1>4 DEF SessionInvalid, Invalidates, BridgeCompletes, ReadsBack, WritesBack, RecoveryFails,
                RunStops, ControllerLeaves, storeVars
  <2> QED
    BY <1>4, <2>1, PhaseMoves
<1> QED
  BY <1>1, <1>2, <1>3, <1>4, RunFacts DEF ControllerStep

LEMMA CalmController ==
  ASSUME FitsInv, QueueInv, IntentTyped, CalmInv, ControllerStep, UNCHANGED <<handlerVars, intent>>
  PROVE  CalmInv'
<1>1. /\ Len(runs') = Len(runs) /\ RunsKept /\ Len(runs) \in Nat /\ DOMAIN runs' = 1..Len(runs')
      /\ UNCHANGED <<step, message, seen, intent, binding>>
  <2>1. runs' \in Seq(Run)
    BY ControllerKeeps DEF ControllerGoesOn, RunsGoOn, RunsTyped
  <2> QED
    BY <2>1, ControllerKeeps, RunFacts, LenProperties
    DEF ControllerGoesOn, RunsGoOn, handlerVars
<1>2. \A c \in Chats : /\ conversation[c] \in Conversation /\ intent[c].fresh \in Nat
                       /\ intent[c].active = {} => conversation[c].bridge \notin 1..intent[c].fresh
  BY DEF CalmInv, SessionAsked, FitsInv, BaseInv, StoreTyped, IntentTyped, Intent
<1>3. UNCHANGED override
  BY DEF ControllerStep, PopRun, StartRun, RequeueRun, SessionInvalid, Invalidates, BridgeCompletes,
         ReadsBack, WritesBack, RecoveryFails, RunStops, RunEnds, ControllerLeaves, ReaperEnds,
         storeVars
<1>4. ASSUME \A c \in Chats : intent[c].active = {} =>
               conversation'[c].bridge \notin 1..intent[c].fresh
      PROVE  CalmInv'
  BY <1>1, <1>3, <1>4, EndedStays, CalmBetween DEF RunsKept
<1>5. ASSUME NEW r \in 1..Len(runs), Invalidates(r) \/ RecoveryFails(r) PROVE CalmInv'
  <2>1. PICK x \in {"none", "failed"} : MarkBindingInvalidated(runs[r].chat, x)
    BY <1>5 DEF Invalidates, RecoveryFails
  <2>2. ConversationsKept
    BY <2>1, RunFacts, InvalidatedKept DEF FitsInv, BaseInv, Run
  <2>3. \A c \in Chats : intent[c].active = {} =>
               conversation'[c].bridge \notin 1..intent[c].fresh
    <3> SUFFICES ASSUME NEW c \in Chats, intent[c].active = {}
                 PROVE  conversation'[c].bridge \notin 1..intent[c].fresh
      OBVIOUS
    <3>1. conversation'[c].bridge = 0 \/ conversation'[c].bridge = conversation[c].bridge
      BY <2>2 DEF ConversationsKept
    <3> QED
      BY <1>2, <3>1
  <2> QED
    BY <1>4, <2>3
<1>6. ASSUME NEW r \in 1..Len(runs), WritesBack(r) PROVE CalmInv'
  <2>1. phase[r] # "ended" /\ RunFits(r)
    BY <1>6, RunFacts DEF WritesBack, InPhase
  <2>2. PICK c, s, t : c \in Chats /\ c = runs[r].chat /\ s = returned[r] /\ t = runs[r].requested
    BY RunFacts DEF Run
  <2>3. /\ conversation'[c].bridge = s
        /\ \A d \in Chats : d # c => conversation'[d] = conversation[d]
    <3>1. PICK v \in Conversation : v = conversation[c] /\ v = conversation[runs[r].chat]
      BY <1>2, <2>2
    <3>2. PICK w : w.bridge = s /\ conversation' = [conversation EXCEPT ![c] = w]
      <4> DEFINE b == phase[r] # "saveBound"
                 u == [v EXCEPT !.bridge = s, !.workspace = runs[r].workspace, !.mode = runs[r].mode,
                                !.status = IF b THEN "recovered" ELSE "bound",
                                !.recovery = IF b THEN "recovered" ELSE @]
      <4>1. conversation' = [conversation EXCEPT ![runs[r].chat] =
              [conversation[runs[r].chat] EXCEPT
                 !.bridge = returned[r], !.workspace = runs[r].workspace, !.mode = runs[r].mode,
                 !.status = IF b THEN "recovered" ELSE "bound",
                 !.recovery = IF b THEN "recovered" ELSE @]]
        BY <1>6 DEF WritesBack, SaveBindingContinuation
      <4>2. conversation' = [conversation EXCEPT ![c] = u]
        BY <2>2, <3>1, <4>1
      <4>3. u.bridge = s
        BY <3>1 DEF Conversation
      <4> QED
        BY <4>2, <4>3
    <3> QED
      BY <2>2, <3>2 DEF FitsInv, BaseInv, StoreTyped
  <2>4. intent[c].active = {} => s \notin 1..intent[c].fresh
    <3> SUFFICES ASSUME intent[c].active = {} PROVE s \notin 1..intent[c].fresh
      OBVIOUS
    <3>1. ~(r <= intent[c].fresh) /\ t \notin 1..intent[c].fresh
      BY <2>1, <2>2 DEF CalmInv, SessionAsked
    <3>2. s \in {0, r, t}
      BY <2>1, <2>2 DEF RunFits
    <3> QED
      BY <1>2, <3>1, <3>2
  <2>5. \A d \in Chats : intent[d].active = {} => conversation'[d].bridge \notin 1..intent[d].fresh
    BY <1>2, <2>3, <2>4
  <2> QED
    BY <1>4, <1>6, <2>5 DEF WritesBack
<1>7. CASE UNCHANGED conversation
  BY <1>2, <1>4, <1>7
<1>8. \/ UNCHANGED conversation
      \/ \E r \in 1..Len(runs) : Invalidates(r) \/ RecoveryFails(r) \/ WritesBack(r)
  BY RunFacts DEF ControllerStep, PopRun, StartRun, RequeueRun, SessionInvalid, BridgeCompletes,
         ReadsBack, RunStops, RunEnds, ControllerLeaves, ReaperEnds, storeVars
<1> QED
  BY <1>5, <1>6, <1>7, <1>8

---------------------------------------------------------------------------
(* The second invariant, and what commands leave behind.                   *)

LEMMA CourseAtStart ==
  ASSUME Init
  PROVE  CourseInv
<1>1. FitsInv
  BY FitsAtStart
<1>2. \A h \in Handlers : step[h] = "idle" /\ message[h] = NoMessage
  BY DEF Init, HandlerInit
<1>3. Len(<<>>) = 0 /\ runs = <<>> /\ \A k \in Keys : Len(queue[k]) = 0
  BY EmptySeq DEF Init, StoreInit
<1>4. QueueInv
  BY <1>2, <1>3 DEF QueueInv
<1>5. IntentTyped
  <2>1. NoIntent \in Intent /\ NoIntent.fresh = 0
    BY DEF NoIntent, Intent
  <2> QED
    BY <1>3, <2>1 DEF Init, IntentTyped
<1>6. AtWork = {} /\ IsFiniteSet({})
  BY <1>2, FS_EmptySet DEF AtWork
<1>7. CalmInv
  <2>1. \A c \in Chats : OverrideAsked(c)
    BY DEF Init, StoreInit, OverrideAsked, NoOverride
  <2>2. \A c \in Chats : BindingAsked(c)
    BY DEF Init, BindingAsked, NoIntent
  <2>3. \A c \in Chats : SessionAsked(c)
    BY <1>3 DEF Init, StoreInit, SessionAsked, NoIntent, NoConversation
  <2>4. \A h \in Handlers : AtHand(h)
    BY <1>2 DEF AtHand
  <2> QED
    BY <1>6, <2>1, <2>2, <2>3, <2>4 DEF CalmInv
<1> QED
  BY <1>1, <1>4, <1>5, <1>6, <1>7 DEF CourseInv

LEMMA CourseNext ==
  ASSUME CourseInv, [Next]_vars
  PROVE  CourseInv'
<1>1. FitsInv' /\ FitsInv /\ QueueInv /\ IntentTyped /\ IsFiniteSet(AtWork)
      /\ (~overlapped => CalmInv)
  BY FitsNext DEF CourseInv
<1>2. ASSUME NEW h \in Handlers, HandlerStep(h) \/ CallRejected(h), Observe(h)
      PROVE  CourseInv'
  <2>1. IsFiniteSet(AtWork')
    BY <1>1, <1>2, HandlerGoes, AtWorkStaysFinite DEF FitsInv
  <2>2. QueueInv'
    BY <1>1, <1>2, HandlerQueues
  <2>3. IntentTyped'
    BY <1>1, <1>2, IntentKept DEF Observe
  <2>4. ~overlapped' => CalmInv'
    BY <1>2, CalmAfterHandler
  <2> QED
    BY <1>1, <2>1, <2>2, <2>3, <2>4 DEF CourseInv
<1>3. CASE ControllerStep /\ UNCHANGED <<handlerVars, mishaps, overlapped, intent>>
  <2>1. UNCHANGED <<step, message, seen>> /\ UNCHANGED overlapped /\ UNCHANGED intent
    BY <1>3 DEF handlerVars
  <2>2. QueueInv'
    BY <1>1, <1>3, <2>1, ControllerQueues
  <2>3. Len(runs') = Len(runs)
    BY <1>1, <1>3, ControllerKeeps DEF ControllerGoesOn
  <2>4. IntentTyped' /\ IsFiniteSet(AtWork')
    BY <1>1, <2>1, <2>3 DEF IntentTyped, AtWork
  <2>5. ~overlapped' => CalmInv'
    BY <1>1, <1>3, <2>1, CalmController
  <2> QED
    BY <1>1, <2>2, <2>4, <2>5 DEF CourseInv
<1>4. ASSUME UNCHANGED <<handlerVars, phase, returned, mishaps, overlapped, intent, sessions, binding,
                         catalog, override, conversation, runs, queue>>
      PROVE  CourseInv'
  <2>1. UNCHANGED <<step, message, seen>>
    BY <1>4 DEF handlerVars
  <2>2. QueueInv'
    BY <1>1, <1>4, <2>1, QueueLeft
  <2>3. IntentTyped' /\ IsFiniteSet(AtWork')
    BY <1>1, <1>4, <2>1 DEF IntentTyped, AtWork
  <2>4. CalmInv => CalmInv'
    <3> SUFFICES ASSUME CalmInv PROVE CalmInv'
      OBVIOUS
    <3>1. \A c \in Chats : intent[c].active = {} =>
            conversation'[c].bridge \notin 1..intent[c].fresh
      BY <1>4 DEF CalmInv, SessionAsked
    <3>2. DOMAIN runs' = 1..Len(runs') /\ Len(runs) \in Nat
      BY <1>1, <1>4, RunFacts
    <3> QED
      BY <1>1, <1>4, <2>1, <3>1, <3>2, CalmBetween
  <2> QED
    BY <1>1, <1>4, <2>2, <2>3, <2>4 DEF CourseInv
<1>5. CASE Tick /\ UNCHANGED <<handlerVars, phase, returned, mishaps, overlapped, intent>>
  BY <1>4, <1>5 DEF Tick
<1>6. CASE UNCHANGED vars
  BY <1>4, <1>6 DEF vars, storeVars
<1> QED
  BY <1>2, <1>3, <1>5, <1>6 DEF Next

LEMMA CourseAlways == Spec => []CourseInv
<1> QED
  BY CourseAtStart, CourseNext, PTL DEF Spec

(* The types hold: every row, handler and queue is as the code expects it, *)
(* a run's status agrees with where its controller is, and a result's      *)
(* codex session is the run's own or an older one.                         *)
THEOREM TypesHold == Spec => []TypeOK
<1>1. FitsInv => TypeOK
  <2> SUFFICES ASSUME FitsInv PROVE TypeOK
    OBVIOUS
  <2>1. StoreTypeOK
    <3>1. \A k \in Keys : DOMAIN queue[k] = 1..Len(queue[k])
      BY LenProperties DEF FitsInv, BaseInv, QueueTyped
    <3> QED
      BY <3>1, RunFacts DEF StoreTypeOK, FitsInv, BaseInv, StoreTyped, QueueTyped
  <2>2. HandlerTypeOK
    <3>1. received \in 0..MaxMessages
          /\ \A c \in Chats : report[c].run \in 0..Len(runs) /\ report[c].ahead \in Nat
      BY RunFacts DEF FitsInv, BaseInv, HandlersTyped
    <3> SUFFICES ASSUME NEW h \in Handlers
                 PROVE  /\ message[h].chat \in Chats \cup {None}
                        /\ message[h].command \in Commands \cup {"empty", "prompt"}
                        /\ seen[h].key \in Keys \cup {None} /\ seen[h].source \in Sources
                        /\ seen[h].mode \in Modes \cup {None}
                        /\ seen[h].run \in 0..Len(runs)
                        /\ step[h] = "idle" <=> message[h] = NoMessage
      BY <3>1 DEF HandlerTypeOK
    <3>2. HandledAs(step[h], message[h], seen[h], Len(runs)) /\ seen[h] \in Seen
          /\ seen[h].run \in 0..Len(runs)
      BY HandlerFacts DEF FitsInv
    <3>3. NoMessage.chat = None /\ None \notin Chats
      BY StoreAssumption DEF NoMessage
    <3> QED
      BY <3>2, <3>3 DEF HandledAs, Seen
  <2>3. \A r \in 1..Len(runs) : returned[r] \in 0..r
    <3> SUFFICES ASSUME NEW r \in 1..Len(runs) PROVE returned[r] \in 0..r
      OBVIOUS
    <3>1. PICK t : t = runs[r].requested
      OBVIOUS
    <3>2. (t # 0 => t \in 1..(r - 1)) /\ returned[r] \in {0, r, t} /\ r \in Nat
      <4>1. RunFits(r) /\ Len(runs) \in Nat
        BY RunFacts
      <4> QED
        BY <3>1, <4>1 DEF RunFits
    <3> QED
      BY <3>2
  <2>4. DOMAIN phase = DOMAIN runs /\ DOMAIN returned = DOMAIN runs
    BY RunFacts, LenProperties
  <2> QED
    BY <2>1, <2>2, <2>3, <2>4, RunFacts, StatusOfPhase DEF TypeOK, FitsInv, BaseInv
<1>2. CourseInv => FitsInv
  BY DEF CourseInv
<1> QED
  BY <1>1, <1>2, CourseAlways, PTL

(* A codex session is offered and continued only for the chat, workspace   *)
(* and sandbox mode in which a run made it.                                *)
THEOREM SessionsFit == Spec => []ContinuationFits
<1>1. FitsInv => ContinuationFits
  <2> SUFFICES ASSUME FitsInv PROVE ContinuationFits
    OBVIOUS
  <2>1. \A c \in Chats : Fits(conversation[c], c)
    BY DEF FitsInv
  <2>2. \A r \in DOMAIN runs : RunFits(r)
    BY RunFacts
  <2> QED
    BY <2>1, <2>2 DEF ContinuationFits, Fits, RunFits
<1>2. CourseInv => FitsInv
  BY DEF CourseInv
<1> QED
  BY <1>1, <1>2, CourseAlways, PTL

(* Handlers that come one after the other leave a chat in the workspace    *)
(* that its last successful /bind named.                                   *)
THEOREM BindIsKept == Spec => []BindHolds
<1>1. CourseInv => BindHolds
  <2> SUFFICES ASSUME CourseInv, ~overlapped, NEW c \in Chats, intent[c].key # None,
                      \A h \in AtWork : message[h].command # "/bind"
               PROVE  binding[c].key = intent[c].key
    BY DEF BindHolds
  <2>1. ASSUME NEW h \in Handlers, step[h] \in {"bindReset", "bindClear"} PROVE FALSE
    <3>1. HandledAs(step[h], message[h], seen[h], Len(runs)) /\ h \in AtWork
      BY <2>1, HandlerFacts DEF CourseInv, FitsInv, AtWork
    <3> QED
      BY <2>1, <3>1 DEF HandledAs, BindSteps
  <2> QED
    BY <2>1 DEF CourseInv, CalmInv, BindingAsked
<1> QED
  BY <1>1, CourseAlways, PTL

(* After a /new a chat continues an older session only if a run of it was  *)
(* queued or in the executor's hands when it was reset.                    *)
THEOREM OldSessionsStayGone == Spec => []OldSessionNeedsActiveRun
<1>1. CourseInv => OldSessionNeedsActiveRun
  BY DEF CourseInv, CalmInv, SessionAsked, OldSessionNeedsActiveRun
<1> QED
  BY <1>1, CourseAlways, PTL

(* Only these steps of a handler move a chat.                              *)
LEMMA BindingMoves ==
  ASSUME NEW h \in Handlers, HandlerStep(h), binding' # binding
  PROVE  SaveResolved(h) \/ BindSave(h)
<1>1. ~PromptStep(h) /\ ~PromptCreatesRun(h)
  BY DEF PromptStep, PromptCreatesRun, ReadConversation, PromptFindsActive, PromptPushesRun,
         PromptSavesPosition, storeVars
<1>2. CommandStep(h)
  BY <1>1 DEF HandlerStep
<1> QED
  BY <1>2
  DEF CommandStep, storeVars, ReceiveMessage, CreateSession, SendReply, ReadBinding, ReadOverride,
      NewDeleteOverride, NewReset, BindRefusesActive, BindResolve, BindCreate, BindReset, BindClear,
      ModeReset, ModeSet, StatusLatest, StatusActive, StatusAhead

(* A chat is moved only while no run of it is active.                      *)
THEOREM BindWaitsForRuns == Spec => BindSparesActiveRun
<1> DEFINE A == \A c \in Chats :
                  ~overlapped' /\ binding[c].key # None /\ binding'[c].key # binding[c].key =>
                    ActiveOf(c) = {}
<1>1. CourseInv /\ [Next]_vars => [A]_vars
  <2> SUFFICES ASSUME CourseInv, Next, NEW c \in Chats, ~overlapped', binding[c].key # None,
                      binding'[c].key # binding[c].key
               PROVE  ActiveOf(c) = {}
    OBVIOUS
  <2>1. ControllerStep => UNCHANGED binding
    BY ControllerKeeps DEF ControllerGoesOn, CourseInv
  <2>2. PICK h \in Handlers : (HandlerStep(h) \/ CallRejected(h)) /\ Observe(h)
    BY <2>1 DEF Next, Tick
  <2>3. CalmBefore(h) /\ HandlerStep(h)
    BY <2>2, CalmAfterHandler
  <2>4. SaveResolved(h) \/ BindSave(h)
    BY <2>3, BindingMoves
  <2>5. step[h] \in {"saveBinding", "bindManual", "bindCreated"}
    BY <2>4 DEF SaveResolved, BindSave, At
  <2>6. PICK d \in Chats : d = Chat(h) /\ d = message[h].chat /\ AtHand(h)
    BY <2>3, <2>5, CalmFacts
  <2>7. binding \in [Chats -> Binding]
    BY DEF CourseInv, FitsInv, BaseInv, StoreTyped
  <2>8. c = d
    BY <2>4, <2>6, <2>7 DEF SaveResolved, BindSave, SaveBinding
  <2>9. CASE SaveResolved(h)
    <3>1. binding'[c].key = seen[h].key
      BY <2>6, <2>7, <2>8, <2>9 DEF SaveResolved, SaveBinding
    <3>2. binding[c] = Unbound \/ binding[c].key = seen[h].key
      BY <2>6, <2>8, <2>9 DEF SaveResolved, At, AtHand
    <3> QED
      BY <3>1, <3>2 DEF Unbound
  <2>10. CASE BindSave(h)
    BY <2>6, <2>8, <2>10 DEF BindSave, AtHand
  <2> QED
    BY <2>4, <2>9, <2>10
<1> QED
  BY <1>1, CourseAlways, PTL DEF Spec, BindSparesActiveRun

LEMMA ReadsThen ==
  ASSUME NEW h \in Handlers, HandlerStep(h), step[h] = "readOverride"
  PROVE  ReadOverride(h)
<1>1. ~PromptCreatesRun(h) /\ ~PromptStep(h)
  BY DEF PromptCreatesRun, PromptStep, ReadConversation, PromptFindsActive, PromptPushesRun,
         PromptSavesPosition, At
<1>2. ~(ReceiveMessage(h) \/ CreateSession(h) \/ SendReply(h) \/ ReadBinding(h) \/ SaveResolved(h)
          \/ NewDeleteOverride(h) \/ NewReset(h))
  BY DEF ReceiveMessage, CreateSession, SendReply, ReadBinding, SaveResolved, NewDeleteOverride,
         NewReset, At
<1>3. ~(BindRefusesActive(h) \/ BindResolve(h) \/ BindCreate(h) \/ BindSave(h) \/ BindReset(h)
          \/ BindClear(h) \/ ModeReset(h) \/ ModeSet(h))
  BY DEF BindRefusesActive, BindResolve, BindCreate, BindSave, BindReset, BindClear, ModeReset,
         ModeSet, At
<1>4. ~(StatusLatest(h) \/ StatusActive(h) \/ StatusAhead(h))
  BY DEF StatusLatest, StatusActive, StatusAhead, At
<1> QED
  BY <1>1, <1>2, <1>3, <1>4 DEF HandlerStep, CommandStep

(* A sandbox mode other than the workspace's own is what the last command  *)
(* about the mode of the chat asked for.                                   *)
THEOREM ModeIsAskedFor == Spec => ModeOnRequest
<1> DEFINE A == \A h \in Handlers :
       ~overlapped' /\ At(h, "readOverride") /\ seen'[h].mode \notin {None, DefaultMode[seen[h].key]} =>
         LET asked == intent[Chat(h)] IN
         asked.mode = seen'[h].mode /\ asked.workspace = seen[h].key /\ clock < asked.until
<1>1. CourseInv /\ [Next]_vars => [A]_vars
  <2> SUFFICES ASSUME CourseInv, Next, NEW h \in Handlers, ~overlapped', At(h, "readOverride"),
                      seen'[h].mode \notin {None, DefaultMode[seen[h].key]}
               PROVE  /\ intent[Chat(h)].mode = seen'[h].mode /\ intent[Chat(h)].workspace = seen[h].key
                      /\ clock < intent[Chat(h)].until
    OBVIOUS
  <2>1. HandledAs("readOverride", message[h], seen[h], Len(runs)) /\ step[h] = "readOverride"
    BY HeldAt DEF CourseInv, FitsInv, At
  <2>2. seen[h].mode = None
    BY <2>1 DEF HandledAs
  <2>3. PICK g \in Handlers : (HandlerStep(g) \/ CallRejected(g)) /\ Observe(g)
    BY <2>2 DEF Next, handlerVars
  <2>4. CalmBefore(g) /\ HandlerStep(g)
    BY <2>3, CalmAfterHandler
  <2>5. g = h
    BY <2>1, <2>4 DEF CalmBefore, Alone
  <2>6. ReadOverride(h)
    BY <2>1, <2>4, <2>5, ReadsThen
  <2>7. PICK c \in Chats, w \in Seen :
          c = Chat(h) /\ c = message[h].chat /\ OverrideAsked(c) /\ w = seen[h]
    BY <2>1, <2>4, <2>5, CalmFacts
  <2>8. w.key \in Keys /\ w.key # None
    BY <2>1, <2>7, StoreAssumption DEF HandledAs
  <2>9. seen'[h].mode = ResolveForChat(c, w.key)
    <3>1. seen'[h] = [w EXCEPT !.mode = ResolveForChat(c, w.key)]
      BY <2>6, <2>7 DEF ReadOverride, See, CourseInv, FitsInv, BaseInv, HandlersTyped
    <3> QED
      BY <2>7, <3>1 DEF Seen
  <2>10. override[c].workspace = w.key /\ clock < override[c].expiresAt
         /\ seen'[h].mode = override[c].mode
    BY <2>7, <2>9 DEF ResolveForChat
  <2> QED
    BY <2>7, <2>8, <2>10 DEF OverrideAsked
<1> QED
  BY <1>1, CourseAlways, PTL DEF Spec, ModeOnRequest

---------------------------------------------------------------------------
(* The runs ahead of a run.                                                *)

(* A chat is in the workspace of its active runs.                          *)
ActiveAtHome ==
  \A r \in 1..Len(runs) : runs[r].status # "ended" => binding[runs[r].chat].key = runs[r].workspace

(* What the handler of a prompt or of /status knows of the runs ahead.     *)
KeyIsBound(h) ==
  \/ step[h] \in {"readOverride", "createRun"}
  \/ step[h] = "findActive" /\ message[h].command = "prompt"
  \/ step[h] = "readLatest" /\ seen[h].key # None
  => binding[message[h].chat].key = seen[h].key
RunInHand(h) ==
  step[h] \in {"statusActive", "statusAhead", "pushRun"} =>
    runs[seen[h].run].workspace = seen[h].key
SawNone(h) ==
  ~seen[h].active =>
    \A q \in 1..Len(runs) :
      runs[q].workspace = seen[h].key =>
        /\ step[h] = "createRun" => runs[q].status = "ended"
        /\ step[h] \in {"pushRun", "statusAhead"} /\ q # seen[h].run => runs[q].status = "ended"

Counts(h) == KeyIsBound(h) /\ RunInHand(h) /\ SawNone(h)
AheadInv == CourseInv /\ (~overlapped => ActiveAtHome /\ \A h \in Handlers : Counts(h))

(* What is found at some places of a list is no more than those places.    *)
LEMMA PlacesBound ==
  ASSUME NEW list, NEW n \in Nat, NEW I \in SUBSET (1..n), NEW B, \A q \in B : \E i \in I : list[i] = q
  PROVE  Cardinality(B) \in Nat /\ Cardinality(I) \in Nat /\ Cardinality(B) <= Cardinality(I)
<1> DEFINE U == {list[i] : i \in I}
           f == [i \in I |-> list[i]]
<1>1. IsFiniteSet(I) /\ Cardinality(I) \in Nat
  <2>1. 1 \in Int /\ n \in Int
    OBVIOUS
  <2>2. IsFiniteSet(1..n)
    BY <2>1, FS_Interval
  <2> QED
    BY <2>2, FS_Subset, FS_CardinalityType
<1>2. IsFiniteSet(U) /\ Cardinality(U) <= Cardinality(I) /\ Cardinality(U) \in Nat
  <2>1. f \in Surjection(I, U)
    BY Zenon DEF Surjection
  <2> HIDE DEF f, U
  <2>2. IsFiniteSet(U) /\ Cardinality(U) <= Cardinality(I)
    BY <1>1, <2>1, FS_Surjection, Zenon
  <2> QED
    BY <2>2, FS_CardinalityType
<1>3. B \subseteq U
  OBVIOUS
<1> HIDE DEF U
<1>4. IsFiniteSet(B) /\ Cardinality(B) <= Cardinality(U)
  BY <1>2, <1>3, FS_Subset
<1>5. Cardinality(B) \in Nat
  BY <1>4, FS_CardinalityType
<1> QED
  BY <1>1, <1>2, <1>4, <1>5

(* A handler that saw no active run knows of none that is under way.       *)
LEMMA NoneUnderWay ==
  ASSUME FitsInv, NEW r, NEW k,
         \A q \in 1..Len(runs) : runs[q].workspace = k /\ q # r => runs[q].status = "ended"
  PROVE  UnderWay(k) \ {r} = {}
<1> QED
  BY RunFacts DEF UnderWay, ActiveIn

(* aheadCount counts what is before the run in the list.                   *)
LEMMA CountIsEnough ==
  ASSUME FitsInv, QueueInv, NEW r \in 1..Len(runs), NEW k, k = runs[r].workspace, NEW b \in BOOLEAN,
         ~b => \A q \in 1..Len(runs) :
                 runs[q].workspace = k /\ q # r => runs[q].status = "ended"
  PROVE  AheadCount(k, r, b)
           >= Cardinality(Before(r)) + (IF UnderWay(k) \ {r} # {} THEN 1 ELSE 0)
<1> DEFINE list == queue[k]
           before == {i \in DOMAIN list : \A j \in 1..i : list[j] # r}
           there == \E i \in DOMAIN list : list[i] = r
<1>1. k \in Keys /\ Len(list) \in Nat /\ DOMAIN list = 1..Len(list)
  <2>1. k \in Keys
    BY RunFacts DEF Run
  <2> QED
    BY <2>1, QueueFacts, LenProperties
<1>2. AheadCount(k, r, b) = (IF there THEN Cardinality(before) ELSE 0) + (IF b THEN 1 ELSE 0)
  BY DEF AheadCount
<1>3. \A q \in Before(r) : there /\ \E i \in before : list[i] = q
  <2> SUFFICES ASSUME NEW q \in Before(r) PROVE there /\ \E i \in before : list[i] = q
    OBVIOUS
  <2>1. PICK i \in DOMAIN list, j \in DOMAIN list :
          i < j /\ list[i] = q /\ list[j] = r /\ \A l \in 1..(j - 1) : list[l] # r
    BY DEF Before
  <2>2. \A l \in 1..i : l \in 1..(j - 1)
    BY <1>1, <2>1
  <2> QED
    BY <2>1, <2>2
<1>4. ~b => UnderWay(k) \ {r} = {}
  BY NoneUnderWay
<1>5. before \in SUBSET (1..Len(list))
  BY <1>1
<1> HIDE DEF before, there, list
<1>6. Cardinality(Before(r)) \in Nat /\ Cardinality(before) \in Nat
      /\ Cardinality(Before(r)) <= Cardinality(before)
  BY <1>1, <1>3, <1>5, PlacesBound
<1>7. ~there => Cardinality(Before(r)) = 0
  <2>1. ~there => Before(r) = {}
    BY <1>3
  <2> QED
    BY <2>1, FS_EmptySet
<1> QED
  BY <1>2, <1>4, <1>6, <1>7

---------------------------------------------------------------------------
(* What a handler knows stays true while the controller works.             *)

LEMMA CountsStay ==
  ASSUME FitsInv, NEW h \in Handlers, Counts(h), UNCHANGED <<step, message, seen, binding>>,
         Len(runs') = Len(runs), RunsKept,
         \A r \in 1..Len(runs) : runs[r].status = "ended" => runs'[r].status = "ended"
  PROVE  Counts(h)'
<1>1. KeyIsBound(h)'
  BY DEF Counts, KeyIsBound
<1>2. RunInHand(h)'
  <2>1. step[h] \in {"statusActive", "statusAhead", "pushRun"} => seen[h].run \in 1..Len(runs)
    <3>1. HandledAs(step[h], message[h], seen[h], Len(runs)) /\ seen[h].run \in 0..Len(runs)
          /\ Len(runs) \in Nat
      BY HandlerFacts DEF FitsInv
    <3> QED
      BY <3>1 DEF HandledAs, RunSteps
  <2> QED
    BY <2>1 DEF Counts, RunInHand, RunsKept
<1>3. SawNone(h)'
  <2> SUFFICES ASSUME ~seen[h].active, NEW q \in 1..Len(runs), runs'[q].workspace = seen[h].key
               PROVE  /\ step[h] = "createRun" => runs'[q].status = "ended"
                      /\ step[h] \in {"pushRun", "statusAhead"} /\ q # seen[h].run =>
                           runs'[q].status = "ended"
    BY DEF SawNone
  <2>1. runs[q].workspace = seen[h].key /\ (runs[q].status = "ended" => runs'[q].status = "ended")
    BY DEF RunsKept
  <2> QED
    BY <2>1 DEF Counts, SawNone
<1> QED
  BY <1>1, <1>2, <1>3 DEF Counts

LEMMA AheadOfController ==
  ASSUME FitsInv, QueueInv, ActiveAtHome, \A h \in Handlers : Counts(h),
         ControllerStep, UNCHANGED <<step, message, seen>>
  PROVE  ActiveAtHome' /\ \A h \in Handlers : Counts(h)'
<1>1. Len(runs') = Len(runs) /\ RunsKept /\ UNCHANGED binding
  BY ControllerKeeps DEF ControllerGoesOn, RunsGoOn
<1>2. \A r \in 1..Len(runs) : runs[r].status = "ended" => runs'[r].status = "ended"
  BY EndedStays
<1>3. ActiveAtHome'
  BY <1>1, <1>2 DEF ActiveAtHome, RunsKept
<1> QED
  BY <1>1, <1>2, <1>3, CountsStay

---------------------------------------------------------------------------
(* A handler counts what is ahead.                                         *)

Knowing ==
  {"readOverride", "findActive", "createRun", "readLatest", "statusActive", "statusAhead",
   "pushRun"}
Learns(h) ==
  SaveResolved(h) \/ ReadBinding(h) \/ ReadOverride(h) \/ PromptFindsActive(h) \/ StatusLatest(h)
    \/ StatusActive(h)

LEMMA NothingKnown ==
  ASSUME NEW h \in Handlers, step'[h] \notin Knowing
  PROVE  Counts(h)'
<1> QED
  BY DEF Knowing, Counts, KeyIsBound, RunInHand, SawNone

LEMMA OthersKnow ==
  ASSUME HandlersTyped, NEW h \in Handlers, CommandStep(h) \/ PromptStep(h), ~Learns(h)
  PROVE  step'[h] \notin Knowing
<1>1. DOMAIN step = Handlers
  BY DEF HandlersTyped
<1>2. \A m : FirstStep(m) \notin Knowing
  BY DEF FirstStep, Knowing
<1>3. CASE End(h) \/ Reply(h)
  BY <1>1, <1>3 DEF End, Reply, Knowing
<1>4. CASE ReceiveMessage(h) \/ CreateSession(h)
  <2>1. CASE ReceiveMessage(h)
    BY <1>1, <1>2, <2>1 DEF ReceiveMessage, Knowing
  <2>2. CASE CreateSession(h)
    BY <1>1, <1>2, <1>3, <2>2 DEF CreateSession, Goto, Go
  <2> QED
    BY <1>4, <2>1, <2>2
<1>5. CASE NewDeleteOverride(h) \/ BindRefusesActive(h) \/ BindResolve(h) \/ BindCreate(h)
  BY <1>1, <1>3, <1>5
  DEF NewDeleteOverride, BindRefusesActive, BindResolve, BindCreate, Goto, Go, Knowing
<1>6. CASE BindSave(h) \/ BindReset(h)
  BY <1>1, <1>6 DEF BindSave, BindReset, Goto, Go, Knowing
<1>7. CASE ReadConversation(h) \/ PromptPushesRun(h)
  BY <1>1, <1>7 DEF ReadConversation, PromptPushesRun, Go, Knowing
<1>8. CASE \/ SendReply(h) \/ NewReset(h) \/ BindClear(h) \/ ModeReset(h) \/ ModeSet(h)
           \/ PromptSavesPosition(h) \/ StatusAhead(h)
  BY <1>3, <1>8
  DEF SendReply, NewReset, BindClear, ModeReset, ModeSet, PromptSavesPosition, StatusAhead
<1> QED
  BY <1>4, <1>5, <1>6, <1>7, <1>8 DEF CommandStep, PromptStep, Learns

(* A run that is handed on is pushed next.                                 *)
LEMMA PushesThen ==
  ASSUME NEW h \in Handlers, HandlerStep(h), step[h] = "pushRun"
  PROVE  PromptPushesRun(h)
<1>1. ~PromptCreatesRun(h)
  BY DEF PromptCreatesRun, At
<1>2. ~(ReceiveMessage(h) \/ CreateSession(h) \/ SendReply(h) \/ ReadBinding(h) \/ SaveResolved(h)
          \/ ReadOverride(h) \/ NewDeleteOverride(h) \/ NewReset(h))
  BY DEF ReceiveMessage, CreateSession, SendReply, ReadBinding, SaveResolved, ReadOverride,
         NewDeleteOverride, NewReset, At
<1>3. ~(BindRefusesActive(h) \/ BindResolve(h) \/ BindCreate(h) \/ BindSave(h) \/ BindReset(h)
          \/ BindClear(h) \/ ModeReset(h) \/ ModeSet(h))
  BY DEF BindRefusesActive, BindResolve, BindCreate, BindSave, BindReset, BindClear, ModeReset,
         ModeSet, At
<1>4. ~(StatusLatest(h) \/ StatusActive(h) \/ StatusAhead(h) \/ ReadConversation(h)
          \/ PromptFindsActive(h) \/ PromptSavesPosition(h))
  BY DEF StatusLatest, StatusActive, StatusAhead, ReadConversation, PromptFindsActive,
         PromptSavesPosition, At
<1> QED
  BY <1>1, <1>2, <1>3, <1>4 DEF HandlerStep, CommandStep, PromptStep

(* A chat is moved only while no run of it is active.                      *)
LEMMA HomeOfHandler ==
  ASSUME NEW h \in Handlers, CalmBefore(h), ActiveAtHome, HandlerStep(h), ~PromptCreatesRun(h)
  PROVE  ActiveAtHome'
<1>1. FitsInv /\ (CommandStep(h) \/ PromptStep(h))
  BY DEF CalmBefore, HandlerStep
<1>2. /\ Len(runs') = Len(runs) /\ RunsKept
      /\ \A r \in 1..Len(runs) : runs'[r].status = runs[r].status
  BY <1>1, HandlerRunsLeft
<1>3. ASSUME NEW r \in 1..Len(runs), runs[r].status # "ended"
      PROVE  binding'[runs[r].chat].key = runs[r].workspace
  <2>1. PICK c, k : c \in Chats /\ k \in Keys /\ c = runs[r].chat /\ k = runs[r].workspace
    BY <1>1, RunFacts DEF Run
  <2>2. binding[c].key = k /\ k # None
    BY <1>3, <2>1, StoreAssumption DEF ActiveAtHome
  <2>3. CASE SaveResolved(h) /\ c = Chat(h)
    <3>1. step[h] = "saveBinding"
      BY <2>3 DEF SaveResolved, At
    <3>2. binding[c] = Unbound \/ binding[c].key = seen[h].key
      BY <2>3, <3>1, CalmFacts DEF AtHand
    <3>3. binding[c].key = seen[h].key
      BY <2>2, <3>2 DEF Unbound
    <3>4. UNCHANGED binding \/ binding' = [binding EXCEPT ![c] =
                                             [key |-> seen[h].key, source |-> seen[h].source]]
      BY <2>3 DEF SaveResolved, SaveBinding
    <3> QED
      BY <1>1, <2>1, <2>2, <3>3, <3>4 DEF FitsInv, BaseInv, StoreTyped
  <2>4. CASE BindSave(h) /\ c = Chat(h)
    <3>1. step[h] \in {"bindManual", "bindCreated"}
      BY <2>4 DEF BindSave
    <3>2. binding[c].key = None \/ ActiveOf(c) = {}
      BY <2>4, <3>1, CalmFacts DEF AtHand
    <3>3. r \in ActiveOf(c)
      BY <1>1, <1>3, <2>1, RunFacts DEF ActiveOf
    <3> QED
      BY <2>2, <3>2, <3>3
  <2>5. CASE (SaveResolved(h) \/ BindSave(h)) /\ c # Chat(h)
    BY <1>1, <2>1, <2>2, <2>5
    DEF SaveResolved, BindSave, SaveBinding, FitsInv, BaseInv, StoreTyped
  <2>6. CASE ~(SaveResolved(h) \/ BindSave(h))
    BY <2>1, <2>2, <2>6, BindingMoves
  <2> QED
    BY <2>3, <2>4, <2>5, <2>6
<1> QED
  BY <1>2, <1>3 DEF ActiveAtHome, RunsKept

LEMMA CountsOfHandler ==
  ASSUME NEW h \in Handlers, CalmBefore(h), ActiveAtHome, Counts(h), HandlerStep(h), Learns(h)
  PROVE  Counts(h)'
<1>1. FitsInv /\ BaseInv /\ HandlersTyped /\ binding \in [Chats -> Binding]
  BY DEF CalmBefore, FitsInv, BaseInv, StoreTyped
<1>2. step[h] # "idle" /\ DOMAIN step = Handlers /\ UNCHANGED runs
  BY <1>1 DEF Learns, SaveResolved, ReadBinding, ReadOverride, PromptFindsActive, StatusLatest,
              StatusActive, At, storeVars, HandlersTyped
<1>3. PICK c \in Chats, w \in Seen : c = Chat(h) /\ c = message[h].chat /\ w = seen[h]
  BY <1>2, CalmFacts
<1>4. DOMAIN runs = 1..Len(runs) /\ Len(runs) \in Nat
  BY <1>1, RunFacts
<1>5. CASE SaveResolved(h)
  <2>1. CASE Reply(h)
    BY <1>1, <2>1, NothingKnown DEF Reply, End, Knowing, HandlersTyped
  <2>2. CASE ~Reply(h)
    <3> DEFINE s == CASE message[h].command = "/bind" ->
                               IF message[h].arg = seen[h].key THEN "reply" ELSE "findActive"
                      [] message[h].command = "/status" -> "readLatest"
                      [] OTHER -> "readOverride"
    <3>1. SaveBinding(c, seen[h].key, seen[h].source) /\ Goto(h, s)
      BY <1>3, <1>5, <2>2 DEF SaveResolved
    <3>2. s \in {"reply", "findActive", "readLatest", "readOverride"}
      OBVIOUS
    <3> HIDE DEF s
    <3>3. step'[h] = s /\ message'[h] = message[h] /\ seen'[h] = seen[h]
      BY <1>2, <3>1 DEF Goto, Go
    <3>4. binding'[c].key = seen[h].key
      BY <1>1, <3>1 DEF SaveBinding
    <3> QED
      BY <1>3, <3>2, <3>3, <3>4 DEF Counts, KeyIsBound, RunInHand, SawNone
  <2> QED
    BY <2>1, <2>2
<1>6. CASE ReadBinding(h)
  <2>1. /\ step'[h] \in {"saveBinding", "resolveKey", "readLatest", "reply"}
        /\ step'[h] = "readLatest" => Choice(c) = Unbound
    BY <1>2, <1>3, <1>6 DEF ReadBinding, Go
  <2>2. seen'[h] = [w EXCEPT !.key = Choice(c).key, !.source = Choice(c).source]
    BY <1>1, <1>3, <1>6 DEF ReadBinding, See, HandlersTyped
  <2>3. step'[h] = "readLatest" => seen'[h].key = None
    BY <2>1, <2>2 DEF Unbound, Seen
  <2> QED
    BY <2>1, <2>3 DEF Counts, KeyIsBound, RunInHand, SawNone
<1>7. CASE ReadOverride(h)
  <2>1. /\ step[h] = "readOverride" /\ step'[h] \in {"findActive", "resetMode", "setMode", "reply"}
        /\ message'[h] = message[h] /\ UNCHANGED binding
    BY <1>2, <1>7 DEF ReadOverride, At, Go, storeVars
  <2>2. seen'[h] = [w EXCEPT !.mode = ResolveForChat(c, w.key)]
    BY <1>1, <1>3, <1>7 DEF ReadOverride, See, HandlersTyped
  <2>3. seen'[h].key = w.key
    BY <2>2 DEF Seen
  <2>4. binding[c].key = w.key
    BY <1>3, <2>1 DEF Counts, KeyIsBound
  <2> QED
    BY <1>3, <2>1, <2>3, <2>4 DEF Counts, KeyIsBound, RunInHand, SawNone
<1>8. CASE PromptFindsActive(h)
  <2>1. /\ step[h] = "findActive" /\ message[h].command = "prompt" /\ step'[h] = "createRun"
        /\ message'[h] = message[h] /\ UNCHANGED binding
    BY <1>2, <1>8 DEF PromptFindsActive, At, Go, storeVars
  <2>2. seen'[h] = [w EXCEPT !.active = ActiveIn(w.key) # {}]
    BY <1>1, <1>3, <1>8 DEF PromptFindsActive, See, HandlersTyped
  <2>3. seen'[h].key = w.key /\ (~seen'[h].active => ActiveIn(w.key) = {})
    BY <2>2 DEF Seen
  <2>4. binding[c].key = w.key
    BY <1>3, <2>1 DEF Counts, KeyIsBound
  <2>5. SawNone(h)'
    BY <1>2, <1>4, <2>1, <2>3 DEF SawNone, ActiveIn
  <2> QED
    BY <1>3, <2>1, <2>3, <2>4, <2>5 DEF Counts, KeyIsBound, RunInHand
<1>9. CASE StatusLatest(h)
  <2>1. CASE Goto(h, "reply")
    BY <1>1, <2>1, NothingKnown DEF Goto, Go, Knowing, HandlersTyped
  <2>2. CASE ~Goto(h, "reply")
    <3>1. /\ step[h] = "readLatest" /\ step'[h] = "statusActive" /\ message'[h] = message[h]
          /\ w.key # None /\ RunsOf(c) # {} /\ runs[Latest(c)].status = "queued"
          /\ See(h, [w EXCEPT !.run = Latest(c)])
      BY <1>2, <1>3, <1>9, <2>2 DEF StatusLatest, At, Go
    <3>2. seen'[h].run = Latest(c) /\ seen'[h].key = w.key
      BY <1>1, <1>3, <3>1 DEF See, HandlersTyped, Seen
    <3>3. binding[c].key = w.key
      BY <1>3, <3>1 DEF Counts, KeyIsBound
    <3>4. Latest(c) \in 1..Len(runs) /\ runs[Latest(c)].chat = c
      BY <1>1, <3>1, RunFacts, LatestIsRun
    <3>5. runs[Latest(c)].workspace = w.key
      BY <3>1, <3>3, <3>4 DEF ActiveAtHome
    <3> QED
      BY <1>2, <3>1, <3>2, <3>5 DEF Counts, KeyIsBound, RunInHand, SawNone
  <2> QED
    BY <2>1, <2>2
<1>10. CASE StatusActive(h)
  <2>1. step[h] = "statusActive" /\ step'[h] = "statusAhead" /\ message'[h] = message[h]
    BY <1>2, <1>10 DEF StatusActive, At, Go
  <2>2. seen'[h] = [w EXCEPT !.active = ActiveIn(w.key) # {}]
    BY <1>1, <1>3, <1>10 DEF StatusActive, See, HandlersTyped
  <2>3. seen'[h].key = w.key /\ seen'[h].run = w.run /\ (~seen'[h].active => ActiveIn(w.key) = {})
    BY <2>2 DEF Seen
  <2>4. runs[w.run].workspace = w.key
    BY <1>3, <2>1 DEF Counts, RunInHand
  <2>5. SawNone(h)'
    BY <1>2, <1>4, <2>1, <2>3 DEF SawNone, ActiveIn
  <2> QED
    BY <1>2, <2>1, <2>3, <2>4, <2>5 DEF Counts, KeyIsBound, RunInHand
<1> QED
  BY <1>5, <1>6, <1>7, <1>8, <1>9, <1>10 DEF Learns

LEMMA AheadCreated ==
  ASSUME NEW h \in Handlers, CalmBefore(h), ActiveAtHome, Counts(h),
         PromptCreatesRun(h), phase' = Append(phase, "queued"), returned' = Append(returned, 0)
  PROVE  ActiveAtHome' /\ Counts(h)'
<1>1. FitsInv /\ BaseInv /\ HandlersTyped
  BY DEF CalmBefore, FitsInv, BaseInv
<1>2. /\ step[h] = "createRun" /\ UNCHANGED binding /\ Go(h, "pushRun")
      /\ See(h, [seen[h] EXCEPT !.run = Len(runs) + 1])
  BY DEF PromptCreatesRun, At
<1>3. PICK c \in Chats, w \in Seen : c = Chat(h) /\ c = message[h].chat /\ w = seen[h]
  BY <1>2, CalmFacts
<1>4. PICK n \in Nat : n = Len(runs) + 1 /\ Len(runs) \in Nat
  BY <1>1, RunFacts
<1>5. step'[h] = "pushRun" /\ message'[h] = message[h]
  BY <1>1, <1>2 DEF Go, HandlersTyped
<1>6. seen'[h].run = n /\ seen'[h].key = w.key /\ seen'[h].active = w.active
  <2>1. seen'[h] = [w EXCEPT !.run = n]
    BY <1>1, <1>2, <1>3, <1>4 DEF See, HandlersTyped
  <2> QED
    BY <2>1 DEF Seen
<1>7. /\ Len(runs') = n /\ \A q \in 1..Len(runs) : runs'[q] = runs[q]
      /\ runs'[n].chat = c /\ runs'[n].workspace = w.key
  BY <1>1, <1>3, <1>4, RunAdded
<1>8. binding[c].key = w.key
  BY <1>2, <1>3 DEF Counts, KeyIsBound
<1>9. \A q \in 1..Len(runs') : q = n \/ q \in 1..Len(runs)
  BY <1>4, <1>7
<1>10. ActiveAtHome'
  BY <1>2, <1>7, <1>8, <1>9 DEF ActiveAtHome
<1>11. KeyIsBound(h)' /\ RunInHand(h)'
  BY <1>5, <1>6, <1>7 DEF KeyIsBound, RunInHand
<1>12. SawNone(h)'
  <2> SUFFICES ASSUME ~w.active, NEW q \in 1..Len(runs'), runs'[q].workspace = w.key, q # n
               PROVE  runs'[q].status = "ended"
    BY <1>5, <1>6 DEF SawNone
  <2> QED
    BY <1>2, <1>3, <1>7, <1>9 DEF Counts, SawNone
<1> QED
  BY <1>10, <1>11, <1>12 DEF Counts

(* A run is created at a step of its own.                                  *)
LEMMA CreatesThen ==
  ASSUME NEW h \in Handlers, PromptCreatesRun(h)
  PROVE  ~CommandStep(h) /\ ~PromptStep(h)
<1>1. step[h] = "createRun"
  BY DEF PromptCreatesRun, At
<1>2. ~(ReceiveMessage(h) \/ CreateSession(h) \/ SendReply(h) \/ ReadBinding(h) \/ SaveResolved(h)
          \/ ReadOverride(h) \/ NewDeleteOverride(h) \/ NewReset(h))
  BY <1>1 DEF ReceiveMessage, CreateSession, SendReply, ReadBinding, SaveResolved, ReadOverride,
              NewDeleteOverride, NewReset, At
<1>3. ~(BindRefusesActive(h) \/ BindResolve(h) \/ BindCreate(h) \/ BindSave(h) \/ BindReset(h)
          \/ BindClear(h) \/ ModeReset(h) \/ ModeSet(h))
  BY <1>1 DEF BindRefusesActive, BindResolve, BindCreate, BindSave, BindReset, BindClear, ModeReset,
              ModeSet, At
<1>4. ~(StatusLatest(h) \/ StatusActive(h) \/ StatusAhead(h) \/ ReadConversation(h)
          \/ PromptFindsActive(h) \/ PromptPushesRun(h) \/ PromptSavesPosition(h))
  BY <1>1 DEF StatusLatest, StatusActive, StatusAhead, ReadConversation, PromptFindsActive,
              PromptPushesRun, PromptSavesPosition, At
<1> QED
  BY <1>2, <1>3, <1>4 DEF CommandStep, PromptStep

(* Only /status reports how many runs are ahead.                           *)
LEMMA OnlyStatusReports ==
  ASSUME BaseInv, NEW h \in Handlers, HandlerStep(h), report' # report
  PROVE  StatusAhead(h)
<1>1. ~PromptCreatesRun(h)
  BY RunCreated
<1>2. ~PromptStep(h)
  <2>1. ~PromptSavesPosition(h)
    BY RepliesEnd DEF PromptSavesPosition
  <2> QED
    BY <2>1, ConversationRead, ActiveFound, RunPushed DEF PromptStep
<1>3. ~(SendReply(h) \/ NewReset(h) \/ BindClear(h) \/ ModeReset(h) \/ ModeSet(h))
  BY RepliesEnd DEF SendReply, NewReset, BindClear, ModeReset, ModeSet
<1>4. ~(\/ CreateSession(h) \/ ReadBinding(h) \/ SaveResolved(h) \/ ReadOverride(h)
        \/ NewDeleteOverride(h))
  BY SessionCreated, ReadsBinding, ResolvedSaved, ReadsOverride, OverrideDropped
<1>5. ~(\/ BindRefusesActive(h) \/ BindResolve(h) \/ BindCreate(h) \/ BindSave(h) \/ BindReset(h)
        \/ StatusLatest(h) \/ StatusActive(h))
  BY ActiveRefused, KeyResolved, WorkspaceCreated, BindingSaved, BoundIsReset, LatestRead, ActiveRead
<1>6. ~ReceiveMessage(h)
  BY DEF ReceiveMessage
<1> QED
  BY <1>1, <1>2, <1>3, <1>4, <1>5, <1>6 DEF HandlerStep, CommandStep

LEMMA AheadOfHandler ==
  ASSUME NEW h \in Handlers, CalmBefore(h), ActiveAtHome, \A g \in Handlers : Counts(g), HandlerStep(h)
  PROVE  ActiveAtHome' /\ \A g \in Handlers : Counts(g)'
<1>1. ActiveAtHome' /\ Counts(h)'
  <2>1. CASE PromptCreatesRun(h)
    <3>1. ~CommandStep(h) /\ ~PromptStep(h)
      BY <2>1, CreatesThen
    <3> QED
      BY <2>1, <3>1, AheadCreated DEF HandlerStep
  <2>2. CASE ~PromptCreatesRun(h)
    <3>1. ActiveAtHome'
      BY <2>2, HomeOfHandler
    <3>2. CASE Learns(h)
      BY <3>1, <3>2, CountsOfHandler
    <3>3. CASE ~Learns(h)
      <4>1. HandlersTyped /\ (CommandStep(h) \/ PromptStep(h))
        BY <2>2 DEF CalmBefore, FitsInv, BaseInv, HandlerStep
      <4>2. step'[h] \notin Knowing
        BY <3>3, <4>1, OthersKnow
      <4> QED
        BY <3>1, <4>2, NothingKnown
    <3> QED
      BY <3>2, <3>3
  <2> QED
    BY <2>1, <2>2
<1>2. ASSUME NEW g \in Handlers, g # h PROVE Counts(g)'
  <2>1. step'[g] = "idle"
    BY <1>2 DEF CalmBefore, Alone
  <2> QED
    BY <2>1, NothingKnown DEF Knowing
<1> QED
  BY <1>1, <1>2

LEMMA AheadAtStart ==
  ASSUME Init
  PROVE  AheadInv
<1>1. \A h \in Handlers : step[h] = "idle"
  BY DEF Init, HandlerInit
<1>2. Len(runs) = 0
  BY EmptySeq DEF Init, StoreInit
<1>3. ActiveAtHome
  BY <1>2 DEF ActiveAtHome
<1>4. \A h \in Handlers : Counts(h)
  BY <1>1 DEF Counts, KeyIsBound, RunInHand, SawNone
<1> QED
  BY <1>3, <1>4, CourseAtStart DEF AheadInv

LEMMA AheadNext ==
  ASSUME AheadInv, [Next]_vars
  PROVE  AheadInv'
<1>1. CourseInv' /\ CourseInv /\ FitsInv /\ QueueInv
  BY CourseNext DEF AheadInv, CourseInv
<1>2. SUFFICES ASSUME ~overlapped' PROVE ActiveAtHome' /\ \A h \in Handlers : Counts(h)'
  BY <1>1 DEF AheadInv
<1>3. ASSUME NEW h \in Handlers, HandlerStep(h) \/ CallRejected(h), Observe(h)
      PROVE  ActiveAtHome' /\ \A g \in Handlers : Counts(g)'
  <2>1. CalmBefore(h) /\ HandlerStep(h) /\ ~overlapped
    BY <1>1, <1>2, <1>3, CalmAfterHandler DEF Observe
  <2> QED
    BY <1>1, <2>1, AheadOfHandler DEF AheadInv
<1>4. CASE ControllerStep /\ UNCHANGED <<handlerVars, mishaps, overlapped, intent>>
  <2>1. UNCHANGED <<step, message, seen>> /\ ~overlapped
    BY <1>2, <1>4 DEF handlerVars
  <2> QED
    BY <1>1, <1>4, <2>1, AheadOfController DEF AheadInv
<1>5. ASSUME UNCHANGED <<handlerVars, overlapped, binding, runs>>
      PROVE  ActiveAtHome' /\ \A h \in Handlers : Counts(h)'
  <2>1. UNCHANGED <<step, message, seen>> /\ ~overlapped
    BY <1>2, <1>5 DEF handlerVars
  <2>2. ActiveAtHome /\ \A h \in Handlers : Counts(h)
    BY <2>1 DEF AheadInv
  <2>3. ActiveAtHome'
    BY <1>5, <2>2 DEF ActiveAtHome
  <2>4. \A h \in Handlers : Counts(h)'
    BY <1>5, <2>1, <2>2 DEF Counts, KeyIsBound, RunInHand, SawNone
  <2> QED
    BY <2>3, <2>4
<1>6. CASE Tick /\ UNCHANGED <<handlerVars, phase, returned, mishaps, overlapped, intent>>
  BY <1>5, <1>6 DEF Tick
<1>7. CASE UNCHANGED vars
  BY <1>5, <1>7 DEF vars, storeVars
<1> QED
  BY <1>3, <1>4, <1>6, <1>7 DEF Next

(* The position that a run is given when it is pushed.                     *)
LEMMA PositionIsEnough ==
  ASSUME NEW h \in Handlers, CalmBefore(h), QueueInv, Counts(h), PromptPushesRun(h),
         phase' = phase, NEW r, r = seen[h].run
  PROVE  seen'[h].position >= Ahead(r)'
<1>1. FitsInv /\ BaseInv /\ HandlersTyped /\ step[h] = "pushRun" /\ UNCHANGED runs
  BY DEF CalmBefore, FitsInv, BaseInv, PromptPushesRun, At
<1>2. HandledAs("pushRun", message[h], seen[h], Len(runs)) /\ seen[h].run \in 0..Len(runs)
      /\ Len(runs) \in Nat /\ seen[h] \in Seen
  BY <1>1, HandlerFacts
<1>3. PICK k \in Keys, w \in Seen : k = seen[h].key /\ r \in 1..Len(runs) /\ w = seen[h]
  BY <1>2 DEF HandledAs, RunSteps
<1>4. runs[r].workspace = k
  BY <1>1, <1>3 DEF Counts, RunInHand
<1>5. PICK l \in Nat : l = Len(queue[k]) /\ queue[k] \in Seq(Nat)
  BY <1>1, QueueFacts
<1>6. seen'[h].position = l + IF w.active THEN 1 ELSE 0
  <2>1. seen'[h] = [w EXCEPT !.position = l + IF w.active THEN 1 ELSE 0]
    BY <1>1, <1>3, <1>5 DEF PromptPushesRun, PositionOf, See, HandlersTyped
  <2> QED
    BY <2>1 DEF Seen
<1>7. ~w.active => UnderWay(k) \ {r} = {}
  <2>1. ~w.active => \A q \in 1..Len(runs) : runs[q].workspace = k /\ q # r => runs[q].status = "ended"
    BY <1>1, <1>3 DEF Counts, SawNone
  <2> QED
    BY <1>1, <2>1, NoneUnderWay
<1>8. \A q \in Before(r)' : \E i \in 1..l : queue[k][i] = q
  <2>1. queue'[k] = Append(queue[k], r)
    BY <1>1, <1>3 DEF PromptPushesRun, Enqueue, BaseInv, QueueTyped
  <2>2. /\ Len(queue'[k]) = l + 1 /\ DOMAIN queue'[k] = 1..(l + 1)
        /\ \A i \in 1..l : queue'[k][i] = queue[k][i]
    BY <1>2, <1>3, <1>5, <2>1, AppendProperties, LenProperties
  <2> SUFFICES ASSUME NEW q \in Before(r)' PROVE \E i \in 1..l : queue[k][i] = q
    OBVIOUS
  <2>3. PICK i \in DOMAIN queue'[k], j \in DOMAIN queue'[k] : i < j /\ queue'[k][i] = q
    BY <1>1, <1>4 DEF Before
  <2>4. i \in 1..l
    BY <2>2, <2>3
  <2> QED
    BY <2>2, <2>3, <2>4
<1>9. Cardinality(Before(r)') \in Nat /\ Cardinality(Before(r)') <= l
  <2>1. PICK B, list : B = Before(r)' /\ list = queue[k]
    OBVIOUS
  <2>2. 1..l \in SUBSET (1..l) /\ \A q \in B : \E i \in 1..l : list[i] = q
    BY <1>8, <2>1
  <2>3. Cardinality(B) \in Nat /\ Cardinality(B) <= Cardinality(1..l)
    BY <2>2, PlacesBound
  <2>4. Cardinality(1..l) = l
    <3>1. 1 \in Int /\ l \in Int
      OBVIOUS
    <3>2. Cardinality(1..l) = IF 1 > l THEN 0 ELSE l - 1 + 1
      BY <3>1, FS_Interval
    <3> QED
      BY <3>2
  <2> QED
    BY <2>1, <2>3, <2>4
<1>10. Ahead(r)' = Cardinality(Before(r)') + IF UnderWay(k) \ {r} # {} THEN 1 ELSE 0
  <2>1. UnderWay(k)' = UnderWay(k)
    BY <1>1 DEF UnderWay, ActiveIn
  <2>2. runs'[r].workspace = k
    BY <1>1, <1>4
  <2> QED
    BY <2>1, <2>2 DEF Ahead
<1> QED
  BY <1>6, <1>7, <1>9, <1>10

(* The number that /status reports.                                        *)
LEMMA ReportIsEnough ==
  ASSUME NEW h \in Handlers, CalmBefore(h), QueueInv, Counts(h), StatusAhead(h),
         NEW c \in Chats, report'[c] # report[c], NEW r, r = report'[c].run
  PROVE  report'[c].ahead >= Ahead(r)
<1>1. FitsInv /\ BaseInv /\ HandlersTyped /\ step[h] = "statusAhead"
  BY DEF CalmBefore, FitsInv, BaseInv, StatusAhead, At
<1>2. HandledAs("statusAhead", message[h], seen[h], Len(runs)) /\ seen[h].run \in 0..Len(runs)
      /\ Len(runs) \in Nat /\ seen[h] \in Seen
  BY <1>1, HandlerFacts
<1>3. PICK k \in Keys, b \in BOOLEAN :
        k = seen[h].key /\ seen[h].run \in 1..Len(runs) /\ b = seen[h].active
  BY <1>2 DEF HandledAs, RunSteps, Seen
<1>4. r = seen[h].run /\ report'[c].ahead = AheadCount(k, r, b)
  BY <1>1, <1>3 DEF StatusAhead, HandlersTyped
<1>5. runs[r].workspace = k
  BY <1>1, <1>4, <1>3 DEF Counts, RunInHand
<1>6. ~b => \A q \in 1..Len(runs) : runs[q].workspace = k /\ q # r => runs[q].status = "ended"
  BY <1>1, <1>3, <1>4 DEF Counts, SawNone
<1>7. PICK n : n = Ahead(r)
  OBVIOUS
<1>8. AheadCount(k, r, b) >= n
  BY <1>1, <1>3, <1>4, <1>5, <1>6, <1>7, CountIsEnough DEF Ahead
<1> QED
  BY <1>4, <1>7, <1>8

(* The position that a queued run is given, and the number that /status    *)
(* reports, count every run that is before it in the list, and one for     *)
(* those under way.                                                        *)
THEOREM AheadCounts == Spec => AheadIsCounted
<1> DEFINE A == ~overlapped' =>
       \A r \in DOMAIN runs :
         /\ \A h \in Handlers :
              At(h, "pushRun") /\ step'[h] = "savePosition" /\ seen[h].run = r =>
                seen'[h].position >= Ahead(r)'
         /\ \A c \in Chats :
              report'[c] # report[c] /\ report'[c].run = r => report'[c].ahead >= Ahead(r)
<1>1. AheadInv /\ [Next]_vars => [A]_vars
  <2> SUFFICES ASSUME AheadInv, Next, ~overlapped' PROVE A
    OBVIOUS
  <2>1. CourseInv /\ QueueInv
    BY DEF AheadInv, CourseInv
  <2>2. CASE UNCHANGED handlerVars
    BY <2>2 DEF handlerVars, At
  <2>3. ASSUME NEW h \in Handlers, HandlerStep(h) \/ CallRejected(h), Observe(h) PROVE A
    <3>1. CalmBefore(h) /\ HandlerStep(h) /\ Counts(h)
      BY <2>1, <2>3, CalmAfterHandler DEF AheadInv, Observe
    <3>2. ASSUME NEW r, NEW g \in Handlers, At(g, "pushRun"), step'[g] = "savePosition", r = seen[g].run
          PROVE  seen'[g].position >= Ahead(r)'
      <4>1. g = h /\ step[h] = "pushRun"
        BY <3>1, <3>2 DEF CalmBefore, Alone, At
      <4>2. PromptPushesRun(h) /\ phase' = phase
        BY <3>1, <4>1, PushesThen DEF HandlerStep, PromptCreatesRun, At
      <4> QED
        BY <2>1, <3>1, <3>2, <4>1, <4>2, PositionIsEnough
    <3>3. ASSUME NEW r, NEW c \in Chats, report'[c] # report[c], r = report'[c].run
          PROVE  report'[c].ahead >= Ahead(r)
      <4>1. StatusAhead(h)
        BY <3>1, <3>3, OnlyStatusReports DEF CalmBefore, FitsInv
      <4> QED
        BY <2>1, <3>1, <3>3, <4>1, ReportIsEnough
    <3> QED
      BY <3>2, <3>3
  <2>4. CASE UNCHANGED vars
    BY <2>2, <2>4 DEF vars
  <2> QED
    BY <2>2, <2>3 DEF Next
<1>2. Spec => []AheadInv
  BY AheadAtStart, AheadNext, PTL DEF Spec
<1> QED
  BY <1>1, <1>2, PTL DEF Spec, AheadIsCounted

===========================================================================
