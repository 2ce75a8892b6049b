---------------------------- MODULE Conversation ----------------------------
(***************************************************************************)
(* From a message to a task: gateways/service.py with the transports that  *)
(* feed it and the runner that starts and stops them.  A message is stored *)
(* first; then its text, the recent messages and the recent tasks of its   *)
(* chat decide whether it manages tasks, becomes one, or is answered.      *)
(* Every database commit is a step of its own; what handles a message may  *)
(* be cut off between two of them.  Workers report on tasks by messages    *)
(* that the chat of the task sees.                                         *)
(*                                                                         *)
(* A text is one of a few, told apart by what the code's phrase lists and  *)
(* patterns find in it (its traits).                                       *)
(***************************************************************************)
EXTENDS Integers, Sequences, SequencesExt, FiniteSets

CONSTANTS Gateway,     \* the enabled gateways, in the order of their start
          ChatsOf,     \* the chats of a gateway
          TextOf,      \* the texts the users of a gateway send
          Report,      \* the texts workers report
          Traits,      \* what is found in a text
          Command,     \* the command of a text, or "none"
          None,        \* no text, no task
          Recent,      \* how many messages are looked at: 30
          Lookback,    \* how many are searched for a path: 60
          Window,      \* how many of them are the history of a chat: 12
          MaxMessages, \* bound on the number of messages
          MaxTasks,    \* bound on the number of tasks
          MaxCuts      \* bound on the interruptions between the two commits

ASSUME WindowAssumption ==
  Recent \in Nat \ {0} /\ Window \in 1..Recent /\ Lookback \in Nat
ASSUME BoundsAssumption == {MaxMessages, MaxTasks, MaxCuts} \subseteq Nat
ASSUME NoneAssumption == None \notin Nat
\* A chat is told apart by the name of its gateway and its id.
ASSUME ChatsAssumption ==
  \A g, h \in Range(Gateway) : g # h => ChatsOf[g] \cap ChatsOf[h] = {}

VARIABLES
  runner,  \* "starting", "serving", "stopping", "ended"
  up,      \* the gateways whose start has returned: the runner's list
  live,    \* the gateways that may receive messages; one that lost its polling
           \* to another process just receives none
  message, \* the messages, in the order they were stored
  task,    \* the tasks, in the order they were made
  at,      \* the message each gateway handles, one at a time, and how far
  cuts     \* history: the messages interrupted before a link was stored

vars == <<runner, up, live, message, task, at, cuts>>

Idle == [pc |-> "idle", msg |-> 0, text |-> None, path |-> 0, todo |-> {}]

Init ==
  /\ runner = "starting" /\ up = {} /\ live = {}
  /\ message = <<>> /\ task = <<>>
  /\ at = [g \in Range(Gateway) |-> Idle]
  /\ cuts = {}

Is(text, trait) == trait \in Traits[text]
Mine(g) == message[at[g].msg].text
ChatOf(g) == message[at[g].msg].chat

(***************************************************************************)
(* What of the past a chat sees.                                           *)
(***************************************************************************)
Latest(n) == {i \in DOMAIN message : i > Len(message) - n}
Newest(ids) == CHOOSE i \in ids : \A j \in ids : j <= i

HistoryOfAll(chat) ==   \* mutant: the messages of every chat
  {i \in Latest(Recent) : Cardinality({j \in Latest(Recent) : j > i}) < Window}

\* _load_recent_conversation_messages: what a chat said and was told.
History(chat) ==
  LET heard == {i \in Latest(Recent) : message[i].chat = chat}
  IN  {i \in heard : Cardinality({j \in heard : j > i}) < Window}

OwnOrNot(chat) == DOMAIN task   \* mutant: the tasks of every chat

\* _load_recent_task_for_chat; it looks at the newest 20 tasks of the workspace,
\* more than MaxTasks.
Own(chat) == {t \in DOMAIN task : task[t].chat = chat}
RecentTask(chat) == IF Own(chat) = {} THEN None ELSE Newest(Own(chat))

\* _enrich_with_recent_path_context: a text about a folder that it does not
\* name gets the path of the newest message that has one, of whatever chat.
\* The result is the message the path is taken from, or 0.
Paths == {i \in Latest(Lookback) : Is(message[i].text, "path")}
PathFor(text) == IF Is(text, "where") /\ Paths # {} THEN Newest(Paths) ELSE 0

(***************************************************************************)
(* _resolve_followup_task_text: the request that a "yes" is about.         *)
(***************************************************************************)
Actionable(text) ==
  /\ ~Is(text, "capability")
  /\ Is(text, "event") \/ Is(text, "strong") \/ Is(text, "likely")

Inherited(chat, text) ==
  LET history == History(chat)
      before  == {i \in history : message[i].role = "user" /\ message[i].text # text}
      asked   == {i \in before : Actionable(message[i].text)}
      offered == {i \in history : /\ message[i].role = "assistant"
                                  /\ Is(message[i].text, "offer")}
      from    == IF asked # {} THEN asked
                 ELSE IF offered # {} /\ before # {} THEN before ELSE offered
  IN  IF Is(text, "affirms") /\ from # {} THEN message[Newest(from)].text ELSE None

(***************************************************************************)
(* _decide_text_intent, in its order; "ask" is the model's to say.         *)
(***************************************************************************)
Intent(text) ==
  IF Is(text, "server") THEN "task"
  ELSE IF Is(text, "capability") \/ Is(text, "followup") THEN "chat"
  ELSE IF Is(text, "event") \/ Is(text, "strong") THEN "task"
  ELSE IF Is(text, "chatty") THEN "chat"
  ELSE IF Is(text, "likely") THEN "task" ELSE "ask"

\* Without an answer of the model the length decides.
Guess(text) == IF Is(text, "short") THEN "chat" ELSE "task"

-----------------------------------------------------------------------------
(***************************************************************************)
(* The runner: _run_gateways.                                              *)
(***************************************************************************)
Started == SelectSeq(Gateway, LAMBDA g : g \in up)
Opening(g) ==   \* its start is what the runner is at
  /\ runner = "starting" /\ g \notin up
  /\ \A i \in DOMAIN Gateway : Gateway[i] = g =>
       \A j \in 1..(i - 1) : Gateway[j] \in up

\* In the middle of a start the gateway begins to receive: Telegram polls
\* before start() returns, a terminal's loop is the last thing it makes.
Listen(g) ==
  /\ Opening(g) /\ g \notin live
  /\ live' = live \cup {g}
  /\ UNCHANGED <<runner, up, message, task, at, cuts>>

FinishStart(g) ==
  /\ Opening(g) /\ g \in live
  /\ up' = up \cup {g}
  /\ runner' = IF up' = Range(Gateway) THEN "serving" ELSE "starting"
  /\ UNCHANGED <<live, message, task, at, cuts>>

\* A start that raises, or is cancelled, ends the service; its gateway is not
\* in the list and goes on receiving if it had begun to.
FailStart(g) ==
  /\ Opening(g)
  /\ g = "cli" => g \notin live
  /\ runner' = "stopping"
  /\ UNCHANGED <<up, live, message, task, at, cuts>>

EndService ==
  /\ runner = "serving"
  /\ runner' = "stopping"
  /\ UNCHANGED <<up, live, message, task, at, cuts>>

Unlinked(g) == IF at[g].pc = "link" THEN {at[g].msg} ELSE {}

\* Last started, first stopped.  A terminal's handling is cancelled, Telegram
\* waits until an update is dealt with.
StopGateway ==
  /\ runner = "stopping" /\ up # {}
  /\ LET g == Last(Started) IN
     /\ g = "cli" \/ at[g].pc = "idle"
     /\ up' = up \ {g} /\ live' = live \ {g}
     /\ at' = [at EXCEPT ![g] = Idle]
     /\ cuts' = cuts \cup Unlinked(g)
  /\ UNCHANGED <<runner, message, task>>

\* A stop that raises is logged; what the gateway does goes on.
FailStop ==
  /\ runner = "stopping" /\ up # {}
  /\ LET g == Last(Started) IN
     /\ g # "cli"
     /\ up' = up \ {g}
  /\ UNCHANGED <<runner, live, message, task, at, cuts>>

\* asyncio.run cancels what still runs when the runner returns.
EndRunner ==
  /\ runner = "stopping" /\ up = {}
  /\ runner' = "ended" /\ live' = {}
  /\ at' = [g \in Range(Gateway) |-> Idle]
  /\ cuts' = cuts \cup UNION {Unlinked(g) : g \in Range(Gateway)}
  /\ UNCHANGED <<up, message, task>>

(***************************************************************************)
(* Messages.                                                               *)
(***************************************************************************)
\* _save_incoming_message; a text that is not a command starts at "text".
Receive(g) ==
  /\ at[g].pc = "idle" /\ g \in live
  /\ Len(message) < MaxMessages
  /\ \E text \in TextOf[g], chat \in ChatsOf[g] :
       /\ message' = Append(message, [chat |-> chat, role |-> "user",
                                      text |-> text, task |-> None])
       /\ at' = [at EXCEPT ![g] =
            [Idle EXCEPT !.pc = IF Command[text] = "none" THEN "text"
                                ELSE "command", !.msg = Len(message) + 1]]
  /\ UNCHANGED <<runner, up, live, task, cuts>>

Go(g, next) == /\ at' = [at EXCEPT ![g] = next]
               /\ UNCHANGED <<runner, up, live, message, task, cuts>>
Answer(g) == Go(g, Idle)
ToTask(g, text) == Go(g, [at[g] EXCEPT !.pc = "create", !.text = text])
ToLink(g, t) == Go(g, [at[g] EXCEPT !.pc = "link", !.todo = {t}])
ToCancel(g, ts, then) == Go(g, [at[g] EXCEPT !.pc = then, !.todo = ts])

\* A command with a task's id goes by the workspace, not by the chat.
RunCommand(g) ==
  /\ at[g].pc = "command"
  /\ LET command == Command[Mine(g)] IN
     \/ command = "new" /\ ToTask(g, Mine(g))
     \/ /\ command \in {"look", "cancel", "test"}
        /\ \/ DOMAIN task = {} /\ Answer(g)
           \/ \E t \in DOMAIN task :
                CASE command = "look"   -> ToLink(g, t)
                  [] command = "cancel" -> ToCancel(g, {t}, "cancel")
                  [] OTHER              -> ToTask(g, Mine(g))
     \/ command = "help" /\ Answer(g)

\* _maybe_handle_natural_language_task_management
Active == {t \in DOMAIN task : task[t].status = "active"}

Manages(text) == \E trait \in {"cancelAll", "queue", "cancelThis", "status"} :
                   Is(text, trait)

Manage(g) ==
  /\ at[g].pc = "text" /\ Manages(Mine(g))
  /\ LET text == Mine(g)
         t    == RecentTask(ChatOf(g))
     IN  IF Is(text, "cancelAll") THEN ToCancel(g, Active, "cancelAll")
         ELSE IF Is(text, "queue") \/ t = None THEN Answer(g)
         ELSE IF ~Is(text, "cancelThis") THEN ToLink(g, t)
         ELSE IF t \in Active THEN ToCancel(g, {t}, "cancel") ELSE Answer(g)

\* The model is asked even about a message that inherits a request.
Decide(g) ==
  /\ at[g].pc = "text" /\ ~Manages(Mine(g))
  /\ LET text      == Mine(g)
         inherited == Inherited(ChatOf(g), text)
         intent    == IF inherited # None THEN "task" ELSE Intent(text)
     IN  Go(g, [at[g] EXCEPT
               !.text = IF inherited # None THEN inherited ELSE text,
               !.pc = IF Intent(text) = "ask" THEN "ask" ELSE intent])

\* The model's verdict, or none.
Ask(g) ==
  /\ at[g].pc = "ask"
  /\ \E verdict \in {"chat", "task", Guess(Mine(g))} :
       Go(g, [at[g] EXCEPT
         !.pc = IF at[g].text # Mine(g) THEN "task" ELSE verdict])

\* A path that is found makes a task of a question, and is put into its text.
Settle(g) ==
  /\ at[g].pc \in {"chat", "task"}
  /\ LET path == PathFor(at[g].text) IN
     IF at[g].pc = "task" \/ path # 0
     THEN Go(g, [at[g] EXCEPT !.pc = "create", !.path = path]) ELSE Answer(g)

CreateUnlinked(g) ==   \* mutant: the message is not linked to its task
  /\ at[g].pc = "create" /\ Len(task) < MaxTasks
  /\ task' = Append(task, [chat |-> ChatOf(g), from |-> at[g].msg,
                           text |-> at[g].text, path |-> at[g].path,
                           status |-> "active"])
  /\ at' = [at EXCEPT ![g] = Idle]
  /\ UNCHANGED <<runner, up, live, message, cuts>>

\* create_task commits the task, _link_message_to_task the message.
Create(g) ==
  /\ at[g].pc = "create" /\ Len(task) < MaxTasks
  /\ task' = Append(task, [chat |-> ChatOf(g), from |-> at[g].msg,
                           text |-> at[g].text, path |-> at[g].path,
                           status |-> "active"])
  /\ at' = [at EXCEPT ![g].pc = "link", ![g].todo = {Len(task) + 1}]
  /\ UNCHANGED <<runner, up, live, message, cuts>>

Link(g) ==
  /\ at[g].pc = "link"
  /\ \E t \in at[g].todo : message' = [message EXCEPT ![at[g].msg].task = t]
  /\ at' = [at EXCEPT ![g] = Idle]
  /\ UNCHANGED <<runner, up, live, task, cuts>>

\* What was active when it was read is cancelled, whatever it is by now.
Cancel(g) ==
  /\ at[g].pc = "cancel"
  /\ \E t \in at[g].todo : task' = [task EXCEPT ![t].status = "cancelled"]
  /\ at' = [at EXCEPT ![g].pc = "link"]
  /\ UNCHANGED <<runner, up, live, message, cuts>>

CancelNext(g) ==
  /\ at[g].pc = "cancelAll"
  /\ IF at[g].todo = {} THEN Answer(g)
     ELSE \E t \in at[g].todo :
            /\ task' = [task EXCEPT ![t].status = "cancelled"]
            /\ at' = [at EXCEPT ![g].todo = @ \ {t}]
            /\ UNCHANGED <<runner, up, live, message, cuts>>

\* A timeout of the terminal, an error or a crash: what is committed stays.
Cut(g) ==
  /\ at[g].pc # "idle"
  /\ Cardinality(cuts \cup Unlinked(g)) <= MaxCuts
  /\ at' = [at EXCEPT ![g] = Idle]
  /\ cuts' = cuts \cup Unlinked(g)
  /\ UNCHANGED <<runner, up, live, message, task>>

(***************************************************************************)
(* Workers: they report to the chat of the task, and come to an end.       *)
(***************************************************************************)
ReportOn(t) ==
  /\ task[t].status = "active" /\ Len(message) < MaxMessages
  /\ \E text \in Report :
       message' = Append(message, [chat |-> task[t].chat, role |-> "assistant",
                                   text |-> text, task |-> t])
  /\ UNCHANGED <<runner, up, live, task, at, cuts>>

Finish(t) ==
  /\ task[t].status = "active"
  /\ task' = [task EXCEPT ![t].status = "completed"]
  /\ UNCHANGED <<runner, up, live, message, at, cuts>>

Step(g) ==
  \/ Receive(g) \/ RunCommand(g) \/ Manage(g) \/ Decide(g) \/ Ask(g)
  \/ Settle(g) \/ Create(g) \/ Link(g) \/ Cancel(g) \/ CancelNext(g) \/ Cut(g)

Next ==
  \/ \E g \in Range(Gateway) : Listen(g) \/ FinishStart(g) \/ FailStart(g) \/ Step(g)
  \/ EndService \/ StopGateway \/ FailStop \/ EndRunner
  \/ \E t \in DOMAIN task : ReportOn(t) \/ Finish(t)

Spec == Init /\ [][Next]_vars

(***************************************************************************)
(* Properties.                                                             *)
(***************************************************************************)
\* Every task goes back to a message of its own chat: its text is what that
\* message asks for, or the message says yes and the text is a request of the
\* same chat, or something said in it and a worker made an offer to it.
\* Only a path may come from elsewhere, even from another chat, and only into
\* a text about a folder it does not name: it is the newest that the workspace
\* named until the message came, or a newer one (service.py:1731-1756).
AsksForWork(text) ==
  \/ Command[text] \in {"new", "test"}
  \/ Command[text] = "none" /\ Intent(text) # "chat"

PathIsNewest(text, path, from) ==
  /\ Is(text, "where")
  /\ path \in DOMAIN message /\ Is(message[path].text, "path")
  /\ path > from - Lookback
  /\ \A i \in DOMAIN message :
       Is(message[i].text, "path") /\ i <= from => i <= path

TasksAreAskedFor ==
  \A t \in DOMAIN task :
    LET m == message[task[t].from]
        said == {i \in DOMAIN message : message[i].chat = task[t].chat}
    IN  /\ m.role = "user" /\ m.chat = task[t].chat
        /\ \/ task[t].text = m.text /\ (AsksForWork(m.text) \/ task[t].path # 0)
           \/ /\ Is(m.text, "affirms")
              /\ \E i \in said :
                   /\ message[i].text = task[t].text
                   /\ \/ message[i].role = "user" /\ i < task[t].from
                         /\ Actionable(task[t].text)
                      \/ \E j \in said : /\ message[j].role = "assistant"
                                         /\ Is(message[j].text, "offer")
        /\ task[t].path # 0 => PathIsNewest(task[t].text, task[t].path, task[t].from)

\* A message makes one task at most; it is linked to it, unless its handling
\* goes on or was interrupted, and never to another one.
TasksAreLinked ==
  \A t \in DOMAIN task :
    LET i == task[t].from IN
    /\ \A u \in DOMAIN task : task[u].from = i => u = t
    /\ message[i].task \in {None, t}
    /\ message[i].task = None =>
         i \in cuts \/ \E g \in Range(Gateway) : at[g].msg = i

\* "Cancel this task" and questions about the status, in plain words, are about
\* the newest task of the chat they come from, whatever the other chats do meanwhile.
OwnTaskIsMeant ==
  \A g \in Range(Gateway) :
    /\ at[g].pc \in {"cancel", "link"} /\ Command[Mine(g)] = "none"
    /\ Is(Mine(g), "cancelThis") \/ Is(Mine(g), "status")
    => \A t \in at[g].todo :
         /\ message[task[t].from].chat = ChatOf(g)
         /\ \A u \in DOMAIN task :
              message[task[u].from].chat = ChatOf(g) => u <= t
=============================================================================
