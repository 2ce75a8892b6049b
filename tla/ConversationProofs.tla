------------------------- MODULE ConversationProofs -------------------------
(***************************************************************************)
(* Proofs about Conversation, for any gateways, chats and texts and any    *)
(* number of messages and tasks.                                           *)
(*                                                                         *)
(* A gateway handles its newest message (Current), which has made a task   *)
(* only if the link is all that is left (Alone); what it is about to make  *)
(* a task of has its ground in what the chat said (Meant), and what it is  *)
(* about to cancel or to show is the newest task of the chat (Aimed): the  *)
(* chats of two gateways differ, so nobody else adds to what one of them   *)
(* looks at.  A task keeps the ground it was made on, as messages are only *)
(* added and linked (Kept).  Where a path came from is proved on top of    *)
(* that (PathKept).                                                        *)
(***************************************************************************)
EXTENDS Conversation, WellFoundedInduction, TLAPS

Gateways == Range(Gateway)
Chats == UNION {ChatsOf[g] : g \in Gateways}
Texts == Report \cup UNION {TextOf[g] : g \in Gateways}

Messages == [chat : Chats, role : {"user", "assistant"}, text : Texts,
             task : Nat \cup {None}]
Tasks == [chat : Chats, from : Nat, text : Texts \cup {None}, path : Nat,
          status : {"active", "cancelled", "completed"}]
Handling == [pc : {"idle", "text", "command", "ask", "chat", "task", "create",
                   "link", "cancel", "cancelAll"},
             msg : Nat, text : Texts \cup {None}, path : Nat, todo : SUBSET Nat]

TypeOK ==
  /\ runner \in {"starting", "serving", "stopping", "ended"}
  /\ up \subseteq Gateways /\ live \subseteq Gateways
  /\ message \in Seq(Messages) /\ task \in Seq(Tasks)
  /\ at \in [Gateways -> Handling]

Busy(g) == at[g].pc # "idle"

\* A gateway handles the newest message of its users.
Current(g) ==
  Busy(g) =>
    /\ at[g].msg \in DOMAIN message
    /\ message[at[g].msg].role = "user" /\ ChatOf(g) \in ChatsOf[g]
    /\ message[at[g].msg].task = None
    /\ \A i \in DOMAIN message :
         message[i].role = "user" /\ message[i].chat \in ChatsOf[g] => i <= at[g].msg

\* The message has no task, or just the one it is to be linked to.
Alone(g) ==
  Busy(g) =>
    \A t \in DOMAIN task : task[t].from = at[g].msg =>
      at[g].pc = "link" /\ at[g].todo = {t}

\* The message i says yes, and the text was said in its chat.
Affirmed(i, text) ==
  LET said == {j \in DOMAIN message : message[j].chat = message[i].chat} IN
  /\ Is(message[i].text, "affirms")
  /\ \E j \in said :
       /\ message[j].text = text
       /\ \/ message[j].role = "user" /\ j < i /\ Actionable(text)
          \/ \E k \in said : message[k].role = "assistant" /\ Is(message[k].text, "offer")

\* The message i is a ground for a task of that text with that path.
Grounds(i, text, path) ==
  \/ text = message[i].text /\ (AsksForWork(text) \/ path # 0)
  \/ Affirmed(i, text)

\* What is handled that way means what the message says.
Meant(h) ==
  LET text == message[h.msg].text IN
  /\ h.pc \in {"text", "ask", "chat", "task"} => Command[text] = "none"
  /\ h.pc \in {"ask", "chat", "task"} =>
       ~Manages(text) /\ (h.text = text \/ Affirmed(h.msg, h.text))
  /\ h.pc = "ask" => Intent(text) = "ask"
  /\ h.pc = "task" => Grounds(h.msg, h.text, 0)
  /\ h.pc = "create" => Grounds(h.msg, h.text, h.path)
  /\ h.pc = "create" => Command[text] # "none" \/ ~Manages(text)

\* What is cancelled or shown by plain words is the chat's newest task.
Aimed(h) ==
  LET m == message[h.msg] IN
  /\ h.pc \in {"cancel", "link"} /\ Command[m.text] = "none" /\ Manages(m.text) =>
    \A t \in h.todo : t \in Own(m.chat) /\ \A u \in Own(m.chat) : u <= t

Handled(g) == Current(g) /\ Alone(g) /\ Meant(at[g]) /\ Aimed(at[g])

Grounded(t) ==
  LET i == task[t].from IN
  /\ i \in DOMAIN message
  /\ message[i].role = "user" /\ message[i].chat = task[t].chat
  /\ Grounds(i, task[t].text, task[t].path)

Linked(t) ==
  LET i == task[t].from IN
  /\ \A u \in DOMAIN task : task[u].from = i => u = t
  /\ message[i].task \in {None, t}
  /\ message[i].task = None =>
       i \in cuts \/ \E g \in Gateways : at[g].pc = "link" /\ at[g].msg = i

IInv ==
  /\ TypeOK
  /\ \A g \in Gateways : Handled(g)
  /\ \A t \in DOMAIN task : Grounded(t) /\ Linked(t)

-----------------------------------------------------------------------------
(***************************************************************************)
(* The newest of some positions.                                           *)
(***************************************************************************)
LEMMA NewestIs ==
  ASSUME NEW n \in Nat, NEW S, S \subseteq 0..n, S # {}
  PROVE  Newest(S) \in S /\ \A j \in S : j <= Newest(S)
<1> DEFINE T == {n - x : x \in S}
<1>1. T \subseteq Nat
  <2> SUFFICES ASSUME NEW x \in S PROVE n - x \in Nat
    OBVIOUS
  <2>1. x \in 0..n
    OBVIOUS
  <2> QED BY <2>1
<1>2. T # {}
  OBVIOUS
<1>3. PICK y \in T : \A z \in T : ~ (<<z, y>> \in OpToRel(<, Nat))
  <2> HIDE DEF T
  <2> QED BY <1>1, <1>2, NatLessThanWellFounded, WFMin
<1>4. \A z \in T : ~ (z < y)
  BY <1>1, <1>3 DEF OpToRel
<1>5. PICK i \in S : y = n - i
  OBVIOUS
<1>6. \A j \in S : j <= i
  <2> TAKE j \in S
  <2>1. i \in 0..n /\ j \in 0..n
    OBVIOUS
  <2>2. n - j \in T
    OBVIOUS
  <2>3. ~ (n - j < n - i)
    BY <1>4, <1>5, <2>2
  <2> HIDE DEF T
  <2> QED BY <2>1, <2>3
<1> QED BY <1>6 DEF Newest

\* The request a "yes" inherits is one the chat made, or was offered.
LEMMA InheritedIsSaid ==
  ASSUME TypeOK, NEW g \in Gateways, Current(g), Busy(g),
         Inherited(ChatOf(g), Mine(g)) # None
  PROVE  Affirmed(at[g].msg, Inherited(ChatOf(g), Mine(g)))
<1> DEFINE chat == ChatOf(g)
           text == Mine(g)
           history == History(chat)
           before == {i \in history : message[i].role = "user" /\ message[i].text # text}
           asked == {i \in before : Actionable(message[i].text)}
           offered == {i \in history : /\ message[i].role = "assistant"
                                       /\ Is(message[i].text, "offer")}
           from == IF asked # {} THEN asked
                   ELSE IF offered # {} /\ before # {} THEN before ELSE offered
           n == Newest(from)
<1>1. Is(text, "affirms") /\ from # {} /\ Inherited(chat, text) = message[n].text
  BY DEF Inherited
<1>2. history \subseteq {i \in DOMAIN message : message[i].chat = chat}
  BY DEF History, Latest
<1>3. from \subseteq history
  <2> HIDE DEF history
  <2> QED OBVIOUS
<1>4. DOMAIN message = 1..Len(message) /\ Len(message) \in Nat
  BY DEF TypeOK
<1>5. n \in from
  <2>1. from \subseteq 0..Len(message)
    <3> HIDE DEF from, history
    <3> QED BY <1>2, <1>3, <1>4
  <2> HIDE DEF from
  <2> QED BY <1>1, <1>4, <2>1, NewestIs
<1>6. n \in DOMAIN message /\ message[n].chat = chat
  <2> HIDE DEF from, history, n, chat
  <2> QED BY <1>2, <1>3, <1>5
<1>7. CASE asked # {}
  <2>1. n \in asked
    BY <1>5, <1>7
  <2>2. message[n].role = "user" /\ message[n].text # text /\ Actionable(message[n].text)
    BY <2>1
  <2>3. n # at[g].msg /\ n <= at[g].msg
    BY <1>6, <2>2 DEF Current, Mine
  <2>4. n < at[g].msg
    <3>1. n \in Nat /\ at[g].msg \in Nat
      BY <1>4, <1>6 DEF TypeOK, Handling
    <3> HIDE DEF n
    <3> QED BY <2>3, <3>1
  <2> HIDE DEF n, from, asked
  <2> QED BY <1>1, <1>6, <2>2, <2>4 DEF Affirmed, Mine, ChatOf
<1>8. CASE asked = {}
  <2>1. offered # {}
    BY <1>1, <1>8
  <2>2. PICK k \in offered : TRUE
    BY <2>1
  <2>3. /\ k \in DOMAIN message /\ message[k].chat = chat
        /\ message[k].role = "assistant" /\ Is(message[k].text, "offer")
    BY <1>2, <2>2
  <2> HIDE DEF n, from, asked, offered, before
  <2> QED BY <1>1, <1>6, <2>3 DEF Affirmed, Mine, ChatOf
<1> QED BY <1>7, <1>8

-----------------------------------------------------------------------------
(***************************************************************************)
(* What a step leaves as it is.                                            *)
(***************************************************************************)
\* Messages are only added, and linked.
Kept ==
  /\ DOMAIN message \subseteq DOMAIN message'
  /\ \A i \in DOMAIN message : /\ message'[i].chat = message[i].chat
                               /\ message'[i].role = message[i].role
                               /\ message'[i].text = message[i].text

\* Tasks are only added, and change their status.
TasksKept ==
  /\ DOMAIN task \subseteq DOMAIN task'
  /\ \A t \in DOMAIN task : /\ task'[t].chat = task[t].chat
                            /\ task'[t].from = task[t].from
                            /\ task'[t].text = task[t].text
                            /\ task'[t].path = task[t].path

\* A ground stays one.
LEMMA GroundsStay ==
  ASSUME Kept, NEW i \in DOMAIN message, NEW text, NEW path
  PROVE  /\ Affirmed(i, text) => Affirmed(i, text)'
         /\ Grounds(i, text, path) => Grounds(i, text, path)'
<1>1. message'[i].chat = message[i].chat /\ message'[i].text = message[i].text
  BY DEF Kept
<1>2. ASSUME Affirmed(i, text) PROVE Affirmed(i, text)'
  <2>1. PICK j \in DOMAIN message :
          /\ message[j].chat = message[i].chat /\ message[j].text = text
          /\ \/ message[j].role = "user" /\ j < i /\ Actionable(text)
             \/ \E k \in DOMAIN message :
                  /\ message[k].chat = message[i].chat
                  /\ message[k].role = "assistant" /\ Is(message[k].text, "offer")
    BY <1>2 DEF Affirmed
  <2>2. /\ j \in DOMAIN message' /\ message'[j].chat = message[j].chat
        /\ message'[j].text = message[j].text /\ message'[j].role = message[j].role
    BY DEF Kept
  <2>3. Is(message'[i].text, "affirms")
    BY <1>1, <1>2 DEF Affirmed
  <2>4. CASE message[j].role = "user" /\ j < i /\ Actionable(text)
    BY <1>1, <2>1, <2>2, <2>3, <2>4 DEF Affirmed, Is, Actionable
  <2>5. CASE \E k \in DOMAIN message :
               /\ message[k].chat = message[i].chat
               /\ message[k].role = "assistant" /\ Is(message[k].text, "offer")
    <3>1. PICK k \in DOMAIN message :
               /\ message[k].chat = message[i].chat
               /\ message[k].role = "assistant" /\ Is(message[k].text, "offer")
      BY <2>5
    <3>2. /\ k \in DOMAIN message' /\ message'[k].chat = message[i].chat
          /\ message'[k].role = "assistant" /\ Is(message'[k].text, "offer")
      BY <3>1 DEF Kept
    <3> QED BY <1>1, <2>1, <2>2, <2>3, <3>2 DEF Affirmed, Is
  <2> QED BY <2>1, <2>4, <2>5
<1>3. ASSUME Grounds(i, text, path) PROVE Grounds(i, text, path)'
  BY <1>1, <1>2, <1>3 DEF Grounds, AsksForWork, Intent, Is
<1> QED BY <1>2, <1>3

\* What is said of a handling is said of an equal one.
LEMMA SameHandling ==
  ASSUME NEW g, NEW h, h = at'[g]
  PROVE  Meant(at[g])' <=> Meant(h)'
<1>1. Affirmed(at[g].msg, at[g].text)' <=> Affirmed(h.msg, h.text)'
  BY DEF Affirmed, Is, Actionable
<1>2. /\ Grounds(at[g].msg, at[g].text, at[g].path)' <=> Grounds(h.msg, h.text, h.path)'
      /\ Grounds(at[g].msg, at[g].text, 0)' <=> Grounds(h.msg, h.text, 0)'
  BY <1>1 DEF Grounds, AsksForWork, Intent, Is
<1> QED BY <1>1, <1>2 DEF Meant, Manages, Intent, Is

\* A handler goes on as it was, if its chats hear and make nothing.
LEMMA HandlerStays ==
  ASSUME TypeOK, NEW g \in Gateways, Handled(g), Kept, TasksKept,
         at'[g] = at[g],
         Busy(g) =>
           /\ message'[at[g].msg].task = None
           /\ \A i \in DOMAIN message' \ DOMAIN message :
                message'[i].role = "user" => message'[i].chat \notin ChatsOf[g]
           /\ \A t \in DOMAIN task' \ DOMAIN task :
                task'[t].from # at[g].msg /\ task'[t].chat \notin ChatsOf[g]
  PROVE  Handled(g)'
<1>1. CASE ~Busy(g)
  BY <1>1 DEF Handled, Current, Alone, Meant, Aimed, Busy
<1>2. CASE Busy(g)
  <2>1. /\ at[g].msg \in DOMAIN message /\ at[g].msg \in DOMAIN message'
        /\ message'[at[g].msg].text = message[at[g].msg].text
        /\ message'[at[g].msg].chat = message[at[g].msg].chat
        /\ message'[at[g].msg].role = message[at[g].msg].role
    BY <1>2 DEF Handled, Current, Kept
  <2>2. Mine(g)' = Mine(g) /\ ChatOf(g)' = ChatOf(g)
    BY <2>1 DEF Mine, ChatOf
  <2>3. Current(g)'
    <3>1. ASSUME NEW i \in DOMAIN message', message'[i].role = "user",
                 message'[i].chat \in ChatsOf[g]
          PROVE  i <= at[g].msg
      <4>1. i \in DOMAIN message
        BY <1>2, <3>1
      <4>2. message[i].role = "user" /\ message[i].chat \in ChatsOf[g]
        BY <3>1, <4>1 DEF Kept
      <4> QED BY <1>2, <4>1, <4>2 DEF Handled, Current
    <3> QED BY <1>2, <2>1, <2>2, <3>1 DEF Handled, Current, Busy, ChatOf
  <2>4. Alone(g)'
    <3>1. ASSUME NEW t \in DOMAIN task', task'[t].from = at[g].msg
          PROVE  at[g].pc = "link" /\ at[g].todo = {t}
      <4>1. t \in DOMAIN task
        BY <1>2, <3>1
      <4> QED BY <1>2, <3>1, <4>1 DEF Handled, Alone, TasksKept
    <3> QED BY <3>1 DEF Alone
  <2>5. Meant(at[g])'
    <3>1. PICK h : h = at[g]
      OBVIOUS
    <3>2. PICK i, text, path : i = h.msg /\ text = h.text /\ path = h.path
      OBVIOUS
    <3>3. /\ Affirmed(i, text) => Affirmed(i, text)'
          /\ Grounds(i, text, path) => Grounds(i, text, path)'
          /\ Grounds(i, text, 0) => Grounds(i, text, 0)'
      BY <2>1, <3>1, <3>2, GroundsStay
    <3>4. /\ Affirmed(h.msg, h.text) => Affirmed(h.msg, h.text)'
          /\ Grounds(h.msg, h.text, h.path) => Grounds(h.msg, h.text, h.path)'
          /\ Grounds(h.msg, h.text, 0) => Grounds(h.msg, h.text, 0)'
      BY <3>2, <3>3
    <3>5. message'[h.msg].text = message[h.msg].text
      BY <2>1, <3>1
    <3>6. Meant(h)
      BY <3>1 DEF Handled
    <3>7. Meant(h)'
      BY <3>4, <3>5, <3>6 DEF Meant, Manages, Intent, Is
    <3> QED BY <3>1, <3>7, SameHandling
  <2>6. Aimed(at[g])'
    <3>1. ChatOf(g) \in ChatsOf[g]
      BY <1>2 DEF Handled, Current
    <3>2. PICK chat : chat = ChatOf(g)
      OBVIOUS
    <3>3. Own(chat)' = Own(chat)
      BY <1>2, <3>1, <3>2 DEF Own, TasksKept
    <3>4. message'[at[g].msg].chat = chat /\ message[at[g].msg].chat = chat
      BY <2>1, <3>2 DEF ChatOf
    <3>5. message'[at[g].msg].text = message[at[g].msg].text
      BY <2>1
    <3>6. Aimed(at[g])
      BY DEF Handled
    <3> QED BY <3>3, <3>4, <3>5, <3>6 DEF Aimed, Own, Manages, Is
  <2> QED BY <2>3, <2>4, <2>5, <2>6 DEF Handled
<1> QED BY <1>1, <1>2

\* So does every gateway but the one that acts.
LEMMA OthersStay ==
  ASSUME TypeOK, NEW g \in Gateways, Handled(g), Kept, TasksKept,
         NEW h \in Gateways \ {g}, Handled(h), at'[h] = at[h],
         \A i \in DOMAIN message : (Busy(g) /\ i = at[g].msg) \/ message'[i].task = message[i].task,
         \A i \in DOMAIN message' \ DOMAIN message :
           message'[i].role = "user" => message'[i].chat \in ChatsOf[g],
         \A t \in DOMAIN task' \ DOMAIN task :
           Busy(g) /\ task'[t].from = at[g].msg /\ task'[t].chat = ChatOf(g)
  PROVE  Handled(h)'
<1>1. ChatsOf[g] \cap ChatsOf[h] = {}
  BY ChatsAssumption DEF Gateways
<1>2. ASSUME Busy(g), Busy(h) PROVE at[g].msg # at[h].msg
  BY <1>1, <1>2 DEF Handled, Current, ChatOf
<1>3. ASSUME Busy(h)
      PROVE  /\ message'[at[h].msg].task = None
             /\ \A i \in DOMAIN message' \ DOMAIN message :
                  message'[i].role = "user" => message'[i].chat \notin ChatsOf[h]
             /\ \A t \in DOMAIN task' \ DOMAIN task :
                  task'[t].from # at[h].msg /\ task'[t].chat \notin ChatsOf[h]
  <2>1. at[h].msg \in DOMAIN message /\ message[at[h].msg].task = None
    BY <1>3 DEF Handled, Current
  <2>2. message'[at[h].msg].task = None
    BY <1>2, <1>3, <2>1
  <2>3. Busy(g) => ChatOf(g) \in ChatsOf[g]
    BY DEF Handled, Current
  <2> QED BY <1>1, <1>2, <1>3, <2>2, <2>3
<1> QED BY <1>3, HandlerStays

\* A task keeps its ground.
LEMMA TaskStays ==
  ASSUME Kept, TasksKept, NEW t \in DOMAIN task, Grounded(t)
  PROVE  t \in DOMAIN task' /\ Grounded(t)'
<1>1. /\ t \in DOMAIN task' /\ task'[t].from = task[t].from
      /\ task'[t].chat = task[t].chat /\ task'[t].text = task[t].text
      /\ task'[t].path = task[t].path
  BY DEF TasksKept
<1>2. PICK i : i = task[t].from
  OBVIOUS
<1>3. /\ i \in DOMAIN message /\ message[i].role = "user"
      /\ message[i].chat = task[t].chat /\ Grounds(i, task[t].text, task[t].path)
  BY <1>2 DEF Grounded
<1>4. Grounds(task[t].from, task[t].text, task[t].path)'
  <2>1. PICK text, path : text = task[t].text /\ path = task[t].path
    OBVIOUS
  <2>2. Affirmed(task[t].from, task[t].text)' <=> Affirmed(i, text)'
    BY <1>1, <1>2, <2>1 DEF Affirmed, Is, Actionable
  <2>3. Grounds(i, text, path)'
    BY <1>3, <2>1, GroundsStay
  <2> QED BY <1>1, <1>2, <2>1, <2>2, <2>3 DEF Grounds, AsksForWork, Intent, Is
<1> QED BY <1>1, <1>2, <1>3, <1>4 DEF Grounded, Kept

\* And its link, if nobody links its message or gives it another task.
LEMMA LinkStays ==
  ASSUME TasksKept, NEW t \in DOMAIN task, Linked(t),
         \A u \in DOMAIN task' \ DOMAIN task : task'[u].from # task[t].from,
         message'[task[t].from].task = message[task[t].from].task,
         cuts \subseteq cuts',
         \A g \in Gateways : at[g].pc = "link" /\ at[g].msg = task[t].from =>
           task[t].from \in cuts' \/ (at'[g].pc = "link" /\ at'[g].msg = task[t].from)
  PROVE  Linked(t)'
<1>1. task'[t].from = task[t].from
  BY DEF TasksKept
<1>2. ASSUME NEW u \in DOMAIN task', task'[u].from = task[t].from PROVE u = t
  <2>1. u \in DOMAIN task
    BY <1>2
  <2> QED BY <1>2, <2>1 DEF TasksKept, Linked
<1>3. message'[task[t].from].task \in {None, t}
  BY DEF Linked
<1>4. ASSUME message'[task[t].from].task = None
      PROVE  \/ task[t].from \in cuts'
             \/ \E g \in Gateways : at'[g].pc = "link" /\ at'[g].msg = task[t].from
  BY <1>4 DEF Linked
<1> QED BY <1>1, <1>2, <1>3, <1>4 DEF Linked

-----------------------------------------------------------------------------
(***************************************************************************)
(* Steps of the runner.                                                    *)
(***************************************************************************)
\* A step that handles nothing and stores nothing.
Lifecycle ==
  /\ runner \in {"starting", "serving", "stopping", "ended"}
  /\ up \subseteq Gateways /\ live \subseteq Gateways

LEMMA RunnerStep ==
  ASSUME IInv, UNCHANGED <<message, task, at, cuts>>, Lifecycle'
  PROVE  IInv'
<1>1. Kept /\ TasksKept
  BY DEF Kept, TasksKept
<1>2. TypeOK'
  BY DEF IInv, TypeOK, Lifecycle
<1>3. ASSUME NEW g \in Gateways PROVE Handled(g)'
  <2>1. Handled(g)
    BY DEF IInv
  <2>2. Busy(g) => message[at[g].msg].task = None
    BY <2>1 DEF Handled, Current
  <2> QED BY <1>1, <2>1, <2>2, HandlerStays DEF IInv
<1>4. ASSUME NEW t \in DOMAIN task PROVE Grounded(t)' /\ Linked(t)'
  <2>1. Grounded(t) /\ Linked(t)
    BY DEF IInv
  <2> QED BY <1>1, <2>1, TaskStays, LinkStays
<1> QED BY <1>2, <1>3, <1>4 DEF IInv

LEMMA StartKeeps ==
  \A g \in Gateways : IInv /\ (Listen(g) \/ FinishStart(g) \/ FailStart(g)) => IInv'
<1> SUFFICES ASSUME NEW g \in Gateways, IInv, Listen(g) \/ FinishStart(g) \/ FailStart(g)
             PROVE  IInv'
  OBVIOUS
<1>1. CASE Listen(g)
  BY <1>1, RunnerStep DEF IInv, TypeOK, Lifecycle, Listen
<1>2. CASE FinishStart(g)
  BY <1>2, RunnerStep DEF IInv, TypeOK, Lifecycle, FinishStart
<1>3. CASE FailStart(g)
  BY <1>3, RunnerStep DEF IInv, TypeOK, Lifecycle, FailStart
<1> QED BY <1>1, <1>2, <1>3

LEMMA EndKeeps == IInv /\ (EndService \/ FailStop) => IInv'
<1> SUFFICES ASSUME IInv, EndService \/ FailStop PROVE IInv'
  OBVIOUS
<1>1. CASE EndService
  BY <1>1, RunnerStep DEF IInv, TypeOK, Lifecycle, EndService
<1>2. CASE FailStop
  BY <1>2, RunnerStep DEF IInv, TypeOK, Lifecycle, FailStop
<1> QED BY <1>1, <1>2

\* Handlers that are given up, by a stop, a timeout or the end of the program:
\* only links that were still to be stored are lost, and counted.
LEMMA GivenUp ==
  ASSUME IInv, NEW G, UNCHANGED <<message, task>>, Lifecycle',
         at' = [g \in Gateways |-> IF g \in G THEN Idle ELSE at[g]],
         cuts \subseteq cuts', \A g \in G : Unlinked(g) \subseteq cuts'
  PROVE  IInv'
<1>1. Kept /\ TasksKept
  BY DEF Kept, TasksKept
<1>2. TypeOK'
  <2>1. Idle \in Handling
    BY DEF Idle, Handling
  <2>2. at' \in [Gateways -> Handling]
    BY <2>1 DEF IInv, TypeOK
  <2> QED BY <2>2 DEF IInv, TypeOK, Lifecycle
<1>3. \A h \in Gateways : at'[h] = IF h \in G THEN Idle ELSE at[h]
  OBVIOUS
<1>4. ASSUME NEW h \in Gateways PROVE Handled(h)'
  <2>1. Handled(h)
    BY DEF IInv
  <2>2. CASE h \in G
    BY <1>3, <2>2 DEF Handled, Current, Alone, Meant, Aimed, Busy, Idle
  <2>3. CASE h \notin G
    <3>1. Busy(h) => message[at[h].msg].task = None
      BY <2>1 DEF Handled, Current
    <3> QED BY <1>1, <1>3, <2>1, <2>3, <3>1, HandlerStays DEF IInv
  <2> QED BY <2>2, <2>3
<1>5. ASSUME NEW t \in DOMAIN task PROVE Grounded(t)' /\ Linked(t)'
  <2>1. Grounded(t) /\ Linked(t)
    BY DEF IInv
  <2>2. ASSUME NEW h \in Gateways, at[h].pc = "link", at[h].msg = task[t].from
        PROVE  task[t].from \in cuts' \/ (at'[h].pc = "link" /\ at'[h].msg = task[t].from)
    BY <1>3, <2>2 DEF Unlinked
  <2> QED BY <1>1, <2>1, <2>2, TaskStays, LinkStays
<1> QED BY <1>2, <1>4, <1>5 DEF IInv

LEMMA StopGatewayKeeps == IInv /\ StopGateway => IInv'
<1> SUFFICES ASSUME IInv, StopGateway PROVE IInv'
  OBVIOUS
<1>1. PICK g : /\ up' = up \ {g} /\ live' = live \ {g}
               /\ at' = [at EXCEPT ![g] = Idle] /\ cuts' = cuts \cup Unlinked(g)
  BY DEF StopGateway
<1>2. UNCHANGED <<runner, message, task>>
  BY DEF StopGateway
<1>3. PICK G : G = {g}
  OBVIOUS
<1>4. at' = [h \in Gateways |-> IF h \in G THEN Idle ELSE at[h]]
  BY <1>1, <1>3 DEF IInv, TypeOK
<1>5. Lifecycle'
  BY <1>1, <1>2 DEF IInv, TypeOK, Lifecycle
<1>6. cuts \subseteq cuts' /\ \A h \in G : Unlinked(h) \subseteq cuts'
  BY <1>1, <1>3
<1> QED BY <1>2, <1>4, <1>5, <1>6, GivenUp

LEMMA EndRunnerKeeps == IInv /\ EndRunner => IInv'
<1> SUFFICES ASSUME IInv, EndRunner PROVE IInv'
  OBVIOUS
<1>1. /\ runner' = "ended" /\ live' = {} /\ UNCHANGED <<up, message, task>>
      /\ at' = [g \in Gateways |-> Idle]
      /\ cuts' = cuts \cup UNION {Unlinked(g) : g \in Gateways}
  BY DEF EndRunner, Gateways
<1>2. PICK G : G = Gateways
  OBVIOUS
<1>3. at' = [h \in Gateways |-> IF h \in G THEN Idle ELSE at[h]]
  BY <1>1, <1>2
<1>4. Lifecycle'
  BY <1>1 DEF IInv, TypeOK, Lifecycle
<1>5. cuts \subseteq cuts' /\ \A h \in G : Unlinked(h) \subseteq cuts'
  BY <1>1, <1>2
<1> QED BY <1>1, <1>3, <1>4, <1>5, GivenUp

LEMMA CutKeeps == \A g \in Gateways : IInv /\ Cut(g) => IInv'
<1> SUFFICES ASSUME NEW g \in Gateways, IInv, Cut(g) PROVE IInv'
  OBVIOUS
<1>1. /\ at' = [at EXCEPT ![g] = Idle] /\ cuts' = cuts \cup Unlinked(g)
      /\ UNCHANGED <<runner, up, live, message, task>>
  BY DEF Cut
<1>2. PICK G : G = {g}
  OBVIOUS
<1>3. at' = [h \in Gateways |-> IF h \in G THEN Idle ELSE at[h]]
  BY <1>1, <1>2 DEF IInv, TypeOK
<1>4. Lifecycle'
  BY <1>1 DEF IInv, TypeOK, Lifecycle
<1>5. cuts \subseteq cuts' /\ \A h \in G : Unlinked(h) \subseteq cuts'
  BY <1>1, <1>2
<1> QED BY <1>1, <1>3, <1>4, <1>5, GivenUp

-----------------------------------------------------------------------------
(***************************************************************************)
(* Steps of a handler that store nothing.                                  *)
(***************************************************************************)
\* The handler of a message goes on; tasks may get another status.
LEMMA HandlerMoves ==
  ASSUME IInv, NEW g \in Gateways, Busy(g), at[g].pc # "link",
         NEW h \in Handling, h.pc # "idle" => h.msg = at[g].msg, Meant(h), Aimed(h),
         at' = [at EXCEPT ![g] = h], UNCHANGED <<runner, up, live, message, cuts>>,
         task' \in Seq(Tasks), DOMAIN task' = DOMAIN task, TasksKept
  PROVE  IInv'
<1>1. /\ at' \in [Gateways -> Handling] /\ at'[g] = h
      /\ \A f \in Gateways : f # g => at'[f] = at[f]
  BY DEF IInv, TypeOK
<1>2. Kept
  BY DEF Kept
<1>3. Handled(g)'
  <2>1. Handled(g)
    BY DEF IInv
  <2>2. Current(g)'
    BY <1>1, <2>1 DEF Handled, Current, Busy, ChatOf
  <2>3. Alone(g)'
    <3>1. \A t \in DOMAIN task : task'[t].from # at[g].msg
      BY <2>1 DEF Handled, Alone, TasksKept
    <3> QED BY <1>1, <3>1 DEF Alone, Busy
  <2>4. Meant(h)'
    BY DEF Meant, Affirmed, Grounds, AsksForWork, Intent, Is, Manages
  <2>5. Meant(at[g])'
    BY <1>1, <2>4, SameHandling
  <2>6. Aimed(h)'
    <3>1. PICK chat : chat = message[h.msg].chat
      OBVIOUS
    <3>2. Own(chat)' = Own(chat)
      BY DEF Own, TasksKept
    <3>3. Own(message[h.msg].chat)' = Own(chat)
      BY <3>1, <3>2 DEF Own
    <3> QED BY <3>1, <3>3 DEF Aimed, Manages, Is
  <2>7. Aimed(at[g])'
    BY <1>1, <2>6 DEF Aimed, Own
  <2> QED BY <2>2, <2>3, <2>5, <2>7 DEF Handled
<1>4. ASSUME NEW f \in Gateways \ {g} PROVE Handled(f)'
  BY <1>1, <1>2, OthersStay DEF IInv
<1>5. ASSUME NEW t \in DOMAIN task PROVE Grounded(t)' /\ Linked(t)'
  <2>1. Grounded(t) /\ Linked(t)
    BY DEF IInv
  <2>2. \A f \in Gateways : at[f].pc = "link" => at'[f] = at[f]
    BY <1>1
  <2> QED BY <1>2, <2>1, <2>2, TaskStays, LinkStays
<1>6. TypeOK'
  BY <1>1 DEF IInv, TypeOK, Busy, Gateways
<1> QED BY <1>3, <1>4, <1>5, <1>6 DEF IInv

LEMMA GoKeeps ==
  ASSUME IInv, NEW g \in Gateways, Busy(g), at[g].pc # "link",
         NEW h \in Handling, h.pc # "idle" => h.msg = at[g].msg,
         Go(g, h), Meant(h), Aimed(h)
  PROVE  IInv'
<1>1. at' = [at EXCEPT ![g] = h] /\ UNCHANGED <<runner, up, live, message, task, cuts>>
  BY DEF Go
<1>2. task' \in Seq(Tasks) /\ DOMAIN task' = DOMAIN task /\ TasksKept
  BY <1>1 DEF TasksKept, IInv, TypeOK
<1> QED BY <1>1, <1>2, HandlerMoves

\* The handler is done.
LEMMA AnswerKeeps ==
  ASSUME IInv, NEW g \in Gateways, Busy(g), at[g].pc # "link", Answer(g)
  PROVE  IInv'
<1>1. Idle \in Handling /\ Idle.pc = "idle"
  BY DEF Idle, Handling
<1>2. Meant(Idle) /\ Aimed(Idle)
  BY <1>1 DEF Meant, Aimed
<1> QED BY <1>1, <1>2, GoKeeps DEF Answer

\* What a handler holds, before it goes on.
LEMMA HandledNow ==
  ASSUME IInv, NEW g \in Gateways, Busy(g)
  PROVE  /\ at[g] \in Handling /\ at[g].msg \in DOMAIN message
         /\ Mine(g) = message[at[g].msg].text /\ ChatOf(g) = message[at[g].msg].chat
         /\ Mine(g) \in Texts /\ Current(g) /\ Meant(at[g]) /\ Aimed(at[g])
<1>1. at[g] \in Handling /\ Handled(g) /\ message \in Seq(Messages)
  BY DEF IInv, TypeOK
<1>2. at[g].msg \in DOMAIN message
  BY <1>1 DEF Handled, Current
<1>3. message[at[g].msg] \in Messages
  BY <1>1, <1>2
<1> QED BY <1>1, <1>2, <1>3 DEF Handled, Mine, ChatOf, Messages

\* A text with a ground becomes a task.
LEMMA ToTaskKeeps ==
  ASSUME IInv, NEW g \in Gateways, Busy(g), at[g].pc # "link",
         NEW text \in Texts \cup {None}, Grounds(at[g].msg, text, 0),
         Command[Mine(g)] # "none" \/ ~Manages(Mine(g)), ToTask(g, text)
  PROVE  IInv'
<1> DEFINE h == [at[g] EXCEPT !.pc = "create", !.text = text]
<1>1. /\ h \in Handling /\ h.pc = "create" /\ h.text = text /\ h.msg = at[g].msg
      /\ Go(g, h)
  BY HandledNow DEF Handling, ToTask
<1>2. Grounds(h.msg, h.text, h.path)
  BY <1>1 DEF Grounds
<1>3. Meant(h) /\ Aimed(h)
  <2> HIDE DEF h
  <2> QED BY <1>1, <1>2 DEF Meant, Aimed, Mine
<1> HIDE DEF h
<1> QED BY <1>1, <1>3, GoKeeps

\* Tasks are looked at or cancelled: the newest one, for plain words.
LEMMA AimKeeps ==
  ASSUME IInv, NEW g \in Gateways, Busy(g), at[g].pc # "link",
         NEW pc \in {"link", "cancel", "cancelAll"}, NEW ts \in SUBSET Nat,
         pc # "cancelAll" /\ Command[Mine(g)] = "none" =>
           \A t \in ts : t \in Own(ChatOf(g)) /\ \A u \in Own(ChatOf(g)) : u <= t,
         Go(g, [at[g] EXCEPT !.pc = pc, !.todo = ts])
  PROVE  IInv'
<1> DEFINE h == [at[g] EXCEPT !.pc = pc, !.todo = ts]
<1>1. /\ h \in Handling /\ h.pc = pc /\ h.todo = ts /\ h.msg = at[g].msg
      /\ Go(g, h)
  BY HandledNow DEF Handling
<1>2. Meant(h) /\ Aimed(h)
  <2> HIDE DEF h
  <2> QED BY <1>1 DEF Meant, Aimed, Mine, ChatOf
<1> HIDE DEF h
<1> QED BY <1>1, <1>2, GoKeeps

LEMMA RunCommandKeeps == \A g \in Gateways : IInv /\ RunCommand(g) => IInv'
<1> SUFFICES ASSUME NEW g \in Gateways, IInv, RunCommand(g) PROVE IInv'
  OBVIOUS
<1>1. Busy(g) /\ at[g].pc = "command" /\ DOMAIN task \subseteq Nat
  BY DEF RunCommand, Busy, IInv, TypeOK
<1>2. Mine(g) \in Texts /\ Mine(g) = message[at[g].msg].text
  BY <1>1, HandledNow
<1>3. ASSUME Command[Mine(g)] \in {"new", "test"}, ToTask(g, Mine(g)) PROVE IInv'
  <2>1. Grounds(at[g].msg, Mine(g), 0)
    BY <1>2, <1>3 DEF Grounds, AsksForWork
  <2> QED BY <1>1, <1>2, <1>3, <2>1, ToTaskKeeps
<1>4. ASSUME NEW t \in DOMAIN task, Command[Mine(g)] = "look", ToLink(g, t) PROVE IInv'
  <2>1. {t} \in SUBSET Nat
    BY <1>1
  <2> QED BY <1>1, <1>4, <2>1, AimKeeps DEF ToLink
<1>5. ASSUME NEW t \in DOMAIN task, Command[Mine(g)] = "cancel",
             ToCancel(g, {t}, "cancel")
      PROVE IInv'
  <2>1. {t} \in SUBSET Nat
    BY <1>1
  <2> QED BY <1>1, <1>5, <2>1, AimKeeps DEF ToCancel
<1>6. ASSUME Answer(g) PROVE IInv'
  BY <1>1, <1>6, AnswerKeeps
<1> QED BY <1>3, <1>4, <1>5, <1>6 DEF RunCommand

LEMMA ManageKeeps == \A g \in Gateways : IInv /\ Manage(g) => IInv'
<1> SUFFICES ASSUME NEW g \in Gateways, IInv, Manage(g) PROVE IInv'
  OBVIOUS
<1> DEFINE t == RecentTask(ChatOf(g))
<1>1. Busy(g) /\ at[g].pc = "text"
  BY DEF Manage, Busy
<1>2. DOMAIN task = 1..Len(task) /\ Len(task) \in Nat
  BY DEF IInv, TypeOK
<1>3. ASSUME t # None
      PROVE  /\ {t} \in SUBSET Nat
             /\ \A i \in {t} : i \in Own(ChatOf(g)) /\ \A u \in Own(ChatOf(g)) : u <= i
  <2>1. Own(ChatOf(g)) # {} /\ t = Newest(Own(ChatOf(g)))
    BY <1>3 DEF RecentTask
  <2>2. Own(ChatOf(g)) \subseteq 0..Len(task)
    BY <1>2 DEF Own
  <2> HIDE DEF t
  <2> QED BY <1>2, <2>1, <2>2, NewestIs
<1> HIDE DEF t
<1>4. ASSUME ToCancel(g, Active, "cancelAll") PROVE IInv'
  <2>1. Active \in SUBSET Nat
    BY <1>2 DEF Active
  <2> QED BY <1>1, <1>4, <2>1, AimKeeps DEF ToCancel
<1>5. ASSUME t # None, ToLink(g, t) PROVE IInv'
  BY <1>1, <1>3, <1>5, AimKeeps DEF ToLink
<1>6. ASSUME t # None, ToCancel(g, {t}, "cancel") PROVE IInv'
  BY <1>1, <1>3, <1>6, AimKeeps DEF ToCancel
<1>7. ASSUME Answer(g) PROVE IInv'
  BY <1>1, <1>7, AnswerKeeps
<1> QED BY <1>4, <1>5, <1>6, <1>7 DEF Manage, t

LEMMA DecideKeeps == \A g \in Gateways : IInv /\ Decide(g) => IInv'
<1> SUFFICES ASSUME NEW g \in Gateways, IInv, Decide(g) PROVE IInv'
  OBVIOUS
<1> DEFINE text == Mine(g)
           inherited == Inherited(ChatOf(g), text)
           intent == IF inherited # None THEN "task" ELSE Intent(text)
           h == [at[g] EXCEPT !.text = IF inherited # None THEN inherited ELSE text,
                              !.pc = IF Intent(text) = "ask" THEN "ask" ELSE intent]
<1>1. Busy(g) /\ at[g].pc = "text" /\ ~Manages(text) /\ Go(g, h)
  BY DEF Decide, Busy
<1>2. /\ at[g] \in Handling /\ text \in Texts /\ text = message[at[g].msg].text
      /\ Current(g) /\ Command[text] = "none"
  BY <1>1, HandledNow DEF Meant
<1>3. Intent(text) \in {"task", "chat", "ask"}
  BY DEF Intent
<1>4. inherited # None => inherited \in Texts /\ Affirmed(at[g].msg, inherited)
  <2>1. inherited # None => Affirmed(at[g].msg, inherited)
    BY <1>1, <1>2, InheritedIsSaid DEF IInv
  <2>2. ASSUME NEW x, Affirmed(at[g].msg, x) PROVE x \in Texts
    <3>1. PICK j \in DOMAIN message : message[j].text = x
      BY <2>2 DEF Affirmed
    <3>2. message[j] \in Messages
      BY DEF IInv, TypeOK
    <3> QED BY <3>1, <3>2 DEF Messages
  <2> HIDE DEF inherited
  <2> QED BY <2>1, <2>2
<1>5. /\ h \in Handling /\ h.msg = at[g].msg
      /\ h.text = IF inherited # None THEN inherited ELSE text
      /\ h.pc = IF Intent(text) = "ask" THEN "ask" ELSE intent
  <2> HIDE DEF inherited
  <2> QED BY <1>2, <1>3, <1>4 DEF Handling
<1> HIDE DEF h, inherited
<1>6. h.pc = "task" => Grounds(at[g].msg, h.text, 0)
  <2>1. CASE inherited # None
    BY <1>4, <1>5, <2>1 DEF Grounds
  <2>2. CASE inherited = None
    BY <1>2, <1>5, <2>2 DEF Grounds, AsksForWork
  <2> QED BY <2>1, <2>2
<1>7. Meant(h)
  BY <1>1, <1>2, <1>3, <1>4, <1>5, <1>6 DEF Meant
<1>8. Aimed(h)
  BY <1>3, <1>5 DEF Aimed
<1> QED BY <1>1, <1>5, <1>7, <1>8, GoKeeps

LEMMA AskKeeps == \A g \in Gateways : IInv /\ Ask(g) => IInv'
<1> SUFFICES ASSUME NEW g \in Gateways, IInv, Ask(g) PROVE IInv'
  OBVIOUS
<1>1. Busy(g) /\ at[g].pc = "ask"
  BY DEF Ask, Busy
<1>2. PICK verdict \in {"chat", "task"} :
        Go(g, [at[g] EXCEPT !.pc = IF at[g].text # Mine(g) THEN "task" ELSE verdict])
  BY DEF Ask, Guess
<1> DEFINE h == [at[g] EXCEPT !.pc = IF at[g].text # Mine(g) THEN "task" ELSE verdict]
<1>3. /\ h \in Handling /\ h.msg = at[g].msg /\ h.text = at[g].text
      /\ h.pc = IF at[g].text # Mine(g) THEN "task" ELSE verdict
  BY <1>1, HandledNow DEF Handling
<1> HIDE DEF h
<1>4. /\ Mine(g) = message[at[g].msg].text /\ Command[Mine(g)] = "none"
      /\ ~Manages(Mine(g)) /\ Intent(Mine(g)) = "ask"
      /\ at[g].text = Mine(g) \/ Affirmed(at[g].msg, at[g].text)
  BY <1>1, HandledNow DEF Meant
<1>5. Grounds(at[g].msg, at[g].text, 0)
  BY <1>4 DEF Grounds, AsksForWork
<1>6. Meant(h) /\ Aimed(h)
  BY <1>3, <1>4, <1>5 DEF Meant, Aimed
<1> QED BY <1>1, <1>2, <1>3, <1>6, GoKeeps DEF h

\* The path of a text is that of the newest of the messages that are searched.
LEMMA PathIsThere ==
  ASSUME TypeOK, NEW text
  PROVE  /\ PathFor(text) \in Nat
         /\ PathFor(text) # 0 =>
              /\ Is(text, "where") /\ PathFor(text) \in Paths
              /\ \A i \in Paths : i <= PathFor(text)
<1>1. DOMAIN message = 1..Len(message) /\ Len(message) \in Nat
  BY DEF TypeOK
<1>2. Paths \subseteq 0..Len(message) /\ Paths \subseteq Nat
  BY <1>1 DEF Paths, Latest
<1>3. Paths # {} => Newest(Paths) \in Paths /\ \A i \in Paths : i <= Newest(Paths)
  BY <1>1, <1>2, NewestIs
<1> QED BY <1>2, <1>3 DEF PathFor

LEMMA SettleKeeps == \A g \in Gateways : IInv /\ Settle(g) => IInv'
<1> SUFFICES ASSUME NEW g \in Gateways, IInv, Settle(g) PROVE IInv'
  OBVIOUS
<1>1. Busy(g) /\ at[g].pc \in {"chat", "task"}
  BY DEF Settle, Busy
<1>2. /\ at[g].text \in Texts \cup {None}
      /\ Mine(g) = message[at[g].msg].text /\ Command[Mine(g)] = "none"
      /\ ~Manages(Mine(g))
      /\ at[g].text = Mine(g) \/ Affirmed(at[g].msg, at[g].text)
      /\ at[g].pc = "task" => Grounds(at[g].msg, at[g].text, 0)
      /\ at[g] \in Handling
  BY <1>1, HandledNow DEF Meant, Handling
<1>3. PICK path, h : path = PathFor(at[g].text) /\ h = [at[g] EXCEPT !.pc = "create", !.path = path]
  OBVIOUS
<1>4. CASE at[g].pc = "task" \/ path # 0
  <2>1. Go(g, h)
    BY <1>3, <1>4 DEF Settle
  <2>2. path \in Nat
    BY <1>3, PathIsThere DEF IInv
  <2>3. /\ h \in Handling /\ h.pc = "create" /\ h.msg = at[g].msg
        /\ h.text = at[g].text /\ h.path = path
    BY <1>2, <1>3, <2>2 DEF Handling
  <2>4. Grounds(h.msg, h.text, h.path)
    BY <1>2, <1>4, <2>3 DEF Grounds
  <2>5. Meant(h) /\ Aimed(h)
    BY <1>2, <2>3, <2>4 DEF Meant, Aimed
  <2> QED BY <1>1, <2>1, <2>3, <2>5, GoKeeps
<1>5. CASE ~(at[g].pc = "task" \/ path # 0)
  BY <1>1, <1>3, <1>5, AnswerKeeps DEF Settle
<1> QED BY <1>4, <1>5

-----------------------------------------------------------------------------
(***************************************************************************)
(* Steps that store a message, a task or a status.                         *)
(***************************************************************************)
\* A message is added.
LEMMA MessageAdded ==
  ASSUME TypeOK, NEW m \in Messages, message' = Append(message, m)
  PROVE  /\ message' \in Seq(Messages) /\ Kept
         /\ Len(message) + 1 \in Nat
         /\ Len(message) + 1 \in DOMAIN message' /\ message'[Len(message) + 1] = m
         /\ \A i \in DOMAIN message : message'[i] = message[i] /\ i < Len(message) + 1
         /\ \A i \in DOMAIN message' : i \in DOMAIN message \/ i = Len(message) + 1
<1>1. message \in Seq(Messages)
  BY DEF TypeOK
<1>2. /\ message' \in Seq(Messages) /\ Len(message') = Len(message) + 1
      /\ \A i \in 1..Len(message) : message'[i] = message[i]
      /\ message'[Len(message) + 1] = m
  BY <1>1
<1>3. Len(message) \in Nat /\ DOMAIN message = 1..Len(message)
      /\ DOMAIN message' = 1..(Len(message) + 1)
  BY <1>1, <1>2
<1> QED BY <1>2, <1>3 DEF Kept

LEMMA ReceiveKeeps == \A g \in Gateways : IInv /\ Receive(g) => IInv'
<1> SUFFICES ASSUME NEW g \in Gateways, IInv, Receive(g) PROVE IInv'
  OBVIOUS
<1>1. PICK text \in TextOf[g], chat \in ChatsOf[g] :
        /\ message' = Append(message, [chat |-> chat, role |-> "user",
                                       text |-> text, task |-> None])
        /\ at' = [at EXCEPT ![g] =
             [Idle EXCEPT !.pc = IF Command[text] = "none" THEN "text"
                                 ELSE "command", !.msg = Len(message) + 1]]
  BY DEF Receive
<1> DEFINE m == [chat |-> chat, role |-> "user", text |-> text, task |-> None]
<1>0. PICK n, h : /\ n = Len(message) + 1
                  /\ h = [Idle EXCEPT !.pc = IF Command[text] = "none" THEN "text"
                                             ELSE "command", !.msg = n]
  OBVIOUS
<1>2. at[g].pc = "idle" /\ UNCHANGED <<runner, up, live, task, cuts>>
  BY DEF Receive
<1>3. m \in Messages
  BY DEF Messages, Chats, Texts
<1>4. /\ message' \in Seq(Messages) /\ Kept /\ n \in Nat
      /\ n \in DOMAIN message' /\ message'[n] = m
      /\ \A i \in DOMAIN message : message'[i] = message[i] /\ i < n
      /\ \A i \in DOMAIN message' : i \in DOMAIN message \/ i = n
  <2> HIDE DEF m
  <2> QED BY <1>0, <1>1, <1>3, MessageAdded DEF IInv, m
<1>5. TasksKept
  BY <1>2 DEF TasksKept
<1>6. /\ h \in Handling /\ h.msg = n
      /\ h.pc = IF Command[text] = "none" THEN "text" ELSE "command"
  BY <1>0, <1>4 DEF Handling, Idle
<1>7. /\ m.chat = chat /\ m.role = "user" /\ m.text = text /\ m.task = None
  OBVIOUS
<1>8. /\ at' \in [Gateways -> Handling] /\ at'[g] = h
      /\ \A f \in Gateways : f # g => at'[f] = at[f]
  BY <1>0, <1>1, <1>6 DEF IInv, TypeOK
<1> HIDE DEF m
<1>9. Handled(g)'
  <2>1. Current(g)'
    <3>1. \A i \in DOMAIN message' : i <= n
      BY <1>4 DEF IInv, TypeOK
    <3> QED BY <1>4, <1>6, <1>7, <1>8, <3>1 DEF Current, ChatOf
  <2>2. \A t \in DOMAIN task : task[t].from # n
    BY <1>4 DEF IInv, Grounded
  <2>3. Alone(g)'
    BY <1>2, <1>6, <1>8, <2>2 DEF Alone
  <2>4. Meant(h)'
    BY <1>4, <1>6, <1>7 DEF Meant
  <2>5. Meant(at[g])'
    BY <1>8, <2>4, SameHandling
  <2>6. Aimed(at[g])'
    BY <1>6, <1>8 DEF Aimed
  <2> QED BY <2>1, <2>3, <2>5, <2>6 DEF Handled
<1>10. ASSUME NEW f \in Gateways \ {g} PROVE Handled(f)'
  <2>1. \A i \in DOMAIN message' \ DOMAIN message : message'[i].chat \in ChatsOf[g]
    BY <1>4, <1>7
  <2>2. DOMAIN task' \ DOMAIN task = {}
    BY <1>2
  <2> QED BY <1>4, <1>5, <1>8, <2>1, <2>2, OthersStay DEF IInv
<1>11. ASSUME NEW t \in DOMAIN task PROVE Grounded(t)' /\ Linked(t)'
  <2>1. Grounded(t) /\ Linked(t)
    BY DEF IInv
  <2>2. task[t].from \in DOMAIN message
    BY <2>1 DEF Grounded
  <2>3. \A f \in Gateways : at[f].pc = "link" => at'[f] = at[f]
    BY <1>2, <1>8
  <2> QED BY <1>2, <1>4, <1>5, <2>1, <2>2, <2>3, TaskStays, LinkStays
<1>12. TypeOK'
  BY <1>2, <1>4, <1>8 DEF IInv, TypeOK, Gateways
<1> QED BY <1>2, <1>9, <1>10, <1>11, <1>12 DEF IInv

LEMMA ReportOnKeeps == \A t \in DOMAIN task : IInv /\ ReportOn(t) => IInv'
<1> SUFFICES ASSUME NEW r \in DOMAIN task, IInv, ReportOn(r) PROVE IInv'
  OBVIOUS
<1>1. PICK text \in Report :
        message' = Append(message, [chat |-> task[r].chat, role |-> "assistant",
                                    text |-> text, task |-> r])
  BY DEF ReportOn
<1> DEFINE m == [chat |-> task[r].chat, role |-> "assistant", text |-> text, task |-> r]
           n == Len(message) + 1
<1>2. UNCHANGED <<runner, up, live, task, at, cuts>>
  BY DEF ReportOn
<1>3. m \in Messages /\ m.role = "assistant"
  <2>1. r \in Nat /\ task[r] \in Tasks
    BY DEF IInv, TypeOK
  <2> QED BY <2>1 DEF Messages, Tasks, Texts
<1>4. /\ message' \in Seq(Messages) /\ Kept
      /\ message'[n] = m
      /\ \A i \in DOMAIN message : message'[i] = message[i]
      /\ \A i \in DOMAIN message' : i \in DOMAIN message \/ i = n
  <2> HIDE DEF m
  <2> QED BY <1>1, <1>3, MessageAdded DEF IInv, m
<1>5. TasksKept
  BY <1>2 DEF TasksKept
<1> HIDE DEF m, n
<1>6. ASSUME NEW g \in Gateways PROVE Handled(g)'
  <2>1. Handled(g)
    BY DEF IInv
  <2>2. Busy(g) => message'[at[g].msg].task = None
    BY <1>4, <2>1 DEF Handled, Current
  <2>3. \A i \in DOMAIN message' \ DOMAIN message : message'[i].role # "user"
    BY <1>3, <1>4
  <2>4. DOMAIN task' \ DOMAIN task = {} /\ at'[g] = at[g]
    BY <1>2
  <2> QED BY <1>4, <1>5, <2>1, <2>2, <2>3, <2>4, HandlerStays DEF IInv
<1>7. ASSUME NEW t \in DOMAIN task PROVE Grounded(t)' /\ Linked(t)'
  <2>1. Grounded(t) /\ Linked(t)
    BY DEF IInv
  <2>2. task[t].from \in DOMAIN message
    BY <2>1 DEF Grounded
  <2> QED BY <1>2, <1>4, <1>5, <2>1, <2>2, TaskStays, LinkStays
<1>8. TypeOK'
  BY <1>2, <1>4 DEF IInv, TypeOK
<1> QED BY <1>2, <1>6, <1>7, <1>8 DEF IInv

LEMMA SequenceOf ==
  ASSUME NEW n \in Nat, NEW S, NEW s, DOMAIN s = 1..n,
         s = [i \in DOMAIN s |-> s[i]], \A i \in DOMAIN s : s[i] \in S
  PROVE  s \in Seq(S)
OBVIOUS

\* A status changes, of a task or of none.
LEMMA StatusSet ==
  ASSUME TypeOK, NEW t, NEW s \in {"active", "cancelled", "completed"},
         task' = [task EXCEPT ![t].status = s]
  PROVE  task' \in Seq(Tasks) /\ DOMAIN task' = DOMAIN task /\ TasksKept
<1>1. /\ DOMAIN task' = DOMAIN task
      /\ \A u \in DOMAIN task : task'[u] = IF u = t THEN [task[u] EXCEPT !.status = s] ELSE task[u]
  BY DEF TypeOK
<1>2. \A u \in DOMAIN task : task[u] \in Tasks
  BY DEF TypeOK
<1>3. \A u \in DOMAIN task : /\ task'[u] \in Tasks /\ task'[u].chat = task[u].chat
                             /\ task'[u].from = task[u].from /\ task'[u].text = task[u].text
                             /\ task'[u].path = task[u].path
  BY <1>1, <1>2 DEF Tasks
<1>4. DOMAIN task = 1..Len(task) /\ Len(task) \in Nat
  BY DEF TypeOK
<1>5. DOMAIN task' = 1..Len(task) /\ task' = [u \in DOMAIN task' |-> task'[u]]
  BY <1>1, <1>4
<1>6. task' \in Seq(Tasks)
  BY <1>3, <1>4, <1>5, SequenceOf
<1> QED BY <1>1, <1>3, <1>6 DEF TasksKept

LEMMA FinishKeeps == \A t \in DOMAIN task : IInv /\ Finish(t) => IInv'
<1> SUFFICES ASSUME NEW r \in DOMAIN task, IInv, Finish(r) PROVE IInv'
  OBVIOUS
<1>1. task' = [task EXCEPT ![r].status = "completed"] /\ UNCHANGED <<runner, up, live, message, at, cuts>>
  BY DEF Finish
<1>2. task' \in Seq(Tasks) /\ DOMAIN task' = DOMAIN task /\ TasksKept /\ Kept
  BY <1>1, StatusSet DEF IInv, Kept
<1>3. ASSUME NEW g \in Gateways PROVE Handled(g)'
  <2>1. Handled(g)
    BY DEF IInv
  <2>2. Busy(g) => message'[at[g].msg].task = None
    BY <1>1, <2>1 DEF Handled, Current
  <2>3. DOMAIN task' \ DOMAIN task = {} /\ DOMAIN message' \ DOMAIN message = {} /\ at'[g] = at[g]
    BY <1>1, <1>2
  <2> QED BY <1>2, <2>1, <2>2, <2>3, HandlerStays DEF IInv
<1>4. ASSUME NEW t \in DOMAIN task PROVE Grounded(t)' /\ Linked(t)'
  <2>1. Grounded(t) /\ Linked(t)
    BY DEF IInv
  <2> QED BY <1>1, <1>2, <2>1, TaskStays, LinkStays
<1>5. TypeOK'
  BY <1>1, <1>2 DEF IInv, TypeOK
<1> QED BY <1>2, <1>3, <1>4, <1>5 DEF IInv

LEMMA CancelKeeps == \A g \in Gateways : IInv /\ Cancel(g) => IInv'
<1> SUFFICES ASSUME NEW g \in Gateways, IInv, Cancel(g) PROVE IInv'
  OBVIOUS
<1>1. PICK t \in at[g].todo : task' = [task EXCEPT ![t].status = "cancelled"]
  BY DEF Cancel
<1>2. /\ Busy(g) /\ at[g].pc = "cancel" /\ at' = [at EXCEPT ![g].pc = "link"]
      /\ UNCHANGED <<runner, up, live, message, cuts>>
  BY DEF Cancel, Busy
<1>3. task' \in Seq(Tasks) /\ DOMAIN task' = DOMAIN task /\ TasksKept
  BY <1>1, StatusSet DEF IInv
<1>4. at[g] \in Handling /\ Aimed(at[g])
  BY <1>2, HandledNow
<1>5. PICK h : h = [at[g] EXCEPT !.pc = "link"]
  OBVIOUS
<1>6. h \in Handling /\ h.pc = "link" /\ h.msg = at[g].msg /\ h.todo = at[g].todo
  BY <1>4, <1>5 DEF Handling
<1>7. at' = [at EXCEPT ![g] = h]
  BY <1>2, <1>5
<1>8. Meant(h) /\ Aimed(h)
  BY <1>2, <1>4, <1>6 DEF Meant, Aimed
<1> QED BY <1>2, <1>3, <1>6, <1>7, <1>8, HandlerMoves

LEMMA CancelNextKeeps == \A g \in Gateways : IInv /\ CancelNext(g) => IInv'
<1> SUFFICES ASSUME NEW g \in Gateways, IInv, CancelNext(g) PROVE IInv'
  OBVIOUS
<1>1. Busy(g) /\ at[g].pc = "cancelAll" /\ at[g] \in Handling
  BY HandledNow DEF CancelNext, Busy
<1>2. CASE at[g].todo = {}
  BY <1>1, <1>2, AnswerKeeps DEF CancelNext
<1>3. CASE at[g].todo # {}
  <2>1. PICK t \in at[g].todo :
          /\ task' = [task EXCEPT ![t].status = "cancelled"]
          /\ at' = [at EXCEPT ![g].todo = @ \ {t}]
          /\ UNCHANGED <<runner, up, live, message, cuts>>
    BY <1>3 DEF CancelNext
  <2>2. task' \in Seq(Tasks) /\ DOMAIN task' = DOMAIN task /\ TasksKept
    BY <2>1, StatusSet DEF IInv
  <2>3. PICK h : h = [at[g] EXCEPT !.todo = @ \ {t}]
    OBVIOUS
  <2>4. h \in Handling /\ h.pc = "cancelAll" /\ h.msg = at[g].msg
    BY <1>1, <2>3 DEF Handling
  <2>5. at' = [at EXCEPT ![g] = h]
    BY <2>1, <2>3
  <2>6. Meant(h) /\ Aimed(h)
    BY <2>4 DEF Meant, Aimed
  <2> QED BY <1>1, <2>1, <2>2, <2>4, <2>5, <2>6, HandlerMoves
<1> QED BY <1>2, <1>3

LEMMA CreateKeeps == \A g \in Gateways : IInv /\ Create(g) => IInv'
<1> SUFFICES ASSUME NEW g \in Gateways, IInv, Create(g) PROVE IInv'
  OBVIOUS
<1>1. /\ Busy(g) /\ at[g].pc = "create" /\ UNCHANGED <<runner, up, live, message, cuts>>
      /\ task' = Append(task, [chat |-> ChatOf(g), from |-> at[g].msg,
                               text |-> at[g].text, path |-> at[g].path,
                               status |-> "active"])
      /\ at' = [at EXCEPT ![g].pc = "link", ![g].todo = {Len(task) + 1}]
  BY DEF Create, Busy
<1>2. /\ at[g] \in Handling /\ at[g].msg \in DOMAIN message
      /\ Mine(g) = message[at[g].msg].text /\ ChatOf(g) = message[at[g].msg].chat
      /\ Current(g) /\ Meant(at[g])
  BY <1>1, HandledNow
<1>3. PICK n, h, i, text, path :
        /\ n = Len(task) + 1 /\ i = at[g].msg /\ text = at[g].text /\ path = at[g].path
        /\ h = [at[g] EXCEPT !.pc = "link", !.todo = {n}]
  OBVIOUS
<1> DEFINE r == [chat |-> ChatOf(g), from |-> i, text |-> text, path |-> path,
                 status |-> "active"]
<1>4. Len(task) \in Nat /\ DOMAIN task = 1..Len(task) /\ n \in Nat
  BY <1>3 DEF IInv, TypeOK
<1>5. /\ h \in Handling /\ h.pc = "link" /\ h.todo = {n} /\ h.msg = i
      /\ at' = [at EXCEPT ![g] = h]
  BY <1>1, <1>2, <1>3, <1>4 DEF Handling
<1>6. r \in Tasks
  <2>1. i \in Nat /\ text \in Texts \cup {None} /\ path \in Nat
    BY <1>2, <1>3 DEF Handling
  <2>2. message[at[g].msg] \in Messages
    BY <1>2 DEF IInv, TypeOK
  <2> QED BY <1>2, <2>1, <2>2 DEF Tasks, Messages
<1>7. r.chat = ChatOf(g) /\ r.from = i /\ r.text = text /\ r.path = path
  OBVIOUS
<1>8. task' = Append(task, r)
  BY <1>1, <1>3
<1> HIDE DEF r
<1>9. /\ task' \in Seq(Tasks) /\ n \in DOMAIN task' /\ task'[n] = r
      /\ \A t \in DOMAIN task : task'[t] = task[t] /\ t \in DOMAIN task'
      /\ \A t \in DOMAIN task' : t \in DOMAIN task \/ t = n
  BY <1>3, <1>4, <1>6, <1>8 DEF IInv, TypeOK
<1>10. Kept /\ TasksKept
  BY <1>1, <1>9 DEF Kept, TasksKept
<1>11. /\ at' \in [Gateways -> Handling] /\ at'[g] = h
       /\ \A f \in Gateways : f # g => at'[f] = at[f]
  BY <1>5 DEF IInv, TypeOK
<1>12. \A t \in DOMAIN task : task[t].from # i
  BY <1>1, <1>3 DEF IInv, Handled, Alone
<1>13. Handled(g)'
  <2>1. Current(g)'
    BY <1>1, <1>2, <1>3, <1>5, <1>11 DEF Current, Busy, ChatOf
  <2>2. Alone(g)'
    BY <1>5, <1>9, <1>11, <1>12 DEF Alone
  <2>3. Meant(h)'
    BY <1>5 DEF Meant
  <2>4. Meant(at[g])'
    BY <1>11, <2>3, SameHandling
  <2>5. Aimed(at[g])'
    <3>1. Command[message[i].text] # "none" \/ ~Manages(message[i].text)
      BY <1>1, <1>2, <1>3 DEF Meant
    <3> QED BY <1>1, <1>5, <1>11, <3>1 DEF Aimed, Manages, Is
  <2> QED BY <2>1, <2>2, <2>4, <2>5 DEF Handled
<1>14. ASSUME NEW f \in Gateways \ {g} PROVE Handled(f)'
  <2>1. \A t \in DOMAIN task' \ DOMAIN task : task'[t].from = at[g].msg /\ task'[t].chat = ChatOf(g)
    BY <1>3, <1>7, <1>9
  <2>2. DOMAIN message' \ DOMAIN message = {}
    BY <1>1
  <2> QED BY <1>1, <1>10, <1>11, <2>1, <2>2, OthersStay DEF IInv
<1>15. ASSUME NEW t \in DOMAIN task PROVE Grounded(t)' /\ Linked(t)'
  <2>1. Grounded(t) /\ Linked(t)
    BY DEF IInv
  <2>2. \A f \in Gateways : at[f].pc = "link" => at'[f] = at[f]
    BY <1>1, <1>11
  <2>3. \A u \in DOMAIN task' \ DOMAIN task : task'[u].from # task[t].from
    BY <1>7, <1>9, <1>12
  <2> QED BY <1>1, <1>10, <2>1, <2>2, <2>3, TaskStays, LinkStays
<1>16. Grounded(n)'
  <2>1. Grounds(i, text, path)
    BY <1>1, <1>2, <1>3 DEF Meant
  <2>2. Grounds(i, text, path)'
    BY <1>2, <1>3, <1>10, <2>1, GroundsStay
  <2>3. /\ task'[n].from = i /\ task'[n].text = text /\ task'[n].chat = ChatOf(g)
        /\ task'[n].path = path
    BY <1>7, <1>9
  <2>4. Affirmed(task[n].from, task[n].text)' <=> Affirmed(i, text)'
    BY <2>3 DEF Affirmed, Is, Actionable
  <2>5. Grounds(task[n].from, task[n].text, task[n].path)'
    BY <2>2, <2>3, <2>4 DEF Grounds, AsksForWork, Intent, Is
  <2>6. message[i].role = "user" /\ message[i].chat = ChatOf(g) /\ i \in DOMAIN message
    BY <1>1, <1>2, <1>3 DEF Current
  <2> QED BY <1>1, <2>3, <2>5, <2>6 DEF Grounded
<1>17. Linked(n)'
  <2>1. task'[n].from = i /\ message'[i].task = None
    BY <1>1, <1>2, <1>3, <1>7, <1>9 DEF Current
  <2>2. \A u \in DOMAIN task' : task'[u].from = i => u = n
    BY <1>9, <1>12
  <2> QED BY <1>5, <1>11, <2>1, <2>2 DEF Linked
<1>18. TypeOK'
  BY <1>1, <1>9, <1>11 DEF IInv, TypeOK, Busy, Gateways
<1> QED BY <1>9, <1>13, <1>14, <1>15, <1>16, <1>17, <1>18 DEF IInv

LEMMA LinkKeeps == \A g \in Gateways : IInv /\ Link(g) => IInv'
<1> SUFFICES ASSUME NEW g \in Gateways, IInv, Link(g) PROVE IInv'
  OBVIOUS
<1>1. /\ Busy(g) /\ at[g].pc = "link" /\ UNCHANGED <<runner, up, live, task, cuts>>
      /\ at' = [at EXCEPT ![g] = Idle]
  BY DEF Link, Busy
<1>2. PICK l \in at[g].todo : message' = [message EXCEPT ![at[g].msg].task = l]
  BY DEF Link
<1>3. PICK i : i = at[g].msg
  OBVIOUS
<1>4. at[g] \in Handling /\ i \in DOMAIN message /\ l \in Nat
  BY <1>1, <1>3, HandledNow DEF Handling
<1>5. /\ DOMAIN message' = DOMAIN message /\ DOMAIN message = 1..Len(message)
      /\ Len(message) \in Nat /\ message' = [j \in DOMAIN message' |-> message'[j]]
      /\ \A j \in DOMAIN message :
           message[j] \in Messages
           /\ message'[j] = IF j = i THEN [message[j] EXCEPT !.task = l] ELSE message[j]
  <2>1. message \in Seq(Messages)
    BY DEF IInv, TypeOK
  <2>2. DOMAIN message = 1..Len(message) /\ Len(message) \in Nat
        /\ \A j \in DOMAIN message : message[j] \in Messages
    BY <2>1
  <2>3. \A j \in DOMAIN message :
          message'[j] = IF j = i THEN [message[j] EXCEPT !.task = l] ELSE message[j]
    BY <1>2, <1>3
  <2>4. DOMAIN message' = DOMAIN message /\ message' = [j \in DOMAIN message' |-> message'[j]]
    BY <1>2
  <2> QED BY <2>2, <2>3, <2>4
<1>6. \A j \in DOMAIN message :
        /\ message'[j] \in Messages /\ message'[j].chat = message[j].chat
        /\ message'[j].role = message[j].role /\ message'[j].text = message[j].text
        /\ message'[j].task = IF j = i THEN l ELSE message[j].task
  BY <1>4, <1>5 DEF Messages
<1>7. message' \in Seq(Messages)
  BY <1>5, <1>6, SequenceOf
<1>8. Kept /\ TasksKept
  BY <1>1, <1>5, <1>6 DEF Kept, TasksKept
<1>9. /\ at' \in [Gateways -> Handling] /\ at'[g] = Idle
      /\ \A f \in Gateways : f # g => at'[f] = at[f]
  <2>1. Idle \in Handling
    BY DEF Idle, Handling
  <2> QED BY <1>1, <2>1 DEF IInv, TypeOK
<1>10. Handled(g)'
  BY <1>9 DEF Handled, Current, Alone, Meant, Aimed, Busy, Idle
<1>11. ASSUME NEW f \in Gateways \ {g} PROVE Handled(f)'
  <2>1. DOMAIN task' \ DOMAIN task = {} /\ DOMAIN message' \ DOMAIN message = {}
    BY <1>1, <1>5
  <2>2. \A j \in DOMAIN message : (Busy(g) /\ j = at[g].msg) \/ message'[j].task = message[j].task
    BY <1>1, <1>3, <1>6
  <2> QED BY <1>8, <1>9, <2>1, <2>2, OthersStay DEF IInv
<1>12. ASSUME NEW t \in DOMAIN task PROVE Grounded(t)' /\ Linked(t)'
  <2>1. Grounded(t) /\ Linked(t)
    BY DEF IInv
  <2>2. CASE task[t].from = i
    <3>1. l = t
      BY <1>1, <1>3, <2>2 DEF IInv, Handled, Alone
    <3>2. message'[i].task = t /\ t # None
      BY <1>4, <1>6, <3>1, NoneAssumption
    <3> QED BY <1>1, <1>8, <2>1, <2>2, <3>2, TaskStays DEF Linked
  <2>3. CASE task[t].from # i
    <3>1. task[t].from \in DOMAIN message
      BY <2>1 DEF Grounded
    <3>2. message'[task[t].from].task = message[task[t].from].task
      BY <1>6, <2>3, <3>1
    <3>3. \A f \in Gateways : at[f].pc = "link" /\ at[f].msg = task[t].from => at'[f] = at[f]
      BY <1>3, <1>9, <2>3
    <3> QED BY <1>1, <1>8, <2>1, <3>2, <3>3, TaskStays, LinkStays
  <2> QED BY <2>2, <2>3
<1>13. TypeOK'
  BY <1>1, <1>7, <1>9 DEF IInv, TypeOK, Idle, Gateways
<1> QED BY <1>1, <1>10, <1>11, <1>12, <1>13 DEF IInv

-----------------------------------------------------------------------------
(***************************************************************************)
(* Where a path comes from.                                                *)
(***************************************************************************)
Traced(text, path, from) ==
  path # 0 => from \in DOMAIN message /\ PathIsNewest(text, path, from)

\* A path is set when a task is settled, goes with the task, and stays what it was.
PathKept ==
  /\ \A g \in Gateways :
       /\ at[g].path # 0 => at[g].pc \in {"create", "link"}
       /\ Traced(at[g].text, at[g].path, at[g].msg)
  /\ \A t \in DOMAIN task : Traced(task[t].text, task[t].path, task[t].from)

\* A newer message changes nothing about an older path.
LEMMA TracedStays ==
  ASSUME TypeOK, message' \in Seq(Messages), Kept,
         NEW text, NEW path, NEW from, Traced(text, path, from)
  PROVE  Traced(text, path, from)'
<1> SUFFICES ASSUME path # 0 PROVE (from \in DOMAIN message /\ PathIsNewest(text, path, from))'
  BY DEF Traced
<1>1. from \in DOMAIN message /\ PathIsNewest(text, path, from)
  BY DEF Traced
<1>2. DOMAIN message = 1..Len(message) /\ Len(message) \in Nat
  BY DEF TypeOK
<1>3. DOMAIN message' = 1..Len(message') /\ Len(message') \in Nat
  OBVIOUS
<1>4. \A i \in DOMAIN message' : i <= from => i \in DOMAIN message
  BY <1>1, <1>2, <1>3
<1> QED BY <1>1, <1>4 DEF Kept, PathIsNewest

\* No path is set before the task is.
LEMMA PathUnset ==
  ASSUME PathKept, NEW g \in Gateways, at[g].pc \notin {"create", "link"}
  PROVE  at[g].path = 0
BY DEF PathKept

\* A step that settles nothing carries the paths along.
LEMMA PathsCarried ==
  ASSUME TypeOK, PathKept, message' \in Seq(Messages), Kept, TasksKept,
         \A g \in Gateways :
           \/ at'[g].path = 0
           \/ /\ at'[g].path = at[g].path /\ at'[g].text = at[g].text
              /\ at'[g].msg = at[g].msg
              /\ at[g].pc \in {"create", "link"} => at'[g].pc \in {"create", "link"},
         \A t \in DOMAIN task' \ DOMAIN task : \E g \in Gateways :
           /\ task'[t].text = at[g].text /\ task'[t].path = at[g].path
           /\ task'[t].from = at[g].msg
  PROVE  PathKept'
<1>1. ASSUME NEW g \in Gateways
      PROVE  /\ at'[g].path # 0 => at'[g].pc \in {"create", "link"}
             /\ Traced(at[g].text, at[g].path, at[g].msg)'
  <2>1. PICK text, path, from : text = at'[g].text /\ path = at'[g].path /\ from = at'[g].msg
    OBVIOUS
  <2>2. Traced(at[g].text, at[g].path, at[g].msg)
    BY DEF PathKept
  <2>3. Traced(text, path, from)
    BY <2>1, <2>2 DEF Traced
  <2>4. Traced(text, path, from)'
    BY <2>3, TracedStays
  <2>5. at'[g].path # 0 => at'[g].pc \in {"create", "link"}
    BY DEF PathKept
  <2> QED BY <2>1, <2>4, <2>5 DEF Traced
<1>2. ASSUME NEW t \in DOMAIN task'
      PROVE  Traced(task[t].text, task[t].path, task[t].from)'
  <2>1. PICK text, path, from : text = task'[t].text /\ path = task'[t].path /\ from = task'[t].from
    OBVIOUS
  <2>2. Traced(text, path, from)
    <3>1. CASE t \in DOMAIN task
      BY <2>1, <3>1 DEF PathKept, TasksKept
    <3>2. CASE t \notin DOMAIN task
      BY <2>1, <3>2 DEF PathKept
    <3> QED BY <3>1, <3>2
  <2>3. Traced(text, path, from)'
    BY <2>2, TracedStays
  <2> QED BY <2>1, <2>3 DEF Traced
<1> QED BY <1>1, <1>2 DEF PathKept

\* What is searched for a path reaches back far enough for any message there is.
LEMMA NewestPath ==
  ASSUME TypeOK, NEW text, NEW from \in DOMAIN message
  PROVE  Traced(text, PathFor(text), from)
<1>1. PICK path : path = PathFor(text)
  OBVIOUS
<1>2. DOMAIN message = 1..Len(message) /\ Len(message) \in Nat
  BY DEF TypeOK
<1> SUFFICES ASSUME path # 0 PROVE PathIsNewest(text, path, from)
  BY <1>1 DEF Traced
<1>3. /\ Is(text, "where") /\ path \in Paths
      /\ \A i \in Paths : i <= path
  BY <1>1, PathIsThere
<1>4. /\ path \in DOMAIN message /\ path > Len(message) - Lookback
      /\ Is(message[path].text, "path")
  BY <1>3 DEF Paths, Latest
<1>5. ASSUME NEW i \in DOMAIN message, Is(message[i].text, "path") PROVE i <= path
  <2>1. CASE i > Len(message) - Lookback
    BY <1>3, <1>5, <2>1 DEF Paths, Latest
  <2>2. CASE ~(i > Len(message) - Lookback)
    BY <1>2, <1>4, <2>2, WindowAssumption
  <2> QED BY <2>1, <2>2
<1>6. path > from - Lookback
  BY <1>2, <1>4, WindowAssumption
<1> QED BY <1>3, <1>4, <1>5, <1>6 DEF PathIsNewest

\* Steps that leave the messages and the tasks alone.
LEMMA AtAloneCarries ==
  ASSUME IInv, PathKept, UNCHANGED <<message, task>>,
         \A g \in Gateways : at'[g] = at[g] \/ at'[g].path = 0
  PROVE  PathKept'
<1>1. message' \in Seq(Messages) /\ Kept /\ TasksKept /\ DOMAIN task' \ DOMAIN task = {}
  BY DEF IInv, TypeOK, Kept, TasksKept
<1> QED BY <1>1, PathsCarried DEF IInv

\* The handler goes on and has no path.
LEMMA GoUnset ==
  ASSUME IInv, PathKept, NEW g \in Gateways, NEW h, Go(g, h), h.path = 0
  PROVE  PathKept'
<1>1. UNCHANGED <<message, task>> /\ at' = [at EXCEPT ![g] = h]
  BY DEF Go
<1>2. \A f \in Gateways : at'[f] = at[f] \/ at'[f].path = 0
  BY <1>1 DEF IInv, TypeOK
<1> QED BY <1>1, <1>2, AtAloneCarries

LEMMA LifecyclePaths ==
  ASSUME IInv, PathKept,
         \/ \E g \in Gateways : Listen(g) \/ FinishStart(g) \/ FailStart(g) \/ Cut(g)
         \/ EndService \/ StopGateway \/ FailStop \/ EndRunner
  PROVE  PathKept'
<1>1. UNCHANGED <<message, task>>
  BY DEF Listen, FinishStart, FailStart, Cut, EndService, StopGateway, FailStop, EndRunner
<1>2. \A g \in Gateways : at'[g] = at[g] \/ at'[g] = Idle
  BY DEF Listen, FinishStart, FailStart, Cut, EndService, StopGateway, FailStop, EndRunner,
         IInv, TypeOK, Gateways
<1>3. Idle.path = 0
  BY DEF Idle
<1> QED BY <1>1, <1>2, <1>3, AtAloneCarries

\* The steps of a handler that have no path yet, or none any more.
LEMMA UnsetPaths ==
  ASSUME IInv, PathKept, NEW g \in Gateways,
         RunCommand(g) \/ Manage(g) \/ Decide(g) \/ Ask(g)
  PROVE  PathKept'
<1>1. at[g].pc \notin {"create", "link"} /\ at[g] \in Handling
  BY DEF RunCommand, Manage, Decide, Ask, IInv, TypeOK
<1>2. at[g].path = 0
  BY <1>1, PathUnset
<1>3. ASSUME NEW text, ToTask(g, text) PROVE PathKept'
  <2>1. PICK h : h = [at[g] EXCEPT !.pc = "create", !.text = text]
    OBVIOUS
  <2>2. h.path = 0
    BY <1>1, <1>2, <2>1 DEF Handling
  <2> QED BY <1>3, <2>1, <2>2, GoUnset DEF ToTask
<1>4. ASSUME NEW pc, NEW ts, ToCancel(g, ts, pc) PROVE PathKept'
  <2>1. PICK h : h = [at[g] EXCEPT !.pc = pc, !.todo = ts]
    OBVIOUS
  <2>2. h.path = 0
    BY <1>1, <1>2, <2>1 DEF Handling
  <2> QED BY <1>4, <2>1, <2>2, GoUnset DEF ToCancel
<1>5. ASSUME NEW t, ToLink(g, t) PROVE PathKept'
  BY <1>4, <1>5 DEF ToLink, ToCancel
<1>6. ASSUME Answer(g) PROVE PathKept'
  BY <1>6, GoUnset DEF Answer, Idle
<1>7. CASE RunCommand(g)
  BY <1>3, <1>4, <1>5, <1>6, <1>7 DEF RunCommand
<1>8. CASE Manage(g)
  BY <1>3, <1>4, <1>5, <1>6, <1>8 DEF Manage
<1>9. ASSUME NEW pc, NEW text, Go(g, [at[g] EXCEPT !.text = text, !.pc = pc]) PROVE PathKept'
  <2>1. PICK h : h = [at[g] EXCEPT !.text = text, !.pc = pc]
    OBVIOUS
  <2>2. h.path = 0
    BY <1>1, <1>2, <2>1 DEF Handling
  <2> QED BY <1>9, <2>1, <2>2, GoUnset
<1>10. CASE Decide(g)
  BY <1>9, <1>10 DEF Decide
<1>11. CASE Ask(g)
  <2>1. PICK pc, h : h = [at[g] EXCEPT !.pc = pc] /\ Go(g, h)
    BY <1>11 DEF Ask
  <2>2. h.path = 0
    BY <1>1, <1>2, <2>1 DEF Handling
  <2> QED BY <2>1, <2>2, GoUnset
<1> QED BY <1>7, <1>8, <1>10, <1>11

LEMMA SettlePaths ==
  ASSUME IInv, PathKept, NEW g \in Gateways, Settle(g)
  PROVE  PathKept'
<1>1. Busy(g) /\ at[g] \in Handling /\ at[g].msg \in DOMAIN message
  BY HandledNow DEF Settle, Busy
<1>2. PICK text, from, path, h :
        /\ text = at[g].text /\ from = at[g].msg /\ path = PathFor(text)
        /\ h = [at[g] EXCEPT !.pc = "create", !.path = path]
  OBVIOUS
<1>3. CASE Answer(g)
  BY <1>3, GoUnset DEF Answer, Idle
<1>4. CASE Go(g, h)
  <2>1. /\ UNCHANGED <<message, task>> /\ at'[g] = h
        /\ \A f \in Gateways : f # g => at'[f] = at[f]
    BY <1>4 DEF Go, IInv, TypeOK
  <2>2. h.pc = "create" /\ h.text = text /\ h.msg = from /\ h.path = path
    BY <1>1, <1>2 DEF Handling
  <2>3. message' \in Seq(Messages) /\ Kept /\ TypeOK
    BY <2>1 DEF IInv, TypeOK, Kept
  <2>4. Traced(text, path, from)
    BY <1>1, <1>2, <2>3, NewestPath
  <2>5. Traced(text, path, from)'
    BY <2>3, <2>4, TracedStays
  <2>6. Traced(at[g].text, at[g].path, at[g].msg)'
    BY <2>1, <2>2, <2>5 DEF Traced
  <2>7. ASSUME NEW f \in Gateways, f # g
        PROVE  /\ at'[f].path # 0 => at'[f].pc \in {"create", "link"}
               /\ Traced(at[f].text, at[f].path, at[f].msg)'
    BY <2>1, <2>7 DEF PathKept, Traced, PathIsNewest
  <2>8. \A t \in DOMAIN task' : Traced(task[t].text, task[t].path, task[t].from)'
    BY <2>1 DEF PathKept, Traced, PathIsNewest
  <2> QED BY <2>1, <2>2, <2>6, <2>7, <2>8 DEF PathKept
<1> QED BY <1>2, <1>3, <1>4 DEF Settle

LEMMA CreatePaths ==
  ASSUME IInv, PathKept, NEW g \in Gateways, Create(g)
  PROVE  PathKept'
<1>1. PICK r : /\ task' = Append(task, r) /\ UNCHANGED message
               /\ r = [chat |-> ChatOf(g), from |-> at[g].msg,
                       text |-> at[g].text, path |-> at[g].path, status |-> "active"]
  BY DEF Create
<1>2. at' = [at EXCEPT ![g].pc = "link", ![g].todo = {Len(task) + 1}]
  BY DEF Create
<1>3. IInv'
  BY CreateKeeps
<1>4. /\ DOMAIN task' = 1..(Len(task) + 1) /\ DOMAIN task = 1..Len(task)
      /\ Len(task) \in Nat /\ task'[Len(task) + 1] = r
      /\ \A t \in DOMAIN task : task'[t] = task[t]
  BY <1>1, <1>3 DEF IInv, TypeOK
<1>5. message' \in Seq(Messages) /\ Kept /\ TasksKept
  BY <1>1, <1>3, <1>4 DEF IInv, TypeOK, Kept, TasksKept
<1>6. \A t \in DOMAIN task' \ DOMAIN task :
        task'[t].text = at[g].text /\ task'[t].path = at[g].path /\ task'[t].from = at[g].msg
  BY <1>1, <1>4
<1>7. ASSUME NEW f \in Gateways
      PROVE  /\ at'[f].path = at[f].path /\ at'[f].text = at[f].text
             /\ at'[f].msg = at[f].msg
             /\ at[f].pc \in {"create", "link"} => at'[f].pc \in {"create", "link"}
  <2>1. at \in [Gateways -> Handling]
    BY DEF IInv, TypeOK
  <2>2. PICK h : h = [at[g] EXCEPT !.pc = "link", !.todo = {Len(task) + 1}]
    OBVIOUS
  <2>3. h.pc = "link" /\ h.path = at[g].path /\ h.text = at[g].text /\ h.msg = at[g].msg
    BY <2>1, <2>2 DEF Handling
  <2>4. at'[f] = IF f = g THEN h ELSE at[f]
    BY <1>2, <2>1, <2>2
  <2> QED BY <2>3, <2>4
<1> QED BY <1>5, <1>6, <1>7, PathsCarried DEF IInv

LEMMA CancelPaths ==
  ASSUME IInv, PathKept, NEW g \in Gateways, Cancel(g) \/ CancelNext(g)
  PROVE  PathKept'
<1>1. /\ at \in [Gateways -> Handling] /\ message \in Seq(Messages)
      /\ at[g].pc \notin {"create", "link"}
  BY DEF IInv, TypeOK, Cancel, CancelNext
<1>2. at[g].path = 0
  BY <1>1, PathUnset
<1>3. \A f \in Gateways : f # g => at'[f] = at[f]
  BY <1>1 DEF Cancel, CancelNext, Answer, Go
<1>4. at'[g].path = 0
  BY <1>1, <1>2 DEF Cancel, CancelNext, Answer, Go, Handling, Idle
<1>5. UNCHANGED message /\ Kept
  BY DEF Cancel, CancelNext, Answer, Go, Kept
<1>6. DOMAIN task' = DOMAIN task /\ TasksKept
  <2>1. UNCHANGED task \/ \E t : task' = [task EXCEPT ![t].status = "cancelled"]
    BY DEF Cancel, CancelNext, Answer, Go
  <2> QED BY <2>1, StatusSet DEF IInv, TasksKept
<1> QED BY <1>1, <1>3, <1>4, <1>5, <1>6, PathsCarried DEF IInv

LEMMA LinkPaths ==
  ASSUME IInv, PathKept, NEW g \in Gateways, Link(g)
  PROVE  PathKept'
<1>1. IInv'
  BY LinkKeeps
<1>2. PICK i, t : message' = [message EXCEPT ![i].task = t]
  BY DEF Link
<1>3. at' = [at EXCEPT ![g] = Idle] /\ UNCHANGED task
  BY DEF Link
<1>4. \A j \in DOMAIN message : message[j] \in Messages
  BY DEF IInv, TypeOK
<1>5. Kept
  BY <1>2, <1>4 DEF Kept, Messages
<1>6. \A f \in Gateways : at'[f] = at[f] \/ at'[f].path = 0
  BY <1>3 DEF IInv, TypeOK, Idle
<1>7. message' \in Seq(Messages) /\ TasksKept /\ DOMAIN task' \ DOMAIN task = {}
  BY <1>1, <1>3 DEF IInv, TypeOK, TasksKept
<1> QED BY <1>5, <1>6, <1>7, PathsCarried DEF IInv

\* A message of a user or of a worker.
LEMMA MessagePaths ==
  ASSUME IInv, PathKept, NEW m \in Messages, message' = Append(message, m),
         UNCHANGED task, \A g \in Gateways : at'[g] = at[g] \/ at'[g].path = 0
  PROVE  PathKept'
<1>1. message' \in Seq(Messages) /\ Kept /\ TasksKept /\ DOMAIN task' \ DOMAIN task = {}
  BY MessageAdded DEF IInv, TasksKept
<1> QED BY <1>1, PathsCarried DEF IInv

LEMMA ReceivePaths ==
  ASSUME IInv, PathKept, NEW g \in Gateways, Receive(g)
  PROVE  PathKept'
<1>1. PICK text \in TextOf[g], chat \in ChatsOf[g] :
        /\ message' = Append(message, [chat |-> chat, role |-> "user",
                                       text |-> text, task |-> None])
        /\ at' = [at EXCEPT ![g] =
             [Idle EXCEPT !.pc = IF Command[text] = "none" THEN "text"
                                 ELSE "command", !.msg = Len(message) + 1]]
  BY DEF Receive
<1>0. PICK m, h :
        /\ m = [chat |-> chat, role |-> "user", text |-> text, task |-> None]
        /\ h = [Idle EXCEPT !.pc = IF Command[text] = "none" THEN "text"
                                   ELSE "command", !.msg = Len(message) + 1]
  OBVIOUS
<1>2. m \in Messages
  BY <1>0 DEF Messages, Chats, Texts
<1>3. h.path = 0
  BY <1>0 DEF Idle
<1>4. \A f \in Gateways : at'[f] = at[f] \/ at'[f].path = 0
  BY <1>0, <1>1, <1>3 DEF IInv, TypeOK
<1> QED BY <1>0, <1>1, <1>2, <1>4, MessagePaths DEF Receive

LEMMA WorkerPaths ==
  ASSUME IInv, PathKept, NEW t \in DOMAIN task, ReportOn(t) \/ Finish(t)
  PROVE  PathKept'
<1>1. CASE ReportOn(t)
  <2>1. PICK text, m :
          /\ text \in Report
          /\ m = [chat |-> task[t].chat, role |-> "assistant", text |-> text, task |-> t]
          /\ message' = Append(message, m)
    BY <1>1 DEF ReportOn
  <2>2. t \in Nat /\ task[t] \in Tasks
    BY DEF IInv, TypeOK
  <2>3. m \in Messages
    BY <2>1, <2>2 DEF Messages, Tasks, Texts
  <2> QED BY <1>1, <2>1, <2>3, MessagePaths DEF ReportOn
<1>2. CASE Finish(t)
  <2>1. task' = [task EXCEPT ![t].status = "completed"] /\ UNCHANGED <<message, at>>
    BY <1>2 DEF Finish
  <2>2. DOMAIN task' = DOMAIN task /\ TasksKept
    BY <2>1, StatusSet DEF IInv
  <2>3. message' \in Seq(Messages) /\ Kept
    BY <2>1 DEF IInv, TypeOK, Kept
  <2> QED BY <2>1, <2>2, <2>3, PathsCarried DEF IInv
<1> QED BY <1>1, <1>2

LEMMA PathStep == IInv /\ PathKept /\ [Next]_vars => PathKept'
<1> SUFFICES ASSUME IInv, PathKept, [Next]_vars PROVE PathKept'
  OBVIOUS
<1>1. ASSUME NEW g \in Gateways, Step(g) PROVE PathKept'
  BY <1>1, ReceivePaths, UnsetPaths, SettlePaths, CreatePaths, LinkPaths, CancelPaths,
     LifecyclePaths DEF Step
<1>2. CASE UNCHANGED vars
  BY <1>2, AtAloneCarries DEF vars
<1> QED BY <1>1, <1>2, LifecyclePaths, WorkerPaths DEF Next, Gateways

-----------------------------------------------------------------------------
(***************************************************************************)
(* The theorems.                                                           *)
(***************************************************************************)
LEMMA InitHolds == Init => IInv
<1> SUFFICES ASSUME Init PROVE IInv
  OBVIOUS
<1>1. Idle \in Handling
  BY DEF Idle, Handling
<1>2. TypeOK
  BY <1>1 DEF Init, TypeOK, Gateways, Idle
<1>3. ASSUME NEW g \in Gateways PROVE Handled(g)
  <2>1. at[g].pc = "idle"
    BY DEF Init, Gateways, Idle
  <2> QED BY <2>1 DEF Handled, Current, Alone, Meant, Aimed, Busy
<1> QED BY <1>2, <1>3 DEF IInv, Init

LEMMA StepHolds == IInv /\ [Next]_vars => IInv'
<1> SUFFICES ASSUME IInv, [Next]_vars PROVE IInv'
  OBVIOUS
<1>1. CASE EndService \/ StopGateway \/ FailStop \/ EndRunner
  BY <1>1, EndKeeps, StopGatewayKeeps, EndRunnerKeeps
<1>5. ASSUME NEW g \in Gateways, Listen(g) \/ FinishStart(g) \/ FailStart(g) PROVE IInv'
  BY <1>5, StartKeeps
<1>2. ASSUME NEW g \in Gateways, Step(g) PROVE IInv'
  BY <1>2, ReceiveKeeps, RunCommandKeeps, ManageKeeps, DecideKeeps, AskKeeps,
     SettleKeeps, CreateKeeps, LinkKeeps, CancelKeeps, CancelNextKeeps, CutKeeps DEF Step
<1>3. ASSUME NEW t \in DOMAIN task, ReportOn(t) \/ Finish(t) PROVE IInv'
  BY <1>3, ReportOnKeeps, FinishKeeps
<1>4. CASE UNCHANGED vars
  <2>1. UNCHANGED <<message, task, at, cuts>> /\ UNCHANGED <<runner, up, live>>
    BY <1>4 DEF vars
  <2>2. Lifecycle'
    BY <2>1 DEF Lifecycle, IInv, TypeOK
  <2> QED BY <2>1, <2>2, RunnerStep
<1> QED BY <1>1, <1>2, <1>3, <1>4, <1>5 DEF Next, Gateways

\* The conversation keeps its inductive invariant: what a gateway handles is its
\* newest message, and every task stands on what its chat said.
THEOREM Inductive == Spec => []IInv
<1>1. Init => IInv
  BY InitHolds
<1>2. IInv /\ [Next]_vars => IInv'
  BY StepHolds
<1> QED BY <1>1, <1>2, PTL DEF Spec

\* The messages, the tasks and what is handled keep their types, in any number.
THEOREM TypeCorrect == Spec => []TypeOK
<1>1. IInv => TypeOK
  BY DEF IInv
<1> QED BY <1>1, Inductive, PTL

\* Every task that a message, a follow-up or a command makes
\* (gateways/service.py:_create_task_from_draft) goes back to a request its own
\* chat made or was offered, whatever the other chats and the workers say; only
\* a path may come from elsewhere, into a text about a folder it does not name
\* (_enrich_with_recent_path_context), and then it is the newest there was.
THEOREM AskedFor == Spec => []TasksAreAskedFor
<1>1. Init => PathKept
  <2> SUFFICES ASSUME Init PROVE PathKept
    OBVIOUS
  <2>1. \A g \in Gateways : at[g].path = 0
    BY DEF Init, Gateways, Idle
  <2>2. DOMAIN task = {}
    BY DEF Init
  <2> QED BY <2>1, <2>2 DEF PathKept, Traced
<1>2. IInv /\ PathKept => TasksAreAskedFor
  <2> SUFFICES ASSUME IInv, PathKept, NEW t \in DOMAIN task
               PROVE  LET m == message[task[t].from]
                          said == {i \in DOMAIN message : message[i].chat = task[t].chat}
                      IN  /\ m.role = "user" /\ m.chat = task[t].chat
                          /\ \/ task[t].text = m.text /\ (AsksForWork(m.text) \/ task[t].path # 0)
                             \/ /\ Is(m.text, "affirms")
                                /\ \E i \in said :
                                     /\ message[i].text = task[t].text
                                     /\ \/ message[i].role = "user" /\ i < task[t].from
                                           /\ Actionable(task[t].text)
                                        \/ \E j \in said : /\ message[j].role = "assistant"
                                                           /\ Is(message[j].text, "offer")
                          /\ task[t].path # 0 =>
                               PathIsNewest(task[t].text, task[t].path, task[t].from)
    BY DEF TasksAreAskedFor
  <2>1. Grounded(t) /\ Traced(task[t].text, task[t].path, task[t].from)
    BY DEF IInv, PathKept
  <2>2. task[t].path # 0 => PathIsNewest(task[t].text, task[t].path, task[t].from)
    BY <2>1 DEF Traced
  <2> QED BY <2>1, <2>2 DEF Grounded, Grounds, Affirmed
<1>3. IInv /\ PathKept /\ [Next]_vars => PathKept'
  BY PathStep
<1> QED BY <1>1, <1>2, <1>3, Inductive, PTL DEF Spec

\* A message makes one task at most and is linked to that one or to none yet
\* (_link_message_to_task), however its handling is interrupted.
THEOREM LinkedToOne == Spec => []TasksAreLinked
<1>1. IInv => TasksAreLinked
  <2> SUFFICES ASSUME IInv, NEW t \in DOMAIN task
               PROVE  LET i == task[t].from IN
                      /\ \A u \in DOMAIN task : task[u].from = i => u = t
                      /\ message[i].task \in {None, t}
                      /\ message[i].task = None =>
                           i \in cuts \/ \E g \in Range(Gateway) : at[g].msg = i
    BY DEF TasksAreLinked
  <2>1. Linked(t)
    BY DEF IInv
  <2> QED BY <2>1 DEF Linked, Gateways
<1> QED BY <1>1, Inductive, PTL

\* "Cancel this" and "what is the status" reach the newest task of their own
\* chat (_load_recent_task_for_chat), whatever is created meanwhile.
THEOREM OwnMeant == Spec => []OwnTaskIsMeant
<1>1. IInv => OwnTaskIsMeant
  <2> SUFFICES ASSUME IInv, NEW g \in Range(Gateway), at[g].pc \in {"cancel", "link"},
                      Command[Mine(g)] = "none",
                      Is(Mine(g), "cancelThis") \/ Is(Mine(g), "status"),
                      NEW t \in at[g].todo
               PROVE  /\ message[task[t].from].chat = ChatOf(g)
                      /\ \A u \in DOMAIN task :
                           message[task[u].from].chat = ChatOf(g) => u <= t
    BY DEF OwnTaskIsMeant
  <2>1. Manages(Mine(g))
    BY DEF Manages
  <2>2. t \in Own(ChatOf(g)) /\ \A u \in Own(ChatOf(g)) : u <= t
    <3>1. g \in Gateways /\ Busy(g)
      BY DEF Gateways, Busy
    <3>2. Aimed(at[g])
      BY <3>1, HandledNow
    <3> QED BY <2>1, <3>2 DEF Aimed, Mine, ChatOf
  <2>3. \A u \in DOMAIN task : message[task[u].from].chat = task[u].chat
    BY DEF IInv, Grounded
  <2> QED BY <2>2, <2>3 DEF Own
<1> QED BY <1>1, Inductive, PTL
=============================================================================
