--------------------------- MODULE LanguageServer ---------------------------
(***************************************************************************)
(* The language server: one thread per connection reads messages, calls    *)
(* their handlers and writes the answers; hovers are finished by the       *)
(* thread pool of the connection; the open documents and the compiler are  *)
(* shared by all connections and guarded by g_compiler_mutex.              *)
(*                                                                         *)
(* A message is taken from its client when the reader reads it, so the     *)
(* client's state (`mine`, `shown`, `answers`) is what the client knows    *)
(* once everything written to it has arrived.                              *)
(***************************************************************************)
EXTENDS Integers, Sequences, FiniteSets, SequencesExt

CONSTANTS
  Conns,         \* the connections, one reader thread each
  Docs,          \* the documents' uris
  Characters,    \* the characters of texts
  Contents,      \* the texts a client opens a document with
  Positions,     \* the positions of a client's edits: [line, character]
  Inserted,      \* the texts of a client's edits
  Kinds,         \* the messages without a document that clients send
  MaxThreads,    \* maxResponseThreads of a MessageHandler
  Budgets,       \* bounds on the messages the connections read: one is chosen
  Fickle         \* the connections whose client does more than open and edit documents

ASSUME PoolAssumption == MaxThreads \in Nat \ {0}
ASSUME BudgetAssumption == Budgets \subseteq [Conns -> Nat] /\ Fickle \subseteq Conns
ASSUME TextAssumption == Contents \cup Inserted \subseteq Seq(Characters)
ASSUME PositionAssumption == Positions \subseteq [line : Nat, character : Nat]
ASSUME KindsAssumption == Kinds \subseteq {"initialize", "unknownRequest", "notification", "response", "exit"}

VARIABLES
  budget,        \* the messages each connection still reads
  documents,     \* g_open_documents: the text of every open document
  holder,        \* the connection whose reader holds g_compiler_mutex, or Nobody
  reader,        \* the reader thread of every connection
  pool,          \* the ThreadPool of every connection's MessageHandler
  lost,          \* the connections whose client is gone
  mine,          \* the client's own text of every document it opened
  touched,       \* the connections that wrote each document
  shown,         \* the documents each published diagnostics were computed from
  asked,         \* the messages read: whether they ask for an answer
  answers        \* what was written in answer to each of them

vars == <<budget, documents, holder, reader, pool, lost, mine, touched, shown, asked, answers>>

MaxBudget == Max(UNION {Range(b) : b \in Budgets})
Nobody == "nobody"
Newline == "\n"
NoDocuments == [d \in {} |-> <<>>]
Put(f, d, value) == [e \in DOMAIN f \cup {d} |-> IF e = d THEN value ELSE f[e]]

-----------------------------------------------------------------------------
(* The text of a document *)

(* The position is reached, or its line ends first. *)
OffsetStepPastLine(position, at, char) ==
  IF at.found THEN at
  ELSE IF at.line < position.line
  THEN [at EXCEPT !.offset = @ + 1, !.line = IF char = Newline THEN @ + 1 ELSE @]
  ELSE IF at.character < position.character
  THEN [at EXCEPT !.offset = @ + 1, !.character = @ + 1]
  ELSE [at EXCEPT !.found = TRUE]
OffsetStep(position, at, char) ==
  IF at.found THEN at
  ELSE IF at.line < position.line
  THEN [at EXCEPT !.offset = @ + 1, !.line = IF char = Newline THEN @ + 1 ELSE @]
  ELSE IF at.character < position.character /\ char # Newline
  THEN [at EXCEPT !.offset = @ + 1, !.character = @ + 1]
  ELSE [at EXCEPT !.found = TRUE]
OffsetFromPosition(text, position) ==
  LET at[n \in 0..Len(text)] ==
        IF n = 0 THEN [offset |-> 0, line |-> 0, character |-> 0, found |-> FALSE]
        ELSE OffsetStep(position, at[n - 1], text[n])
  IN at[Len(text)].offset
ApplyContentChange(text, change) ==
  SubSeq(text, 1, OffsetFromPosition(text, change.from))
    \o change.text
    \o SubSeq(text, OffsetFromPosition(text, change.to) + 1, Len(text))

(* One element of contentChanges: the whole text, or a range of it.  The    *)
(* text is held in a sequence, an empty one when the document is not open:  *)
(* a range changes nothing then.                                            *)
ChangeStep(held, change) ==
  IF change.kind = "text" THEN <<change.text>>
  ELSE IF held = <<>> THEN held
  ELSE <<ApplyContentChange(held[1], change)>>
Held(docs, d) == IF d \in DOMAIN docs THEN <<docs[d]>> ELSE <<>>
HeldAfter(held, changes) ==
  LET after[n \in 0..Len(changes)] == IF n = 0 THEN held ELSE ChangeStep(after[n - 1], changes[n])
  IN after[Len(changes)]
Changed(docs, d, changes) ==
  LET held == HeldAfter(Held(docs, d), changes) IN IF held = <<>> THEN docs ELSE Put(docs, d, held[1])

(* The client's editor: a position is an offset on its line, the last one   *)
(* if the line is shorter, and the end of the text if it has no such line.  *)
LineOf(text, offset) == Cardinality({i \in 1..offset : text[i] = Newline})
EditorOffset(text, position) ==
  LET onLine == {o \in 0..Len(text) : LineOf(text, o) = position.line}
  IN IF onLine = {} THEN Len(text) ELSE Max({o \in onLine : o <= Min(onLine) + position.character})
EditStep(text, change) ==
  IF change.kind = "text" THEN change.text
  ELSE SubSeq(text, 1, EditorOffset(text, change.from)) \o change.text
         \o SubSeq(text, EditorOffset(text, change.to) + 1, Len(text))
Edited(text, changes) ==
  LET after[n \in 0..Len(changes)] == IF n = 0 THEN text ELSE EditStep(after[n - 1], changes[n])
  IN after[Len(changes)]

-----------------------------------------------------------------------------
(* Messages *)

Message(kind, d, changes) == [kind |-> kind, d |-> d, changes |-> changes]
Before(p, q) == p.line < q.line \/ (p.line = q.line /\ p.character <= q.character)
Texts == {[kind |-> "text", text |-> text] : text \in Contents}
Ranges == {[kind |-> "range", from |-> pq[1], to |-> pq[2], text |-> text] :
             pq \in {x \in Positions \X Positions : Before(x[1], x[2])}, text \in Inserted}

(* A client opens a document before it edits it; one edit is a range, the  *)
(* whole text followed by a range, or no change at all.                    *)
Edits(c) ==
  {Message("didChange", d, changes) :
     d \in DOMAIN mine[c], changes \in {<<>>} \cup {<<r>> : r \in Ranges} \cup {<<t, r>> : t \in Texts, r \in Ranges}}
Opens == {Message("didOpen", d, <<change>>) : d \in Docs, change \in Texts}
Hovers == {Message("hover", d, <<>>) : d \in Docs}
(* Requests answered by the reader itself (shutdown is as initialize,       *)
(* parameters that cannot be read as an unknown method), and messages that  *)
(* nothing is done about: a notification without a handler or with such     *)
(* parameters, and a response, since the server asks nothing.               *)
AnsweredAtOnce == [initialize |-> "result", unknownRequest |-> "error"]
Ignored == {"notification", "response"}
Others == {Message(kind, "none", <<>>) : kind \in Kinds}
Batches == {<<Message("hover", m.d, <<>>), m>> : m \in Opens}
Incoming(c) ==
  {<<m>> : m \in Edits(c) \cup Opens} \cup (IF c \in Fickle THEN {<<m>> : m \in Hovers \cup Others} \cup Batches ELSE {})
IsRequest(m) == m.kind \in DOMAIN AnsweredAtOnce \cup {"hover"}

(* What the client's own editor holds once it has sent the message. *)
SentStep(texts, m) ==
  IF m.kind = "didOpen" THEN Put(texts, m.d, m.changes[1].text)
  ELSE IF m.kind = "didChange" THEN [texts EXCEPT ![m.d] = Edited(@, m.changes)]
  ELSE texts
Sent(texts, todo) ==
  LET after[n \in 0..Len(todo)] == IF n = 0 THEN texts ELSE SentStep(after[n - 1], todo[n])
  IN after[Len(todo)]

-----------------------------------------------------------------------------
(* State *)

Reading == [at |-> "read", todo |-> <<>>, next |-> 0, allowAsync |-> TRUE, response |-> <<>>,
            left |-> {}, running |-> TRUE]
NewPool == [waitForNewTasks |-> TRUE, queue |-> <<>>, threads |-> <<>>]
AtTop == [at |-> "top", id |-> 0, d |-> "none", what |-> "none"]

Init ==
  /\ documents = NoDocuments
  /\ holder = Nobody
  /\ reader = [c \in Conns |-> Reading]
  /\ pool = [c \in Conns |-> NewPool]
  /\ lost = {}
  /\ mine = [c \in Conns |-> NoDocuments]
  /\ touched = [d \in Docs |-> {}]
  /\ shown = [c \in Conns |-> [d \in {} |-> NoDocuments]]
  /\ asked = [c \in Conns |-> <<>>]
  /\ budget \in Budgets
  /\ answers = [c \in Conns |-> [id \in 1..budget[c] |-> <<>>]]

(* Connection::writeMessage, one whole message under the write mutex. *)
Delivered(given, responses) ==
  LET after[n \in 0..Len(responses)] ==
        IF n = 0 THEN given ELSE [after[n - 1] EXCEPT ![responses[n].id] = Append(@, responses[n].what)]
  IN after[Len(responses)]
Write(c, responses) ==
  answers' = IF c \in lost THEN answers ELSE [answers EXCEPT ![c] = Delivered(@, responses)]
Move(c, state) == reader' = [reader EXCEPT ![c] = state]
Current(c) == Head(reader[c].todo)
At(c, kinds) == reader[c].at = "process" /\ reader[c].todo # <<>> /\ Current(c).kind \in kinds
(* The next message of the batch, the answer of this one kept for the end; *)
(* with nothing to write the loop of runLanguageServer goes on or is left. *)
Finishing == [Reading EXCEPT !.at = "finish"]
Continue(state, added) ==
  IF Len(state.todo) = 1 /\ state.response \o added = <<>>
  THEN IF state.running THEN Reading ELSE Finishing
  ELSE [state EXCEPT !.at = "process", !.todo = Tail(@), !.next = @ + 1, !.response = @ \o added]
Answered(c, what) == <<[id |-> reader[c].next, what |-> what]>>

-----------------------------------------------------------------------------
(* The reader thread of connection c *)

(* Connection::readMessage *)
Read(c) ==
  /\ reader[c].at = "read" /\ c \notin lost
  /\ \E todo \in Incoming(c) :
       /\ Len(todo) <= budget[c]
       /\ budget' = [budget EXCEPT ![c] = @ - Len(todo)]
       /\ asked' = [asked EXCEPT ![c] = @ \o [i \in DOMAIN todo |->
                      [request |-> IsRequest(todo[i]),
                       open |-> todo[i].kind = "hover" /\ todo[i].d \in DOMAIN mine[c]]]]
       /\ Move(c, [Reading EXCEPT !.at = "process", !.todo = todo, !.next = Len(asked[c]) + 1,
                                  !.allowAsync = Len(todo) = 1])
       /\ mine' = [mine EXCEPT ![c] = Sent(@, todo)]
  /\ UNCHANGED <<documents, holder, pool, lost, touched, shown, answers>>

(* The text is no message: an error without id is written and the           *)
(* connection is given up.                                                  *)
ReadInvalid(c) ==
  /\ reader[c].at = "read" /\ c \notin lost
  /\ c \in Fickle
  /\ Move(c, Finishing)
  /\ UNCHANGED <<budget, documents, holder, pool, lost, mine, touched, shown, asked, answers>>
ConnectionLost(c) ==
  /\ reader[c].at = "read" /\ c \in lost
  /\ Move(c, Finishing)
  /\ UNCHANGED <<budget, documents, holder, pool, lost, mine, touched, shown, asked, answers>>

(* A handler that returns its response, or fails before it does anything. *)
Answer(c) ==
  /\ At(c, DOMAIN AnsweredAtOnce)
  /\ Move(c, Continue(reader[c], Answered(c, AnsweredAtOnce[Current(c).kind])))
  /\ UNCHANGED <<budget, documents, holder, pool, lost, mine, touched, shown, asked, answers>>

(* No handler, a handler that throws at a notification, a response to no    *)
(* request of the server, and an edit without changes.                      *)
Ignore(c) ==
  /\ At(c, Ignored) \/ (At(c, {"didChange"}) /\ Current(c).changes = <<>>)
  /\ Move(c, Continue(reader[c], <<>>))
  /\ UNCHANGED <<budget, documents, holder, pool, lost, mine, touched, shown, asked, answers>>

Exit(c) ==
  /\ At(c, {"exit"})
  /\ Move(c, Continue([reader[c] EXCEPT !.running = FALSE], <<>>))
  /\ UNCHANGED <<budget, documents, holder, pool, lost, mine, touched, shown, asked, answers>>

(* didOpen and didChange take the mutex; RunDiagnostics compiles all open   *)
(* documents and publishes to this connection only, one document a write.   *)
Update(c) ==
  /\ At(c, {"didOpen", "didChange"}) /\ Current(c).changes # <<>>
  /\ holder = Nobody
  /\ holder' = c
  /\ documents' = Changed(documents, Current(c).d, Current(c).changes)
  /\ touched' = [touched EXCEPT ![Current(c).d] = @ \cup {c}]
  /\ Move(c, [reader[c] EXCEPT !.at = "publish", !.left = DOMAIN documents \cup {Current(c).d}])
  /\ UNCHANGED <<budget, pool, lost, mine, shown, asked, answers>>
Publish(c) ==
  /\ reader[c].at = "publish" /\ c \notin lost
  /\ \E d \in reader[c].left :
       /\ shown' = [shown EXCEPT ![c] = Put(@, d, documents)]
       /\ Move(c, [reader[c] EXCEPT !.left = @ \ {d}])
  /\ UNCHANGED <<budget, documents, holder, pool, lost, mine, touched, asked, answers>>
(* All documents are published, or a write failed: the exception leaves the *)
(* handler, which releases the mutex, and is dropped.                       *)
Published(c) ==
  /\ reader[c].at = "publish"
  /\ reader[c].left = {} \/ c \in lost
  /\ holder' = Nobody
  /\ Move(c, Continue([reader[c] EXCEPT !.left = {}], <<>>))
  /\ UNCHANGED <<budget, documents, pool, lost, mine, touched, shown, asked, answers>>

(* The result of a hover under the mutex. *)
HoverResult(d) == IF d \in DOMAIN documents THEN "hover" ELSE "null"
(* In a batch the reader itself waits for the deferred result. *)
HoverInline(c) ==
  /\ At(c, {"hover"}) /\ ~reader[c].allowAsync
  /\ holder = Nobody
  /\ Move(c, Continue(reader[c], Answered(c, HoverResult(Current(c).d))))
  /\ UNCHANGED <<budget, documents, holder, pool, lost, mine, touched, shown, asked, answers>>

(* ThreadPool::addTask up to the unlock. *)
Enqueued(p, task) ==
  [p EXCEPT !.queue = Append(@, task),
            !.threads = IF (Len(p.queue) + 1 > 1 /\ Len(@) < MaxThreads) \/ @ = <<>> THEN Append(@, AtTop) ELSE @]
QueueHoverAndAnswer(c) ==
  /\ At(c, {"hover"}) /\ reader[c].allowAsync
  /\ pool' = [pool EXCEPT ![c] = Enqueued(@, [id |-> reader[c].next, d |-> Current(c).d])]
  /\ Move(c, Continue(reader[c], Answered(c, HoverResult(Current(c).d))))
  /\ UNCHANGED <<budget, documents, holder, lost, mine, touched, shown, asked, answers>>
QueueHover(c) ==
  /\ At(c, {"hover"}) /\ reader[c].allowAsync
  /\ pool' = [pool EXCEPT ![c] = Enqueued(@, [id |-> reader[c].next, d |-> Current(c).d])]
  /\ Move(c, [reader[c] EXCEPT !.at = "notify"])
  /\ UNCHANGED <<budget, documents, holder, lost, mine, touched, shown, asked, answers>>

Woken(thread) == IF thread.at = "waiting" THEN AtTop ELSE thread
Waiting(c) == {i \in DOMAIN pool[c].threads : pool[c].threads[i].at = "waiting"}
NotifyNone(c) ==
  /\ reader[c].at = "notify"
  /\ Move(c, Continue(reader[c], <<>>))
  /\ UNCHANGED <<budget, documents, holder, pool, lost, mine, touched, shown, asked, answers>>
NotifyOne(c) ==
  /\ reader[c].at = "notify"
  /\ IF Waiting(c) = {} THEN UNCHANGED pool
     ELSE \E i \in Waiting(c) : pool' = [pool EXCEPT ![c].threads[i] = AtTop]
  /\ Move(c, Continue(reader[c], <<>>))
  /\ UNCHANGED <<budget, documents, holder, lost, mine, touched, shown, asked, answers>>

(* The end of processIncomingMessages; a failed write ends the connection. *)
Respond(c) ==
  /\ reader[c].at = "process" /\ reader[c].todo = <<>>
  /\ Write(c, reader[c].response)
  /\ Move(c, IF c \in lost \/ ~reader[c].running THEN Finishing ELSE Reading)
  /\ UNCHANGED <<budget, documents, holder, pool, lost, mine, touched, shown, asked>>

(* ~ThreadPool: no more tasks, every thread is woken and joined. *)
WaitUntilFinishedSilently(c) ==
  /\ reader[c].at = "finish"
  /\ pool' = [pool EXCEPT ![c] = [@ EXCEPT !.waitForNewTasks = FALSE]]
  /\ Move(c, [reader[c] EXCEPT !.at = "join"])
  /\ UNCHANGED <<budget, documents, holder, lost, mine, touched, shown, asked, answers>>
Finished(p) ==
  [p EXCEPT !.waitForNewTasks = FALSE, !.threads = [i \in DOMAIN p.threads |-> Woken(p.threads[i])]]
WaitUntilFinished(c) ==
  /\ reader[c].at = "finish"
  /\ pool' = [pool EXCEPT ![c] = Finished(@)]
  /\ Move(c, [reader[c] EXCEPT !.at = "join"])
  /\ UNCHANGED <<budget, documents, holder, lost, mine, touched, shown, asked, answers>>
Join(c) ==
  /\ reader[c].at = "join"
  /\ \A i \in DOMAIN pool[c].threads : pool[c].threads[i].at = "ended"
  /\ Move(c, [reader[c] EXCEPT !.at = "ended"])
  /\ UNCHANGED <<budget, documents, holder, pool, lost, mine, touched, shown, asked, answers>>

-----------------------------------------------------------------------------
(* Thread i of the pool of connection c *)

Thread(c, i) == pool[c].threads[i]
(* The loop of addThread: a task, a wait for one, or the end. *)
Working(task) == [AtTop EXCEPT !.at = "task", !.id = task.id, !.d = task.d]
Taken(p, i) ==
  IF p.queue # <<>> THEN [p EXCEPT !.queue = Tail(p.queue), !.threads[i] = Working(Head(p.queue))]
  ELSE [p EXCEPT !.threads[i].at = IF p.waitForNewTasks THEN "waiting" ELSE "ended"]
Take(c, i) ==
  /\ Thread(c, i).at = "top"
  /\ pool' = [pool EXCEPT ![c] = Taken(@, i)]
  /\ UNCHANGED <<budget, documents, holder, reader, lost, mine, touched, shown, asked, answers>>
(* The deferred future of the hover runs in the pool's thread. *)
Compute(c, i) ==
  /\ Thread(c, i).at = "task"
  /\ holder = Nobody
  /\ pool' = [pool EXCEPT ![c].threads[i] = [@ EXCEPT !.at = "write", !.what = HoverResult(Thread(c, i).d)]]
  /\ UNCHANGED <<budget, documents, holder, reader, lost, mine, touched, shown, asked, answers>>
(* sendResponse; what a failed write throws ends in the task's promise. *)
SendResponse(c, i) ==
  /\ Thread(c, i).at = "write"
  /\ Write(c, <<[id |-> Thread(c, i).id, what |-> Thread(c, i).what]>>)
  /\ pool' = [pool EXCEPT ![c].threads[i] = AtTop]
  /\ UNCHANGED <<budget, documents, holder, reader, lost, mine, touched, shown, asked>>

-----------------------------------------------------------------------------
(* The client of connection c goes away. *)
Disconnect(c) ==
  /\ c \in Fickle \ lost /\ reader[c].at # "ended"
  /\ lost' = lost \cup {c}
  /\ UNCHANGED <<budget, documents, holder, reader, pool, mine, touched, shown, asked, answers>>

ReaderRuns(c) ==
  \/ ConnectionLost(c) \/ Answer(c) \/ Ignore(c) \/ Exit(c)
  \/ Update(c) \/ Publish(c) \/ Published(c)
  \/ HoverInline(c) \/ QueueHover(c) \/ NotifyOne(c)
  \/ Respond(c) \/ WaitUntilFinished(c) \/ Join(c)
ThreadRuns(c, i) == Take(c, i) \/ Compute(c, i) \/ SendResponse(c, i)
Next ==
  \E c \in Conns :
    \/ Read(c) \/ ReadInvalid(c) \/ Disconnect(c)
    \/ ReaderRuns(c)
    \/ \E i \in DOMAIN pool[c].threads : ThreadRuns(c, i)

(* Every thread that can run does so in the end; nothing is assumed of the  *)
(* clients, who may fall silent.                                            *)
Fairness ==
  \A c \in Conns :
    /\ WF_vars(ReaderRuns(c))
    /\ \A i \in 1..MaxThreads : WF_vars(i \in DOMAIN pool[c].threads /\ ThreadRuns(c, i))
Spec == Init /\ [][Next]_vars /\ Fairness

-----------------------------------------------------------------------------
(* Properties *)

(* Every request a connection read is answered, by its reader or by the     *)
(* pool, also when `exit` or an unreadable message ends the connection      *)
(* first; unless the client itself is gone (processRequest, addTask,        *)
(* ~ThreadPool).                                                            *)
RequestsAnswered ==
  \A c \in Conns : \A id \in 1..MaxBudget :
    (id <= Len(asked[c]) /\ asked[c][id].request) ~> ((id \in DOMAIN answers[c] /\ answers[c][id] # <<>>) \/ c \in lost)

(* A connection whose client is gone, or whose loop was left, ends with     *)
(* all threads of its pool, whoever holds the compiler mutex meanwhile      *)
(* (runLanguageServer, waitUntilFinished).                                  *)
ConnectionsEnd ==
  \A c \in Conns : (c \in lost \/ reader[c].at = "finish") ~> (reader[c].at = "ended")

(* No message gets two answers and no notification gets one; a hover over a *)
(* document its client had opened before it asked finds the document,       *)
(* whichever thread computes it.                                            *)
AnswersSound ==
  \A c \in Conns : \A id \in DOMAIN answers[c] :
    answers[c][id] # <<>> =>
      /\ id <= Len(asked[c]) /\ asked[c][id].request /\ Len(answers[c][id]) = 1
      /\ asked[c][id].open => answers[c][id][1] = "hover"

(* Whenever a connection that made every change of its document has nothing *)
(* in progress, the diagnostics its client shows for that document were     *)
(* computed from exactly the text in the client's editor (ApplyContentChange*)
(* and RunDiagnostics).                                                     *)
DiagnosticsCurrent ==
  \A c \in Conns \ lost :
    \A d \in DOMAIN mine[c] :
      (reader[c].at = "read" /\ touched[d] = {c}) =>
        /\ d \in DOMAIN shown[c]
        /\ shown[c][d][d] = mine[c][d]
=============================================================================
