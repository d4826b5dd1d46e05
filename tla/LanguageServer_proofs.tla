----------------------- MODULE LanguageServer_proofs -----------------------
(***************************************************************************)
(* Answers are sound and diagnostics are current for any number of         *)
(* connections, documents, messages and pool threads, and for texts and    *)
(* edits of any length.                                                    *)
(***************************************************************************)
EXTENDS LanguageServer, SequenceFacts

-----------------------------------------------------------------------------
(* The inductive invariant                                                 *)

Answers == {"result", "error", "hover", "null"}
Changes == {<<>>} \cup {<<x>> : x \in Texts \cup Ranges} \cup {<<t, r>> : t \in Texts, r \in Ranges}
MessageKinds == {"didOpen", "didChange", "hover"} \cup Kinds
Messages == [kind : MessageKinds, d : Docs \cup {"none"}, changes : Changes]
Responses == [id : Nat, what : Answers]
Outside == {"read", "finish", "join", "ended"}
Handling == {"process", "publish", "notify"}
ReaderStates ==
    [ at : Outside \cup Handling, todo : Seq(Messages), next : Nat, allowAsync : BOOLEAN,
      response : Seq(Responses), left : SUBSET Docs, running : BOOLEAN ]
HoverTasks == [id : Nat, d : Docs]
ThreadStates ==
    [ at : {"top", "waiting", "task", "write", "ended"}, id : Nat, d : Docs \cup {"none"},
      what : Answers \cup {"none"} ]
Pools == [waitForNewTasks : BOOLEAN, queue : Seq(HoverTasks), threads : Seq(ThreadStates)]
AskedMessages == [request : BOOLEAN, open : BOOLEAN]

\* The invariant is about one connection: its reader rd, pool pl, the messages
\* it read, ak, the answers to them, an, the documents mn its client opened,
\* and the documents D the server holds.

\* The message numbers up to which an answer may have been written, or is with
\* somebody who will write it.
HandedOver(rd, ak) ==
    IF rd.at \in Outside THEN Len(ak) ELSE IF rd.at = "notify" THEN rd.next ELSE rd.next - 1

\* What is left of a batch are the last messages read; a document the client
\* opened is open, or its didOpen is still to come.
Pending(rd, ak, mn, D) ==
    /\ rd.at \in Outside => rd.todo = <<>> /\ rd.response = <<>>
    /\ rd.at \in Handling => rd.next + Len(rd.todo) = Len(ak) + 1 /\ rd.next > 0
    /\ rd.at \in {"publish", "notify"} => rd.todo # <<>>
    /\ rd.at = "publish" => (rd.todo[1].kind = "didOpen" => rd.todo[1].d \in D)
    /\ rd.at = "notify" => rd.todo[1].kind = "hover"
    /\ \A d \in mn : d \in D \/ \E i \in DOMAIN rd.todo : rd.todo[i].kind = "didOpen" /\ rd.todo[i].d = d
\* What was noted of a message that is left is true of it.
Matches(m, ask, D) ==
    /\ ask.request = IsRequest(m)
    /\ ask.open => m.kind = "hover" /\ m.d \in D
    /\ m.kind \in {"didOpen", "didChange", "hover"} => m.d \in Docs
    /\ m.kind = "didOpen" => \E t \in Texts : m.changes = <<t>>
Noted(rd, ak, D) ==
    \A i \in DOMAIN rd.todo : Matches(rd.todo[i], ak[rd.next + i - 1], D)

\* Message id is a request that was handed over and has no answer yet.
Granted(rd, ak, an, id) ==
    id \in 1 .. HandedOver(rd, ak) /\ ak[id].request /\ (id \in DOMAIN an => an[id] = <<>>)
Collected(rd, ak, an) ==
    \A i \in DOMAIN rd.response :
        Granted(rd, ak, an, rd.response[i].id) /\ (ak[rd.response[i].id].open => rd.response[i].what = "hover")
Queued(rd, pl, ak, an, D) ==
    \A i \in DOMAIN pl.queue :
        Granted(rd, ak, an, pl.queue[i].id) /\ (ak[pl.queue[i].id].open => pl.queue[i].d \in D)
Busy(pl) == {i \in DOMAIN pl.threads : pl.threads[i].at \in {"task", "write"}}
Worked(rd, pl, ak, an, D) ==
    \A i \in Busy(pl) :
        /\ Granted(rd, ak, an, pl.threads[i].id)
        /\ pl.threads[i].at = "write" => pl.threads[i].what \in Answers
        /\ ak[pl.threads[i].id].open =>
             IF pl.threads[i].at = "task" THEN pl.threads[i].d \in D ELSE pl.threads[i].what = "hover"
\* No message is with two of them.
Once(rd, pl) ==
    /\ \A i, j \in DOMAIN rd.response : rd.response[i].id = rd.response[j].id => i = j
    /\ \A i, j \in DOMAIN pl.queue : pl.queue[i].id = pl.queue[j].id => i = j
    /\ \A i, j \in Busy(pl) : pl.threads[i].id = pl.threads[j].id => i = j
    /\ \A i \in DOMAIN rd.response, j \in DOMAIN pl.queue : rd.response[i].id # pl.queue[j].id
    /\ \A i \in DOMAIN rd.response, j \in Busy(pl) : rd.response[i].id # pl.threads[j].id
    /\ \A i \in DOMAIN pl.queue, j \in Busy(pl) : pl.queue[i].id # pl.threads[j].id
Given(rd, ak, an) ==
    \A id \in DOMAIN an : an[id] # <<>> =>
        /\ id \in 1 .. HandedOver(rd, ak) /\ ak[id].request /\ Len(an[id]) = 1
        /\ ak[id].open => an[id][1] = "hover"

Typed(rd, pl, ak, mn, D) ==
    /\ rd \in ReaderStates /\ pl \in Pools /\ ak \in Seq(AskedMessages)
    /\ mn \subseteq Docs /\ D \subseteq Docs
Conn(rd, pl, ak, an, mn, D) ==
    /\ Typed(rd, pl, ak, mn, D)
    /\ Pending(rd, ak, mn, D)
    /\ Noted(rd, ak, D)
    /\ Collected(rd, ak, an)
    /\ Queued(rd, pl, ak, an, D)
    /\ Worked(rd, pl, ak, an, D)
    /\ Once(rd, pl)
    /\ Given(rd, ak, an)
ServerInv ==
    /\ DOMAIN reader = Conns /\ DOMAIN pool = Conns /\ DOMAIN asked = Conns
    /\ DOMAIN answers = Conns /\ DOMAIN mine = Conns
    /\ \A c \in Conns : answers[c] \in [DOMAIN answers[c] -> Seq(Answers)]
    /\ \A c \in Conns : Conn(reader[c], pool[c], asked[c], answers[c], DOMAIN mine[c], DOMAIN documents)

-----------------------------------------------------------------------------
(* The documents only grow                                                 *)

\* What holds for the open documents holds when there are more.
LEMMA Grows ==
    ASSUME NEW rd, NEW pl, NEW ak, NEW an, NEW mn, NEW D, NEW E,
           Conn(rd, pl, ak, an, mn, D), D \subseteq E, E \subseteq Docs
    PROVE  Conn(rd, pl, ak, an, mn, E)
<1>1. Typed(rd, pl, ak, mn, E) /\ Collected(rd, ak, an) /\ Once(rd, pl) /\ Given(rd, ak, an)
  BY DEF Conn, Typed
<1>2. Pending(rd, ak, mn, E)
  BY DEF Conn, Pending
<1>3. Noted(rd, ak, E)
  BY DEF Conn, Noted, Matches
<1>4. Queued(rd, pl, ak, an, E)
  BY DEF Conn, Queued
<1>5. Worked(rd, pl, ak, an, E)
  BY DEF Conn, Worked
<1> QED
  BY <1>1, <1>2, <1>3, <1>4, <1>5 DEF Conn

-----------------------------------------------------------------------------
(* The reader                                                              *)

\* Where the reader is in its loop and in its handler does not matter, as long
\* as the same messages are left.
LEMMA ReaderMoves ==
    ASSUME NEW rd, NEW pl, NEW ak, NEW an, NEW mn, NEW D, Conn(rd, pl, ak, an, mn, D),
           NEW st \in ReaderStates, st.todo = rd.todo, st.response = rd.response,
           \/ rd.at \in Outside /\ st.at \in Outside
           \/ /\ rd.at \in {"process", "publish"} /\ st.at \in {"process", "publish"} /\ st.next = rd.next
              /\ st.at = "publish" => rd.todo # <<>> /\ (rd.todo[1].kind = "didOpen" => rd.todo[1].d \in D)
    PROVE  Conn(st, pl, ak, an, mn, D)
<1>1. Typed(st, pl, ak, mn, D)
  BY DEF Conn, Typed
<1>2. HandedOver(st, ak) = HandedOver(rd, ak)
  BY DEF HandedOver, Outside
<1>3. Pending(st, ak, mn, D)
  BY DEF Conn, Pending, Outside, Handling
<1>4. Noted(st, ak, D)
  <2>1. CASE rd.at \in Outside
    <3>1. st.todo = <<>>
      BY <2>1 DEF Conn, Pending
    <3> QED
      BY <3>1 DEF Noted
  <2>2. CASE st.next = rd.next
    <3>1. Noted(rd, ak, D)
      BY DEF Conn
    <3> QED
      BY <2>2, <3>1 DEF Noted
  <2> QED
    BY <2>1, <2>2
<1>5. Collected(st, ak, an) /\ Queued(st, pl, ak, an, D) /\ Worked(st, pl, ak, an, D) /\ Given(st, ak, an)
  <2>1. Collected(rd, ak, an) /\ Queued(rd, pl, ak, an, D) /\ Worked(rd, pl, ak, an, D) /\ Given(rd, ak, an)
    BY DEF Conn
  <2>2. \A id : Granted(st, ak, an, id) <=> Granted(rd, ak, an, id)
    BY <1>2 DEF Granted
  <2>3. Collected(st, ak, an) /\ Given(st, ak, an)
    BY <1>2, <2>1, <2>2 DEF Collected, Given
  <2>4. Queued(st, pl, ak, an, D) /\ Worked(st, pl, ak, an, D)
    BY <2>1, <2>2 DEF Queued, Worked
  <2> QED
    BY <2>3, <2>4
<1>6. Once(st, pl)
  BY DEF Conn, Once
<1> QED
  BY <1>1, <1>3, <1>4, <1>5, <1>6 DEF Conn

\* The types of a reader's fields.
LEMMA ReaderFields ==
    ASSUME NEW rd \in ReaderStates
    PROVE  /\ rd.at \in Outside \cup Handling /\ rd.todo \in Seq(Messages) /\ rd.next \in Nat
           /\ rd.allowAsync \in BOOLEAN /\ rd.response \in Seq(Responses) /\ rd.left \in SUBSET Docs
           /\ rd.running \in BOOLEAN
  BY DEF ReaderStates

\* A reader that does nothing yet, or is about to end.
LEMMA Resting ==
    /\ Reading \in ReaderStates /\ Reading.at = "read" /\ Reading.todo = <<>> /\ Reading.response = <<>>
    /\ Finishing \in ReaderStates /\ Finishing.at = "finish" /\ Finishing.todo = <<>> /\ Finishing.response = <<>>
<1>1. <<>> \in Seq(Messages) /\ <<>> \in Seq(Responses)
  OBVIOUS
<1>2. Reading \in ReaderStates
  BY <1>1 DEF Reading, ReaderStates, Outside
<1>3. [Reading EXCEPT !.at = "finish"] \in ReaderStates
  BY <1>2 DEF ReaderStates, Outside
<1>4. Reading.at = "read" /\ Reading.todo = <<>> /\ Reading.response = <<>>
  BY DEF Reading
<1>5. Finishing.at = "finish" /\ Finishing.todo = <<>> /\ Finishing.response = <<>>
  BY <1>2, <1>4 DEF Finishing, ReaderStates
<1> QED
  BY <1>2, <1>3, <1>4, <1>5 DEF Finishing

\* What the reader is after a message: Continue, field by field.
LEMMA Continued ==
    ASSUME NEW rd \in ReaderStates, rd.at \in Handling, rd.todo # <<>>, NEW added \in Seq(Responses)
    PROVE  LET st == Continue(rd, added) IN
           /\ st \in ReaderStates
           /\ st.todo = Tail(rd.todo)
           /\ st.response = rd.response \o added
           /\ \/ st.at = "process" /\ st.next = rd.next + 1
              \/ st.at \in {"read", "finish"} /\ Len(rd.todo) = 1 /\ st.response = <<>>
<1> DEFINE st == Continue(rd, added)
<1>1. rd.todo \in Seq(Messages) /\ rd.next \in Nat /\ rd.response \in Seq(Responses)
  BY ReaderFields
<1>2. Tail(rd.todo) \in Seq(Messages) /\ rd.response \o added \in Seq(Responses)
  BY <1>1, TailFacts
<1>3. CASE Len(rd.todo) = 1 /\ rd.response \o added = <<>>
  <2>1. st = Reading \/ st = Finishing
    BY <1>3 DEF Continue
  <2>2. Tail(rd.todo) = <<>>
    BY <1>1, <1>3, TailFacts
  <2>3. st \in ReaderStates /\ st.at \in {"read", "finish"} /\ st.todo = <<>> /\ st.response = <<>>
    BY <2>1, Resting
  <2> HIDE DEF st
  <2>4. st.todo = Tail(rd.todo) /\ st.response = rd.response \o added
    BY <1>3, <2>2, <2>3
  <2> QED
    BY <1>3, <2>3, <2>4 DEF st
<1>4. CASE ~(Len(rd.todo) = 1 /\ rd.response \o added = <<>>)
  <2>1. st = [rd EXCEPT !.at = "process", !.todo = Tail(@), !.next = @ + 1, !.response = @ \o added]
    BY <1>4 DEF Continue
  <2>2. [rd EXCEPT !.at = "process", !.todo = Tail(@), !.next = @ + 1, !.response = @ \o added] \in ReaderStates
    <3>1. rd.next + 1 \in Nat /\ "process" \in Outside \cup Handling
      BY <1>1 DEF Handling
    <3> QED
      BY <1>2, <3>1 DEF ReaderStates
  <2>3. st.at = "process" /\ st.todo = Tail(rd.todo) /\ st.next = rd.next + 1 /\ st.response = rd.response \o added
    BY <2>1 DEF ReaderStates
  <2>4. st \in ReaderStates
    BY <2>1, <2>2
  <2> HIDE DEF st
  <2> QED
    BY <2>3, <2>4 DEF st
<1> QED
  BY <1>3, <1>4

\* A message is done, without an answer or with one that is kept for the end
\* of the batch.
LEMMA Advance ==
    ASSUME NEW rd, NEW pl, NEW ak, NEW an, NEW mn, NEW D, Conn(rd, pl, ak, an, mn, D),
           rd.at \in Handling, rd.todo # <<>>, rd.todo[1].kind = "didOpen" => rd.todo[1].d \in D,
           NEW added \in Seq(Responses),
           \/ added = <<>>
           \/ /\ rd.at = "process" /\ Len(added) = 1 /\ added[1].id = rd.next
              /\ IsRequest(rd.todo[1])
              /\ ak[rd.next].open => added[1].what = "hover"
    PROVE  Conn(Continue(rd, added), pl, ak, an, mn, D)
<1> DEFINE st == Continue(rd, added)
<1>1. /\ st \in ReaderStates
      /\ st.todo = Tail(rd.todo)
      /\ st.response = rd.response \o added
      /\ \/ st.at = "process" /\ st.next = rd.next + 1
         \/ st.at \in {"read", "finish"} /\ Len(rd.todo) = 1 /\ st.response = <<>>
  <2>1. rd \in ReaderStates
    BY DEF Conn, Typed
  <2> QED
    BY <2>1, Continued
<1> HIDE DEF st
<1>2. rd.todo \in Seq(Messages) /\ rd.next \in Nat /\ rd.response \in Seq(Responses) /\ ak \in Seq(AskedMessages)
  BY ReaderFields DEF Conn, Typed
<1>3. /\ Len(rd.todo) \in Nat \ {0} /\ DOMAIN rd.todo = 1 .. Len(rd.todo)
      /\ Len(st.todo) = Len(rd.todo) - 1 /\ (Len(rd.todo) = 1 => st.todo = <<>>)
  BY <1>1, <1>2, TailFacts
<1>3a. /\ \A i \in DOMAIN st.todo : i \in Nat /\ i + 1 # 1 /\ i + 1 \in DOMAIN rd.todo /\ st.todo[i] = rd.todo[i + 1]
      /\ \A i \in DOMAIN rd.todo : i \in Nat /\ (i # 1 => i - 1 \in DOMAIN st.todo /\ st.todo[i - 1] = rd.todo[i])
  <2>1. /\ \A i \in DOMAIN Tail(rd.todo) :
             i \in Nat /\ i + 1 # 1 /\ i + 1 \in DOMAIN rd.todo /\ Tail(rd.todo)[i] = rd.todo[i + 1]
        /\ \A i \in DOMAIN rd.todo :
             i \in Nat /\ (i # 1 => i - 1 \in DOMAIN Tail(rd.todo) /\ Tail(rd.todo)[i - 1] = rd.todo[i])
    <3>1. rd.todo \in Seq(Messages) /\ rd.todo # <<>>
      BY <1>2
    <3> QED
      BY ONLY <3>1, TailFacts
  <2>2. st.todo = Tail(rd.todo)
    BY <1>1
  <2> QED
    BY ONLY <2>1, <2>2
<1>4. rd.next + Len(rd.todo) = Len(ak) + 1 /\ rd.next > 0 /\ Len(ak) \in Nat
  BY <1>2 DEF Conn, Pending
<1>5. HandedOver(st, ak) = rd.next
  <2>1. CASE st.at = "process" /\ st.next = rd.next + 1
    BY <1>2, <2>1 DEF HandedOver, Outside
  <2>2. CASE st.at \in {"read", "finish"} /\ Len(rd.todo) = 1
    <3>1. Len(ak) = rd.next
      BY <1>2, <1>4, <2>2
    <3> QED
      BY <2>2, <3>1 DEF HandedOver, Outside
  <2> QED
    BY <1>1, <2>1, <2>2
<1>6. HandedOver(rd, ak) = IF rd.at = "notify" THEN rd.next ELSE rd.next - 1
  BY DEF HandedOver, Outside, Handling
<1>7. ASSUME NEW id, Granted(rd, ak, an, id) PROVE Granted(st, ak, an, id)
  BY <1>2, <1>5, <1>6, <1>7 DEF Granted
<1>8. Typed(st, pl, ak, mn, D)
  BY <1>1 DEF Conn, Typed
<1>9. Pending(st, ak, mn, D)
  <2>1. st.at \in Outside => st.todo = <<>> /\ st.response = <<>>
    BY <1>1, <1>3 DEF Outside
  <2>2. st.at \in Handling => st.next + Len(st.todo) = Len(ak) + 1 /\ st.next > 0
    <3>1. CASE st.next = rd.next + 1
      <4>1. st.next + Len(st.todo) = (rd.next + 1) + (Len(rd.todo) - 1)
        BY <1>3, <3>1
      <4>2. (rd.next + 1) + (Len(rd.todo) - 1) = rd.next + Len(rd.todo) /\ rd.next + 1 > 0
        <5>1. \A a, b \in Nat : (a + 1) + (b - 1) = a + b /\ a + 1 > 0
          OBVIOUS
        <5>2. rd.next \in Nat /\ Len(rd.todo) \in Nat
          BY <1>2, <1>3
        <5> QED
          BY <5>1, <5>2
      <4> QED
        BY <1>4, <3>1, <4>1, <4>2
    <3>2. CASE st.at \in {"read", "finish"}
      BY <3>2 DEF Handling
    <3> QED
      BY <1>1, <3>1, <3>2
  <2>3. ASSUME NEW d \in mn PROVE d \in D \/ \E i \in DOMAIN st.todo : st.todo[i].kind = "didOpen" /\ st.todo[i].d = d
    <3>1. d \in D \/ \E i \in DOMAIN rd.todo : rd.todo[i].kind = "didOpen" /\ rd.todo[i].d = d
      BY DEF Conn, Pending
    <3>2. ASSUME NEW i \in DOMAIN rd.todo, rd.todo[i].kind = "didOpen", rd.todo[i].d = d, d \notin D
          PROVE  \E k \in DOMAIN st.todo : st.todo[k].kind = "didOpen" /\ st.todo[k].d = d
      <4>1. i # 1
        BY <3>2
      <4> QED
        BY <1>3a, <3>2, <4>1
    <3> QED
      BY <3>1, <3>2
  <2>4. st.at \notin {"publish", "notify"}
    BY <1>1
  <2> QED
    BY <2>1, <2>2, <2>3, <2>4 DEF Pending
<1>10. Noted(st, ak, D)
  <2> SUFFICES ASSUME NEW i \in DOMAIN st.todo PROVE Matches(st.todo[i], ak[st.next + i - 1], D)
    BY DEF Noted
  <2>1. i + 1 \in DOMAIN rd.todo /\ st.todo[i] = rd.todo[i + 1] /\ i \in Nat /\ i + 1 # 1
    BY <1>3a
  <2>2. st.next = rd.next + 1
    <3>1. Len(rd.todo) # 1
      BY <1>3, <2>1
    <3> QED
      BY <1>1, <3>1
  <2>3. st.next + i - 1 = rd.next + (i + 1) - 1
    <3>1. \A a, b \in Nat : (a + 1) + b - 1 = a + (b + 1) - 1
      OBVIOUS
    <3>2. rd.next \in Nat /\ i \in Nat
      BY <1>2, <2>1
    <3> QED
      BY ONLY <2>2, <3>1, <3>2
  <2>4. Matches(rd.todo[i + 1], ak[rd.next + (i + 1) - 1], D)
    <3>1. Noted(rd, ak, D)
      BY DEF Conn
    <3> QED
      BY <2>1, <3>1 DEF Noted
  <2> QED
    BY <2>1, <2>3, <2>4
<1>11. Queued(st, pl, ak, an, D) /\ Worked(st, pl, ak, an, D)
  BY <1>7 DEF Conn, Queued, Worked
<1>12. Given(st, ak, an)
  BY <1>2, <1>5, <1>6 DEF Conn, Given
<1>13. ASSUME added = <<>> PROVE Conn(st, pl, ak, an, mn, D)
  <2>1. st.response = rd.response
    BY <1>1, <1>2, <1>13
  <2>2. Collected(st, ak, an)
    BY <1>7, <2>1 DEF Conn, Collected
  <2>3. Once(st, pl)
    BY <2>1 DEF Conn, Once
  <2> QED
    BY <1>8, <1>9, <1>10, <1>11, <1>12, <2>2, <2>3 DEF Conn
<1>14. ASSUME rd.at = "process", Len(added) = 1, added[1].id = rd.next, IsRequest(rd.todo[1]),
              ak[rd.next].open => added[1].what = "hover"
       PROVE  Conn(st, pl, ak, an, mn, D)
  <2>1. /\ \A i \in DOMAIN st.response :
             \/ i \in DOMAIN rd.response /\ st.response[i] = rd.response[i]
             \/ i = Len(rd.response) + 1 /\ st.response[i] = added[1]
        /\ Len(rd.response) \in Nat
    <3>1. /\ Len(rd.response) \in Nat /\ DOMAIN rd.response = 1 .. Len(rd.response)
          /\ Len(rd.response \o added) = Len(rd.response) + 1 /\ rd.response \o added \in Seq(Responses)
          /\ \A i \in 1 .. Len(rd.response) + 1 :
               (rd.response \o added)[i] = IF i <= Len(rd.response) THEN rd.response[i] ELSE added[i - Len(rd.response)]
      <4>1. Len(rd.response) \in Nat /\ DOMAIN rd.response = 1 .. Len(rd.response)
        BY <1>2, LenProperties
      <4>2. /\ rd.response \o added \in Seq(Responses)
            /\ Len(rd.response \o added) = Len(rd.response) + Len(added)
            /\ \A i \in 1 .. Len(rd.response) + Len(added) :
                 (rd.response \o added)[i] = IF i <= Len(rd.response) THEN rd.response[i] ELSE added[i - Len(rd.response)]
        BY <1>2, ConcatProperties
      <4> QED
        BY <1>14, <4>1, <4>2
    <3>2. ASSUME NEW i \in DOMAIN (rd.response \o added)
          PROVE  \/ i \in DOMAIN rd.response /\ (rd.response \o added)[i] = rd.response[i]
                 \/ i = Len(rd.response) + 1 /\ (rd.response \o added)[i] = added[1]
      <4>1. CASE i <= Len(rd.response)
        BY <3>1, <4>1
      <4>2. CASE i = Len(rd.response) + 1
        <5>1. i - Len(rd.response) = 1 /\ ~(i <= Len(rd.response))
          BY <3>1, <4>2
        <5> QED
          BY <3>1, <4>2, <5>1
      <4>3. i \in 1 .. Len(rd.response) + 1
        BY <3>1, LenProperties
      <4> QED
        BY <3>1, <4>1, <4>2, <4>3
    <3> QED
      BY <1>1, <3>1, <3>2
  <2>2. HandedOver(rd, ak) = rd.next - 1
    BY <1>6, <1>14
  <2>3. Granted(st, ak, an, rd.next)
    <3>1. ak[rd.next].request
      <4>1. 1 \in DOMAIN rd.todo /\ rd.next + 1 - 1 = rd.next
        BY <1>2, <1>3
      <4>2. Matches(rd.todo[1], ak[rd.next + 1 - 1], D)
        BY <4>1 DEF Conn, Noted
      <4> QED
        BY <1>14, <4>1, <4>2 DEF Matches
    <3>2. rd.next \in DOMAIN an => an[rd.next] = <<>>
      BY <1>2, <2>2 DEF Conn, Given
    <3> QED
      BY <1>2, <1>4, <1>5, <3>1, <3>2 DEF Granted
  <2>4. Collected(st, ak, an)
    BY <1>7, <1>14, <2>1, <2>3 DEF Conn, Collected
  <2>5. \A id : Granted(rd, ak, an, id) => id # rd.next
    BY <1>2, <2>2 DEF Granted
  <2>6. \A i \in DOMAIN rd.response : rd.response[i].id # rd.next
    BY <2>5 DEF Conn, Collected
  <2>7. \A i \in DOMAIN pl.queue : pl.queue[i].id # rd.next
    BY <2>5 DEF Conn, Queued
  <2>8. \A i \in Busy(pl) : pl.threads[i].id # rd.next
    BY <2>5 DEF Conn, Worked
  <2>9. Once(st, pl)
    <3>1. \A i, j \in DOMAIN st.response : st.response[i].id = st.response[j].id => i = j
      BY <1>14, <2>1, <2>6 DEF Conn, Once
    <3>2. \A i \in DOMAIN st.response, j \in DOMAIN pl.queue : st.response[i].id # pl.queue[j].id
      BY <1>14, <2>1, <2>7 DEF Conn, Once
    <3>3. \A i \in DOMAIN st.response, j \in Busy(pl) : st.response[i].id # pl.threads[j].id
      BY <1>14, <2>1, <2>8 DEF Conn, Once
    <3> QED
      BY <3>1, <3>2, <3>3 DEF Conn, Once
  <2> QED
    BY <1>8, <1>9, <1>10, <1>11, <1>12, <2>4, <2>9 DEF Conn
<1> QED
  BY <1>13, <1>14 DEF st

-----------------------------------------------------------------------------
(* The pool                                                                *)

\* Threads are added, woken, put to wait and ended; the busy ones go on with
\* what they have, and the queue is left alone.
LEMMA PoolIdle ==
    ASSUME NEW rd, NEW pl, NEW ak, NEW an, NEW mn, NEW D, Conn(rd, pl, ak, an, mn, D),
           NEW pn \in Pools, pn.queue = pl.queue,
           \A i \in Busy(pn) : i \in Busy(pl) /\ pn.threads[i] = pl.threads[i]
    PROVE  Conn(rd, pn, ak, an, mn, D)
<1>1. Typed(rd, pn, ak, mn, D) /\ Pending(rd, ak, mn, D) /\ Noted(rd, ak, D) /\ Collected(rd, ak, an) /\ Given(rd, ak, an)
  BY DEF Conn, Typed
<1>2. Queued(rd, pn, ak, an, D)
  BY DEF Conn, Queued
<1>3. Worked(rd, pn, ak, an, D)
  BY DEF Conn, Worked
<1>4. Once(rd, pn)
  BY DEF Conn, Once
<1> QED
  BY <1>1, <1>2, <1>3, <1>4 DEF Conn

\* The types of a pool's fields.
LEMMA PoolFields ==
    ASSUME NEW pl \in Pools
    PROVE  /\ pl.waitForNewTasks \in BOOLEAN /\ pl.queue \in Seq(HoverTasks) /\ pl.threads \in Seq(ThreadStates)
           /\ DOMAIN pl.threads = 1 .. Len(pl.threads) /\ Len(pl.threads) \in Nat
           /\ DOMAIN pl.queue = 1 .. Len(pl.queue) /\ Len(pl.queue) \in Nat
  BY DEF Pools

\* An idle thread is one.
LEMMA Idle == AtTop \in ThreadStates /\ AtTop.at = "top"
  BY DEF AtTop, ThreadStates

\* addTask: the task goes to the end of the queue, and a thread may be started.
LEMMA Enqueues ==
    ASSUME NEW pl \in Pools, NEW task \in HoverTasks
    PROVE  LET pn == Enqueued(pl, task) IN
           /\ pn \in Pools
           /\ pn.queue = Append(pl.queue, task)
           /\ \A i \in Busy(pn) : i \in Busy(pl) /\ pn.threads[i] = pl.threads[i]
<1> DEFINE pn == Enqueued(pl, task)
           th == IF (Len(pl.queue) + 1 > 1 /\ Len(pl.threads) < MaxThreads) \/ pl.threads = <<>>
                 THEN Append(pl.threads, AtTop) ELSE pl.threads
<1>1. pl.queue \in Seq(HoverTasks) /\ pl.threads \in Seq(ThreadStates)
  BY PoolFields
<1>2. Append(pl.queue, task) \in Seq(HoverTasks) /\ th \in Seq(ThreadStates)
  BY <1>1, Idle
<1>3. pn = [pl EXCEPT !.queue = Append(pl.queue, task), !.threads = th]
  BY DEF Enqueued
<1>4. \A i \in DOMAIN th : th[i].at \in {"task", "write"} => i \in DOMAIN pl.threads /\ th[i] = pl.threads[i]
  <2>1. CASE th = pl.threads
    BY <2>1
  <2>2. CASE th = Append(pl.threads, AtTop)
    <3>1. ASSUME NEW i \in DOMAIN th PROVE (i \in DOMAIN pl.threads /\ th[i] = pl.threads[i]) \/ th[i] = AtTop
      BY <1>1, <2>2, Idle
    <3> HIDE DEF th
    <3> QED
      BY <3>1, Idle
  <2> QED
    BY <2>1, <2>2
<1> HIDE DEF th
<1>5. pn \in Pools /\ pn.queue = Append(pl.queue, task) /\ pn.threads = th
  BY <1>2, <1>3 DEF Pools
<1> HIDE DEF pn
<1>6. \A i \in Busy(pn) : i \in Busy(pl) /\ pn.threads[i] = pl.threads[i]
  BY <1>4, <1>5 DEF Busy
<1> QED
  BY <1>5, <1>6 DEF pn

\* The task of the hover a reader has at hand.
HoverOf(rd) == [id |-> rd.next, d |-> rd.todo[1].d]

\* The reader hands the message at hand, a hover, over to the pool.
LEMMA HandsOver ==
    ASSUME NEW rd, NEW pl, NEW ak, NEW an, NEW mn, NEW D, Conn(rd, pl, ak, an, mn, D),
           rd.at = "process", rd.todo # <<>>, rd.todo[1].kind = "hover",
           NEW st \in ReaderStates, st.at = "notify", st.todo = rd.todo, st.response = rd.response, st.next = rd.next,
           NEW pn \in Pools, pn.queue = Append(pl.queue, HoverOf(rd)),
           \A i \in Busy(pn) : i \in Busy(pl) /\ pn.threads[i] = pl.threads[i]
    PROVE  Conn(st, pn, ak, an, mn, D)
<1>1. rd.todo \in Seq(Messages) /\ rd.next \in Nat /\ ak \in Seq(AskedMessages) /\ pl.queue \in Seq(HoverTasks)
  BY ReaderFields, PoolFields DEF Conn, Typed
<1>2. rd.next + Len(rd.todo) = Len(ak) + 1 /\ rd.next > 0 /\ Len(ak) \in Nat /\ Len(rd.todo) \in Nat \ {0}
  BY <1>1 DEF Conn, Pending, Handling
<1>3. HandedOver(rd, ak) = rd.next - 1 /\ HandedOver(st, ak) = rd.next
  BY DEF HandedOver, Outside
<1>4. ASSUME NEW id, Granted(rd, ak, an, id) PROVE Granted(st, ak, an, id) /\ id # rd.next
  BY <1>1, <1>3, <1>4 DEF Granted
<1>5. Matches(rd.todo[1], ak[rd.next], D)
  <2>1. Matches(rd.todo[1], ak[rd.next + 1 - 1], D) /\ rd.next + 1 - 1 = rd.next
    BY <1>1, <1>2 DEF Conn, Noted
  <2> QED
    BY <2>1
<1>6. Granted(st, ak, an, rd.next)
  <2>1. ak[rd.next].request
    BY <1>5 DEF Matches, IsRequest
  <2>2. rd.next \in DOMAIN an => an[rd.next] = <<>>
    BY <1>1, <1>3 DEF Conn, Given
  <2> QED
    BY <1>1, <1>2, <1>3, <2>1, <2>2 DEF Granted
<1> DEFINE task == HoverOf(rd)
<1>7. task.id = rd.next /\ task.d = rd.todo[1].d /\ task \in HoverTasks
  BY <1>1, <1>5 DEF HoverTasks, HoverOf, Matches
<1> HIDE DEF task
<1>8. /\ \A i \in DOMAIN pn.queue :
           \/ i \in DOMAIN pl.queue /\ pn.queue[i] = pl.queue[i]
           \/ i = Len(pl.queue) + 1 /\ pn.queue[i] = task
      /\ Len(pl.queue) \in Nat
  <2>1. pn.queue = Append(pl.queue, task)
    BY DEF task
  <2> QED
    BY <1>1, <1>7, <2>1
<1>9. Typed(st, pn, ak, mn, D)
  BY DEF Conn, Typed
<1>10. Pending(st, ak, mn, D) /\ Noted(st, ak, D)
  BY DEF Conn, Pending, Noted, Outside, Handling
<1>11. Collected(st, ak, an)
  BY <1>4 DEF Conn, Collected
<1>12. Queued(st, pn, ak, an, D)
  <2>1. ak[rd.next].open => rd.todo[1].d \in D
    BY <1>5 DEF Matches
  <2> QED
    BY <1>4, <1>6, <1>7, <1>8, <2>1 DEF Conn, Queued
<1>13. Worked(st, pn, ak, an, D)
  BY <1>4 DEF Conn, Worked
<1>14. Given(st, ak, an)
  BY <1>1, <1>3 DEF Conn, Given
<1>15. Once(st, pn)
  <2>1. \A i \in DOMAIN rd.response : rd.response[i].id # rd.next
    BY <1>4 DEF Conn, Collected
  <2>2. \A i \in DOMAIN pl.queue : pl.queue[i].id # rd.next
    BY <1>4 DEF Conn, Queued
  <2>3. \A i \in Busy(pl) : pl.threads[i].id # rd.next
    BY <1>4 DEF Conn, Worked
  <2>4. \A i, j \in DOMAIN pn.queue : pn.queue[i].id = pn.queue[j].id => i = j
    BY <1>7, <1>8, <2>2 DEF Conn, Once
  <2>5. \A i \in DOMAIN st.response, j \in DOMAIN pn.queue : st.response[i].id # pn.queue[j].id
    BY <1>7, <1>8, <2>1 DEF Conn, Once
  <2>6. \A i \in DOMAIN pn.queue, j \in Busy(pn) : pn.queue[i].id # pn.threads[j].id
    BY <1>7, <1>8, <2>3 DEF Conn, Once
  <2>7. /\ \A i, j \in DOMAIN st.response : st.response[i].id = st.response[j].id => i = j
        /\ \A i, j \in Busy(pn) : pn.threads[i].id = pn.threads[j].id => i = j
        /\ \A i \in DOMAIN st.response, j \in Busy(pn) : st.response[i].id # pn.threads[j].id
    BY DEF Conn, Once
  <2> QED
    BY <2>4, <2>5, <2>6, <2>7 DEF Once
<1> QED
  BY <1>9, <1>10, <1>11, <1>12, <1>13, <1>14, <1>15 DEF Conn

\* A thread that was idle takes the first task of the queue.
LEMMA Takes ==
    ASSUME NEW rd, NEW pl, NEW ak, NEW an, NEW mn, NEW D, Conn(rd, pl, ak, an, mn, D),
           pl.queue # <<>>, NEW k \in DOMAIN pl.threads, k \notin Busy(pl),
           NEW pn \in Pools, pn.queue = Tail(pl.queue), DOMAIN pn.threads = DOMAIN pl.threads,
           \A i \in DOMAIN pl.threads : i # k => pn.threads[i] = pl.threads[i],
           pn.threads[k].at = "task", pn.threads[k].id = pl.queue[1].id, pn.threads[k].d = pl.queue[1].d
    PROVE  Conn(rd, pn, ak, an, mn, D)
<1>1. pl.queue \in Seq(HoverTasks)
  BY PoolFields DEF Conn, Typed
<1>2. /\ 1 \in DOMAIN pl.queue
      /\ \A i \in DOMAIN pn.queue : i + 1 \in DOMAIN pl.queue /\ pn.queue[i] = pl.queue[i + 1] /\ i \in Nat /\ i + 1 # 1
      /\ pl.queue[1] \in HoverTasks
  BY <1>1, TailFacts
<1>3. \A i \in Busy(pn) : i = k \/ (i # k /\ i \in Busy(pl) /\ pn.threads[i] = pl.threads[i])
  BY DEF Busy
<1>4. pl.queue[1].d \in Docs
  BY <1>1, <1>2 DEF HoverTasks
<1>5. Typed(rd, pn, ak, mn, D) /\ Pending(rd, ak, mn, D) /\ Noted(rd, ak, D) /\ Collected(rd, ak, an) /\ Given(rd, ak, an)
  BY DEF Conn, Typed
<1>6. Queued(rd, pn, ak, an, D)
  BY <1>2 DEF Conn, Queued
<1>7. Worked(rd, pn, ak, an, D)
  <2> SUFFICES ASSUME NEW i \in Busy(pn)
               PROVE  /\ Granted(rd, ak, an, pn.threads[i].id)
                      /\ pn.threads[i].at = "write" => pn.threads[i].what \in Answers
                      /\ ak[pn.threads[i].id].open =>
                           IF pn.threads[i].at = "task" THEN pn.threads[i].d \in D ELSE pn.threads[i].what = "hover"
    BY DEF Worked
  <2>1. CASE i = k
    BY <1>2, <2>1 DEF Conn, Queued
  <2>2. CASE i \in Busy(pl) /\ pn.threads[i] = pl.threads[i]
    BY <2>2 DEF Conn, Worked
  <2> QED
    BY <1>3, <2>1, <2>2
<1>8. Once(rd, pn)
  <2>1. \A i \in DOMAIN rd.response : rd.response[i].id # pl.queue[1].id
    BY <1>2 DEF Conn, Once
  <2>2. \A i \in DOMAIN pn.queue : pn.queue[i].id # pl.queue[1].id
    BY <1>2 DEF Conn, Once
  <2>3. \A i \in Busy(pl) : pl.threads[i].id # pl.queue[1].id
    BY <1>2 DEF Conn, Once
  <2>4. \A i, j \in DOMAIN pn.queue : pn.queue[i].id = pn.queue[j].id => i = j
    <3> SUFFICES ASSUME NEW i \in DOMAIN pn.queue, NEW j \in DOMAIN pn.queue, pn.queue[i].id = pn.queue[j].id PROVE i = j
      OBVIOUS
    <3>1. i + 1 = j + 1
      BY <1>2 DEF Conn, Once
    <3> QED
      BY <1>2, <3>1
  <2>5. \A i \in DOMAIN rd.response, j \in DOMAIN pn.queue : rd.response[i].id # pn.queue[j].id
    BY <1>2 DEF Conn, Once
  <2>6. \A i, j \in Busy(pn) : pn.threads[i].id = pn.threads[j].id => i = j
    BY <1>3, <2>3 DEF Conn, Once
  <2>7. \A i \in DOMAIN rd.response, j \in Busy(pn) : rd.response[i].id # pn.threads[j].id
    BY <1>3, <2>1 DEF Conn, Once
  <2>8. \A i \in DOMAIN pn.queue, j \in Busy(pn) : pn.queue[i].id # pn.threads[j].id
    BY <1>2, <1>3, <2>2 DEF Conn, Once
  <2>9. \A i, j \in DOMAIN rd.response : rd.response[i].id = rd.response[j].id => i = j
    BY DEF Conn, Once
  <2> QED
    BY <2>4, <2>5, <2>6, <2>7, <2>8, <2>9 DEF Once
<1> QED
  BY <1>5, <1>6, <1>7, <1>8 DEF Conn

\* A busy thread has computed what it will write.
LEMMA Computes ==
    ASSUME NEW rd, NEW pl, NEW ak, NEW an, NEW mn, NEW D, Conn(rd, pl, ak, an, mn, D),
           NEW k \in Busy(pl), pl.threads[k].at = "task",
           NEW pn \in Pools, pn.queue = pl.queue, DOMAIN pn.threads = DOMAIN pl.threads,
           \A i \in DOMAIN pl.threads : i # k => pn.threads[i] = pl.threads[i],
           pn.threads[k].at = "write", pn.threads[k].id = pl.threads[k].id, pn.threads[k].what \in Answers,
           pl.threads[k].d \in D => pn.threads[k].what = "hover"
    PROVE  Conn(rd, pn, ak, an, mn, D)
<1>1. Busy(pn) = Busy(pl)
  BY DEF Busy
<1>2. \A i \in Busy(pl) : pn.threads[i].id = pl.threads[i].id /\ (i # k => pn.threads[i] = pl.threads[i])
  BY DEF Busy
<1>3. Typed(rd, pn, ak, mn, D) /\ Pending(rd, ak, mn, D) /\ Noted(rd, ak, D) /\ Collected(rd, ak, an) /\ Given(rd, ak, an)
  BY DEF Conn, Typed
<1>4. Queued(rd, pn, ak, an, D)
  BY DEF Conn, Queued
<1>5. Worked(rd, pn, ak, an, D)
  <2> SUFFICES ASSUME NEW i \in Busy(pl)
               PROVE  /\ Granted(rd, ak, an, pn.threads[i].id)
                      /\ pn.threads[i].at = "write" => pn.threads[i].what \in Answers
                      /\ ak[pn.threads[i].id].open =>
                           IF pn.threads[i].at = "task" THEN pn.threads[i].d \in D ELSE pn.threads[i].what = "hover"
    BY <1>1 DEF Worked
  <2>1. CASE i = k
    BY <2>1 DEF Conn, Worked
  <2>2. CASE i # k
    BY <1>2, <2>2 DEF Conn, Worked
  <2> QED
    BY <2>1, <2>2
<1>6. Once(rd, pn)
  BY <1>1, <1>2 DEF Conn, Once
<1> QED
  BY <1>3, <1>4, <1>5, <1>6 DEF Conn

-----------------------------------------------------------------------------
(* Answers are written                                                     *)

\* One response is written.
Longer(x, r) == [x EXCEPT ![r.id] = Append(@, r.what)]
LEMMA Appended ==
    ASSUME NEW I, NEW x \in [I -> Seq(Answers)], NEW r \in Responses
    PROVE  Longer(x, r) \in [I -> Seq(Answers)]
<1> DEFINE longer == Append(x[r.id], r.what)
<1>1. r.id \in I => longer \in Seq(Answers)
  <2>1. r.what \in Answers
    BY DEF Responses
  <2> QED
    BY <2>1, AppendProperties
<1> HIDE DEF longer
<1>2. [x EXCEPT ![r.id] = longer] \in [I -> Seq(Answers)]
  BY <1>1
<1> QED
  BY <1>2 DEF longer, Longer

\* Delivered computes what its recursion says.
LEMMA DeliveredSteps ==
    ASSUME NEW I, NEW given \in [I -> Seq(Answers)], NEW rs \in Seq(Responses)
    PROVE  \E g \in [0 .. Len(rs) -> [I -> Seq(Answers)]] :
             /\ g[0] = given
             /\ \A n \in 1 .. Len(rs) : g[n] = Longer(g[n - 1], rs[n])
             /\ Delivered(given, rs) = g[Len(rs)]
<1> DEFINE m == Len(rs)
           W == [I -> Seq(Answers)]
           step == [n \in 0 .. m - 1 |-> [x \in W |-> Longer(x, rs[n + 1])]]
           Solves(g) == g = [n \in 0 .. m |-> IF n = 0 THEN given ELSE Longer(g[n - 1], rs[n])]
<1>1. m \in Nat /\ \A n \in 1 .. m : rs[n] \in Responses
  BY LenProperties, ElementOfSeq
<1>2. ASSUME NEW x \in W, NEW n \in 1 .. m PROVE Longer(x, rs[n]) \in W
  BY <1>1, Appended
<1>3. step \in [0 .. m - 1 -> [W -> W]]
  <2>1. \A n \in 0 .. m - 1 : n + 1 \in 1 .. m
    BY <1>1
  <2> QED
    BY <1>2, <2>1
<1>4. \E g : Solves(g)
  <2> HIDE DEF W, step
  <2>1. given \in W
    BY DEF W
  <2>2. PICK g : IteratesTo(g, W, m, given, step)
    BY <1>1, <1>3, <2>1, FiniteRecursion
  <2>3. g \in [0 .. m -> W] /\ g[0] = given /\ \A n \in 0 .. m - 1 : g[n + 1] = step[n][g[n]]
    BY <2>2 DEF IteratesTo
  <2>4. ASSUME NEW n \in 0 .. m PROVE g[n] = IF n = 0 THEN given ELSE Longer(g[n - 1], rs[n])
    <3>1. CASE n = 0
      BY <2>3, <3>1
    <3>2. CASE n # 0
      <4>1. n - 1 \in 0 .. m - 1 /\ (n - 1) + 1 = n /\ n - 1 \in 0 .. m
        BY <1>1, <3>2
      <4>2. g[n] = step[n - 1][g[n - 1]] /\ g[n - 1] \in W
        BY <2>3, <4>1
      <4>3. step[n - 1][g[n - 1]] = Longer(g[n - 1], rs[(n - 1) + 1])
        BY <4>1, <4>2 DEF step
      <4> QED
        BY <3>2, <4>1, <4>2, <4>3
    <3> QED
      BY <3>1, <3>2
  <2> QED
    BY <2>3, <2>4
<1> DEFINE after == CHOOSE g : Solves(g)
<1>5. Solves(after)
  BY <1>4
<1>6. Delivered(given, rs) = after[m]
  BY DEF Delivered, Longer
<1> HIDE DEF after
<1>7. after[0] = given
  BY <1>1, <1>5
<1>8. \A n \in 1 .. m : after[n] = Longer(after[n - 1], rs[n])
  BY <1>1, <1>5
<1>9. \A n \in Nat : n \in 0 .. m => after[n] \in W
  <2> DEFINE S == {n \in Nat : n \in 0 .. m => after[n] \in W}
  <2>1. 0 \in S
    BY <1>7
  <2>2. ASSUME NEW n \in S PROVE n + 1 \in S
    <3> SUFFICES ASSUME n + 1 \in 0 .. m PROVE after[n + 1] \in W
      OBVIOUS
    <3>1. n \in 0 .. m /\ n + 1 \in 1 .. m /\ (n + 1) - 1 = n
      BY <1>1
    <3>2. after[n] \in W /\ after[n + 1] = Longer(after[n], rs[n + 1])
      BY <1>8, <3>1
    <3> HIDE DEF W
    <3> QED
      BY <1>2, <3>1, <3>2
  <2> HIDE DEF S
  <2>3. S = Nat
    BY <2>1, <2>2, NatSet DEF S
  <2> QED
    BY <2>3 DEF S
<1>10. after \in [0 .. m -> W]
  <2>1. \A n \in 0 .. m : after[n] \in W
    BY <1>1, <1>9
  <2>2. after = [n \in 0 .. m |-> after[n]]
    BY <1>5
  <2> QED
    BY <2>1, <2>2
<1> QED
  BY <1>6, <1>7, <1>8, <1>10

\* The answers that were written are among rs.
Wrote(an, at, rs) ==
    /\ DOMAIN at = DOMAIN an
    /\ \A id \in DOMAIN an :
         at[id] = an[id] \/ \E i \in DOMAIN rs : rs[i].id = id /\ at[id] = <<rs[i].what>>
Distinct(rs) == \A i, j \in DOMAIN rs : rs[i].id = rs[j].id => i = j
Unanswered(an, rs) == \A i \in DOMAIN rs : rs[i].id \in DOMAIN an => an[rs[i].id] = <<>>

\* After the first n responses were written: what has an answer now, and what
\* is as before.
LEMMA Delivers ==
    ASSUME NEW I, NEW given \in [I -> Seq(Answers)], NEW rs \in Seq(Responses),
           Distinct(rs), Unanswered(given, rs)
    PROVE  Delivered(given, rs) \in [I -> Seq(Answers)] /\ Wrote(given, Delivered(given, rs), rs)
<1> DEFINE m == Len(rs)
<1>1. PICK g \in [0 .. m -> [I -> Seq(Answers)]] :
        /\ g[0] = given
        /\ \A n \in 1 .. m : g[n] = Longer(g[n - 1], rs[n])
        /\ Delivered(given, rs) = g[m]
  BY DeliveredSteps
<1>2. m \in Nat /\ DOMAIN rs = 1 .. m /\ \A n \in 1 .. m : rs[n] \in Responses
  BY LenProperties, ElementOfSeq
<1> DEFINE Same(n, id) == (\A i \in 1 .. n : rs[i].id # id) /\ g[n][id] = given[id]
           New(n, id) == \E i \in 1 .. n : rs[i].id = id /\ g[n][id] = <<rs[i].what>>
           S == {n \in Nat : n \in 0 .. m => \A id \in I : Same(n, id) \/ New(n, id)}
<1>3. 0 \in S
  BY <1>1
<1>4. ASSUME NEW n \in S PROVE n + 1 \in S
  <2> SUFFICES ASSUME n + 1 \in 0 .. m, NEW id \in I PROVE Same(n + 1, id) \/ New(n + 1, id)
    OBVIOUS
  <2>1. n \in 0 .. m /\ n + 1 \in 1 .. m /\ (n + 1) - 1 = n /\ n \in Nat
    BY <1>2
  <2>2. Same(n, id) \/ New(n, id)
    BY <2>1
  <2>3. g[n] \in [I -> Seq(Answers)] /\ rs[n + 1] \in Responses
    BY <1>2, <2>1
  <2>4. g[n + 1] = Longer(g[n], rs[n + 1])
    BY <1>1, <2>1
  <2>5. PICK x, r : x = g[n] /\ r = rs[n + 1]
    OBVIOUS
  <2>6. /\ id # r.id => g[n + 1][id] = x[id]
        /\ id = r.id /\ x[id] = <<>> => g[n + 1][id] = <<r.what>>
    <3> HIDE DEF S, Same, New
    <3>1. x \in [I -> Seq(Answers)] /\ r \in Responses
      BY <2>3, <2>5
    <3>2. id # r.id => Longer(x, r)[id] = x[id]
      BY <3>1 DEF Longer
    <3>3. id = r.id /\ x[id] = <<>> => Longer(x, r)[id] = <<r.what>>
      BY <3>1 DEF Longer
    <3> QED
      BY <2>4, <2>5, <3>2, <3>3
  <2>7. \A i \in 1 .. n + 1 : i \in 1 .. n \/ i = n + 1
    BY <2>1
  <2>8. \A i \in 1 .. n : i \in 1 .. n + 1 /\ i # n + 1
    BY <2>1
  <2>9. CASE id # rs[n + 1].id
    <3>1. CASE Same(n, id)
      BY <2>5, <2>6, <2>7, <2>9, <3>1
    <3>2. CASE New(n, id)
      BY <2>5, <2>6, <2>8, <2>9, <3>2
    <3> QED
      BY <2>2, <3>1, <3>2
  <2>10. CASE id = rs[n + 1].id
    <3>1. \A i \in 1 .. n : rs[i].id # id
      <4>1. \A i \in 1 .. n : i \in DOMAIN rs /\ n + 1 \in DOMAIN rs /\ i # n + 1
        BY <1>2, <2>1
      <4> QED
        BY <2>10, <4>1 DEF Distinct
    <3>2. g[n][id] = given[id]
      BY <2>2, <3>1
    <3>3. given[id] = <<>>
      BY <1>2, <2>1, <2>10 DEF Unanswered
    <3>5. n + 1 \in 1 .. n + 1
      BY <2>1
    <3> QED
      BY <2>5, <2>6, <2>10, <3>2, <3>3, <3>5
  <2> QED
    BY <2>9, <2>10
<1> HIDE DEF S
<1>5. S = Nat
  BY <1>3, <1>4, NatSet DEF S
<1>6. \A id \in I : Same(m, id) \/ New(m, id)
  <2>1. m \in S /\ m \in 0 .. m
    BY <1>2, <1>5
  <2> QED
    BY <2>1 DEF S
<1>7. g[m] \in [I -> Seq(Answers)]
  BY <1>2
<1>8. ASSUME NEW id \in I
      PROVE  g[m][id] = given[id] \/ \E i \in DOMAIN rs : rs[i].id = id /\ g[m][id] = <<rs[i].what>>
  BY <1>2, <1>6
<1> HIDE DEF m, Same, New
<1>9. Delivered(given, rs) = g[m]
  BY <1>1
<1>10. DOMAIN given = I /\ DOMAIN g[m] = I
  BY <1>7
<1> QED
  BY <1>7, <1>8, <1>9, <1>10 DEF Wrote

\* The end of a batch: what the reader collected is written.
LEMMA Responds ==
    ASSUME NEW rd, NEW pl, NEW ak, NEW an, NEW mn, NEW D, Conn(rd, pl, ak, an, mn, D),
           rd.at = "process", rd.todo = <<>>, NEW at, Wrote(an, at, rd.response),
           NEW st \in {Reading, Finishing}
    PROVE  Conn(st, pl, ak, at, mn, D)
<1>1. st \in ReaderStates /\ st.at \in Outside /\ st.todo = <<>> /\ st.response = <<>>
  BY Resting DEF Reading, Finishing, Outside
<1>2. rd.next \in Nat /\ ak \in Seq(AskedMessages)
  BY ReaderFields DEF Conn, Typed
<1>3. HandedOver(st, ak) = HandedOver(rd, ak)
  <2>1. rd.next + 0 = Len(ak) + 1 /\ Len(ak) \in Nat
    BY <1>2 DEF Conn, Pending, Handling
  <2> QED
    BY <1>1, <1>2, <2>1 DEF HandedOver, Outside
<1>4. ASSUME NEW id, Granted(rd, ak, an, id), \A i \in DOMAIN rd.response : rd.response[i].id # id
      PROVE  Granted(st, ak, at, id)
  BY <1>3, <1>4 DEF Granted, Wrote
<1>5. Typed(st, pl, ak, mn, D)
  BY <1>1 DEF Conn, Typed
<1>6. Pending(st, ak, mn, D) /\ Noted(st, ak, D) /\ Collected(st, ak, at)
  BY <1>1 DEF Conn, Pending, Noted, Collected, Outside, Handling
<1>7. Queued(st, pl, ak, at, D)
  BY <1>4 DEF Conn, Queued, Once
<1>8. Worked(st, pl, ak, at, D)
  BY <1>4 DEF Conn, Worked, Once
<1>9. Once(st, pl)
  BY <1>1 DEF Conn, Once
<1>10. Given(st, ak, at)
  <2> SUFFICES ASSUME NEW id \in DOMAIN at, at[id] # <<>>
               PROVE  /\ id \in 1 .. HandedOver(st, ak) /\ ak[id].request /\ Len(at[id]) = 1
                      /\ ak[id].open => at[id][1] = "hover"
    BY DEF Given
  <2>1. CASE at[id] = an[id]
    BY <1>3, <2>1 DEF Conn, Given, Wrote
  <2>2. ASSUME NEW i \in DOMAIN rd.response, rd.response[i].id = id, at[id] = <<rd.response[i].what>>
        PROVE  /\ id \in 1 .. HandedOver(st, ak) /\ ak[id].request /\ Len(at[id]) = 1
               /\ ak[id].open => at[id][1] = "hover"
    BY <1>3, <2>2 DEF Conn, Collected, Granted
  <2> QED
    BY <2>1, <2>2 DEF Wrote
<1> QED
  BY <1>5, <1>6, <1>7, <1>8, <1>9, <1>10 DEF Conn

\* A thread of the pool writes its answer.
LEMMA Sends ==
    ASSUME NEW rd, NEW pl, NEW ak, NEW an, NEW mn, NEW D, Conn(rd, pl, ak, an, mn, D),
           NEW k \in Busy(pl), pl.threads[k].at = "write",
           NEW rs, Len(rs) = 1, DOMAIN rs = {1}, rs[1].id = pl.threads[k].id, rs[1].what = pl.threads[k].what,
           NEW at, Wrote(an, at, rs),
           NEW pn \in Pools, pn.queue = pl.queue,
           \A i \in Busy(pn) : i \in Busy(pl) /\ i # k /\ pn.threads[i] = pl.threads[i]
    PROVE  Conn(rd, pn, ak, at, mn, D)
<1> DEFINE own == pl.threads[k].id
<1>1. ASSUME NEW id, Granted(rd, ak, an, id), id # own PROVE Granted(rd, ak, at, id)
  BY <1>1 DEF Granted, Wrote
<1>2. Granted(rd, ak, an, own) /\ (ak[own].open => pl.threads[k].what = "hover")
  BY DEF Conn, Worked
<1>3. Typed(rd, pn, ak, mn, D) /\ Pending(rd, ak, mn, D) /\ Noted(rd, ak, D)
  BY DEF Conn, Typed
<1>4. Collected(rd, ak, at)
  BY <1>1 DEF Conn, Collected, Once
<1>5. Queued(rd, pn, ak, at, D)
  BY <1>1 DEF Conn, Queued, Once
<1>6. Worked(rd, pn, ak, at, D)
  BY <1>1 DEF Conn, Worked, Once
<1>7. Once(rd, pn)
  BY DEF Conn, Once
<1>8. Given(rd, ak, at)
  <2> SUFFICES ASSUME NEW id \in DOMAIN at, at[id] # <<>>
               PROVE  /\ id \in 1 .. HandedOver(rd, ak) /\ ak[id].request /\ Len(at[id]) = 1
                      /\ ak[id].open => at[id][1] = "hover"
    BY DEF Given
  <2>1. CASE at[id] = an[id]
    BY <2>1 DEF Conn, Given, Wrote
  <2>2. CASE own = id /\ at[id] = <<pl.threads[k].what>>
    BY <1>2, <2>2 DEF Granted
  <2> QED
    BY <2>1, <2>2 DEF Wrote
<1> QED
  BY <1>3, <1>4, <1>5, <1>6, <1>7, <1>8 DEF Conn

-----------------------------------------------------------------------------
(* Messages are read                                                       *)

\* What was noted of the messages is true of them.
Describes(notes, todo, D) == Len(notes) = Len(todo) /\ \A i \in DOMAIN todo : Matches(todo[i], notes[i], D)
\* The documents of to that are not in mn are opened by the messages.
Opened(to, mn, todo) == \A d \in to : d \in mn \/ \E i \in DOMAIN todo : todo[i].kind = "didOpen" /\ todo[i].d = d

\* New messages go to the end of those that were read, and are all to be done.
LEMMA ReadsMore ==
    ASSUME NEW rd, NEW pl, NEW ak, NEW an, NEW mn, NEW D, Conn(rd, pl, ak, an, mn, D), rd.at = "read",
           NEW todo \in Seq(Messages), NEW notes \in Seq(AskedMessages), Describes(notes, todo, D),
           NEW to \in SUBSET Docs, Opened(to, mn, todo),
           NEW st \in ReaderStates, st.at = "process", st.todo = todo, st.next = Len(ak) + 1, st.response = <<>>
    PROVE  Conn(st, pl, ak \o notes, an, to, D)
<1> DEFINE al == ak \o notes
<1>0. /\ Len(notes) = Len(todo)
      /\ \A i \in DOMAIN todo : Matches(todo[i], notes[i], D)
      /\ \A d \in to : d \in mn \/ \E i \in DOMAIN todo : todo[i].kind = "didOpen" /\ todo[i].d = d
  BY DEF Describes, Opened
<1>1. ak \in Seq(AskedMessages) /\ Len(ak) \in Nat /\ Len(todo) \in Nat /\ DOMAIN todo = 1 .. Len(todo)
  BY LenProperties DEF Conn, Typed
<1>2. /\ al \in Seq(AskedMessages)
      /\ Len(al) = Len(ak) + Len(todo)
      /\ \A i \in 1 .. Len(ak) + Len(todo) : al[i] = IF i <= Len(ak) THEN ak[i] ELSE notes[i - Len(ak)]
  <2>1. /\ al \in Seq(AskedMessages) /\ Len(al) = Len(ak) + Len(notes)
        /\ \A i \in 1 .. Len(ak) + Len(notes) : al[i] = IF i <= Len(ak) THEN ak[i] ELSE notes[i - Len(ak)]
    <3>1. notes \in Seq(AskedMessages)
      OBVIOUS
    <3> QED
      BY ONLY <1>1, <3>1, ConcatProperties
  <2> HIDE DEF al
  <2> QED
    BY <1>0, <2>1
<1> HIDE DEF al
<1>3. rd.todo = <<>> /\ rd.response = <<>>
  BY DEF Conn, Pending, Outside
<1>4. HandedOver(st, al) = Len(ak) /\ HandedOver(rd, ak) = Len(ak)
  <2>1. (Len(ak) + 1) - 1 = Len(ak)
    BY <1>1
  <2> QED
    BY <2>1 DEF HandedOver, Outside
<1>5. \A id \in 1 .. Len(ak) : al[id] = ak[id]
  <2>1. \A id \in 1 .. Len(ak) : id \in 1 .. Len(ak) + Len(todo) /\ id <= Len(ak)
    BY <1>1
  <2> QED
    BY <1>2, <2>1
<1>6. ASSUME NEW id, Granted(rd, ak, an, id) PROVE Granted(st, al, an, id) /\ al[id] = ak[id]
  BY <1>4, <1>5, <1>6 DEF Granted
<1>7. Typed(st, pl, al, to, D)
  BY <1>2 DEF Conn, Typed
<1>8. Pending(st, al, to, D)
  <2>1. st.at \notin Outside /\ st.at \notin {"publish", "notify"}
    BY DEF Outside
  <2>2. st.next + Len(st.todo) = Len(al) + 1 /\ st.next > 0
    <3>1. (Len(ak) + 1) + Len(todo) = (Len(ak) + Len(todo)) + 1 /\ Len(ak) + 1 > 0
      BY <1>1
    <3> QED
      BY <1>2, <3>1
  <2>3. \A d \in mn : d \in D
    BY <1>3 DEF Conn, Pending
  <2>4. \A d \in to : d \in D \/ \E i \in DOMAIN st.todo : st.todo[i].kind = "didOpen" /\ st.todo[i].d = d
    BY <1>0, <2>3
  <2> QED
    BY <2>1, <2>2, <2>4 DEF Pending
<1>9. Noted(st, al, D)
  <2> SUFFICES ASSUME NEW i \in DOMAIN todo PROVE Matches(todo[i], al[st.next + i - 1], D)
    BY DEF Noted
  <2>1. /\ st.next + i - 1 = Len(ak) + i /\ Len(ak) + i \in 1 .. Len(ak) + Len(todo)
        /\ ~(Len(ak) + i <= Len(ak)) /\ (Len(ak) + i) - Len(ak) = i
    <3>1. i \in Int /\ 1 <= i /\ i <= Len(todo)
      BY <1>1
    <3>2. st.next = Len(ak) + 1
      OBVIOUS
    <3>3. Len(ak) \in Nat /\ Len(todo) \in Nat
      BY <1>1
    <3>4. PICK a, b : a = Len(ak) /\ b = Len(todo)
      OBVIOUS
    <3>5. (a + 1) + i - 1 = a + i /\ a + i \in 1 .. a + b /\ ~(a + i <= a) /\ (a + i) - a = i
      BY ONLY <3>1, <3>3, <3>4
    <3> QED
      BY ONLY <3>2, <3>4, <3>5
  <2>2. al[Len(ak) + i] = notes[i]
    BY <1>2, <2>1
  <2> QED
    BY <1>0, <2>1, <2>2
<1>10. Collected(st, al, an)
  BY DEF Collected
<1>11. Queued(st, pl, al, an, D)
  BY <1>6 DEF Conn, Queued
<1>12. Worked(st, pl, al, an, D)
  BY <1>6 DEF Conn, Worked
<1>13. Once(st, pl)
  BY <1>3 DEF Conn, Once
<1>14. Given(st, al, an)
  BY <1>4, <1>5 DEF Conn, Given
<1> QED
  BY <1>7, <1>8, <1>9, <1>10, <1>11, <1>12, <1>13, <1>14 DEF Conn, al

\* What a client sends to the server is one of the messages, and a client
\* that asks about a document it opened is noted as doing so.
LEMMA IncomingFacts ==
    ASSUME NEW c \in Conns, NEW todo \in Incoming(c), DOMAIN mine[c] \subseteq Docs
    PROVE  /\ todo \in Seq(Messages)
           /\ \/ Len(todo) = 1 /\ todo = <<todo[1]>>
              \/ Len(todo) = 2 /\ todo = <<todo[1], todo[2]>>
           /\ \A i \in DOMAIN todo :
                /\ todo[i].kind \in {"didOpen", "didChange", "hover"} => todo[i].d \in Docs
                /\ todo[i].kind = "didOpen" => \E t \in Texts : todo[i].changes = <<t>>
<1> DEFINE Sound(m) ==
             /\ m \in Messages
             /\ m.kind \in {"didOpen", "didChange", "hover"} => m.d \in Docs
             /\ m.kind = "didOpen" => \E t \in Texts : m.changes = <<t>>
<1>1. ASSUME NEW m \in Edits(c) PROVE Sound(m)
  <2>1. PICK d \in DOMAIN mine[c], changes \in Changes : m = Message("didChange", d, changes)
    BY DEF Edits, Changes
  <2>2. m.kind = "didChange" /\ m.d = d /\ d \in Docs
    BY <2>1 DEF Message
  <2>3. m \in Messages
    BY <2>1, <2>2 DEF Message, Messages, MessageKinds
  <2> QED
    BY <2>2, <2>3
<1>2. ASSUME NEW m, m \in Opens PROVE Sound(m)
  <2>1. PICK d \in Docs, change \in Texts : m = Message("didOpen", d, <<change>>)
    BY ONLY <1>2 DEF Opens
  <2>2. m.kind = "didOpen" /\ m.d = d /\ m.changes = <<change>>
    BY <2>1 DEF Message
  <2>3. <<change>> \in Changes
    BY DEF Changes
  <2>4. m \in Messages
    BY <2>1, <2>3 DEF Message, Messages, MessageKinds
  <2> QED
    BY <2>2, <2>4
<1>3. ASSUME NEW d \in Docs PROVE Sound(Message("hover", d, <<>>))
  <2>1. Message("hover", d, <<>>).kind = "hover" /\ Message("hover", d, <<>>).d = d
    BY DEF Message
  <2>2. <<>> \in Changes
    BY DEF Changes
  <2>3. Message("hover", d, <<>>) \in Messages
    BY <2>2 DEF Message, Messages, MessageKinds
  <2> QED
    BY <2>1, <2>3
<1>4. ASSUME NEW m \in Others PROVE Sound(m)
  <2>1. PICK kind \in Kinds : m = Message(kind, "none", <<>>)
    BY DEF Others
  <2>2. m.kind = kind /\ kind \notin {"didOpen", "didChange", "hover"}
    BY <2>1, KindsAssumption DEF Message
  <2>3. <<>> \in Changes
    BY DEF Changes
  <2>4. m \in Messages
    BY <2>1, <2>3 DEF Message, Messages, MessageKinds
  <2> QED
    BY <2>2, <2>4
<1> HIDE DEF Sound
<1>5. \/ \E m \in Edits(c) \cup Opens \cup Hovers \cup Others : todo = <<m>>
      \/ todo \in Batches
  BY DEF Incoming
<1>6. ASSUME NEW m, Sound(m), todo = <<m>>
      PROVE  todo \in Seq(Messages) /\ Len(todo) = 1 /\ todo = <<todo[1]>> /\ \A i \in DOMAIN todo : Sound(todo[i])
  <2>1. m \in Messages
    BY <1>6 DEF Sound
  <2>2. todo \in Seq(Messages) /\ Len(todo) = 1 /\ todo = <<todo[1]>> /\ todo[1] = m /\ \A i \in DOMAIN todo : i = 1
    BY <1>6, <2>1
  <2> QED
    BY <1>6, <2>2
<1>7. CASE todo \in Batches
  <2>1. PICK m \in Opens : todo = <<Message("hover", m.d, <<>>), m>>
    BY <1>7 DEF Batches
  <2> DEFINE h == Message("hover", m.d, <<>>)
  <2>2. m.kind = "didOpen"
    BY DEF Opens, Message
  <2>3. Sound(m) /\ Sound(h)
    BY <1>2, <1>3, <2>2 DEF Sound
  <2> HIDE DEF h
  <2>4. m \in Messages /\ h \in Messages
    BY <2>3 DEF Sound
  <2>5. todo = <<h, m>>
    BY <2>1 DEF h
  <2>6. todo \in Seq(Messages) /\ Len(todo) = 2 /\ todo = <<todo[1], todo[2]>> /\ todo[1] = h /\ todo[2] = m
        /\ \A i \in DOMAIN todo : i = 1 \/ i = 2
    BY <2>4, <2>5
  <2>7. \A i \in DOMAIN todo : Sound(todo[i])
    BY <2>3, <2>6
  <2> QED
    BY <2>6, <2>7 DEF Sound
<1>8. CASE \E m \in Edits(c) \cup Opens \cup Hovers \cup Others : todo = <<m>>
  <2>1. PICK m \in Edits(c) \cup Opens \cup Hovers \cup Others : todo = <<m>>
    BY <1>8
  <2>2. Sound(m)
    BY <1>1, <1>2, <1>3, <1>4 DEF Hovers
  <2>3. todo \in Seq(Messages) /\ Len(todo) = 1 /\ todo = <<todo[1]>> /\ \A i \in DOMAIN todo : Sound(todo[i])
    BY <1>6, <2>1, <2>2
  <2> QED
    BY <2>3 DEF Sound
<1> QED
  BY <1>5, <1>7, <1>8

\* One message changes what the client holds.
LEMMA SentOne ==
    ASSUME NEW texts, NEW m PROVE Sent(texts, <<m>>) = SentStep(texts, m)
<1> DEFINE Solves(g) == g = [n \in 0 .. Len(<<m>>) |-> IF n = 0 THEN texts ELSE SentStep(g[n - 1], <<m>>[n])]
           f == [n \in 0 .. 1 |-> IF n = 0 THEN texts ELSE SentStep(texts, m)]
           after == CHOOSE g : Solves(g)
<1>1. Len(<<m>>) = 1 /\ <<m>>[1] = m
  OBVIOUS
<1>2. Solves(f)
  <2>1. ASSUME NEW n \in 0 .. 1 PROVE f[n] = IF n = 0 THEN texts ELSE SentStep(f[n - 1], <<m>>[n])
    <3>1. n = 0 \/ n = 1
      OBVIOUS
    <3> QED
      BY <1>1, <3>1
  <2> QED
    BY <1>1, <2>1
<1> HIDE DEF f
<1>3. Solves(after)
  BY <1>2
<1>4. Sent(texts, <<m>>) = after[1]
  BY <1>1 DEF Sent
<1> HIDE DEF after
<1>5. after[0] = texts /\ after[1] = SentStep(after[1 - 1], <<m>>[1])
  BY <1>1, <1>3
<1> QED
  BY <1>1, <1>4, <1>5

\* Two messages change it one after the other.
LEMMA SentTwo ==
    ASSUME NEW texts, NEW m, NEW k PROVE Sent(texts, <<m, k>>) = SentStep(SentStep(texts, m), k)
<1> DEFINE Solves(g) == g = [n \in 0 .. Len(<<m, k>>) |-> IF n = 0 THEN texts ELSE SentStep(g[n - 1], <<m, k>>[n])]
           f == [n \in 0 .. 2 |-> IF n = 0 THEN texts
                                  ELSE IF n = 1 THEN SentStep(texts, m) ELSE SentStep(SentStep(texts, m), k)]
           after == CHOOSE g : Solves(g)
<1>1. Len(<<m, k>>) = 2 /\ <<m, k>>[1] = m /\ <<m, k>>[2] = k
  OBVIOUS
<1>2. Solves(f)
  <2>1. ASSUME NEW n \in 0 .. 2 PROVE f[n] = IF n = 0 THEN texts ELSE SentStep(f[n - 1], <<m, k>>[n])
    <3>1. n = 0 \/ n = 1 \/ n = 2
      OBVIOUS
    <3>2. f[0] = texts /\ f[1] = SentStep(texts, m) /\ f[2] = SentStep(SentStep(texts, m), k)
      OBVIOUS
    <3> HIDE DEF f
    <3>3. CASE n = 0
      BY <3>2, <3>3
    <3>4. CASE n = 1
      <4>1. n - 1 = 0
        BY <3>4
      <4> QED
        BY <1>1, <3>2, <3>4, <4>1
    <3>5. CASE n = 2
      <4>1. n - 1 = 1
        BY <3>5
      <4> QED
        BY <1>1, <3>2, <3>5, <4>1
    <3> QED
      BY <3>1, <3>3, <3>4, <3>5
  <2> QED
    BY <1>1, <2>1
<1> HIDE DEF f
<1>3. Solves(after)
  BY <1>2
<1>4. Sent(texts, <<m, k>>) = after[2]
  BY <1>1 DEF Sent
<1> HIDE DEF after
<1>5. after[0] = texts /\ after[1] = SentStep(after[0], m) /\ after[2] = SentStep(after[1], k)
  <2>1. \A n \in 0 .. 2 : after[n] = IF n = 0 THEN texts ELSE SentStep(after[n - 1], <<m, k>>[n])
    BY <1>1, <1>3
  <2>2. after[1] = SentStep(after[1 - 1], <<m, k>>[1]) /\ after[2] = SentStep(after[2 - 1], <<m, k>>[2])
    BY <2>1
  <2>3. 1 - 1 = 0 /\ 2 - 1 = 1
    OBVIOUS
  <2> QED
    BY <1>1, <2>1, <2>2, <2>3
<1> QED
  BY <1>4, <1>5

\* A client holds the documents it held before, and those it opens.
LEMMA SentDocuments ==
    ASSUME NEW texts, NEW todo,
           todo = <<todo[1]>> \/ todo = <<todo[1], todo[2]>>
    PROVE  \A d \in DOMAIN Sent(texts, todo) :
             d \in DOMAIN texts \/ \E i \in DOMAIN todo : todo[i].kind = "didOpen" /\ todo[i].d = d
<1>1. ASSUME NEW x, NEW m, NEW d \in DOMAIN SentStep(x, m)
      PROVE  d \in DOMAIN x \/ (m.kind = "didOpen" /\ m.d = d)
  BY <1>1 DEF SentStep, Put
<1>2. CASE todo = <<todo[1]>>
  <2>1. 1 \in DOMAIN todo
    BY <1>2
  <2>2. PICK m : m = todo[1]
    OBVIOUS
  <2>3. Sent(texts, todo) = SentStep(texts, m)
    BY <1>2, <2>2, SentOne
  <2> QED
    BY <1>1, <2>1, <2>2, <2>3
<1>3. CASE todo = <<todo[1], todo[2]>>
  <2>1. 1 \in DOMAIN todo /\ 2 \in DOMAIN todo
    BY <1>3
  <2>2. PICK m, k : m = todo[1] /\ k = todo[2]
    OBVIOUS
  <2>3. Sent(texts, todo) = SentStep(SentStep(texts, m), k)
    BY <1>3, <2>2, SentTwo
  <2> QED
    BY <1>1, <2>1, <2>2, <2>3
<1> QED
  BY <1>2, <1>3

\* The whole text, as the only change, opens the document.
LEMMA OneChange ==
    ASSUME NEW held, NEW t \in Texts PROVE HeldAfter(held, <<t>>) = <<t.text>>
<1> DEFINE Solves(g) == g = [n \in 0 .. Len(<<t>>) |-> IF n = 0 THEN held ELSE ChangeStep(g[n - 1], <<t>>[n])]
           f == [n \in 0 .. 1 |-> IF n = 0 THEN held ELSE ChangeStep(held, t)]
           after == CHOOSE g : Solves(g)
<1>1. Len(<<t>>) = 1 /\ <<t>>[1] = t
  OBVIOUS
<1>2. Solves(f)
  <2>1. ASSUME NEW n \in 0 .. 1 PROVE f[n] = IF n = 0 THEN held ELSE ChangeStep(f[n - 1], <<t>>[n])
    <3>1. n = 0 \/ n = 1
      OBVIOUS
    <3> QED
      BY <1>1, <3>1
  <2> QED
    BY <1>1, <2>1
<1> HIDE DEF f
<1>3. Solves(after)
  BY <1>2
<1>4. HeldAfter(held, <<t>>) = after[1]
  BY <1>1 DEF HeldAfter
<1> HIDE DEF after
<1>5. after[1] = ChangeStep(after[1 - 1], <<t>>[1])
  BY <1>1, <1>3
<1>6. t.kind = "text"
  BY DEF Texts
<1> QED
  BY <1>1, <1>4, <1>5, <1>6 DEF ChangeStep

-----------------------------------------------------------------------------
(* One connection moves, the others are as before                          *)

\* The invariant of every other connection holds again, since documents are
\* never closed.
LEMMA Frame ==
    ASSUME ServerInv, NEW c \in Conns,
           DOMAIN reader' = Conns, DOMAIN pool' = Conns, DOMAIN asked' = Conns,
           DOMAIN answers' = Conns, DOMAIN mine' = Conns,
           \A k \in Conns : k # c =>
             /\ reader'[k] = reader[k] /\ pool'[k] = pool[k] /\ asked'[k] = asked[k]
             /\ answers'[k] = answers[k] /\ mine'[k] = mine[k],
           answers'[c] \in [DOMAIN answers'[c] -> Seq(Answers)],
           DOMAIN documents \subseteq DOMAIN documents', DOMAIN documents' \subseteq Docs,
           Conn(reader'[c], pool'[c], asked'[c], answers'[c], DOMAIN mine'[c], DOMAIN documents')
    PROVE  ServerInv'
<1>1. ASSUME NEW k \in Conns
      PROVE  Conn(reader'[k], pool'[k], asked'[k], answers'[k], DOMAIN mine'[k], DOMAIN documents')
  <2>1. CASE k = c
    BY <2>1
  <2>2. CASE k # c
    <3>1. Conn(reader[k], pool[k], asked[k], answers[k], DOMAIN mine[k], DOMAIN documents)
      BY DEF ServerInv
    <3>2. Conn(reader[k], pool[k], asked[k], answers[k], DOMAIN mine[k], DOMAIN documents')
      BY <3>1, Grows
    <3> QED
      BY <2>2, <3>2
  <2> QED
    BY <2>1, <2>2
<1>2. ASSUME NEW k \in Conns PROVE answers'[k] \in [DOMAIN answers'[k] -> Seq(Answers)]
  <2>1. CASE k = c
    BY <2>1
  <2>2. CASE k # c
    BY <2>2 DEF ServerInv
  <2> QED
    BY <2>1, <2>2
<1> QED
  BY <1>1, <1>2 DEF ServerInv

\* The invariant of one connection.
LEMMA Mine ==
    ASSUME ServerInv, NEW c \in Conns
    PROVE  /\ Conn(reader[c], pool[c], asked[c], answers[c], DOMAIN mine[c], DOMAIN documents)
           /\ reader[c] \in ReaderStates /\ pool[c] \in Pools /\ asked[c] \in Seq(AskedMessages)
           /\ DOMAIN mine[c] \subseteq Docs /\ DOMAIN documents \subseteq Docs
           /\ answers[c] \in [DOMAIN answers[c] -> Seq(Answers)]
  BY DEF ServerInv, Conn, Typed

\* Of the functions f and g, the later one has v at c, and is the same elsewhere.
Placed(f, g, c, v) == DOMAIN g = Conns /\ g[c] = v /\ \A k \in Conns : k # c => g[k] = f[k]
LEMMA Places ==
    ASSUME NEW f, DOMAIN f = Conns, NEW c \in Conns
    PROVE  /\ Placed(f, f, c, f[c])
           /\ \A v : Placed(f, [f EXCEPT ![c] = v], c, v)
  BY DEF Placed

\* The reader and its pool move.
LEMMA PoolStep ==
    ASSUME ServerInv, NEW c \in Conns, NEW st, NEW pn, Placed(reader, reader', c, st), Placed(pool, pool', c, pn),
           UNCHANGED <<documents, asked, answers, mine>>,
           Conn(st, pn, asked[c], answers[c], DOMAIN mine[c], DOMAIN documents)
    PROVE  ServerInv'
<1>1. /\ DOMAIN reader' = Conns /\ reader'[c] = st /\ \A k \in Conns : k # c => reader'[k] = reader[k]
      /\ DOMAIN pool' = Conns /\ pool'[c] = pn /\ \A k \in Conns : k # c => pool'[k] = pool[k]
  BY DEF Placed
<1>2. /\ DOMAIN asked' = Conns /\ DOMAIN answers' = Conns /\ DOMAIN mine' = Conns
      /\ \A k \in Conns : asked'[k] = asked[k] /\ answers'[k] = answers[k] /\ mine'[k] = mine[k]
      /\ DOMAIN documents' = DOMAIN documents
  BY DEF ServerInv
<1>3. answers'[c] \in [DOMAIN answers'[c] -> Seq(Answers)] /\ DOMAIN documents' \subseteq Docs
  BY <1>2, Mine
<1> QED
  BY <1>1, <1>2, <1>3, Frame

\* Only the reader moves.
LEMMA ReaderStep ==
    ASSUME ServerInv, NEW c \in Conns, NEW st, Move(c, st),
           UNCHANGED <<documents, pool, asked, answers, mine>>,
           Conn(st, pool[c], asked[c], answers[c], DOMAIN mine[c], DOMAIN documents)
    PROVE  ServerInv'
<1>1. Placed(reader, reader', c, st)
  BY Places DEF ServerInv, Move
<1>2. Placed(pool, pool', c, pool[c])
  BY Places DEF ServerInv
<1> QED
  BY <1>1, <1>2, PoolStep

\* Answers are written, by the reader or by a thread of the pool.
LEMMA WriteStep ==
    ASSUME ServerInv, NEW c \in Conns, NEW st, NEW pn, NEW rs \in Seq(Responses),
           Placed(reader, reader', c, st), Placed(pool, pool', c, pn),
           Write(c, rs), Distinct(rs),
           \A i \in DOMAIN rs : Granted(reader[c], asked[c], answers[c], rs[i].id),
           UNCHANGED <<documents, asked, mine>>,
           \A at : Wrote(answers[c], at, rs) => Conn(st, pn, asked[c], at, DOMAIN mine[c], DOMAIN documents)
    PROVE  ServerInv'
<1>1. /\ DOMAIN reader' = Conns /\ reader'[c] = st /\ \A k \in Conns : k # c => reader'[k] = reader[k]
      /\ DOMAIN pool' = Conns /\ pool'[c] = pn /\ \A k \in Conns : k # c => pool'[k] = pool[k]
  BY DEF Placed
<1>2. /\ DOMAIN asked' = Conns /\ DOMAIN mine' = Conns
      /\ \A k \in Conns : asked'[k] = asked[k] /\ mine'[k] = mine[k]
      /\ DOMAIN documents' = DOMAIN documents /\ DOMAIN documents' \subseteq Docs
  BY Mine DEF ServerInv
<1>3. answers[c] \in [DOMAIN answers[c] -> Seq(Answers)] /\ DOMAIN answers = Conns
  BY DEF ServerInv
<1>4. \E at : Placed(answers, answers', c, at) /\ at \in [DOMAIN answers[c] -> Seq(Answers)] /\ Wrote(answers[c], at, rs)
  <2>1. CASE c \in lost
    <3>1. Placed(answers, answers', c, answers[c])
      BY <1>3, <2>1, Places DEF Write
    <3>2. Wrote(answers[c], answers[c], rs)
      BY DEF Wrote
    <3> QED
      BY <1>3, <3>1, <3>2
  <2>2. CASE c \notin lost
    <3>1. Unanswered(answers[c], rs)
      BY DEF Granted, Unanswered
    <3>2. /\ Delivered(answers[c], rs) \in [DOMAIN answers[c] -> Seq(Answers)]
          /\ Wrote(answers[c], Delivered(answers[c], rs), rs)
      BY <1>3, <3>1, Delivers
    <3>3. answers' = [answers EXCEPT ![c] = Delivered(answers[c], rs)]
      BY <2>2 DEF Write
    <3>4. Placed(answers, answers', c, Delivered(answers[c], rs))
      BY <1>3, <3>3, Places
    <3> QED
      BY <3>2, <3>4
  <2> QED
    BY <2>1, <2>2
<1>5. PICK at : Placed(answers, answers', c, at) /\ at \in [DOMAIN answers[c] -> Seq(Answers)] /\ Wrote(answers[c], at, rs)
  BY <1>4
<1>6. DOMAIN answers' = Conns /\ answers'[c] = at /\ \A k \in Conns : k # c => answers'[k] = answers[k]
  BY <1>5 DEF Placed
<1>7. Conn(st, pn, asked[c], at, DOMAIN mine[c], DOMAIN documents)
  BY <1>5
<1>8. at \in [DOMAIN at -> Seq(Answers)]
  BY <1>5
<1> QED
  BY <1>1, <1>2, <1>6, <1>7, <1>8, Frame

\* The message at hand.
LEMMA AtHand ==
    ASSUME ServerInv, NEW c \in Conns, NEW kinds, At(c, kinds)
    PROVE  /\ reader[c].at = "process" /\ reader[c].todo # <<>> /\ reader[c].next \in Nat
           /\ Current(c) = reader[c].todo[1] /\ reader[c].todo[1] \in Messages
           /\ reader[c].todo[1].kind \in kinds
           /\ Matches(reader[c].todo[1], asked[c][reader[c].next], DOMAIN documents)
<1>1. reader[c].todo \in Seq(Messages) /\ reader[c].next \in Nat /\ reader[c].at = "process" /\ reader[c].todo # <<>>
  BY Mine, ReaderFields DEF At
<1>2. Head(reader[c].todo) = reader[c].todo[1] /\ reader[c].todo[1] \in Messages /\ 1 \in DOMAIN reader[c].todo
  BY <1>1, TailFacts
<1>3. Noted(reader[c], asked[c], DOMAIN documents)
  BY Mine DEF Conn
<1>4. reader[c].next + 1 - 1 = reader[c].next
  BY <1>1
<1>5. Matches(reader[c].todo[1], asked[c][reader[c].next + 1 - 1], DOMAIN documents)
  BY <1>2, <1>3 DEF Noted
<1> QED
  BY <1>1, <1>2, <1>4, <1>5 DEF At, Current

\* An answer of its own to the message at hand.
LEMMA OneAnswer ==
    ASSUME NEW c, reader[c].next \in Nat, NEW what \in Answers
    PROVE  /\ Answered(c, what) \in Seq(Responses) /\ Len(Answered(c, what)) = 1
           /\ Answered(c, what)[1].id = reader[c].next /\ Answered(c, what)[1].what = what
<1> DEFINE r == [id |-> reader[c].next, what |-> what]
<1>1. r \in Responses /\ r.id = reader[c].next /\ r.what = what
  BY DEF Responses
<1> HIDE DEF r
<1>2. <<r>> \in Seq(Responses) /\ Len(<<r>>) = 1 /\ <<r>>[1] = r
  BY <1>1
<1> QED
  BY <1>1, <1>2 DEF Answered, r

-----------------------------------------------------------------------------
(* The steps of the reader                                                 *)

\* Answer
LEMMA AnswerKeeps == ASSUME ServerInv, NEW c \in Conns, Answer(c) PROVE ServerInv'
<1> DEFINE rd == reader[c]
           what == AnsweredAtOnce[Current(c).kind]
           added == Answered(c, what)
<1>1. At(c, DOMAIN AnsweredAtOnce)
  BY DEF Answer
<1>2. /\ rd.at = "process" /\ rd.todo # <<>> /\ rd.next \in Nat /\ Current(c) = rd.todo[1]
      /\ rd.todo[1].kind \in {"initialize", "unknownRequest"}
      /\ Matches(rd.todo[1], asked[c][rd.next], DOMAIN documents)
  <2>1. DOMAIN AnsweredAtOnce = {"initialize", "unknownRequest"}
    BY DEF AnsweredAtOnce
  <2> QED
    BY <1>1, <2>1, AtHand
<1>3. what \in Answers
  <2>1. AnsweredAtOnce["initialize"] = "result" /\ AnsweredAtOnce["unknownRequest"] = "error"
    BY DEF AnsweredAtOnce
  <2> QED
    BY <1>2, <2>1 DEF Answers
<1> HIDE DEF what
<1>4. added \in Seq(Responses) /\ Len(added) = 1 /\ added[1].id = rd.next
  BY <1>2, <1>3, OneAnswer
<1>5. IsRequest(rd.todo[1]) /\ ~asked[c][rd.next].open
  BY <1>2 DEF Matches, IsRequest, AnsweredAtOnce
<1> HIDE DEF added
<1>6. Conn(Continue(rd, added), pool[c], asked[c], answers[c], DOMAIN mine[c], DOMAIN documents)
  <2>1. rd.at \in Handling /\ rd.todo[1].kind # "didOpen"
    BY <1>2 DEF Handling
  <2> QED
    BY <1>2, <1>4, <1>5, <2>1, Mine, Advance
<1>7. Move(c, Continue(rd, added)) /\ UNCHANGED <<documents, pool, asked, answers, mine>>
  BY DEF Answer, added, what
<1> HIDE DEF rd
<1> QED
  BY <1>6, <1>7, ReaderStep

\* A message is passed over, by a reader rd that may just have changed its mind.
LEMMA PassesOver ==
    ASSUME ServerInv, NEW c \in Conns, NEW rd, NEW pn,
           Conn(rd, pn, asked[c], answers[c], DOMAIN mine[c], DOMAIN documents),
           rd.at \in Handling, rd.todo # <<>>, rd.todo[1].kind = "didOpen" => rd.todo[1].d \in DOMAIN documents
    PROVE  Conn(Continue(rd, <<>>), pn, asked[c], answers[c], DOMAIN mine[c], DOMAIN documents)
<1>1. <<>> \in Seq(Responses)
  OBVIOUS
<1> QED
  BY <1>1, Advance

\* Ignore
LEMMA IgnoreKeeps == ASSUME ServerInv, NEW c \in Conns, Ignore(c) PROVE ServerInv'
<1> DEFINE rd == reader[c]
<1>1. rd.at = "process" /\ rd.todo # <<>> /\ rd.todo[1].kind # "didOpen"
  <2>1. CASE At(c, Ignored)
    BY <2>1, AtHand DEF Ignored
  <2>2. CASE At(c, {"didChange"})
    BY <2>2, AtHand
  <2> QED
    BY <2>1, <2>2 DEF Ignore
<1>2. rd.at \in Handling
  BY <1>1 DEF Handling
<1>3. Conn(Continue(rd, <<>>), pool[c], asked[c], answers[c], DOMAIN mine[c], DOMAIN documents)
  BY <1>1, <1>2, Mine, PassesOver
<1>4. Move(c, Continue(rd, <<>>)) /\ UNCHANGED <<documents, pool, asked, answers, mine>>
  BY DEF Ignore
<1> QED
  BY <1>3, <1>4, ReaderStep

\* Exit
LEMMA ExitKeeps == ASSUME ServerInv, NEW c \in Conns, Exit(c) PROVE ServerInv'
<1> DEFINE st == [reader[c] EXCEPT !.running = FALSE]
<1>1. reader[c].at = "process" /\ reader[c].todo # <<>> /\ reader[c].todo[1].kind = "exit" /\ reader[c] \in ReaderStates
  BY AtHand, Mine DEF Exit
<1>2. /\ st \in ReaderStates
      /\ st.at = "process" /\ st.todo = reader[c].todo /\ st.next = reader[c].next /\ st.response = reader[c].response
  BY <1>1 DEF ReaderStates
<1>3. Move(c, Continue(st, <<>>)) /\ UNCHANGED <<documents, pool, asked, answers, mine>>
  BY DEF Exit
<1> HIDE DEF st
<1>4. Conn(st, pool[c], asked[c], answers[c], DOMAIN mine[c], DOMAIN documents)
  BY <1>1, <1>2, Mine, ReaderMoves
<1>5. st.at \in Handling /\ st.todo # <<>> /\ st.todo[1].kind # "didOpen"
  BY <1>1, <1>2 DEF Handling
<1>6. Conn(Continue(st, <<>>), pool[c], asked[c], answers[c], DOMAIN mine[c], DOMAIN documents)
  BY <1>4, <1>5, PassesOver
<1> QED
  BY <1>3, <1>6, ReaderStep

\* Update
LEMMA UpdateKeeps == ASSUME ServerInv, NEW c \in Conns, Update(c) PROVE ServerInv'
<1> DEFINE rd == reader[c]
           m == rd.todo[1]
           E == DOMAIN documents'
           st == [rd EXCEPT !.at = "publish", !.left = DOMAIN documents \cup {m.d}]
<1>1. /\ rd.at = "process" /\ rd.todo # <<>> /\ Current(c) = m /\ m.kind \in {"didOpen", "didChange"}
      /\ Matches(m, asked[c][rd.next], DOMAIN documents)
  BY AtHand DEF Update
<1>2. m.d \in Docs /\ (m.kind = "didOpen" => \E t \in Texts : m.changes = <<t>>)
  BY <1>1 DEF Matches
<1>3. documents' = Changed(documents, m.d, m.changes)
  BY <1>1 DEF Update
<1>4. DOMAIN documents \subseteq E /\ E \subseteq DOMAIN documents \cup {m.d}
  BY <1>3 DEF Changed, Put
<1>5. m.kind = "didOpen" => m.d \in E
  <2> SUFFICES ASSUME NEW t \in Texts, m.changes = <<t>> PROVE m.d \in E
    BY <1>2
  <2>1. HeldAfter(Held(documents, m.d), <<t>>) = <<t.text>>
    BY OneChange
  <2>2. <<t.text>> # <<>>
    OBVIOUS
  <2>3. documents' = Put(documents, m.d, <<t.text>>[1])
    BY <1>3, <2>1, <2>2 DEF Changed
  <2> QED
    BY <2>3 DEF Put
<1>6. E \subseteq Docs
  BY <1>2, <1>4, Mine
<1>7. Conn(rd, pool[c], asked[c], answers[c], DOMAIN mine[c], E)
  <2> HIDE DEF E
  <2> QED
    BY <1>4, <1>6, Mine, Grows
<1>8. /\ st \in ReaderStates
      /\ st.at = "publish" /\ st.todo = rd.todo /\ st.next = rd.next /\ st.response = rd.response
  <2>1. rd \in ReaderStates /\ DOMAIN documents \cup {m.d} \in SUBSET Docs
    BY <1>2, Mine
  <2> HIDE DEF m, rd
  <2>2. "publish" \in Outside \cup Handling
    BY DEF Handling
  <2> QED
    BY <2>1, <2>2 DEF ReaderStates
<1>9. Move(c, st)
  BY <1>1 DEF Update
<1> HIDE DEF st
<1>10. Conn(st, pool[c], asked[c], answers[c], DOMAIN mine[c], E)
  <2> HIDE DEF E
  <2> QED
    BY <1>1, <1>5, <1>7, <1>8, ReaderMoves
<1>11. DOMAIN reader' = Conns /\ reader'[c] = st /\ \A k \in Conns : k # c => reader'[k] = reader[k]
  BY <1>9 DEF ServerInv, Move
<1>12. /\ DOMAIN pool' = Conns /\ DOMAIN asked' = Conns /\ DOMAIN answers' = Conns /\ DOMAIN mine' = Conns
       /\ \A k \in Conns : pool'[k] = pool[k] /\ asked'[k] = asked[k] /\ answers'[k] = answers[k] /\ mine'[k] = mine[k]
  BY DEF ServerInv, Update
<1>13. answers'[c] \in [DOMAIN answers'[c] -> Seq(Answers)]
  BY <1>12, Mine
<1> QED
  BY <1>4, <1>6, <1>10, <1>11, <1>12, <1>13, Frame

\* Publish
LEMMA PublishKeeps == ASSUME ServerInv, NEW c \in Conns, Publish(c) PROVE ServerInv'
<1>1. PICK d \in reader[c].left : Move(c, [reader[c] EXCEPT !.left = @ \ {d}])
  BY DEF Publish
<1> DEFINE st == [reader[c] EXCEPT !.left = @ \ {d}]
<1>2. reader[c] \in ReaderStates /\ reader[c].at = "publish"
  BY Mine DEF Publish
<1>3. /\ st \in ReaderStates
      /\ st.at = "publish" /\ st.todo = reader[c].todo /\ st.next = reader[c].next /\ st.response = reader[c].response
  BY <1>2 DEF ReaderStates
<1>4. Move(c, st)
  BY <1>1
<1> HIDE DEF st
<1>5. Pending(reader[c], asked[c], DOMAIN mine[c], DOMAIN documents)
  BY Mine DEF Conn
<1>6. reader[c].todo # <<>> /\ (reader[c].todo[1].kind = "didOpen" => reader[c].todo[1].d \in DOMAIN documents)
  BY <1>2, <1>5 DEF Pending
<1>7. Conn(st, pool[c], asked[c], answers[c], DOMAIN mine[c], DOMAIN documents)
  BY <1>2, <1>3, <1>6, Mine, ReaderMoves
<1>8. UNCHANGED <<documents, pool, asked, answers, mine>>
  BY DEF Publish
<1> QED
  BY <1>4, <1>7, <1>8, ReaderStep

\* Published
LEMMA PublishedKeeps == ASSUME ServerInv, NEW c \in Conns, Published(c) PROVE ServerInv'
<1> DEFINE st == [reader[c] EXCEPT !.left = {}]
<1>1. reader[c] \in ReaderStates /\ reader[c].at = "publish"
  BY Mine DEF Published
<1>2. /\ st \in ReaderStates
      /\ st.at = "publish" /\ st.todo = reader[c].todo /\ st.next = reader[c].next /\ st.response = reader[c].response
  BY <1>1 DEF ReaderStates
<1>3. Move(c, Continue(st, <<>>)) /\ UNCHANGED <<documents, pool, asked, answers, mine>>
  BY DEF Published
<1> HIDE DEF st
<1>4. Pending(reader[c], asked[c], DOMAIN mine[c], DOMAIN documents)
  BY Mine DEF Conn
<1>5. reader[c].todo # <<>> /\ (reader[c].todo[1].kind = "didOpen" => reader[c].todo[1].d \in DOMAIN documents)
  BY <1>1, <1>4 DEF Pending
<1>6. Conn(st, pool[c], asked[c], answers[c], DOMAIN mine[c], DOMAIN documents)
  BY <1>1, <1>2, <1>5, Mine, ReaderMoves
<1>7. st.at \in Handling
  BY <1>2 DEF Handling
<1>8. Conn(Continue(st, <<>>), pool[c], asked[c], answers[c], DOMAIN mine[c], DOMAIN documents)
  BY <1>2, <1>5, <1>6, <1>7, PassesOver
<1> QED
  BY <1>3, <1>8, ReaderStep

\* The result of a hover over a document that is open.
LEMMA HoverFacts == \A d : HoverResult(d) \in Answers /\ (d \in DOMAIN documents => HoverResult(d) = "hover")
  BY DEF HoverResult, Answers

\* HoverInline
LEMMA HoverInlineKeeps == ASSUME ServerInv, NEW c \in Conns, HoverInline(c) PROVE ServerInv'
<1> DEFINE rd == reader[c]
           what == HoverResult(Current(c).d)
           added == Answered(c, what)
<1>1. /\ rd.at = "process" /\ rd.todo # <<>> /\ rd.next \in Nat /\ Current(c) = rd.todo[1]
      /\ rd.todo[1].kind = "hover"
      /\ Matches(rd.todo[1], asked[c][rd.next], DOMAIN documents)
  BY AtHand DEF HoverInline
<1>2. what \in Answers /\ (rd.todo[1].d \in DOMAIN documents => what = "hover")
  BY <1>1, HoverFacts
<1> HIDE DEF what
<1>3. added \in Seq(Responses) /\ Len(added) = 1 /\ added[1].id = rd.next /\ added[1].what = what
  BY <1>1, <1>2, OneAnswer
<1>4. IsRequest(rd.todo[1]) /\ (asked[c][rd.next].open => rd.todo[1].d \in DOMAIN documents)
  BY <1>1 DEF Matches, IsRequest
<1>5. Move(c, Continue(rd, added)) /\ UNCHANGED <<documents, pool, asked, answers, mine>>
  BY DEF HoverInline, what
<1> HIDE DEF added
<1>6. rd.at \in Handling /\ rd.todo[1].kind # "didOpen" /\ (asked[c][rd.next].open => added[1].what = "hover")
  BY <1>1, <1>2, <1>3, <1>4 DEF Handling
<1>7. Conn(Continue(rd, added), pool[c], asked[c], answers[c], DOMAIN mine[c], DOMAIN documents)
  BY <1>1, <1>3, <1>4, <1>6, Mine, Advance
<1> HIDE DEF rd
<1> QED
  BY <1>5, <1>7, ReaderStep

\* QueueHover
LEMMA QueueHoverKeeps == ASSUME ServerInv, NEW c \in Conns, QueueHover(c) PROVE ServerInv'
<1> DEFINE rd == reader[c]
           task == HoverOf(rd)
           st == [rd EXCEPT !.at = "notify"]
           pn == Enqueued(pool[c], task)
<1>1. /\ rd.at = "process" /\ rd.todo # <<>> /\ rd.next \in Nat /\ Current(c) = rd.todo[1]
      /\ rd.todo[1].kind = "hover"
      /\ Matches(rd.todo[1], asked[c][rd.next], DOMAIN documents)
  BY AtHand DEF QueueHover
<1>2. task \in HoverTasks
  BY <1>1 DEF Matches, HoverTasks, HoverOf
<1>3. rd \in ReaderStates /\ pool[c] \in Pools
  BY Mine
<1>4. Placed(reader, reader', c, st) /\ Placed(pool, pool', c, pn) /\ UNCHANGED <<documents, asked, answers, mine>>
  <2>1. reader' = [reader EXCEPT ![c] = st] /\ pool' = [pool EXCEPT ![c] = pn] /\ UNCHANGED <<documents, asked, answers, mine>>
    BY <1>1 DEF QueueHover, Move, HoverOf
  <2> HIDE DEF st, pn
  <2> QED
    BY <2>1, Places DEF ServerInv
<1>5. /\ st \in ReaderStates
      /\ st.at = "notify" /\ st.todo = rd.todo /\ st.next = rd.next /\ st.response = rd.response
  <2> HIDE DEF rd
  <2>1. "notify" \in Outside \cup Handling
    BY DEF Handling
  <2> QED
    BY <1>3, <2>1 DEF ReaderStates
<1> HIDE DEF st
<1>6. pn \in Pools /\ pn.queue = Append(pool[c].queue, task) /\ \A i \in Busy(pn) : i \in Busy(pool[c]) /\ pn.threads[i] = pool[c].threads[i]
  <2> HIDE DEF task
  <2> QED
    BY <1>2, <1>3, Enqueues
<1> HIDE DEF pn
<1>8. Conn(rd, pool[c], asked[c], answers[c], DOMAIN mine[c], DOMAIN documents)
  BY Mine
<1>7. Conn(st, pn, asked[c], answers[c], DOMAIN mine[c], DOMAIN documents)
  <2> HIDE DEF rd
  <2> QED
    BY ONLY <1>1, <1>5, <1>6, <1>8, HandsOver
<1> QED
  BY <1>4, <1>7, PoolStep

\* A thread of a pool is at another place.
LEMMA ThreadSet ==
    ASSUME NEW pl \in Pools, NEW k \in DOMAIN pl.threads, NEW t \in ThreadStates
    PROVE  LET pn == [pl EXCEPT !.threads[k] = t] IN
           /\ pn \in Pools /\ pn.queue = pl.queue /\ pn.waitForNewTasks = pl.waitForNewTasks
           /\ DOMAIN pn.threads = DOMAIN pl.threads /\ pn.threads[k] = t
           /\ \A i \in DOMAIN pl.threads : i # k => pn.threads[i] = pl.threads[i]
<1> DEFINE th == [pl.threads EXCEPT ![k] = t]
           pn == [pl EXCEPT !.threads = th]
<1>1. pl.threads \in Seq(ThreadStates) /\ k \in 1 .. Len(pl.threads)
  BY PoolFields
<1>2. th \in Seq(ThreadStates)
  BY <1>1, ExceptSeq
<1>3. DOMAIN th = DOMAIN pl.threads /\ th[k] = t /\ \A i \in DOMAIN pl.threads : i # k => th[i] = pl.threads[i]
  OBVIOUS
<1>4. [pl EXCEPT !.threads[k] = t] = pn
  OBVIOUS
<1> HIDE DEF th
<1>5. pn \in Pools /\ pn.queue = pl.queue /\ pn.waitForNewTasks = pl.waitForNewTasks /\ pn.threads = th
  BY <1>2 DEF Pools
<1> HIDE DEF pn
<1> QED
  BY <1>3, <1>4, <1>5

\* NotifyOne
LEMMA NotifyOneKeeps == ASSUME ServerInv, NEW c \in Conns, NotifyOne(c) PROVE ServerInv'
<1> DEFINE rd == reader[c]
           pl == pool[c]
<1>1. rd.at = "notify" /\ pl \in Pools /\ Conn(rd, pl, asked[c], answers[c], DOMAIN mine[c], DOMAIN documents)
  BY Mine DEF NotifyOne
<1>2. rd.at \in Handling /\ rd.todo # <<>> /\ rd.todo[1].kind # "didOpen"
  BY <1>1 DEF Conn, Pending, Handling
<1>3. \E pn \in Pools :
        /\ Placed(pool, pool', c, pn) /\ pn.queue = pl.queue
        /\ \A i \in Busy(pn) : i \in Busy(pl) /\ pn.threads[i] = pl.threads[i]
  <2>1. CASE Waiting(c) = {}
    <3>1. Placed(pool, pool', c, pl)
      BY <2>1, Places DEF NotifyOne, ServerInv
    <3> QED
      BY <1>1, <3>1
  <2>2. CASE Waiting(c) # {}
    <3>1. PICK k \in Waiting(c) : pool' = [pool EXCEPT ![c].threads[k] = AtTop]
      BY <2>2 DEF NotifyOne
    <3>2. k \in DOMAIN pl.threads
      BY DEF Waiting
    <3> DEFINE pn == [pl EXCEPT !.threads[k] = AtTop]
    <3>3. Placed(pool, pool', c, pn)
      <4>1. pool' = [pool EXCEPT ![c] = pn]
        BY <3>1
      <4> HIDE DEF pn
      <4> QED
        BY <4>1, Places DEF ServerInv
    <3>4. /\ pn \in Pools /\ pn.queue = pl.queue
          /\ DOMAIN pn.threads = DOMAIN pl.threads /\ pn.threads[k] = AtTop
          /\ \A i \in DOMAIN pl.threads : i # k => pn.threads[i] = pl.threads[i]
      <4> HIDE DEF pl
      <4> QED
        BY <1>1, <3>2, Idle, ThreadSet
    <3> HIDE DEF pn
    <3>5. \A i \in Busy(pn) : i \in Busy(pl) /\ pn.threads[i] = pl.threads[i]
      <4> HIDE DEF pl
      <4> QED
        BY <3>4, Idle DEF Busy
    <3> QED
      BY <3>3, <3>4, <3>5
  <2> QED
    BY <2>1, <2>2
<1>4. PICK pn \in Pools :
        /\ Placed(pool, pool', c, pn) /\ pn.queue = pl.queue
        /\ \A i \in Busy(pn) : i \in Busy(pl) /\ pn.threads[i] = pl.threads[i]
  BY <1>3
<1>5. Conn(rd, pn, asked[c], answers[c], DOMAIN mine[c], DOMAIN documents)
  BY <1>1, <1>4, PoolIdle
<1>6. Conn(Continue(rd, <<>>), pn, asked[c], answers[c], DOMAIN mine[c], DOMAIN documents)
  BY <1>2, <1>5, PassesOver
<1>7. Placed(reader, reader', c, Continue(rd, <<>>)) /\ UNCHANGED <<documents, asked, answers, mine>>
  <2>1. reader' = [reader EXCEPT ![c] = Continue(rd, <<>>)] /\ UNCHANGED <<documents, asked, answers, mine>>
    BY DEF NotifyOne, Move
  <2> QED
    BY <2>1, Places DEF ServerInv
<1> QED
  BY <1>4, <1>6, <1>7, PoolStep

\* Respond
LEMMA RespondKeeps == ASSUME ServerInv, NEW c \in Conns, Respond(c) PROVE ServerInv'
<1> DEFINE rd == reader[c]
           st == IF c \in lost \/ ~reader[c].running THEN Finishing ELSE Reading
<1>1. rd \in ReaderStates /\ rd.at = "process" /\ rd.todo = <<>> /\ rd.response \in Seq(Responses)
  BY Mine, ReaderFields DEF Respond
<1>2. Conn(rd, pool[c], asked[c], answers[c], DOMAIN mine[c], DOMAIN documents)
  BY Mine
<1>3. st \in {Reading, Finishing}
  OBVIOUS
<1>4. Placed(reader, reader', c, st) /\ Placed(pool, pool', c, pool[c]) /\ UNCHANGED <<documents, asked, mine>>
  <2>1. reader' = [reader EXCEPT ![c] = st] /\ UNCHANGED <<documents, pool, asked, mine>>
    BY DEF Respond, Move
  <2> HIDE DEF st
  <2> QED
    BY <2>1, Places DEF ServerInv
<1>5. Write(c, rd.response)
  BY DEF Respond
<1> HIDE DEF st
<1>6. \A at : Wrote(answers[c], at, rd.response) => Conn(st, pool[c], asked[c], at, DOMAIN mine[c], DOMAIN documents)
  <2> HIDE DEF rd
  <2> QED
    BY ONLY <1>1, <1>2, <1>3, Responds
<1>7. Distinct(rd.response)
  BY <1>2 DEF Conn, Once, Distinct
<1>8. \A i \in DOMAIN rd.response : Granted(rd, asked[c], answers[c], rd.response[i].id)
  BY <1>2 DEF Conn, Collected
<1> QED
  BY <1>1, <1>4, <1>5, <1>6, <1>7, <1>8, WriteStep

\* WaitUntilFinished
LEMMA WaitUntilFinishedKeeps == ASSUME ServerInv, NEW c \in Conns, WaitUntilFinished(c) PROVE ServerInv'
<1> DEFINE rd == reader[c]
           pl == pool[c]
           st == [rd EXCEPT !.at = "join"]
           th == [i \in DOMAIN pl.threads |-> Woken(pl.threads[i])]
           pn == [pl EXCEPT !.waitForNewTasks = FALSE, !.threads = th]
<1>1. rd \in ReaderStates /\ rd.at = "finish" /\ pl \in Pools /\ Conn(rd, pl, asked[c], answers[c], DOMAIN mine[c], DOMAIN documents)
  BY Mine DEF WaitUntilFinished
<1>2. Placed(reader, reader', c, st) /\ Placed(pool, pool', c, pn) /\ UNCHANGED <<documents, asked, answers, mine>>
  <2>1. reader' = [reader EXCEPT ![c] = st] /\ pool' = [pool EXCEPT ![c] = pn] /\ UNCHANGED <<documents, asked, answers, mine>>
    BY DEF WaitUntilFinished, Finished, Move
  <2> HIDE DEF st, pn
  <2> QED
    BY <2>1, Places DEF ServerInv
<1>3. th \in Seq(ThreadStates) /\ DOMAIN th = DOMAIN pl.threads
  <2>1. pl.threads \in Seq(ThreadStates) /\ DOMAIN pl.threads = 1 .. Len(pl.threads) /\ Len(pl.threads) \in Nat
    BY <1>1, PoolFields
  <2>2. \A i \in 1 .. Len(pl.threads) : Woken(pl.threads[i]) \in ThreadStates
    BY <2>1, ElementOfSeq, Idle DEF Woken
  <2> QED
    BY <2>1, <2>2
<1>4. \A i \in DOMAIN pl.threads : th[i] = pl.threads[i] \/ th[i].at = "top"
  BY Idle DEF Woken
<1> HIDE DEF th
<1>5. /\ st \in ReaderStates
      /\ st.at = "join" /\ st.todo = rd.todo /\ st.response = rd.response
  <2> HIDE DEF rd
  <2>1. "join" \in Outside \cup Handling
    BY DEF Outside
  <2> QED
    BY <1>1, <2>1 DEF ReaderStates
<1>6. pn \in Pools /\ pn.queue = pl.queue /\ pn.threads = th
  <2> HIDE DEF pl
  <2> QED
    BY <1>1, <1>3 DEF Pools
<1> HIDE DEF st, pn
<1>7. \A i \in Busy(pn) : i \in Busy(pl) /\ pn.threads[i] = pl.threads[i]
  <2> HIDE DEF pl
  <2> QED
    BY <1>3, <1>4, <1>6 DEF Busy
<1>8. Conn(st, pl, asked[c], answers[c], DOMAIN mine[c], DOMAIN documents)
  <2>1. rd.at \in Outside /\ st.at \in Outside
    BY <1>1, <1>5 DEF Outside
  <2> HIDE DEF rd, pl
  <2> QED
    BY ONLY <1>1, <1>5, <2>1, ReaderMoves
<1>9. Conn(st, pn, asked[c], answers[c], DOMAIN mine[c], DOMAIN documents)
  <2> HIDE DEF rd, pl
  <2> QED
    BY ONLY <1>6, <1>7, <1>8, PoolIdle
<1> QED
  BY <1>2, <1>9, PoolStep

\* Join
LEMMA JoinKeeps == ASSUME ServerInv, NEW c \in Conns, Join(c) PROVE ServerInv'
<1> DEFINE rd == reader[c]
           st == [rd EXCEPT !.at = "ended"]
<1>1. rd \in ReaderStates /\ rd.at = "join" /\ Conn(rd, pool[c], asked[c], answers[c], DOMAIN mine[c], DOMAIN documents)
  BY Mine DEF Join
<1>2. Move(c, st) /\ UNCHANGED <<documents, pool, asked, answers, mine>>
  BY DEF Join
<1>3. /\ st \in ReaderStates
      /\ st.at = "ended" /\ st.todo = rd.todo /\ st.response = rd.response
  <2> HIDE DEF rd
  <2>1. "ended" \in Outside \cup Handling
    BY DEF Outside
  <2> QED
    BY <1>1, <2>1 DEF ReaderStates
<1> HIDE DEF st
<1>4. Conn(st, pool[c], asked[c], answers[c], DOMAIN mine[c], DOMAIN documents)
  <2>1. rd.at \in Outside /\ st.at \in Outside
    BY <1>1, <1>3 DEF Outside
  <2> HIDE DEF rd
  <2> QED
    BY ONLY <1>1, <1>3, <2>1, ReaderMoves
<1> QED
  BY <1>2, <1>4, ReaderStep

\* ReadInvalid and ConnectionLost
LEMMA GivesUpKeeps == ASSUME ServerInv, NEW c \in Conns, ReadInvalid(c) \/ ConnectionLost(c) PROVE ServerInv'
<1>1. reader[c].at = "read" /\ Move(c, Finishing) /\ UNCHANGED <<documents, pool, asked, answers, mine>>
  BY DEF ReadInvalid, ConnectionLost
<1>2. Conn(reader[c], pool[c], asked[c], answers[c], DOMAIN mine[c], DOMAIN documents)
  BY Mine
<1>3. reader[c].todo = <<>> /\ reader[c].response = <<>>
  BY <1>1, <1>2 DEF Conn, Pending, Outside
<1>4. Conn(Finishing, pool[c], asked[c], answers[c], DOMAIN mine[c], DOMAIN documents)
  <2>1. reader[c].at \in Outside /\ Finishing.at \in Outside
    BY <1>1, Resting DEF Outside
  <2> QED
    BY ONLY <1>2, <1>3, <2>1, Resting, ReaderMoves
<1> QED
  BY <1>1, <1>4, ReaderStep

-----------------------------------------------------------------------------
(* The steps of the pool                                                   *)

\* A thread of a pool moves, the readers and everything else stand still.
LEMMA ThreadStep ==
    ASSUME ServerInv, NEW c \in Conns, NEW pn, pool' = [pool EXCEPT ![c] = pn],
           UNCHANGED <<documents, reader, asked, answers, mine>>,
           Conn(reader[c], pn, asked[c], answers[c], DOMAIN mine[c], DOMAIN documents)
    PROVE  ServerInv'
<1>1. Placed(reader, reader', c, reader[c]) /\ Placed(pool, pool', c, pn)
  BY Places DEF ServerInv
<1> QED
  BY <1>1, PoolStep

\* Take
LEMMA TakeKeeps ==
    ASSUME ServerInv, NEW c \in Conns, NEW k \in DOMAIN pool[c].threads, Take(c, k) PROVE ServerInv'
<1> DEFINE rd == reader[c]
           pl == pool[c]
           pn == Taken(pl, k)
<1>1. pl \in Pools /\ Conn(rd, pl, asked[c], answers[c], DOMAIN mine[c], DOMAIN documents)
  BY Mine
<1>2. /\ pl.queue \in Seq(HoverTasks) /\ pl.threads \in Seq(ThreadStates)
      /\ pl.threads[k] \in ThreadStates /\ pl.threads[k].at = "top" /\ k \notin Busy(pl)
  <2>1. pl.threads[k].at = "top"
    BY DEF Take, Thread
  <2> HIDE DEF pl
  <2>2. pl.queue \in Seq(HoverTasks) /\ pl.threads \in Seq(ThreadStates) /\ k \in 1 .. Len(pl.threads)
    BY <1>1, PoolFields DEF pl
  <2> QED
    BY <2>1, <2>2, ElementOfSeq DEF Busy
<1>3. Conn(rd, pn, asked[c], answers[c], DOMAIN mine[c], DOMAIN documents)
  <2>1. CASE pl.queue # <<>>
    <3> DEFINE task == Head(pl.queue)
               t == Working(task)
               rest == Tail(pl.queue)
               pt == [pl EXCEPT !.threads[k] = t]
    <3>1. task = pl.queue[1] /\ task \in HoverTasks /\ rest \in Seq(HoverTasks)
      <4> HIDE DEF pl
      <4> QED
        BY <1>2, <2>1, TailFacts
    <3>2. t \in ThreadStates /\ t.at = "task" /\ t.id = task.id /\ t.d = task.d
      <4> HIDE DEF task
      <4>1. task.id \in Nat /\ task.d \in Docs
        BY <3>1 DEF HoverTasks
      <4>2. t = [AtTop EXCEPT !.at = "task", !.id = task.id, !.d = task.d]
        BY DEF Working
      <4> QED
        BY <4>1, <4>2, Idle DEF ThreadStates
    <3>3. pn = [pt EXCEPT !.queue = rest]
      <4> HIDE DEF pl, t
      <4>1. pn = [pl EXCEPT !.queue = rest, !.threads[k] = t]
        BY <2>1 DEF Taken, t
      <4> HIDE DEF pn, rest
      <4> QED
        BY <1>1, <4>1 DEF Pools
    <3> HIDE DEF t
    <3>4. /\ pt \in Pools /\ DOMAIN pt.threads = DOMAIN pl.threads /\ pt.threads[k] = t
          /\ \A i \in DOMAIN pl.threads : i # k => pt.threads[i] = pl.threads[i]
      <4> HIDE DEF pl
      <4> QED
        BY <1>1, <3>2, ThreadSet DEF pl
    <3> HIDE DEF pt, task, rest
    <3>5. pn \in Pools /\ pn.queue = rest /\ pn.threads = pt.threads
      <4> HIDE DEF pn
      <4> QED
        BY <3>1, <3>3, <3>4 DEF Pools
    <3>6. /\ pn.threads[k].at = "task" /\ pn.threads[k].id = pl.queue[1].id /\ pn.threads[k].d = pl.queue[1].d
          /\ DOMAIN pn.threads = DOMAIN pl.threads
          /\ \A i \in DOMAIN pl.threads : i # k => pn.threads[i] = pl.threads[i]
      <4> HIDE DEF pn, pl
      <4> QED
        BY <3>1, <3>2, <3>4, <3>5
    <3>7. pn.queue = Tail(pl.queue) /\ k \in DOMAIN pl.threads
      BY <3>5 DEF rest
    <3> HIDE DEF pn, pl, rd
    <3> QED
      BY <1>1, <1>2, <2>1, <3>5, <3>6, <3>7, Takes
  <2>2. CASE pl.queue = <<>>
    <3> DEFINE at == IF pl.waitForNewTasks THEN "waiting" ELSE "ended"
               t == [pl.threads[k] EXCEPT !.at = at]
    <3>1. t \in ThreadStates /\ t.at = at /\ at \in {"waiting", "ended"}
      <4> HIDE DEF pl
      <4> QED
        BY <1>2 DEF ThreadStates
    <3>2. pn = [pl EXCEPT !.threads[k] = t]
      BY <2>2 DEF Taken
    <3> HIDE DEF t
    <3>3. /\ pn \in Pools /\ pn.queue = pl.queue
          /\ DOMAIN pn.threads = DOMAIN pl.threads /\ pn.threads[k] = t
          /\ \A i \in DOMAIN pl.threads : i # k => pn.threads[i] = pl.threads[i]
      <4>1. k \in DOMAIN pl.threads
        OBVIOUS
      <4> HIDE DEF pl, pn
      <4> QED
        BY <1>1, <3>1, <3>2, <4>1, ThreadSet
    <3>4. \A i \in Busy(pn) : i \in Busy(pl) /\ pn.threads[i] = pl.threads[i]
      <4> HIDE DEF pl, pn
      <4> QED
        BY <3>1, <3>3 DEF Busy
    <3> HIDE DEF pl, pn, rd
    <3> QED
      BY <1>1, <3>3, <3>4, PoolIdle
  <2> QED
    BY <2>1, <2>2
<1>4. pool' = [pool EXCEPT ![c] = pn] /\ UNCHANGED <<documents, reader, asked, answers, mine>>
  BY DEF Take
<1> HIDE DEF pn
<1> QED
  BY <1>3, <1>4, ThreadStep

\* Compute
LEMMA ComputeKeeps ==
    ASSUME ServerInv, NEW c \in Conns, NEW k \in DOMAIN pool[c].threads, Compute(c, k) PROVE ServerInv'
<1> DEFINE rd == reader[c]
           pl == pool[c]
           what == HoverResult(pl.threads[k].d)
           t == [pl.threads[k] EXCEPT !.at = "write", !.what = what]
           pn == [pl EXCEPT !.threads[k] = t]
<1>1. pl \in Pools /\ Conn(rd, pl, asked[c], answers[c], DOMAIN mine[c], DOMAIN documents)
  BY Mine
<1>2. k \in DOMAIN pl.threads /\ pl.threads[k] \in ThreadStates /\ pl.threads[k].at = "task" /\ k \in Busy(pl)
  <2>1. pl.threads[k].at = "task" /\ k \in DOMAIN pl.threads
    BY DEF Compute, Thread
  <2> HIDE DEF pl
  <2>2. pl.threads \in Seq(ThreadStates) /\ k \in 1 .. Len(pl.threads)
    BY <1>1, <2>1, PoolFields
  <2> QED
    BY <2>1, <2>2, ElementOfSeq DEF Busy
<1>3. what \in Answers /\ (pl.threads[k].d \in DOMAIN documents => what = "hover")
  BY HoverFacts
<1>4. pool' = [pool EXCEPT ![c] = pn] /\ UNCHANGED <<documents, reader, asked, answers, mine>>
  BY DEF Compute, Thread
<1> HIDE DEF what
<1>5. t \in ThreadStates /\ t.at = "write" /\ t.id = pl.threads[k].id /\ t.what = what
  <2> HIDE DEF pl
  <2> QED
    BY <1>2, <1>3 DEF ThreadStates
<1> HIDE DEF t
<1>6. /\ pn \in Pools /\ pn.queue = pl.queue
      /\ DOMAIN pn.threads = DOMAIN pl.threads /\ pn.threads[k] = t
      /\ \A i \in DOMAIN pl.threads : i # k => pn.threads[i] = pl.threads[i]
  <2> HIDE DEF pl
  <2> QED
    BY <1>1, <1>2, <1>5, ThreadSet
<1> HIDE DEF pn
<1>7. Conn(rd, pn, asked[c], answers[c], DOMAIN mine[c], DOMAIN documents)
  <2>1. /\ pn.threads[k].at = "write" /\ pn.threads[k].id = pl.threads[k].id /\ pn.threads[k].what \in Answers
        /\ pl.threads[k].d \in DOMAIN documents => pn.threads[k].what = "hover"
    BY <1>3, <1>5, <1>6
  <2> HIDE DEF rd, pl
  <2> QED
    BY ONLY <1>1, <1>2, <1>6, <2>1, Computes
<1> QED
  BY <1>4, <1>7, ThreadStep

\* SendResponse
LEMMA SendResponseKeeps ==
    ASSUME ServerInv, NEW c \in Conns, NEW k \in DOMAIN pool[c].threads, SendResponse(c, k) PROVE ServerInv'
<1> DEFINE rd == reader[c]
           pl == pool[c]
           r == [id |-> pl.threads[k].id, what |-> pl.threads[k].what]
           rs == <<r>>
           pn == [pl EXCEPT !.threads[k] = AtTop]
<1>1. pl \in Pools /\ Conn(rd, pl, asked[c], answers[c], DOMAIN mine[c], DOMAIN documents)
  BY Mine
<1>2. k \in DOMAIN pl.threads /\ pl.threads[k] \in ThreadStates /\ pl.threads[k].at = "write" /\ k \in Busy(pl)
  <2>1. pl.threads[k].at = "write" /\ k \in DOMAIN pl.threads
    BY DEF SendResponse, Thread
  <2> HIDE DEF pl
  <2>2. pl.threads \in Seq(ThreadStates) /\ k \in 1 .. Len(pl.threads)
    BY <1>1, <2>1, PoolFields
  <2> QED
    BY <2>1, <2>2, ElementOfSeq DEF Busy
<1>3. Granted(rd, asked[c], answers[c], pl.threads[k].id) /\ pl.threads[k].what \in Answers
  <2> HIDE DEF rd, pl
  <2> QED
    BY <1>1, <1>2 DEF Conn, Worked
<1>4. r \in Responses /\ r.id = pl.threads[k].id /\ r.what = pl.threads[k].what
  BY <1>2, <1>3 DEF Responses, ThreadStates
<1>5. Write(c, rs) /\ pool' = [pool EXCEPT ![c] = pn] /\ UNCHANGED <<documents, reader, asked, mine>>
  BY DEF SendResponse, Thread
<1> HIDE DEF r
<1>6. rs \in Seq(Responses) /\ Len(rs) = 1 /\ DOMAIN rs = {1} /\ rs[1] = r
  BY <1>4
<1> HIDE DEF rs
<1>7. Distinct(rs) /\ \A i \in DOMAIN rs : Granted(rd, asked[c], answers[c], rs[i].id)
  <2> HIDE DEF rd, pl
  <2> QED
    BY <1>3, <1>4, <1>6 DEF Distinct
<1>8. /\ pn \in Pools /\ pn.queue = pl.queue
      /\ DOMAIN pn.threads = DOMAIN pl.threads /\ pn.threads[k] = AtTop
      /\ \A i \in DOMAIN pl.threads : i # k => pn.threads[i] = pl.threads[i]
  <2> HIDE DEF pl
  <2> QED
    BY <1>1, <1>2, Idle, ThreadSet
<1> HIDE DEF pn
<1>9. \A i \in Busy(pn) : i \in Busy(pl) /\ i # k /\ pn.threads[i] = pl.threads[i]
  <2> HIDE DEF pl
  <2> QED
    BY <1>8, Idle DEF Busy
<1>10. \A at : Wrote(answers[c], at, rs) => Conn(rd, pn, asked[c], at, DOMAIN mine[c], DOMAIN documents)
  <2>1. rs[1].id = pl.threads[k].id /\ rs[1].what = pl.threads[k].what
    BY <1>4, <1>6
  <2> HIDE DEF rd, pl
  <2> QED
    BY ONLY <1>1, <1>2, <1>6, <1>8, <1>9, <2>1, Sends
<1>11. Placed(reader, reader', c, rd) /\ Placed(pool, pool', c, pn)
  BY <1>5, Places DEF ServerInv
<1> QED
  BY <1>5, <1>6, <1>7, <1>10, <1>11, WriteStep

-----------------------------------------------------------------------------
(* The steps of the clients                                                *)

\* Read
LEMMA ReadKeeps == ASSUME ServerInv, NEW c \in Conns, Read(c) PROVE ServerInv'
<1> DEFINE rd == reader[c]
           mn == DOMAIN mine[c]
           D == DOMAIN documents
           Notes(todo) == [i \in DOMAIN todo |-> [request |-> IsRequest(todo[i]),
                             open |-> todo[i].kind = "hover" /\ todo[i].d \in DOMAIN mine[c]]]
           After(todo) == [Reading EXCEPT !.at = "process", !.todo = todo, !.next = Len(asked[c]) + 1,
                                          !.allowAsync = Len(todo) = 1]
<1>1. PICK todo \in Incoming(c) :
        /\ asked' = [asked EXCEPT ![c] = asked[c] \o Notes(todo)]
        /\ Move(c, After(todo))
        /\ mine' = [mine EXCEPT ![c] = Sent(mine[c], todo)]
  BY DEF Read
<1>2. rd.at = "read" /\ UNCHANGED <<documents, pool, answers>>
  BY DEF Read
<1>3. /\ Conn(rd, pool[c], asked[c], answers[c], mn, D) /\ mn \subseteq Docs /\ D \subseteq Docs
      /\ asked[c] \in Seq(AskedMessages)
  BY Mine
<1> DEFINE notes == Notes(todo)
           st == After(todo)
           to == DOMAIN Sent(mine[c], todo)
<1>4. /\ todo \in Seq(Messages)
      /\ \/ Len(todo) = 1 /\ todo = <<todo[1]>>
         \/ Len(todo) = 2 /\ todo = <<todo[1], todo[2]>>
      /\ \A i \in DOMAIN todo :
           /\ todo[i].kind \in {"didOpen", "didChange", "hover"} => todo[i].d \in Docs
           /\ todo[i].kind = "didOpen" => \E t \in Texts : todo[i].changes = <<t>>
  BY <1>3, IncomingFacts
<1>5. \A d \in mn : d \in D
  <2>1. rd.todo = <<>>
    BY <1>2, <1>3 DEF Conn, Pending, Outside
  <2> HIDE DEF rd, mn, D
  <2> QED
    BY <1>3, <2>1 DEF Conn, Pending
<1>6. notes \in Seq(AskedMessages) /\ Len(notes) = Len(todo)
  <2>1. DOMAIN todo = 1 .. Len(todo) /\ Len(todo) \in Nat
    BY <1>4, LenProperties
  <2>2. \A i \in DOMAIN todo : notes[i] \in AskedMessages
    BY DEF AskedMessages, IsRequest
  <2>3. notes \in [1 .. Len(todo) -> AskedMessages]
    <3>1. notes = [i \in 1 .. Len(todo) |-> notes[i]]
      BY <2>1
    <3> HIDE DEF notes
    <3> QED
      BY <2>1, <2>2, <3>1
  <2> HIDE DEF notes
  <2> QED
    BY <2>1, <2>3
<1>7. \A i \in DOMAIN todo : Matches(todo[i], notes[i], D)
  <2> SUFFICES ASSUME NEW i \in DOMAIN todo PROVE Matches(todo[i], notes[i], D)
    OBVIOUS
  <2>1. /\ notes[i].request = IsRequest(todo[i])
        /\ notes[i].open = (todo[i].kind = "hover" /\ todo[i].d \in mn)
    OBVIOUS
  <2> HIDE DEF notes, mn, D
  <2> QED
    BY <1>4, <1>5, <2>1 DEF Matches
<1>8. /\ to \in SUBSET Docs
      /\ \A d \in to : d \in mn \/ \E i \in DOMAIN todo : todo[i].kind = "didOpen" /\ todo[i].d = d
  <2>1. \A d \in to : d \in mn \/ \E i \in DOMAIN todo : todo[i].kind = "didOpen" /\ todo[i].d = d
    BY <1>4, SentDocuments
  <2> HIDE DEF to, mn
  <2> QED
    BY <1>3, <1>4, <2>1
<1>9. /\ st \in ReaderStates
      /\ st.at = "process" /\ st.todo = todo /\ st.next = Len(asked[c]) + 1 /\ st.response = <<>>
  <2>1. Len(asked[c]) + 1 \in Nat /\ "process" \in Outside \cup Handling /\ (Len(todo) = 1) \in BOOLEAN
    BY <1>3 DEF Handling
  <2>2. Reading \in ReaderStates /\ Reading.response = <<>>
    BY Resting
  <2> QED
    BY <1>4, <2>1, <2>2 DEF ReaderStates
<1> HIDE DEF notes, st, to
<1>10. Conn(st, pool[c], asked[c] \o notes, answers[c], to, D)
  <2> HIDE DEF rd, mn, D
  <2> QED
    <3>1. todo \in Seq(Messages) /\ notes \in Seq(AskedMessages) /\ to \in SUBSET Docs /\ st \in ReaderStates
      BY <1>4, <1>6, <1>8, <1>9
    <3>2. Describes(notes, todo, D) /\ Opened(to, mn, todo)
      BY <1>6, <1>7, <1>8 DEF Describes, Opened
    <3>3. Conn(rd, pool[c], asked[c], answers[c], mn, D) /\ rd.at = "read"
      BY <1>2, <1>3
    <3>4. st.at = "process" /\ st.todo = todo /\ st.next = Len(asked[c]) + 1 /\ st.response = <<>>
      BY <1>9
    <3> QED
      BY ONLY <3>1, <3>2, <3>3, <3>4, ReadsMore
<1>11. /\ asked' = [asked EXCEPT ![c] = asked[c] \o notes] /\ reader' = [reader EXCEPT ![c] = st]
       /\ mine' = [mine EXCEPT ![c] = Sent(mine[c], todo)]
  BY <1>1 DEF notes, st, Move
<1>12. /\ Placed(asked, asked', c, asked[c] \o notes) /\ Placed(reader, reader', c, st)
       /\ Placed(mine, mine', c, Sent(mine[c], todo))
       /\ Placed(pool, pool', c, pool[c]) /\ Placed(answers, answers', c, answers[c])
  BY <1>2, <1>11, Places DEF ServerInv
<1>13. /\ DOMAIN asked' = Conns /\ asked'[c] = asked[c] \o notes
       /\ DOMAIN reader' = Conns /\ reader'[c] = st
       /\ DOMAIN mine' = Conns /\ DOMAIN mine'[c] = to
       /\ DOMAIN pool' = Conns /\ pool'[c] = pool[c]
       /\ DOMAIN answers' = Conns /\ answers'[c] = answers[c]
       /\ \A k \in Conns : k # c =>
            /\ reader'[k] = reader[k] /\ pool'[k] = pool[k] /\ asked'[k] = asked[k]
            /\ answers'[k] = answers[k] /\ mine'[k] = mine[k]
  BY <1>12 DEF Placed, to
<1>14. answers'[c] \in [DOMAIN answers'[c] -> Seq(Answers)]
  BY <1>13, Mine
<1>15. DOMAIN documents' = D
  BY <1>2
<1>16. Conn(reader'[c], pool'[c], asked'[c], answers'[c], DOMAIN mine'[c], DOMAIN documents')
  BY <1>10, <1>13, <1>15
<1> QED
  BY <1>3, <1>13, <1>14, <1>15, <1>16, Frame

\* A step that changes nothing the invariant is about.
LEMMA StandsStill ==
    ASSUME ServerInv, UNCHANGED <<documents, reader, pool, mine, asked, answers>> PROVE ServerInv'
<1>1. /\ DOMAIN documents' = DOMAIN documents
      /\ reader' = reader /\ pool' = pool /\ mine' = mine /\ asked' = asked /\ answers' = answers
  OBVIOUS
<1> QED
  BY <1>1 DEF ServerInv

-----------------------------------------------------------------------------
(* The invariant                                                           *)

\* No message was read yet, and none is answered.
LEMMA InitKeeps == ASSUME Init PROVE ServerInv
<1>1. budget \in [Conns -> Nat]
  BY BudgetAssumption DEF Init
<1>2. /\ DOMAIN reader = Conns /\ DOMAIN pool = Conns /\ DOMAIN asked = Conns
      /\ DOMAIN answers = Conns /\ DOMAIN mine = Conns
  BY DEF Init
<1> SUFFICES ASSUME NEW c \in Conns
             PROVE  /\ answers[c] \in [DOMAIN answers[c] -> Seq(Answers)]
                    /\ Conn(reader[c], pool[c], asked[c], answers[c], DOMAIN mine[c], DOMAIN documents)
  BY <1>2 DEF ServerInv
<1>3. \A id \in DOMAIN answers[c] : answers[c][id] = <<>>
  BY DEF Init
<1>4. answers[c] \in [DOMAIN answers[c] -> Seq(Answers)]
  <2>1. answers[c] = [id \in 1 .. budget[c] |-> <<>>] /\ <<>> \in Seq(Answers)
    BY DEF Init
  <2> QED
    BY <2>1
<1>5. /\ reader[c] = Reading /\ pool[c] = NewPool /\ asked[c] = <<>>
      /\ DOMAIN mine[c] = {} /\ DOMAIN documents = {}
  BY DEF Init, NoDocuments
<1>6. NewPool \in Pools /\ NewPool.queue = <<>> /\ NewPool.threads = <<>>
  <2>1. <<>> \in Seq(HoverTasks) /\ <<>> \in Seq(ThreadStates)
    OBVIOUS
  <2> QED
    BY <2>1 DEF NewPool, Pools
<1>7. Busy(NewPool) = {}
  BY <1>6 DEF Busy
<1>8. Reading \in ReaderStates /\ Reading.at = "read" /\ Reading.todo = <<>> /\ Reading.response = <<>>
  BY Resting
<1>9. Typed(Reading, NewPool, <<>>, {}, {})
  BY <1>6, <1>8 DEF Typed
<1>10. Pending(Reading, <<>>, {}, {}) /\ Noted(Reading, <<>>, {}) /\ Collected(Reading, <<>>, answers[c])
  BY <1>8 DEF Pending, Noted, Collected, Handling, Outside
<1>11. Queued(Reading, NewPool, <<>>, answers[c], {}) /\ Worked(Reading, NewPool, <<>>, answers[c], {})
  BY <1>6, <1>7 DEF Queued, Worked
<1>12. Once(Reading, NewPool)
  BY <1>6, <1>7, <1>8 DEF Once
<1>13. Given(Reading, <<>>, answers[c])
  BY <1>3 DEF Given
<1>14. Conn(Reading, NewPool, <<>>, answers[c], {}, {})
  BY <1>9, <1>10, <1>11, <1>12, <1>13 DEF Conn
<1> QED
  BY <1>4, <1>5, <1>14

\* Every step keeps it.
LEMMA NextKeeps == ASSUME ServerInv, [Next]_vars PROVE ServerInv'
<1>1. CASE UNCHANGED vars
  BY <1>1, StandsStill DEF vars
<1>2. ASSUME NEW c \in Conns, Read(c) \/ ReadInvalid(c) \/ Disconnect(c) PROVE ServerInv'
  <2>1. CASE Disconnect(c)
    BY <2>1, StandsStill DEF Disconnect
  <2> QED
    BY <1>2, <2>1, ReadKeeps, GivesUpKeeps
<1>3. ASSUME NEW c \in Conns, ReaderRuns(c) PROVE ServerInv'
  BY <1>3, GivesUpKeeps, AnswerKeeps, IgnoreKeeps, ExitKeeps, UpdateKeeps, PublishKeeps, PublishedKeeps,
     HoverInlineKeeps, QueueHoverKeeps, NotifyOneKeeps, RespondKeeps, WaitUntilFinishedKeeps, JoinKeeps
     DEF ReaderRuns
<1>4. ASSUME NEW c \in Conns, NEW i \in DOMAIN pool[c].threads, ThreadRuns(c, i) PROVE ServerInv'
  BY <1>4, TakeKeeps, ComputeKeeps, SendResponseKeeps DEF ThreadRuns
<1> QED
  BY <1>1, <1>2, <1>3, <1>4 DEF Next

\* The inductive invariant of the server: where every message that asks for an
\* answer is, from its reader or its thread to the connection it came on.
THEOREM ServerInvariant == Spec => []ServerInv
  BY InitKeeps, NextKeeps, PTL DEF Spec

\* No message gets two answers and no notification gets one; a hover over a
\* document its client had opened finds it, whichever thread computes it.
THEOREM AnswersAreSound == Spec => []AnswersSound
<1>1. ASSUME ServerInv PROVE AnswersSound
  <2> SUFFICES ASSUME NEW c \in Conns, NEW id \in DOMAIN answers[c], answers[c][id] # <<>>
               PROVE  /\ id <= Len(asked[c]) /\ asked[c][id].request /\ Len(answers[c][id]) = 1
                      /\ asked[c][id].open => answers[c][id][1] = "hover"
    BY DEF AnswersSound
  <2>1. Given(reader[c], asked[c], answers[c]) /\ Pending(reader[c], asked[c], DOMAIN mine[c], DOMAIN documents)
    BY <1>1, Mine DEF Conn
  <2>2. /\ id \in 1 .. HandedOver(reader[c], asked[c]) /\ asked[c][id].request /\ Len(answers[c][id]) = 1
        /\ asked[c][id].open => answers[c][id][1] = "hover"
    BY <2>1 DEF Given
  <2>3. HandedOver(reader[c], asked[c]) <= Len(asked[c]) /\ HandedOver(reader[c], asked[c]) \in Int
        /\ Len(asked[c]) \in Nat
    <3>1. /\ reader[c].todo \in Seq(Messages) /\ reader[c].next \in Nat /\ asked[c] \in Seq(AskedMessages)
          /\ reader[c].at \in Outside \cup Handling
      BY <1>1, Mine, ReaderFields
    <3>2. PICK a, n, m : a = Len(asked[c]) /\ n = reader[c].next /\ m = Len(reader[c].todo)
      OBVIOUS
    <3>3. a \in Nat /\ n \in Nat /\ m \in Nat /\ (reader[c].at = "notify" => m > 0)
      <4>1. reader[c].at = "notify" => reader[c].todo # <<>>
        BY <2>1 DEF Pending
      <4> QED
        BY <3>1, <3>2, <4>1
    <3>4. reader[c].at \in Handling => n + m = a + 1
      BY <2>1, <3>2 DEF Pending
    <3>5. HandedOver(reader[c], asked[c]) = IF reader[c].at \in Outside THEN a ELSE IF reader[c].at = "notify" THEN n ELSE n - 1
      BY <3>2 DEF HandedOver
    <3>6. CASE reader[c].at \in Outside
      BY ONLY <3>2, <3>3, <3>5, <3>6
    <3>7. CASE reader[c].at \notin Outside /\ reader[c].at = "notify"
      <4>1. n <= a
        BY ONLY <3>1, <3>3, <3>4, <3>7
      <4> QED
        BY ONLY <3>2, <3>3, <3>5, <3>7, <4>1
    <3>8. CASE reader[c].at \notin Outside /\ reader[c].at # "notify"
      <4>1. n - 1 <= a /\ n - 1 \in Int
        BY ONLY <3>1, <3>3, <3>4, <3>8
      <4> QED
        BY ONLY <3>2, <3>3, <3>5, <3>8, <4>1
    <3> QED
      BY <3>6, <3>7, <3>8
  <2>4. id <= Len(asked[c])
    <3>1. PICK h, a : h = HandedOver(reader[c], asked[c]) /\ a = Len(asked[c])
      OBVIOUS
    <3> QED
      BY ONLY <2>2, <2>3, <3>1
  <2> QED
    BY <2>2, <2>4
<1> QED
  BY <1>1, ServerInvariant, PTL

-----------------------------------------------------------------------------
(* Positions                                                               *)

\* The line of an offset: the line breaks before it.
LEMMA Lines ==
    ASSUME NEW text
    PROVE  /\ \A n \in Nat : LineOf(text, n) \in Nat
           /\ LineOf(text, 0) = 0
           /\ \A n \in Nat : LineOf(text, n + 1) = IF text[n + 1] = Newline THEN LineOf(text, n) + 1 ELSE LineOf(text, n)
           /\ \A n, k \in Nat : k <= n => LineOf(text, k) <= LineOf(text, n)
<1> DEFINE breaks(n) == {i \in 1 .. n : text[i] = Newline}
<1>1. ASSUME NEW n \in Nat PROVE IsFiniteSet(breaks(n)) /\ Cardinality(breaks(n)) \in Nat
  <2>1. IsFiniteSet(1 .. n) /\ breaks(n) \in SUBSET (1 .. n)
    BY FS_Interval
  <2> QED
    BY <2>1, FS_Subset, FS_CardinalityType
<1>2. LineOf(text, 0) = 0
  <2>1. breaks(0) = {}
    OBVIOUS
  <2> QED
    BY <2>1, FS_EmptySet DEF LineOf
<1>3. ASSUME NEW n \in Nat
      PROVE  LineOf(text, n + 1) = IF text[n + 1] = Newline THEN LineOf(text, n) + 1 ELSE LineOf(text, n)
  <2>1. 1 .. n + 1 = (1 .. n) \cup {n + 1} /\ n + 1 \notin 1 .. n
    OBVIOUS
  <2>2. CASE text[n + 1] = Newline
    <3>1. breaks(n + 1) = breaks(n) \cup {n + 1} /\ n + 1 \notin breaks(n)
      BY <2>1, <2>2
    <3>2. Cardinality(breaks(n) \cup {n + 1}) = Cardinality(breaks(n)) + 1
      <4> HIDE DEF breaks
      <4> QED
        BY <1>1, <3>1, FS_AddElement
    <3> QED
      BY <2>2, <3>1, <3>2 DEF LineOf
  <2>3. CASE text[n + 1] # Newline
    <3>1. breaks(n + 1) = breaks(n)
      BY <2>1, <2>3
    <3> QED
      BY <2>3, <3>1 DEF LineOf
  <2> QED
    BY <2>2, <2>3
<1>4. ASSUME NEW n \in Nat, NEW k \in Nat, k <= n PROVE LineOf(text, k) <= LineOf(text, n)
  <2>1. breaks(k) \in SUBSET breaks(n)
    BY <1>4
  <2>2. Cardinality(breaks(k)) <= Cardinality(breaks(n))
    <3> HIDE DEF breaks
    <3> QED
      BY <1>1, <2>1, FS_Subset
  <2> QED
    BY <2>2 DEF LineOf
<1> QED
  BY <1>1, <1>2, <1>3, <1>4 DEF LineOf

\* The offset the editor takes a position for is the last on its line that is
\* not too far from the start of the line.
LEMMA EditorOffsetIs ==
    ASSUME NEW text, Len(text) \in Nat, NEW position \in [line : Nat, character : Nat],
           NEW start \in 0 .. Len(text), LineOf(text, start) = position.line,
           \A p \in 0 .. Len(text) : LineOf(text, p) = position.line => start <= p,
           NEW o \in 0 .. Len(text), LineOf(text, o) = position.line, o <= start + position.character,
           \A p \in 0 .. Len(text) :
             LineOf(text, p) = position.line /\ p <= start + position.character => p <= o
    PROVE  EditorOffset(text, position) = o
<1> DEFINE onLine == {p \in 0 .. Len(text) : LineOf(text, p) = position.line}
           near == {p \in onLine : p <= start + position.character}
<1>1. Min(onLine) = start
  <2>1. start \in onLine /\ \A p \in onLine : start <= p
    OBVIOUS
  <2>2. \A x \in onLine : (\A p \in onLine : x <= p) => x = start
    BY <2>1
  <2> HIDE DEF onLine
  <2> QED
    BY <2>1, <2>2 DEF Min
<1>2. Max(near) = o
  <2>1. o \in near /\ \A p \in near : o >= p
    OBVIOUS
  <2>2. \A x \in near : (\A p \in near : x >= p) => x = o
    BY <2>1
  <2> HIDE DEF near
  <2> QED
    BY <2>1, <2>2 DEF Max
<1>3. onLine # {}
  OBVIOUS
<1>4. EditorOffset(text, position) = Max(near)
  <2>1. EditorOffset(text, position) =
          IF onLine = {} THEN Len(text) ELSE Max({p \in onLine : p <= Min(onLine) + position.character})
    BY DEF EditorOffset
  <2> HIDE DEF onLine
  <2> QED
    BY <1>1, <1>3, <2>1
<1> QED
  BY <1>2, <1>4

\* Where the server is in a text.
Offsets == [offset : Nat, line : Nat, character : Nat, found : BOOLEAN]
Start == [offset |-> 0, line |-> 0, character |-> 0, found |-> FALSE]

\* One character further, field by field.
LEMMA OneStep ==
    ASSUME NEW at \in Offsets, NEW position \in [line : Nat, character : Nat], NEW char
    PROVE  LET next == OffsetStep(position, at, char) IN
           /\ next \in Offsets
           /\ at.found => next = at
           /\ ~at.found /\ at.line < position.line =>
                /\ ~next.found /\ next.offset = at.offset + 1 /\ next.character = at.character
                /\ next.line = IF char = Newline THEN at.line + 1 ELSE at.line
           /\ ~at.found /\ ~(at.line < position.line) /\ at.character < position.character /\ char # Newline =>
                /\ ~next.found /\ next.offset = at.offset + 1 /\ next.character = at.character + 1
                /\ next.line = at.line
           /\ ~at.found /\ ~(at.line < position.line) /\ ~(at.character < position.character /\ char # Newline) =>
                next.found /\ next.offset = at.offset
<1> DEFINE next == OffsetStep(position, at, char)
<1>1. at.offset \in Nat /\ at.line \in Nat /\ at.character \in Nat /\ at.found \in BOOLEAN
  BY DEF Offsets
<1>2. at.offset + 1 \in Nat /\ at.line + 1 \in Nat /\ at.character + 1 \in Nat
  BY <1>1
<1>3. CASE at.found
  BY <1>3 DEF OffsetStep
<1>4. CASE ~at.found /\ at.line < position.line
  <2> DEFINE line == IF char = Newline THEN at.line + 1 ELSE at.line
  <2>1. next = [at EXCEPT !.offset = at.offset + 1, !.line = line]
    BY <1>4 DEF OffsetStep
  <2>2. line \in Nat
    BY <1>1, <1>2
  <2> HIDE DEF line
  <2>3. next \in Offsets /\ ~next.found /\ next.offset = at.offset + 1 /\ next.character = at.character /\ next.line = line
    BY <1>1, <1>2, <1>4, <2>1, <2>2 DEF Offsets
  <2> QED
    BY <1>4, <2>3 DEF line
<1>5. CASE ~at.found /\ ~(at.line < position.line) /\ at.character < position.character /\ char # Newline
  <2>1. next = [at EXCEPT !.offset = at.offset + 1, !.character = at.character + 1]
    BY <1>5 DEF OffsetStep
  <2>2. /\ next \in Offsets /\ ~next.found /\ next.offset = at.offset + 1 /\ next.character = at.character + 1
        /\ next.line = at.line
    BY <1>1, <1>2, <1>5, <2>1 DEF Offsets
  <2> QED
    BY <1>5, <2>2
<1>6. CASE ~at.found /\ ~(at.line < position.line) /\ ~(at.character < position.character /\ char # Newline)
  <2>1. next = [at EXCEPT !.found = TRUE]
    BY <1>6 DEF OffsetStep
  <2>2. next \in Offsets /\ next.found /\ next.offset = at.offset
    BY <1>1, <2>1 DEF Offsets
  <2> QED
    BY <1>6, <2>2
<1> QED
  BY <1>3, <1>4, <1>5, <1>6

\* OffsetFromPosition walks over the characters of the text.
LEMMA Walk ==
    ASSUME NEW text, Len(text) \in Nat, NEW position \in [line : Nat, character : Nat]
    PROVE  \E at \in [0 .. Len(text) -> Offsets] :
             /\ at[0] = Start
             /\ \A n \in 0 .. Len(text) - 1 : at[n + 1] = OffsetStep(position, at[n], text[n + 1])
             /\ OffsetFromPosition(text, position) = at[Len(text)].offset
<1> DEFINE m == Len(text)
           step == [n \in 0 .. m - 1 |-> [x \in Offsets |-> OffsetStep(position, x, text[n + 1])]]
           Solves(g) == g = [n \in 0 .. m |-> IF n = 0 THEN Start ELSE OffsetStep(position, g[n - 1], text[n])]
<1>1. ASSUME NEW x \in Offsets, NEW char PROVE OffsetStep(position, x, char) \in Offsets
  BY OneStep
<1>2. step \in [0 .. m - 1 -> [Offsets -> Offsets]]
  BY <1>1
<1>3. \E g : Solves(g)
  <2>1. Start \in Offsets
    BY DEF Start, Offsets
  <2> HIDE DEF step
  <2>2. PICK g : IteratesTo(g, Offsets, m, Start, step)
    BY <1>2, <2>1, FiniteRecursion
  <2>3. g \in [0 .. m -> Offsets] /\ g[0] = Start /\ \A n \in 0 .. m - 1 : g[n + 1] = step[n][g[n]]
    BY <2>2 DEF IteratesTo
  <2>4. ASSUME NEW n \in 0 .. m PROVE g[n] = IF n = 0 THEN Start ELSE OffsetStep(position, g[n - 1], text[n])
    <3>1. CASE n = 0
      BY <2>3, <3>1
    <3>2. CASE n # 0
      <4>1. n - 1 \in 0 .. m - 1 /\ (n - 1) + 1 = n /\ n - 1 \in 0 .. m
        BY <3>2
      <4>2. g[n] = step[n - 1][g[n - 1]] /\ g[n - 1] \in Offsets
        BY <2>3, <4>1
      <4>3. step[n - 1][g[n - 1]] = OffsetStep(position, g[n - 1], text[(n - 1) + 1])
        BY <4>1, <4>2 DEF step
      <4> QED
        BY <3>2, <4>1, <4>2, <4>3
    <3> QED
      BY <3>1, <3>2
  <2> QED
    BY <2>3, <2>4
<1> DEFINE at == CHOOSE g : Solves(g)
<1>4. Solves(at)
  BY <1>3
<1>5. OffsetFromPosition(text, position) = at[m].offset
  BY DEF OffsetFromPosition, Start
<1> HIDE DEF at
<1>6. at[0] = Start
  BY <1>4
<1>7. ASSUME NEW n \in 0 .. m - 1 PROVE at[n + 1] = OffsetStep(position, at[n], text[n + 1])
  <2>1. n + 1 \in 0 .. m /\ n + 1 # 0 /\ (n + 1) - 1 = n
    OBVIOUS
  <2> QED
    BY <1>4, <2>1
<1>8. \A n \in Nat : n \in 0 .. m => at[n] \in Offsets
  <2> DEFINE S == {n \in Nat : n \in 0 .. m => at[n] \in Offsets}
  <2>1. 0 \in S
    <3>1. Start \in Offsets
      BY DEF Start, Offsets
    <3> QED
      BY <1>6, <3>1
  <2>2. ASSUME NEW n \in S PROVE n + 1 \in S
    <3> SUFFICES ASSUME n + 1 \in 0 .. m PROVE at[n + 1] \in Offsets
      OBVIOUS
    <3>1. n \in 0 .. m /\ n \in 0 .. m - 1
      OBVIOUS
    <3> QED
      BY <1>1, <1>7, <3>1
  <2> HIDE DEF S
  <2>3. S = Nat
    BY <2>1, <2>2, NatSet DEF S
  <2> QED
    BY <2>3 DEF S
<1>9. at \in [0 .. m -> Offsets]
  <2>1. \A n \in 0 .. m : at[n] \in Offsets
    BY <1>8
  <2>2. at = [n \in 0 .. m |-> at[n]]
    BY <1>4
  <2> QED
    BY <2>1, <2>2
<1> QED
  BY <1>5, <1>6, <1>7, <1>9

\* After n characters: the position is found, or it is at n or further on.
Reached(text, position, n, at) ==
    IF at.found THEN at.offset = EditorOffset(text, position) /\ at.offset \in 0 .. Len(text)
    ELSE /\ at.offset = n /\ at.line = LineOf(text, n) /\ at.line <= position.line
         /\ at.line < position.line => at.character = 0
         /\ at.line = position.line =>
              /\ at.character <= position.character /\ at.character <= n
              /\ LineOf(text, n - at.character) = position.line
              /\ \A p \in 0 .. Len(text) : LineOf(text, p) = position.line => n - at.character <= p

\* On the line of the position.
LEMMA ReachedOnLine ==
    ASSUME NEW text, NEW position, NEW k, NEW at, NEW start, start = k - at.character,
           ~at.found, at.offset = k, at.line = LineOf(text, k),
           at.line = position.line, ~(at.line < position.line), at.line <= position.line,
           at.character <= position.character, at.character <= k,
           LineOf(text, start) = position.line,
           \A p \in 0 .. Len(text) : LineOf(text, p) = position.line => start <= p
    PROVE  Reached(text, position, k, at)
  BY DEF Reached

\* The next character keeps it so.
LEMMA Reaches ==
    ASSUME NEW text, Len(text) \in Nat, NEW position \in [line : Nat, character : Nat],
           NEW n \in 0 .. Len(text) - 1, NEW at \in Offsets, Reached(text, position, n, at)
    PROVE  Reached(text, position, n + 1, OffsetStep(position, at, text[n + 1]))
<1> DEFINE next == OffsetStep(position, at, text[n + 1])
           m == Len(text)
           line == position.line
           L(p) == LineOf(text, p)
<1>1. at.offset \in Nat /\ at.line \in Nat /\ at.character \in Nat /\ at.found \in BOOLEAN
      /\ line \in Nat /\ position.character \in Nat
  BY DEF Offsets
<1>2. CASE at.found
  <2>1. next = at
    BY <1>2, OneStep
  <2> QED
    BY <1>2, <2>1 DEF Reached
<1>3. ASSUME ~at.found
      PROVE  /\ at.offset = n /\ at.line = L(n) /\ at.line <= line
             /\ at.line < line => at.character = 0
             /\ at.line = line =>
                  /\ at.character <= position.character /\ at.character <= n
                  /\ L(n - at.character) = line
                  /\ \A p \in 0 .. m : L(p) = line => n - at.character <= p
  BY <1>3 DEF Reached
<1>4. L(n + 1) = IF text[n + 1] = Newline THEN L(n) + 1 ELSE L(n)
  BY Lines
<1>5. \A p, k \in 0 .. m : L(p) \in Nat /\ (p <= k => L(p) <= L(k))
  <2> SUFFICES ASSUME NEW p \in 0 .. m, NEW k \in 0 .. m PROVE L(p) \in Nat /\ (p <= k => L(p) <= L(k))
    OBVIOUS
  <2>1. p \in Nat /\ k \in Nat
    OBVIOUS
  <2> QED
    BY ONLY <2>1, Lines
<1> HIDE DEF L
<1>6. CASE ~at.found /\ at.line < line
  <2>1. /\ ~next.found /\ next.offset = at.offset + 1 /\ next.character = at.character
        /\ next.line = IF text[n + 1] = Newline THEN at.line + 1 ELSE at.line
    BY <1>6, OneStep
  <2>2. next.offset = n + 1 /\ next.line = L(n + 1) /\ next.line <= line /\ next.character = 0
    BY <1>1, <1>3, <1>4, <1>6, <2>1
  <2>3. ASSUME NEW p \in 0 .. m, L(p) = line PROVE n + 1 <= p
    <3>1. n \in 0 .. m /\ (p <= n => L(p) <= L(n)) /\ L(n) < line /\ L(n) \in Nat
      BY <1>3, <1>5, <1>6
    <3> QED
      BY <1>1, <2>3, <3>1
  <2>4. next.line = line => L((n + 1) - next.character) = line
    BY <2>2
  <2> HIDE DEF next
  <2>5. n + 1 - next.character = n + 1 /\ next.character <= position.character /\ next.character <= n + 1
    BY <1>1, <2>2
  <2>6. Reached(text, position, n + 1, next)
    BY <2>1, <2>2, <2>3, <2>4, <2>5 DEF Reached, L
  <2> QED
    BY <2>6 DEF next
<1>7. CASE ~at.found /\ ~(at.line < line) /\ at.character < position.character /\ text[n + 1] # Newline
  <2>1. /\ ~next.found /\ next.offset = at.offset + 1 /\ next.character = at.character + 1
        /\ next.line = at.line
    BY <1>7, OneStep
  <2>2. at.line = line
    BY <1>1, <1>3, <1>7
  <2>3. next.offset = n + 1 /\ next.line = L(n + 1) /\ next.line = line
    BY <1>3, <1>4, <1>7, <2>1, <2>2
  <2>4. next.character <= position.character /\ next.character <= n + 1
    BY <1>1, <1>3, <1>7, <2>1, <2>2
  <2> HIDE DEF next
  <2>5. L(n - at.character) = line /\ \A p \in 0 .. m : L(p) = line => n - at.character <= p
    BY <1>3, <1>7, <2>2
  <2>6. PICK start : start = n - at.character
    OBVIOUS
  <2>7. PICK k : k = n + 1
    OBVIOUS
  <2>8. Reached(text, position, k, next)
    <3>1. /\ ~next.found /\ next.offset = k /\ next.line = LineOf(text, k)
          /\ next.line = position.line /\ position.line \in Nat
      BY <1>1, <2>1, <2>3, <2>7 DEF L
    <3>2. ~(next.line < position.line) /\ next.line <= position.line
      BY ONLY <3>1
    <3>3. /\ LineOf(text, start) = position.line
          /\ \A p \in 0 .. Len(text) : LineOf(text, p) = position.line => start <= p
      BY ONLY <2>5, <2>6 DEF L
    <3>4. start = k - next.character
      <4>1. n \in Nat /\ at.character \in Nat /\ next.character = at.character + 1
        BY <1>1, <2>1
      <4> QED
        BY ONLY <2>6, <2>7, <4>1
    <3>5. next.character <= position.character /\ next.character <= k
      BY ONLY <2>4, <2>7
    <3> QED
      BY ONLY <3>1, <3>2, <3>3, <3>4, <3>5, ReachedOnLine
  <2>9. Reached(text, position, n + 1, next)
    BY ONLY <2>7, <2>8
  <2> QED
    BY <2>9 DEF next
<1>8. CASE ~at.found /\ ~(at.line < line) /\ ~(at.character < position.character /\ text[n + 1] # Newline)
  <2>1. next.found /\ next.offset = at.offset
    BY <1>8, OneStep
  <2>2. at.line = line
    BY <1>1, <1>3, <1>8
  <2> DEFINE start == n - at.character
  <2>3. /\ start \in 0 .. m /\ L(start) = line /\ \A p \in 0 .. m : L(p) = line => start <= p
        /\ n \in 0 .. m /\ L(n) = line /\ n <= start + position.character
    BY <1>1, <1>3, <1>8, <2>2
  <2>4. ASSUME NEW p \in 0 .. m, L(p) = line, p <= start + position.character PROVE p <= n
    <3>1. CASE text[n + 1] = Newline
      <4>1. n + 1 \in 0 .. m /\ L(n + 1) = line + 1 /\ (n + 1 <= p => L(n + 1) <= L(p))
        BY <1>4, <1>5, <2>3, <3>1
      <4> QED
        BY <1>1, <2>4, <4>1
    <3>2. CASE text[n + 1] # Newline
      <4>1. at.character = position.character
        BY <1>1, <1>3, <1>8, <2>2, <3>2
      <4> QED
        BY <1>1, <2>4, <4>1
    <3> QED
      BY <3>1, <3>2
  <2> HIDE DEF start
  <2>5. EditorOffset(text, position) = n
    BY <2>3, <2>4, EditorOffsetIs DEF L
  <2>6. Reached(text, position, n + 1, next)
    BY <1>3, <1>8, <2>1, <2>5 DEF Reached
  <2> QED
    BY <2>6
<1> QED
  BY <1>1, <1>2, <1>6, <1>7, <1>8

\* The server and the editor mean the same place in a text by a position.
LEMMA OffsetsAgree ==
    ASSUME NEW text, Len(text) \in Nat, NEW position \in [line : Nat, character : Nat]
    PROVE  /\ OffsetFromPosition(text, position) = EditorOffset(text, position)
           /\ OffsetFromPosition(text, position) \in 0 .. Len(text)
<1> DEFINE m == Len(text)
<1>1. PICK at \in [0 .. m -> Offsets] :
        /\ at[0] = Start
        /\ \A n \in 0 .. m - 1 : at[n + 1] = OffsetStep(position, at[n], text[n + 1])
        /\ OffsetFromPosition(text, position) = at[m].offset
  BY Walk
<1>2. \A n \in Nat : n \in 0 .. m => Reached(text, position, n, at[n])
  <2> DEFINE S == {n \in Nat : n \in 0 .. m => Reached(text, position, n, at[n])}
  <2>1. 0 \in S
    <3>1. LineOf(text, 0) = 0 /\ \A p \in 0 .. m : p \in Nat /\ LineOf(text, p) \in Nat
      <4>1. LineOf(text, 0) = 0 /\ \A p \in Nat : LineOf(text, p) \in Nat
        BY ONLY Lines
      <4> QED
        BY <4>1
    <3>2. Start.offset = 0 /\ Start.line = 0 /\ Start.character = 0 /\ ~Start.found /\ 0 - 0 = 0
      BY DEF Start
    <3>3. position.line \in Nat /\ position.character \in Nat
      OBVIOUS
    <3>4. Reached(text, position, 0, Start)
      BY <3>1, <3>2, <3>3 DEF Reached
    <3> QED
      BY <1>1, <3>4
  <2>2. ASSUME NEW n \in S PROVE n + 1 \in S
    <3> SUFFICES ASSUME n + 1 \in 0 .. m PROVE Reached(text, position, n + 1, at[n + 1])
      OBVIOUS
    <3>1. n \in 0 .. m /\ n \in 0 .. m - 1
      OBVIOUS
    <3>2. Reached(text, position, n, at[n]) /\ at[n] \in Offsets
      BY <1>1, <3>1
    <3> QED
      BY <1>1, <3>1, <3>2, Reaches
  <2> HIDE DEF S
  <2>3. S = Nat
    BY <2>1, <2>2, NatSet DEF S
  <2> QED
    BY <2>3 DEF S
<1>3. Reached(text, position, m, at[m]) /\ at[m] \in Offsets
  <2>1. m \in Nat /\ m \in 0 .. m
    OBVIOUS
  <2> QED
    BY <1>1, <1>2, <2>1
<1>4. at[m].offset \in Nat /\ at[m].character \in Nat /\ at[m].line \in Nat
      /\ position.line \in Nat /\ position.character \in Nat
  BY <1>3 DEF Offsets
<1>5. CASE at[m].found
  BY <1>1, <1>3, <1>4, <1>5 DEF Reached
<1>6. CASE ~at[m].found /\ at[m].line < position.line
  <2>1. at[m].offset = m /\ LineOf(text, m) < position.line
    BY <1>3, <1>6 DEF Reached
  <2>2. \A p \in 0 .. m : LineOf(text, p) \in Nat /\ LineOf(text, m) \in Nat /\ LineOf(text, p) <= LineOf(text, m)
    <3>1. m \in Nat /\ \A p \in 0 .. m : p \in Nat /\ p <= m
      OBVIOUS
    <3>2. \A p, k \in Nat : LineOf(text, p) \in Nat /\ (k <= p => LineOf(text, k) <= LineOf(text, p))
      BY ONLY Lines
    <3> HIDE DEF m
    <3> QED
      BY <3>1, <3>2
  <2>3. {p \in 0 .. m : LineOf(text, p) = position.line} = {}
    BY <1>4, <2>1, <2>2
  <2>4. EditorOffset(text, position) = m
    BY <2>3 DEF EditorOffset
  <2> QED
    BY <1>1, <1>4, <2>1, <2>4
<1>7. CASE ~at[m].found /\ ~(at[m].line < position.line)
  <2> DEFINE start == m - at[m].character
  <2>1. /\ at[m].offset = m /\ LineOf(text, m) = position.line /\ at[m].character <= position.character
        /\ at[m].character <= m /\ LineOf(text, start) = position.line
        /\ \A p \in 0 .. m : LineOf(text, p) = position.line => start <= p
    BY <1>3, <1>4, <1>7 DEF Reached
  <2>2. start \in 0 .. m /\ m <= start + position.character /\ m \in 0 .. m /\ \A p \in 0 .. m : p <= m
    BY <1>4, <2>1
  <2> HIDE DEF start
  <2>3. EditorOffset(text, position) = m
    BY <2>1, <2>2, EditorOffsetIs
  <2> QED
    BY <1>1, <1>4, <2>1, <2>3
<1> QED
  BY <1>4, <1>5, <1>6, <1>7

-----------------------------------------------------------------------------
(* Edits                                                                   *)

EditsOfDocuments == Texts \cup Ranges
TextSet == Seq(Characters)
HeldTexts == {<<>>} \cup {<<text>> : text \in TextSet}

\* The fields of an edit.
LEMMA EditFields ==
    ASSUME NEW change \in EditsOfDocuments
    PROVE  /\ change.text \in TextSet
           /\ change.kind = "text" \/
                /\ change.kind = "range"
                /\ change.from \in [line : Nat, character : Nat] /\ change.to \in [line : Nat, character : Nat]
<1>1. CASE change \in Texts
  BY <1>1, TextAssumption DEF Texts, TextSet
<1>2. CASE change \in Ranges
  <2>1. PICK pq \in Positions \X Positions, text \in Inserted :
          change = [kind |-> "range", from |-> pq[1], to |-> pq[2], text |-> text]
    BY <1>2 DEF Ranges
  <2>2. pq[1] \in [line : Nat, character : Nat] /\ pq[2] \in [line : Nat, character : Nat]
    BY PositionAssumption
  <2>3. change.kind = "range" /\ change.from = pq[1] /\ change.to = pq[2] /\ change.text = text
    BY <2>1
  <2> QED
    BY <2>2, <2>3, TextAssumption DEF TextSet
<1> QED
  BY <1>1, <1>2 DEF EditsOfDocuments

\* An edit makes a text of a text, and the server makes the same as the editor.
LEMMA OneEdit ==
    ASSUME NEW text \in TextSet, NEW change \in EditsOfDocuments
    PROVE  EditStep(text, change) \in TextSet /\ ChangeStep(<<text>>, change) = <<EditStep(text, change)>>
<1>1. Len(text) \in Nat /\ change.text \in TextSet
  BY EditFields, LenProperties DEF TextSet
<1>2. CASE change.kind = "text"
  BY <1>1, <1>2 DEF EditStep, ChangeStep
<1>3. CASE change.kind # "text"
  <2>1. change.from \in [line : Nat, character : Nat] /\ change.to \in [line : Nat, character : Nat]
    BY <1>3, EditFields
  <2> DEFINE a == EditorOffset(text, change.from)
             b == EditorOffset(text, change.to)
  <2>2. /\ OffsetFromPosition(text, change.from) = a /\ OffsetFromPosition(text, change.to) = b
        /\ a \in 0 .. Len(text) /\ b \in 0 .. Len(text)
    BY <1>1, <2>1, OffsetsAgree
  <2>3. ChangeStep(<<text>>, change) = <<EditStep(text, change)>>
    <3>1. <<text>> # <<>> /\ <<text>>[1] = text
      OBVIOUS
    <3>2. ChangeStep(<<text>>, change) = <<ApplyContentChange(text, change)>>
      BY <1>3, <3>1 DEF ChangeStep
    <3>3. ApplyContentChange(text, change) = EditStep(text, change)
      BY <1>3, <2>2 DEF ApplyContentChange, EditStep
    <3> QED
      BY <3>2, <3>3
  <2>4. EditStep(text, change) = SubSeq(text, 1, a) \o change.text \o SubSeq(text, b + 1, Len(text))
    BY <1>3 DEF EditStep
  <2> HIDE DEF a, b
  <2>5. SubSeq(text, 1, a) \in TextSet /\ SubSeq(text, b + 1, Len(text)) \in TextSet
    <3>1. text \in Seq(Characters) /\ a \in Nat /\ a <= Len(text) /\ b \in Nat
      BY <1>1, <2>2 DEF TextSet
    <3>2. \A i \in 1 .. a : text[i] \in Characters
      BY <1>1, <3>1, ElementOfSeq
    <3>3. \A i \in b + 1 .. Len(text) : text[i] \in Characters
      BY <1>1, <3>1, ElementOfSeq
    <3>4. SubSeq(text, 1, a) \in Seq(Characters)
      BY <3>1, <3>2, SubSeqProperties
    <3>5. SubSeq(text, b + 1, Len(text)) \in Seq(Characters)
      BY <1>1, <3>1, <3>3, SubSeqProperties
    <3> QED
      BY <3>4, <3>5 DEF TextSet
  <2>6. SubSeq(text, 1, a) \o change.text \o SubSeq(text, b + 1, Len(text)) \in TextSet
    BY <1>1, <2>5, ConcatProperties DEF TextSet
  <2> QED
    BY <2>3, <2>4, <2>6
<1> QED
  BY <1>2, <1>3

\* Edited goes through the edits.
LEMMA EditedSteps ==
    ASSUME NEW text \in TextSet, NEW changes \in Seq(EditsOfDocuments)
    PROVE  \E g \in [0 .. Len(changes) -> TextSet] :
             /\ g[0] = text
             /\ \A n \in 0 .. Len(changes) - 1 : g[n + 1] = EditStep(g[n], changes[n + 1])
             /\ Edited(text, changes) = g[Len(changes)]
<1> DEFINE m == Len(changes)
           step == [n \in 0 .. m - 1 |-> [x \in TextSet |-> EditStep(x, changes[n + 1])]]
           Solves(g) == g = [n \in 0 .. m |-> IF n = 0 THEN text ELSE EditStep(g[n - 1], changes[n])]
<1>1. m \in Nat /\ \A n \in 0 .. m - 1 : changes[n + 1] \in EditsOfDocuments
  <2>1. m \in Nat /\ \A n \in 1 .. m : changes[n] \in EditsOfDocuments
    BY LenProperties, ElementOfSeq
  <2> HIDE DEF m
  <2>2. \A n \in 0 .. m - 1 : n + 1 \in 1 .. m
    BY <2>1
  <2> QED
    BY <2>1, <2>2
<1> HIDE DEF m
<1>2. ASSUME NEW x \in TextSet, NEW n \in 0 .. m - 1 PROVE EditStep(x, changes[n + 1]) \in TextSet
  BY <1>1, OneEdit
<1>3. step \in [0 .. m - 1 -> [TextSet -> TextSet]]
  BY <1>2
<1>4. \E g : Solves(g)
  <2> HIDE DEF step
  <2>2. PICK g : IteratesTo(g, TextSet, m, text, step)
    BY <1>1, <1>3, FiniteRecursion
  <2>3. g \in [0 .. m -> TextSet] /\ g[0] = text /\ \A n \in 0 .. m - 1 : g[n + 1] = step[n][g[n]]
    BY <2>2 DEF IteratesTo
  <2>4. ASSUME NEW n \in 0 .. m PROVE g[n] = IF n = 0 THEN text ELSE EditStep(g[n - 1], changes[n])
    <3>1. CASE n = 0
      BY <2>3, <3>1
    <3>2. CASE n # 0
      <4>1. n - 1 \in 0 .. m - 1 /\ (n - 1) + 1 = n /\ n - 1 \in 0 .. m
        BY <1>1, <3>2
      <4>2. g[n] = step[n - 1][g[n - 1]] /\ g[n - 1] \in TextSet
        BY <2>3, <4>1
      <4>3. step[n - 1][g[n - 1]] = EditStep(g[n - 1], changes[(n - 1) + 1])
        BY <4>1, <4>2 DEF step
      <4> QED
        BY <3>2, <4>1, <4>2, <4>3
    <3> QED
      BY <3>1, <3>2
  <2> QED
    BY <2>3, <2>4
<1> DEFINE after == CHOOSE g : Solves(g)
<1>5. Solves(after)
  BY <1>4
<1>6. Edited(text, changes) = after[m]
  BY DEF Edited, m
<1> HIDE DEF after
<1>7. after[0] = text
  BY <1>1, <1>5
<1>8. ASSUME NEW n \in 0 .. m - 1 PROVE after[n + 1] = EditStep(after[n], changes[n + 1])
  <2>1. n + 1 \in 0 .. m /\ n + 1 # 0 /\ (n + 1) - 1 = n
    BY <1>1
  <2> QED
    BY <1>5, <2>1
<1>9. \A n \in Nat : n \in 0 .. m => after[n] \in TextSet
  <2> DEFINE S == {n \in Nat : n \in 0 .. m => after[n] \in TextSet}
  <2>1. 0 \in S
    BY <1>7
  <2>2. ASSUME NEW n \in S PROVE n + 1 \in S
    <3> SUFFICES ASSUME n + 1 \in 0 .. m PROVE after[n + 1] \in TextSet
      OBVIOUS
    <3>1. n \in 0 .. m /\ n \in 0 .. m - 1
      BY <1>1
    <3> QED
      BY <1>2, <1>8, <3>1
  <2> HIDE DEF S
  <2>3. S = Nat
    BY <2>1, <2>2, NatSet DEF S
  <2> QED
    BY <2>3 DEF S
<1>10. after \in [0 .. m -> TextSet]
  <2>1. \A n \in 0 .. m : after[n] \in TextSet
    BY <1>1, <1>9
  <2>2. after = [n \in 0 .. m |-> after[n]]
    BY <1>5
  <2> QED
    BY <2>1, <2>2
<1> QED
  BY <1>6, <1>7, <1>8, <1>10 DEF m

\* The server's text of an open document goes through the same texts.
LEMMA EditsAgree ==
    ASSUME NEW text \in TextSet, NEW changes \in Seq(EditsOfDocuments)
    PROVE  Edited(text, changes) \in TextSet /\ HeldAfter(<<text>>, changes) = <<Edited(text, changes)>>
<1> DEFINE m == Len(changes)
           Solves(g) == g = [n \in 0 .. m |-> IF n = 0 THEN <<text>> ELSE ChangeStep(g[n - 1], changes[n])]
<1>1. PICK e \in [0 .. m -> TextSet] :
        /\ e[0] = text
        /\ \A n \in 0 .. m - 1 : e[n + 1] = EditStep(e[n], changes[n + 1])
        /\ Edited(text, changes) = e[m]
  BY EditedSteps
<1>2. m \in Nat /\ \A n \in 0 .. m - 1 : changes[n + 1] \in EditsOfDocuments
  <2>1. m \in Nat /\ \A n \in 1 .. m : changes[n] \in EditsOfDocuments
    BY LenProperties, ElementOfSeq
  <2> HIDE DEF m
  <2>2. \A n \in 0 .. m - 1 : n + 1 \in 1 .. m
    BY <2>1
  <2> QED
    BY <2>1, <2>2
<1>3. HeldAfter(<<text>>, changes) = (CHOOSE g : Solves(g))[m]
  BY DEF HeldAfter
<1> HIDE DEF m
<1> DEFINE h == [n \in 0 .. m |-> <<e[n]>>]
<1>4. ASSUME NEW n \in 0 .. m - 1 PROVE ChangeStep(<<e[n]>>, changes[n + 1]) = <<e[n + 1]>>
  <2>1. n \in 0 .. m
    BY <1>2
  <2> QED
    BY <1>1, <1>2, <2>1, OneEdit
<1>5. Solves(h)
  <2>1. ASSUME NEW n \in 0 .. m PROVE <<e[n]>> = IF n = 0 THEN <<text>> ELSE ChangeStep(h[n - 1], changes[n])
    <3>1. CASE n = 0
      BY <1>1, <3>1
    <3>2. CASE n # 0
      <4>1. n - 1 \in 0 .. m - 1 /\ (n - 1) + 1 = n /\ n - 1 \in 0 .. m
        BY <1>2, <3>2
      <4>2. h[n - 1] = <<e[n - 1]>>
        BY <4>1
      <4>3. ChangeStep(<<e[n - 1]>>, changes[(n - 1) + 1]) = <<e[(n - 1) + 1]>>
        BY <1>4, <4>1
      <4> QED
        BY <3>2, <4>1, <4>2, <4>3
    <3> QED
      BY <3>1, <3>2
  <2> QED
    BY <2>1
<1> DEFINE after == CHOOSE g : Solves(g)
<1>6. Solves(after)
  <2> HIDE DEF h
  <2> QED
    BY <1>5
<1> HIDE DEF after, h
<1>7. after[0] = <<text>>
  BY <1>2, <1>6
<1>8. ASSUME NEW n \in 0 .. m - 1 PROVE after[n + 1] = ChangeStep(after[n], changes[n + 1])
  <2>1. n + 1 \in 0 .. m /\ n + 1 # 0 /\ (n + 1) - 1 = n
    BY <1>2
  <2> QED
    BY <1>6, <2>1
<1>9. \A n \in Nat : n \in 0 .. m => after[n] = <<e[n]>>
  <2> DEFINE S == {n \in Nat : n \in 0 .. m => after[n] = <<e[n]>>}
  <2>1. 0 \in S
    BY <1>1, <1>7
  <2>2. ASSUME NEW n \in S PROVE n + 1 \in S
    <3> SUFFICES ASSUME n + 1 \in 0 .. m PROVE after[n + 1] = <<e[n + 1]>>
      OBVIOUS
    <3>1. n \in 0 .. m /\ n \in 0 .. m - 1
      BY <1>2
    <3> QED
      BY <1>4, <1>8, <3>1
  <2> HIDE DEF S
  <2>3. S = Nat
    BY <2>1, <2>2, NatSet DEF S
  <2> QED
    BY <2>3 DEF S
<1>10. m \in 0 .. m /\ m \in Nat
  BY <1>2
<1> QED
  BY <1>1, <1>3, <1>9, <1>10 DEF after

\* What is held of a document is a text or nothing.
LEMMA HeldIsText ==
    ASSUME NEW held \in HeldTexts, NEW change \in EditsOfDocuments
    PROVE  ChangeStep(held, change) \in HeldTexts
<1>1. CASE held = <<>>
  BY <1>1, EditFields DEF ChangeStep, HeldTexts
<1>2. CASE held # <<>>
  <2>1. PICK text \in TextSet : held = <<text>>
    BY <1>2 DEF HeldTexts
  <2> QED
    BY <2>1, OneEdit DEF HeldTexts
<1> QED
  BY <1>1, <1>2

\* So it is after any number of edits.
LEMMA HeldAfterIsText ==
    ASSUME NEW held \in HeldTexts, NEW changes \in Seq(EditsOfDocuments)
    PROVE  HeldAfter(held, changes) \in HeldTexts
<1> DEFINE m == Len(changes)
           step == [n \in 0 .. m - 1 |-> [x \in HeldTexts |-> ChangeStep(x, changes[n + 1])]]
           Solves(g) == g = [n \in 0 .. m |-> IF n = 0 THEN held ELSE ChangeStep(g[n - 1], changes[n])]
<1>1. m \in Nat /\ \A n \in 0 .. m - 1 : changes[n + 1] \in EditsOfDocuments
  <2>1. m \in Nat /\ \A n \in 1 .. m : changes[n] \in EditsOfDocuments
    BY LenProperties, ElementOfSeq
  <2> HIDE DEF m
  <2>2. \A n \in 0 .. m - 1 : n + 1 \in 1 .. m
    BY <2>1
  <2> QED
    BY <2>1, <2>2
<1>2. HeldAfter(held, changes) = (CHOOSE g : Solves(g))[m]
  BY DEF HeldAfter
<1> HIDE DEF m
<1>3. ASSUME NEW x \in HeldTexts, NEW n \in 0 .. m - 1 PROVE ChangeStep(x, changes[n + 1]) \in HeldTexts
  BY <1>1, HeldIsText
<1>4. step \in [0 .. m - 1 -> [HeldTexts -> HeldTexts]]
  BY <1>3
<1>5. \E g : Solves(g)
  <2> HIDE DEF step
  <2>1. PICK g : IteratesTo(g, HeldTexts, m, held, step)
    BY <1>1, <1>4, FiniteRecursion
  <2>2. g \in [0 .. m -> HeldTexts] /\ g[0] = held /\ \A n \in 0 .. m - 1 : g[n + 1] = step[n][g[n]]
    BY <2>1 DEF IteratesTo
  <2>3. ASSUME NEW n \in 0 .. m PROVE g[n] = IF n = 0 THEN held ELSE ChangeStep(g[n - 1], changes[n])
    <3>1. CASE n = 0
      BY <2>2, <3>1
    <3>2. CASE n # 0
      <4>1. n - 1 \in 0 .. m - 1 /\ (n - 1) + 1 = n /\ n - 1 \in 0 .. m
        BY <1>1, <3>2
      <4>2. g[n] = step[n - 1][g[n - 1]] /\ g[n - 1] \in HeldTexts
        BY <2>2, <4>1
      <4>3. step[n - 1][g[n - 1]] = ChangeStep(g[n - 1], changes[(n - 1) + 1])
        BY <4>1, <4>2 DEF step
      <4> QED
        BY <3>2, <4>1, <4>2, <4>3
    <3> QED
      BY <3>1, <3>2
  <2> QED
    BY <2>2, <2>3
<1> DEFINE after == CHOOSE g : Solves(g)
<1>6. Solves(after)
  BY <1>5
<1> HIDE DEF after
<1>7. after[0] = held
  BY <1>1, <1>6
<1>8. ASSUME NEW n \in 0 .. m - 1 PROVE after[n + 1] = ChangeStep(after[n], changes[n + 1])
  <2>1. n + 1 \in 0 .. m /\ n + 1 # 0 /\ (n + 1) - 1 = n
    BY <1>1
  <2> QED
    BY <1>6, <2>1
<1> DEFINE S == {n \in Nat : n \in 0 .. m => after[n] \in HeldTexts}
<1>9. 0 \in S
  BY <1>7
<1>10. ASSUME NEW n \in S PROVE n + 1 \in S
  <2> SUFFICES ASSUME n + 1 \in 0 .. m PROVE after[n + 1] \in HeldTexts
    OBVIOUS
  <2>1. n \in 0 .. m /\ n \in 0 .. m - 1
    BY <1>1
  <2> QED
    BY <1>3, <1>8, <2>1
<1> HIDE DEF S
<1>11. S = Nat
  BY <1>9, <1>10, NatSet DEF S
<1>12. m \in 0 .. m /\ m \in S
  BY <1>1, <1>11
<1> QED
  BY <1>2, <1>12 DEF after, S

-----------------------------------------------------------------------------
(* Diagnostics: the invariant                                              *)

\* A message that changes a document, and the changes a reader has not made yet.
IsUpdate(m) == m.kind \in {"didOpen", "didChange"}
UpdatesOf(todo) == {todo[i] : i \in {j \in DOMAIN todo : IsUpdate(todo[j])}}
Unapplied(rd) == IF rd.at = "publish" THEN {} ELSE UpdatesOf(rd.todo)
OneUpdate(rd) ==
    /\ \A i, j \in DOMAIN rd.todo : IsUpdate(rd.todo[i]) /\ IsUpdate(rd.todo[j]) => i = j
    /\ rd.at = "publish" => IsUpdate(rd.todo[1])

\* With the change that is left, the server's text of document d is the client's.
Agreed(rd, docs, mn, d) ==
    /\ \A m \in Unapplied(rd) : m.d = d => HeldAfter(Held(docs, d), m.changes) = <<mn[d]>>
    /\ (\A m \in Unapplied(rd) : m.d # d) => d \in DOMAIN docs /\ docs[d] = mn[d]
\* The client's diagnostics of d are of the server's text, unless they are about
\* to be published.
Seen(rd, docs, sh, d) ==
    d \in DOMAIN docs /\ ~(rd.at = "publish" /\ d \in rd.left) => d \in DOMAIN sh /\ sh[d][d] = docs[d]

\* Of a document that nobody else writes.
Fits(c, d) ==
    touched[d] \subseteq {c} =>
      /\ d \in DOMAIN mine[c] => Agreed(reader[c], documents, mine[c], d)
      /\ c \notin lost => Seen(reader[c], documents, shown[c], d)
TextsInv ==
    /\ DOMAIN touched = Docs /\ DOMAIN shown = Conns
    /\ documents \in [DOMAIN documents -> TextSet]
    /\ \A c \in Conns : mine[c] \in [DOMAIN mine[c] -> TextSet] /\ OneUpdate(reader[c])
    /\ \A c \in Conns, d \in Docs : Fits(c, d)

-----------------------------------------------------------------------------
(* Diagnostics: the changes a reader has not made                          *)

\* The changes of a message are edits.
LEMMA ChangesAreEdits ==
    ASSUME NEW m \in Messages PROVE m.changes \in Seq(EditsOfDocuments)
<1>1. m.changes \in Changes
  BY DEF Messages
<1>2. ASSUME NEW x \in EditsOfDocuments, NEW y \in EditsOfDocuments
      PROVE  <<x>> \in Seq(EditsOfDocuments) /\ <<x, y>> \in Seq(EditsOfDocuments)
  OBVIOUS
<1>3. <<>> \in Seq(EditsOfDocuments)
  OBVIOUS
<1>4. Texts \subseteq EditsOfDocuments /\ Ranges \subseteq EditsOfDocuments
  BY DEF EditsOfDocuments
<1>5. m.changes = <<>> \/ (\E x \in EditsOfDocuments : m.changes = <<x>>)
        \/ (\E x, y \in EditsOfDocuments : m.changes = <<x, y>>)
  BY <1>1, <1>4 DEF Changes
<1> QED
  BY <1>2, <1>3, <1>5

\* Without a change nothing happens to what is held.
LEMMA NoChange ==
    ASSUME NEW held PROVE HeldAfter(held, <<>>) = held
<1> DEFINE Solves(g) == g = [n \in 0 .. Len(<<>>) |-> IF n = 0 THEN held ELSE ChangeStep(g[n - 1], <<>>[n])]
           f == [n \in 0 .. 0 |-> held]
           after == CHOOSE g : Solves(g)
<1>1. Len(<<>>) = 0
  OBVIOUS
<1>2. Solves(f)
  <2>1. \A n \in 0 .. 0 : n = 0
    OBVIOUS
  <2> QED
    BY <1>1, <2>1
<1> HIDE DEF f
<1>3. Solves(after)
  BY <1>2
<1>4. HeldAfter(held, <<>>) = after[0]
  BY <1>1 DEF HeldAfter
<1> HIDE DEF after
<1> QED
  BY <1>1, <1>3, <1>4

\* With the first message go the changes it makes.
LEMMA TailUpdates ==
    ASSUME NEW todo \in Seq(Messages), todo # <<>>
    PROVE  /\ UpdatesOf(todo) = UpdatesOf(Tail(todo)) \cup (IF IsUpdate(todo[1]) THEN {todo[1]} ELSE {})
           /\ (\A i, j \in DOMAIN todo : IsUpdate(todo[i]) /\ IsUpdate(todo[j]) => i = j) =>
                /\ \A i, j \in DOMAIN Tail(todo) : IsUpdate(Tail(todo)[i]) /\ IsUpdate(Tail(todo)[j]) => i = j
                /\ IsUpdate(todo[1]) => UpdatesOf(Tail(todo)) = {}
<1> DEFINE tail == Tail(todo)
<1>1. /\ 1 \in DOMAIN todo
      /\ \A i \in DOMAIN tail : i \in Nat /\ i + 1 # 1 /\ i + 1 \in DOMAIN todo /\ tail[i] = todo[i + 1]
      /\ \A i \in DOMAIN todo : i \in Nat /\ (i # 1 => i - 1 \in DOMAIN tail /\ tail[i - 1] = todo[i])
  <2>1. Len(todo) \in Nat \ {0} /\ DOMAIN todo = 1 .. Len(todo)
    BY TailFacts
  <2>2. 1 \in DOMAIN todo
    BY <2>1
  <2> QED
    BY <2>2, TailFacts
<1> HIDE DEF tail
<1>2. UpdatesOf(tail) \subseteq UpdatesOf(todo)
  BY <1>1 DEF UpdatesOf
<1>3. ASSUME NEW m \in UpdatesOf(todo), m \notin UpdatesOf(tail) PROVE IsUpdate(todo[1]) /\ m = todo[1]
  <2>1. PICK i \in DOMAIN todo : IsUpdate(todo[i]) /\ m = todo[i]
    BY DEF UpdatesOf
  <2>2. i # 1 => m \in UpdatesOf(tail)
    BY <1>1, <2>1 DEF UpdatesOf
  <2> QED
    BY <1>3, <2>1, <2>2
<1>4. IsUpdate(todo[1]) => todo[1] \in UpdatesOf(todo)
  BY <1>1 DEF UpdatesOf
<1>5. ASSUME \A i, j \in DOMAIN todo : IsUpdate(todo[i]) /\ IsUpdate(todo[j]) => i = j
      PROVE  /\ \A i, j \in DOMAIN tail : IsUpdate(tail[i]) /\ IsUpdate(tail[j]) => i = j
             /\ IsUpdate(todo[1]) => UpdatesOf(tail) = {}
  <2>1. ASSUME NEW i \in DOMAIN tail, NEW j \in DOMAIN tail, IsUpdate(tail[i]), IsUpdate(tail[j]) PROVE i = j
    <3>1. i + 1 = j + 1 /\ i \in Nat /\ j \in Nat
      BY <1>1, <1>5, <2>1
    <3> QED
      BY <3>1
  <2>2. ASSUME IsUpdate(todo[1]), NEW i \in DOMAIN tail, IsUpdate(tail[i]) PROVE FALSE
    <3>1. i + 1 \in DOMAIN todo /\ IsUpdate(todo[i + 1]) /\ i + 1 # 1
      BY <1>1, <2>2
    <3> QED
      BY <1>1, <1>5, <2>2, <3>1
  <2> QED
    BY <2>1, <2>2 DEF UpdatesOf
<1> QED
  BY <1>2, <1>3, <1>4, <1>5 DEF tail

\* A message is done: the changes left are those of the others.
LEMMA ContinueUpdates ==
    ASSUME NEW rd \in ReaderStates, rd.at \in Handling, rd.todo # <<>>, OneUpdate(rd), NEW added \in Seq(Responses)
    PROVE  LET st == Continue(rd, added) IN
           /\ st.at # "publish" /\ OneUpdate(st)
           /\ UpdatesOf(rd.todo) = Unapplied(st) \cup (IF IsUpdate(rd.todo[1]) THEN {rd.todo[1]} ELSE {})
           /\ IsUpdate(rd.todo[1]) => Unapplied(st) = {}
<1> DEFINE st == Continue(rd, added)
<1>1. st.todo = Tail(rd.todo) /\ st.at \in {"process", "read", "finish"}
  BY Continued
<1> HIDE DEF st
<1>2. rd.todo \in Seq(Messages)
  BY ReaderFields
<1>3. Unapplied(st) = UpdatesOf(Tail(rd.todo))
  BY <1>1 DEF Unapplied
<1>4. /\ \A i, j \in DOMAIN Tail(rd.todo) : IsUpdate(Tail(rd.todo)[i]) /\ IsUpdate(Tail(rd.todo)[j]) => i = j
      /\ IsUpdate(rd.todo[1]) => UpdatesOf(Tail(rd.todo)) = {}
      /\ UpdatesOf(rd.todo) = UpdatesOf(Tail(rd.todo)) \cup (IF IsUpdate(rd.todo[1]) THEN {rd.todo[1]} ELSE {})
  <2>1. \A i, j \in DOMAIN rd.todo : IsUpdate(rd.todo[i]) /\ IsUpdate(rd.todo[j]) => i = j
    BY DEF OneUpdate
  <2> QED
    BY <1>2, <2>1, TailUpdates
<1>5. OneUpdate(st)
  BY <1>1, <1>4 DEF OneUpdate
<1> QED
  BY <1>1, <1>3, <1>4, <1>5 DEF st

-----------------------------------------------------------------------------
(* Diagnostics: the steps                                                  *)

\* Nothing changes for document d of connection c.
LEMMA FitsStays ==
    ASSUME NEW c, NEW d, Fits(c, d), touched[d] \subseteq touched'[d],
           d \in DOMAIN documents' <=> d \in DOMAIN documents, d \in DOMAIN documents => documents'[d] = documents[d],
           d \in DOMAIN mine'[c] => d \in DOMAIN mine[c] /\ mine'[c][d] = mine[c][d],
           d \in DOMAIN shown[c] => d \in DOMAIN shown'[c] /\ shown'[c][d] = shown[c][d],
           reader'[c] = reader[c], lost \subseteq lost'
    PROVE  Fits(c, d)'
<1> SUFFICES ASSUME touched'[d] \subseteq {c}
             PROVE  /\ d \in DOMAIN mine'[c] => Agreed(reader'[c], documents', mine'[c], d)
                    /\ c \notin lost' => Seen(reader'[c], documents', shown'[c], d)
  BY DEF Fits
<1>1. /\ d \in DOMAIN mine[c] => Agreed(reader[c], documents, mine[c], d)
      /\ c \notin lost => Seen(reader[c], documents, shown[c], d)
  BY DEF Fits
<1>2. Held(documents', d) = Held(documents, d)
  BY DEF Held
<1>3. ASSUME d \in DOMAIN mine'[c] PROVE Agreed(reader'[c], documents', mine'[c], d)
  BY <1>1, <1>2, <1>3 DEF Agreed
<1>4. ASSUME c \notin lost' PROVE Seen(reader'[c], documents', shown'[c], d)
  BY <1>1, <1>4 DEF Seen
<1> QED
  BY <1>3, <1>4

\* No document changes, and the readers stay where they are.
LEMMA TextsStay ==
    ASSUME TextsInv, UNCHANGED <<documents, touched, mine, shown, reader>>, lost \subseteq lost'
    PROVE  TextsInv'
<1>1. \A c \in Conns, d \in Docs : Fits(c, d)'
  BY FitsStays DEF TextsInv
<1> QED
  BY <1>1 DEF TextsInv

\* A reader moves on without a change of a document.
LEMMA TextsMove ==
    ASSUME ServerInv, TextsInv, NEW c \in Conns, NEW st, Move(c, st),
           UNCHANGED <<documents, touched, mine, shown, lost>>,
           OneUpdate(st), st.at # "publish", Unapplied(st) \subseteq Unapplied(reader[c]),
           \A m \in Unapplied(reader[c]) : m \in Unapplied(st) \/ m.changes = <<>>,
           reader[c].at = "publish" => reader[c].left = {} \/ c \in lost
    PROVE  TextsInv'
<1>1. Placed(reader, reader', c, st)
  BY Places DEF ServerInv, Move
<1>2. ASSUME NEW k \in Conns, NEW d \in Docs PROVE Fits(k, d)'
  <2>1. Fits(k, d)
    BY DEF TextsInv
  <2>2. CASE k # c
    BY <1>1, <2>1, <2>2, FitsStays DEF Placed
  <2>3. CASE k = c
    <3> SUFFICES ASSUME touched[d] \subseteq {c}
                 PROVE  /\ d \in DOMAIN mine[c] => Agreed(st, documents, mine[c], d)
                        /\ c \notin lost => Seen(st, documents, shown[c], d)
      BY <1>1, <2>3 DEF Fits, Placed
    <3>1. /\ d \in DOMAIN mine[c] => Agreed(reader[c], documents, mine[c], d)
          /\ c \notin lost => Seen(reader[c], documents, shown[c], d)
      BY <2>1, <2>3 DEF Fits
    <3>2. ASSUME d \in DOMAIN mine[c] PROVE Agreed(st, documents, mine[c], d)
      <4>1. \A m \in Unapplied(st) : m.d = d => HeldAfter(Held(documents, d), m.changes) = <<mine[c][d]>>
        BY <3>1, <3>2 DEF Agreed
      <4>2. ASSUME \A m \in Unapplied(st) : m.d # d PROVE d \in DOMAIN documents /\ documents[d] = mine[c][d]
        <5>1. CASE \A m \in Unapplied(reader[c]) : m.d # d
          BY <3>1, <3>2, <5>1 DEF Agreed
        <5>2. ASSUME NEW m \in Unapplied(reader[c]), m.d = d PROVE d \in DOMAIN documents /\ documents[d] = mine[c][d]
          <6>1. m.changes = <<>>
            BY <4>2, <5>2
          <6>2. HeldAfter(Held(documents, d), <<>>) = <<mine[c][d]>>
            BY <3>1, <3>2, <5>2, <6>1 DEF Agreed
          <6>3. Held(documents, d) = <<mine[c][d]>>
            BY <6>2, NoChange
          <6> QED
            BY <6>3 DEF Held
        <5> QED
          BY <5>1, <5>2
      <4> QED
        BY <4>1, <4>2 DEF Agreed
    <3>3. ASSUME c \notin lost PROVE Seen(st, documents, shown[c], d)
      BY <3>1, <3>3 DEF Seen
    <3> QED
      BY <3>2, <3>3
  <2> QED
    BY <2>2, <2>3
<1>3. \A k \in Conns : OneUpdate(reader'[k])
  BY <1>1 DEF TextsInv, Placed
<1>4. UNCHANGED documents /\ UNCHANGED touched /\ UNCHANGED mine /\ UNCHANGED shown
  OBVIOUS
<1> QED
  BY <1>2, <1>3, <1>4 DEF TextsInv

\* A reader is done with a message that changes no document, or with one whose
\* diagnostics are published.
LEMMA TextsPass ==
    ASSUME ServerInv, TextsInv, NEW c \in Conns, NEW rd \in ReaderStates, NEW added \in Seq(Responses),
           rd.at \in Handling, rd.at = reader[c].at, rd.todo = reader[c].todo, rd.todo # <<>>,
           Move(c, Continue(rd, added)), UNCHANGED <<documents, touched, mine, shown, lost>>,
           rd.at # "publish" /\ IsUpdate(rd.todo[1]) => rd.todo[1].changes = <<>>,
           rd.at = "publish" => reader[c].left = {} \/ c \in lost
    PROVE  TextsInv'
<1> DEFINE st == Continue(rd, added)
<1>1. OneUpdate(rd)
  BY DEF TextsInv, OneUpdate
<1>2. /\ st.at # "publish" /\ OneUpdate(st)
      /\ UpdatesOf(rd.todo) = Unapplied(st) \cup (IF IsUpdate(rd.todo[1]) THEN {rd.todo[1]} ELSE {})
      /\ IsUpdate(rd.todo[1]) => Unapplied(st) = {}
  BY <1>1, ContinueUpdates
<1>3. Move(c, st)
  OBVIOUS
<1> HIDE DEF st
<1>4. CASE rd.at = "publish"
  <2>1. Unapplied(reader[c]) = {} /\ Unapplied(st) = {}
    BY <1>1, <1>2, <1>4 DEF Unapplied, OneUpdate
  <2> QED
    BY <1>2, <1>3, <1>4, <2>1, TextsMove
<1>5. CASE rd.at # "publish"
  <2>1. Unapplied(reader[c]) = UpdatesOf(rd.todo)
    BY <1>5 DEF Unapplied
  <2>2. /\ Unapplied(st) \subseteq Unapplied(reader[c])
        /\ \A m \in Unapplied(reader[c]) : m \in Unapplied(st) \/ m.changes = <<>>
    BY <1>2, <1>5, <2>1
  <2> QED
    BY <1>2, <1>3, <1>5, <2>2, TextsMove
<1> QED
  BY <1>4, <1>5

\* The steps of a reader that change no document.
LEMMA PassingKeepsTexts ==
    ASSUME ServerInv, TextsInv, NEW c \in Conns,
           Answer(c) \/ Ignore(c) \/ Exit(c) \/ HoverInline(c) \/ NotifyOne(c) \/ Published(c)
    PROVE  TextsInv'
<1>1. reader[c] \in ReaderStates /\ <<>> \in Seq(Responses)
  BY Mine
<1>2. CASE Answer(c)
  <2> DEFINE what == AnsweredAtOnce[Current(c).kind]
  <2>1. At(c, DOMAIN AnsweredAtOnce)
    BY <1>2 DEF Answer
  <2>2. /\ reader[c].at = "process" /\ reader[c].todo # <<>> /\ reader[c].next \in Nat
        /\ Current(c) = reader[c].todo[1] /\ reader[c].todo[1].kind \in {"initialize", "unknownRequest"}
    BY <2>1, AtHand DEF AnsweredAtOnce
  <2>3. what \in Answers
    BY <2>2 DEF AnsweredAtOnce, Answers
  <2>4. Move(c, Continue(reader[c], Answered(c, what))) /\ UNCHANGED <<documents, touched, mine, shown, lost>>
    BY <1>2 DEF Answer
  <2> HIDE DEF what
  <2>5. Answered(c, what) \in Seq(Responses)
    BY <2>2, <2>3, OneAnswer
  <2>6. ~IsUpdate(reader[c].todo[1]) /\ reader[c].at \in Handling /\ reader[c].at # "publish"
    BY <2>2 DEF IsUpdate, Handling
  <2> QED
    BY <1>1, <2>2, <2>4, <2>5, <2>6, TextsPass
<1>3. CASE Ignore(c)
  <2>1. /\ At(c, Ignored) \/ (At(c, {"didChange"}) /\ Current(c).changes = <<>>)
        /\ Move(c, Continue(reader[c], <<>>)) /\ UNCHANGED <<documents, touched, mine, shown, lost>>
    BY <1>3 DEF Ignore
  <2>2. /\ reader[c].at = "process" /\ reader[c].todo # <<>>
        /\ reader[c].todo[1].kind \in Ignored \/ reader[c].todo[1].changes = <<>>
    BY <2>1, AtHand
  <2>3. IsUpdate(reader[c].todo[1]) => reader[c].todo[1].changes = <<>>
    BY <2>2 DEF IsUpdate, Ignored
  <2>4. reader[c].at \in Handling /\ reader[c].at # "publish"
    BY <2>2 DEF Handling
  <2> QED
    BY <1>1, <2>1, <2>2, <2>3, <2>4, TextsPass
<1>4. CASE Exit(c)
  <2> DEFINE st == [reader[c] EXCEPT !.running = FALSE]
  <2>1. /\ At(c, {"exit"})
        /\ Move(c, Continue(st, <<>>)) /\ UNCHANGED <<documents, touched, mine, shown, lost>>
    BY <1>4 DEF Exit
  <2>2. reader[c].at = "process" /\ reader[c].todo # <<>> /\ reader[c].todo[1].kind = "exit"
    BY <2>1, AtHand
  <2>3. st \in ReaderStates /\ st.at = reader[c].at /\ st.todo = reader[c].todo
    BY <1>1 DEF ReaderStates
  <2>4. ~IsUpdate(st.todo[1]) /\ st.at \in Handling /\ st.at # "publish"
    BY <2>2, <2>3 DEF IsUpdate, Handling
  <2> HIDE DEF st
  <2> QED
    BY <1>1, <2>1, <2>2, <2>3, <2>4, TextsPass
<1>5. CASE HoverInline(c)
  <2> DEFINE what == HoverResult(Current(c).d)
  <2>1. /\ At(c, {"hover"})
        /\ Move(c, Continue(reader[c], Answered(c, what))) /\ UNCHANGED <<documents, touched, mine, shown, lost>>
    BY <1>5 DEF HoverInline
  <2>2. /\ reader[c].at = "process" /\ reader[c].todo # <<>> /\ reader[c].next \in Nat
        /\ reader[c].todo[1].kind = "hover"
    BY <2>1, AtHand
  <2>3. what \in Answers
    BY HoverFacts
  <2> HIDE DEF what
  <2>4. Answered(c, what) \in Seq(Responses)
    BY <2>2, <2>3, OneAnswer
  <2>5. ~IsUpdate(reader[c].todo[1]) /\ reader[c].at \in Handling /\ reader[c].at # "publish"
    BY <2>2 DEF IsUpdate, Handling
  <2> QED
    BY <1>1, <2>1, <2>2, <2>4, <2>5, TextsPass
<1>6. CASE NotifyOne(c)
  <2>1. /\ reader[c].at = "notify"
        /\ Move(c, Continue(reader[c], <<>>)) /\ UNCHANGED <<documents, touched, mine, shown, lost>>
    BY <1>6 DEF NotifyOne
  <2>2. reader[c].todo # <<>> /\ reader[c].todo[1].kind = "hover"
    BY <2>1, Mine DEF Conn, Pending
  <2>3. ~IsUpdate(reader[c].todo[1]) /\ reader[c].at \in Handling /\ reader[c].at # "publish"
    BY <2>1, <2>2 DEF IsUpdate, Handling
  <2> QED
    BY <1>1, <2>1, <2>2, <2>3, TextsPass
<1>7. CASE Published(c)
  <2> DEFINE st == [reader[c] EXCEPT !.left = {}]
  <2>1. /\ reader[c].at = "publish" /\ (reader[c].left = {} \/ c \in lost)
        /\ Move(c, Continue(st, <<>>)) /\ UNCHANGED <<documents, touched, mine, shown, lost>>
    BY <1>7 DEF Published
  <2>2. reader[c].todo # <<>>
    BY <2>1, Mine DEF Conn, Pending
  <2>3. st \in ReaderStates /\ st.at = reader[c].at /\ st.todo = reader[c].todo
    BY <1>1 DEF ReaderStates
  <2>4. st.at \in Handling /\ st.at = "publish"
    BY <2>1, <2>3 DEF Handling
  <2> HIDE DEF st
  <2> QED
    BY <1>1, <2>1, <2>2, <2>3, <2>4, TextsPass
<1> QED
  BY <1>2, <1>3, <1>4, <1>5, <1>6, <1>7

\* The steps of a reader that has no message, or leaves the one it has.
LEMMA IdlingKeepsTexts ==
    ASSUME ServerInv, TextsInv, NEW c \in Conns,
           ReadInvalid(c) \/ ConnectionLost(c) \/ Respond(c) \/ QueueHover(c) \/ WaitUntilFinished(c) \/ Join(c)
    PROVE  TextsInv'
<1>1. reader[c] \in ReaderStates /\ OneUpdate(reader[c]) /\ Pending(reader[c], asked[c], DOMAIN mine[c], DOMAIN documents)
  BY Mine DEF TextsInv, Conn
<1>2. ASSUME NEW st, Move(c, st), UNCHANGED <<documents, touched, mine, shown, lost>>,
             st.todo = <<>>, st.at # "publish", reader[c].todo = <<>>, reader[c].at # "publish"
      PROVE  TextsInv'
  <2>1. Unapplied(st) = {} /\ Unapplied(reader[c]) = {} /\ OneUpdate(st)
    BY <1>2 DEF Unapplied, OneUpdate, UpdatesOf
  <2> QED
    BY <1>2, <2>1, TextsMove
<1>3. CASE ReadInvalid(c) \/ ConnectionLost(c)
  <2>1. reader[c].at = "read" /\ Move(c, Finishing) /\ UNCHANGED <<documents, touched, mine, shown, lost>>
    BY <1>3 DEF ReadInvalid, ConnectionLost
  <2>2. reader[c].todo = <<>>
    BY <1>1, <2>1 DEF Pending, Outside
  <2> QED
    BY <1>2, <2>1, <2>2, Resting
<1>4. CASE Respond(c)
  <2> DEFINE st == IF c \in lost \/ ~reader[c].running THEN Finishing ELSE Reading
  <2>1. reader[c].at = "process" /\ reader[c].todo = <<>> /\ Move(c, st) /\ UNCHANGED <<documents, touched, mine, shown, lost>>
    BY <1>4 DEF Respond
  <2>2. st.todo = <<>> /\ st.at # "publish"
    BY Resting
  <2> HIDE DEF st
  <2> QED
    BY <1>2, <2>1, <2>2
<1>5. CASE WaitUntilFinished(c) \/ Join(c)
  <2>1. PICK at \in {"join", "ended"} : Move(c, [reader[c] EXCEPT !.at = at])
    BY <1>5 DEF WaitUntilFinished, Join
  <2> DEFINE st == [reader[c] EXCEPT !.at = at]
  <2>2. reader[c].at \in {"finish", "join"} /\ UNCHANGED <<documents, touched, mine, shown, lost>>
    BY <1>5 DEF WaitUntilFinished, Join
  <2>3. reader[c].todo = <<>>
    BY <1>1, <2>2 DEF Pending, Outside
  <2>4. st.todo = <<>> /\ st.at # "publish"
    BY <1>1, <2>3 DEF ReaderStates
  <2>5. Move(c, st)
    BY <2>1
  <2> HIDE DEF st
  <2> QED
    BY <1>2, <2>2, <2>3, <2>4, <2>5
<1>6. CASE QueueHover(c)
  <2> DEFINE st == [reader[c] EXCEPT !.at = "notify"]
  <2>1. At(c, {"hover"}) /\ Move(c, st) /\ UNCHANGED <<documents, touched, mine, shown, lost>>
    BY <1>6 DEF QueueHover
  <2>2. reader[c].at = "process"
    BY <2>1, AtHand
  <2>3. st.todo = reader[c].todo /\ st.at = "notify"
    BY <1>1 DEF ReaderStates
  <2> HIDE DEF st
  <2>4. Unapplied(st) = Unapplied(reader[c]) /\ OneUpdate(st)
    BY <1>1, <2>2, <2>3 DEF Unapplied, OneUpdate
  <2> QED
    BY <2>1, <2>2, <2>3, <2>4, TextsMove
<1> QED
  BY <1>3, <1>4, <1>5, <1>6

\* Update: the document becomes the text the client has; whoever else wrote it
\* is not promised anything of it.
LEMMA UpdateKeepsTexts == ASSUME ServerInv, TextsInv, NEW c \in Conns, Update(c) PROVE TextsInv'
<1> DEFINE rd == reader[c]
           m == rd.todo[1]
           held == HeldAfter(Held(documents, m.d), m.changes)
           st == [rd EXCEPT !.at = "publish", !.left = DOMAIN documents \cup {m.d}]
<1>1. /\ rd.at = "process" /\ rd.todo # <<>> /\ Current(c) = m /\ m \in Messages
      /\ m.kind \in {"didOpen", "didChange"} /\ m.d \in Docs
  BY AtHand DEF Update, Matches
<1>2. /\ documents' = Changed(documents, m.d, m.changes) /\ touched' = [touched EXCEPT ![m.d] = @ \cup {c}]
      /\ Move(c, st) /\ UNCHANGED <<lost, mine, shown>>
  BY <1>1 DEF Update
<1>3. rd \in ReaderStates /\ rd.todo \in Seq(Messages) /\ OneUpdate(rd)
  BY Mine, ReaderFields DEF TextsInv
<1>4. st.at = "publish" /\ st.left = DOMAIN documents \cup {m.d} /\ st.todo = rd.todo
  BY <1>3 DEF ReaderStates
<1>5. Placed(reader, reader', c, st)
  BY <1>2, Places DEF ServerInv, Move
<1>6. m.changes \in Seq(EditsOfDocuments) /\ held \in HeldTexts
  <2>1. m.changes \in Seq(EditsOfDocuments)
    BY <1>1, ChangesAreEdits
  <2>2. Held(documents, m.d) \in HeldTexts
    BY DEF TextsInv, Held, HeldTexts
  <2> HIDE DEF m
  <2> QED
    BY <2>1, <2>2, HeldAfterIsText
<1> HIDE DEF st
<1>7. /\ documents' = IF held = <<>> THEN documents ELSE Put(documents, m.d, held[1])
      /\ IsUpdate(m) /\ Unapplied(rd) = UpdatesOf(rd.todo) /\ m \in UpdatesOf(rd.todo)
      /\ \A k \in UpdatesOf(rd.todo) : k = m
      /\ Unapplied(st) = {} /\ OneUpdate(st)
  <2>1. documents' = IF held = <<>> THEN documents ELSE Put(documents, m.d, held[1])
    BY <1>2 DEF Changed
  <2>2. IsUpdate(m) /\ Unapplied(rd) = UpdatesOf(rd.todo)
    BY <1>1 DEF IsUpdate, Unapplied
  <2>3. 1 \in DOMAIN rd.todo
    <3>1. Len(rd.todo) \in Nat \ {0} /\ DOMAIN rd.todo = 1 .. Len(rd.todo)
      BY <1>1, <1>3, TailFacts
    <3> QED
      BY <3>1
  <2>4. m \in UpdatesOf(rd.todo) /\ \A k \in UpdatesOf(rd.todo) : k = m
    BY <1>3, <2>2, <2>3 DEF UpdatesOf, OneUpdate
  <2>5. Unapplied(st) = {} /\ OneUpdate(st)
    BY <1>3, <1>4, <2>2 DEF Unapplied, OneUpdate
  <2> QED
    BY <2>1, <2>2, <2>4, <2>5
<1> HIDE DEF rd, m, held
<1>8. /\ documents' \in [DOMAIN documents' -> TextSet]
      /\ \A d : d # m.d => (d \in DOMAIN documents' <=> d \in DOMAIN documents)
      /\ \A d \in DOMAIN documents : d # m.d => documents'[d] = documents[d]
      /\ held # <<>> => m.d \in DOMAIN documents' /\ documents'[m.d] = held[1]
  <2>1. documents \in [DOMAIN documents -> TextSet]
    BY DEF TextsInv
  <2>2. CASE held = <<>>
    BY <1>7, <2>1, <2>2
  <2>3. CASE held # <<>>
    <3>1. PICK text \in TextSet : held = <<text>>
      BY <1>6, <2>3 DEF HeldTexts
    <3>2. documents' = [e \in DOMAIN documents \cup {m.d} |-> IF e = m.d THEN text ELSE documents[e]]
      BY <1>7, <2>3, <3>1 DEF Put
    <3> QED
      BY <2>1, <3>1, <3>2
  <2> QED
    BY <2>2, <2>3
<1>9. DOMAIN touched = Docs /\ touched' = [touched EXCEPT ![m.d] = @ \cup {c}]
  BY <1>2 DEF TextsInv
<1>10. ASSUME NEW k \in Conns, NEW d \in Docs PROVE Fits(k, d)'
  <2>1. Fits(k, d) /\ touched[d] \subseteq touched'[d]
    BY <1>9 DEF TextsInv
  <2>2. CASE k # c /\ d # m.d
    BY <1>2, <1>5, <1>8, <2>1, <2>2, FitsStays DEF Placed
  <2>3. CASE k # c /\ d = m.d
    BY <1>9, <2>3 DEF Fits
  <2>4. CASE k = c
    <3> SUFFICES ASSUME touched'[d] \subseteq {c}
                 PROVE  /\ d \in DOMAIN mine[c] => Agreed(st, documents', mine[c], d)
                        /\ c \notin lost => Seen(st, documents', shown[c], d)
      BY <1>2, <1>5, <2>4 DEF Fits, Placed
    <3>1. /\ d \in DOMAIN mine[c] => Agreed(rd, documents, mine[c], d)
          /\ c \notin lost => Seen(rd, documents, shown[c], d)
      BY <2>1, <2>4 DEF Fits, rd
    <3>2. ASSUME d \in DOMAIN mine[c] PROVE Agreed(st, documents', mine[c], d)
      <4>1. CASE d = m.d
        <5>1. held = <<mine[c][d]>>
          BY <1>7, <3>1, <3>2, <4>1 DEF Agreed, held
        <5>2. held # <<>> /\ held[1] = mine[c][d]
          BY <5>1
        <5> QED
          BY <1>7, <1>8, <4>1, <5>2 DEF Agreed
      <4>2. CASE d # m.d
        <5>1. d \in DOMAIN documents /\ documents[d] = mine[c][d]
          BY <1>7, <3>1, <3>2, <4>2 DEF Agreed
        <5> QED
          BY <1>7, <1>8, <4>2, <5>1 DEF Agreed
      <4> QED
        BY <4>1, <4>2
    <3>3. Seen(st, documents', shown[c], d)
      <4>1. d \in DOMAIN documents' => d \in st.left
        BY <1>4, <1>8
      <4> QED
        BY <1>4, <4>1 DEF Seen
    <3> QED
      BY <3>2, <3>3
  <2> QED
    BY <2>2, <2>3, <2>4
<1>11. \A k \in Conns : mine'[k] \in [DOMAIN mine'[k] -> TextSet] /\ OneUpdate(reader'[k])
  BY <1>2, <1>5, <1>7 DEF TextsInv, Placed
<1>12. DOMAIN touched' = Docs /\ DOMAIN shown' = Conns
  BY <1>2, <1>9 DEF TextsInv
<1> QED
  BY <1>8, <1>10, <1>11, <1>12 DEF TextsInv

\* Publish: the diagnostics that are shown are of the text the server has.
LEMMA PublishKeepsTexts == ASSUME ServerInv, TextsInv, NEW c \in Conns, Publish(c) PROVE TextsInv'
<1> DEFINE rd == reader[c]
<1>1. PICK e \in rd.left :
        /\ shown' = [shown EXCEPT ![c] = Put(shown[c], e, documents)]
        /\ Move(c, [rd EXCEPT !.left = @ \ {e}])
  BY DEF Publish
<1> DEFINE st == [rd EXCEPT !.left = @ \ {e}]
<1>2. /\ rd.at = "publish" /\ rd \in ReaderStates /\ OneUpdate(rd)
      /\ UNCHANGED documents /\ UNCHANGED touched /\ UNCHANGED mine /\ UNCHANGED lost
  BY Mine DEF Publish, TextsInv
<1>3. st.at = "publish" /\ st.todo = rd.todo /\ st.left = rd.left \ {e}
  BY <1>2 DEF ReaderStates
<1>4. Placed(reader, reader', c, st)
  BY <1>1, Places DEF ServerInv, Move
<1>5. Placed(shown, shown', c, Put(shown[c], e, documents))
  <2>1. DOMAIN shown = Conns
    BY DEF TextsInv
  <2> QED
    BY <1>1, <2>1, Places
<1> HIDE DEF st, rd
<1>6. Unapplied(st) = {} /\ Unapplied(rd) = {} /\ OneUpdate(st)
  BY <1>2, <1>3 DEF Unapplied, OneUpdate
<1>7. ASSUME NEW k \in Conns, NEW d \in Docs PROVE Fits(k, d)'
  <2>1. Fits(k, d)
    BY DEF TextsInv
  <2>2. CASE k # c
    BY <1>2, <1>4, <1>5, <2>1, <2>2, FitsStays DEF Placed
  <2>3. CASE k = c
    <3> SUFFICES ASSUME touched[d] \subseteq {c}
                 PROVE  /\ d \in DOMAIN mine[c] => Agreed(st, documents, mine[c], d)
                        /\ c \notin lost => Seen(st, documents, Put(shown[c], e, documents), d)
      BY <1>2, <1>4, <1>5, <2>3 DEF Fits, Placed
    <3>1. /\ d \in DOMAIN mine[c] => Agreed(rd, documents, mine[c], d)
          /\ c \notin lost => Seen(rd, documents, shown[c], d)
      BY <2>1, <2>3 DEF Fits, rd
    <3>2. ASSUME d \in DOMAIN mine[c] PROVE Agreed(st, documents, mine[c], d)
      BY <1>6, <3>1, <3>2 DEF Agreed
    <3>3. ASSUME c \notin lost PROVE Seen(st, documents, Put(shown[c], e, documents), d)
      <4>1. CASE d = e
        BY <4>1 DEF Seen, Put
      <4>2. CASE d # e
        BY <1>2, <1>3, <3>1, <3>3, <4>2 DEF Seen, Put
      <4> QED
        BY <4>1, <4>2
    <3> QED
      BY <3>2, <3>3
  <2> QED
    BY <2>2, <2>3
<1>8. \A k \in Conns : mine'[k] \in [DOMAIN mine'[k] -> TextSet] /\ OneUpdate(reader'[k])
  BY <1>2, <1>4, <1>6 DEF TextsInv, Placed
<1>9. DOMAIN touched' = Docs /\ DOMAIN shown' = Conns /\ documents' \in [DOMAIN documents' -> TextSet]
  BY <1>2, <1>5 DEF TextsInv, Placed
<1> QED
  BY <1>7, <1>8, <1>9 DEF TextsInv

\* The client's texts after message m are those before it, but for its document:
\* there they are what the server will have after the message.
Followed(m, texts, after) ==
    /\ after \in [DOMAIN after -> TextSet]
    /\ \A d \in DOMAIN after : d # m.d => d \in DOMAIN texts /\ after[d] = texts[d]
    /\ \A held : (m.d \in DOMAIN texts => held = <<texts[m.d]>>) => HeldAfter(held, m.changes) = <<after[m.d]>>

\* An edit and an opening.
LEMMA SentUpdate ==
    ASSUME NEW c \in Conns, mine[c] \in [DOMAIN mine[c] -> TextSet], NEW m \in Messages, m \in Edits(c) \cup Opens
    PROVE  IsUpdate(m) /\ Followed(m, mine[c], SentStep(mine[c], m))
<1>1. CASE m \in Opens
  <2>1. PICK d \in Docs, t \in Texts : m = Message("didOpen", d, <<t>>)
    BY ONLY <1>1 DEF Opens
  <2>2. m.kind = "didOpen" /\ m.d = d /\ m.changes = <<t>> /\ m.changes[1] = t
    BY <2>1 DEF Message
  <2>3. t.text \in TextSet
    <3>1. t.text \in Contents
      BY DEF Texts
    <3> QED
      BY <3>1, TextAssumption DEF TextSet
  <2>4. SentStep(mine[c], m) = [e \in DOMAIN mine[c] \cup {d} |-> IF e = d THEN t.text ELSE mine[c][e]]
    BY <2>2 DEF SentStep, Put
  <2> DEFINE after == SentStep(mine[c], m)
  <2>5. after \in [DOMAIN after -> TextSet] /\ after[d] = t.text
        /\ \A e \in DOMAIN after : e # d => e \in DOMAIN mine[c] /\ after[e] = mine[c][e]
    BY <2>3, <2>4
  <2> HIDE DEF after
  <2>6. \A held : HeldAfter(held, m.changes) = <<after[m.d]>>
    BY <2>2, <2>5, OneChange
  <2>7. Followed(m, mine[c], after)
    BY <2>2, <2>5, <2>6 DEF Followed
  <2> QED
    BY <2>2, <2>7 DEF IsUpdate, after
<1>2. CASE m \in Edits(c)
  <2>1. PICK d \in DOMAIN mine[c] : \E changes : m = Message("didChange", d, changes)
    BY <1>2 DEF Edits
  <2> DEFINE changes == m.changes
  <2>2. m.kind = "didChange" /\ m.d = d /\ m.changes = changes
    BY <2>1 DEF Message
  <2>3. changes \in Seq(EditsOfDocuments)
    BY <2>2, ChangesAreEdits
  <2>4. mine[c][d] \in TextSet
    OBVIOUS
  <2>5. /\ Edited(mine[c][d], changes) \in TextSet
        /\ HeldAfter(<<mine[c][d]>>, changes) = <<Edited(mine[c][d], changes)>>
    BY <2>3, <2>4, EditsAgree
  <2>6. SentStep(mine[c], m) = [mine[c] EXCEPT ![d] = Edited(mine[c][d], changes)]
    BY <2>2 DEF SentStep
  <2> DEFINE after == SentStep(mine[c], m)
  <2>7. after \in [DOMAIN after -> TextSet] /\ after[d] = Edited(mine[c][d], changes)
        /\ \A e \in DOMAIN after : e # d => e \in DOMAIN mine[c] /\ after[e] = mine[c][e]
    BY <2>5, <2>6
  <2> HIDE DEF after
  <2>8. \A held : held = <<mine[c][d]>> => HeldAfter(held, m.changes) = <<after[m.d]>>
    BY <2>2, <2>5, <2>7
  <2>9. Followed(m, mine[c], after)
    BY <2>2, <2>7, <2>8 DEF Followed
  <2> QED
    BY <2>2, <2>9 DEF IsUpdate, after
<1> QED
  BY <1>1, <1>2

\* What is read is at most one change, and what it does to the client's texts.
LEMMA SentTexts ==
    ASSUME ServerInv, TextsInv, NEW c \in Conns, NEW todo \in Incoming(c)
    PROVE  /\ \A i, j \in DOMAIN todo : IsUpdate(todo[i]) /\ IsUpdate(todo[j]) => i = j
           /\ Sent(mine[c], todo) \in [DOMAIN Sent(mine[c], todo) -> TextSet]
           /\ UpdatesOf(todo) = {} => Sent(mine[c], todo) = mine[c]
           /\ \A m \in UpdatesOf(todo) : Followed(m, mine[c], Sent(mine[c], todo))
<1>1. mine[c] \in [DOMAIN mine[c] -> TextSet] /\ todo \in Seq(Messages)
  BY Mine, IncomingFacts DEF TextsInv
<1>2. ASSUME NEW m, m \in Hovers \cup Others PROVE ~IsUpdate(m) /\ SentStep(mine[c], m) = mine[c]
  <2>1. m.kind = "hover" \/ m.kind \in Kinds
    BY <1>2 DEF Hovers, Others, Message
  <2> QED
    BY <2>1, KindsAssumption DEF IsUpdate, SentStep
<1>3. \/ \E m \in Edits(c) \cup Opens \cup Hovers \cup Others : todo = <<m>>
      \/ todo \in Batches
  BY DEF Incoming
<1>4. ASSUME NEW m \in Edits(c) \cup Opens \cup Hovers \cup Others, todo = <<m>>
      PROVE  /\ \A i, j \in DOMAIN todo : i = j
             /\ Sent(mine[c], todo) = SentStep(mine[c], m)
             /\ UpdatesOf(todo) = IF IsUpdate(m) THEN {m} ELSE {}
             /\ m \in Messages
  <2>1. DOMAIN todo = {1} /\ todo[1] = m
    BY <1>4
  <2>2. m \in Messages
    <3>1. 1 \in DOMAIN todo
      BY <2>1
    <3>2. todo[1] \in Messages
      BY <1>1, <3>1
    <3> QED
      BY <2>1, <3>2
  <2>3. Sent(mine[c], todo) = SentStep(mine[c], m)
    BY <1>4, SentOne
  <2> QED
    BY <2>1, <2>2, <2>3 DEF UpdatesOf
<1>5. CASE \E m \in Edits(c) \cup Opens : todo = <<m>>
  <2>1. PICK m \in Edits(c) \cup Opens : todo = <<m>>
    BY <1>5
  <2>2. m \in Messages /\ IsUpdate(m) /\ Followed(m, mine[c], SentStep(mine[c], m))
    BY <1>1, <1>4, <2>1, SentUpdate
  <2>3. Sent(mine[c], todo) = SentStep(mine[c], m) /\ UpdatesOf(todo) = {m} /\ \A i, j \in DOMAIN todo : i = j
    BY <1>4, <2>1, <2>2
  <2> QED
    BY <2>2, <2>3 DEF Followed
<1>6. CASE \E m \in Hovers \cup Others : todo = <<m>>
  <2>1. PICK m \in Hovers \cup Others : todo = <<m>>
    BY <1>6
  <2>2. Sent(mine[c], todo) = mine[c] /\ UpdatesOf(todo) = {} /\ \A i, j \in DOMAIN todo : i = j
    BY <1>2, <1>4, <2>1
  <2> QED
    BY <1>1, <2>2
<1>7. CASE todo \in Batches
  <2>1. PICK m \in Opens : todo = <<Message("hover", m.d, <<>>), m>>
    BY <1>7 DEF Batches
  <2> DEFINE h == Message("hover", m.d, <<>>)
  <2>2. h.kind = "hover"
    BY DEF Message
  <2>3. ~IsUpdate(h) /\ SentStep(mine[c], h) = mine[c]
    BY <2>2 DEF IsUpdate, SentStep
  <2> HIDE DEF h
  <2>4. todo = <<h, m>>
    BY <2>1 DEF h
  <2>5. DOMAIN todo = {1, 2} /\ todo[1] = h /\ todo[2] = m
    BY <2>4
  <2>6. m \in Messages
    BY <1>1, <2>5
  <2>7. IsUpdate(m) /\ Followed(m, mine[c], SentStep(mine[c], m))
    BY <1>1, <2>6, SentUpdate
  <2>8. UpdatesOf(todo) = {m} /\ \A i, j \in DOMAIN todo : IsUpdate(todo[i]) /\ IsUpdate(todo[j]) => i = j
    BY <2>3, <2>5, <2>7 DEF UpdatesOf
  <2>9. Sent(mine[c], todo) = SentStep(mine[c], m)
    BY <2>3, <2>4, SentTwo
  <2> QED
    BY <2>7, <2>8, <2>9 DEF Followed
<1> QED
  BY <1>3, <1>5, <1>6, <1>7

\* Read: the change that is read is the one that leads to the client's text.
LEMMA ReadKeepsTexts == ASSUME ServerInv, TextsInv, NEW c \in Conns, Read(c) PROVE TextsInv'
<1> DEFINE rd == reader[c]
           After(todo) == [Reading EXCEPT !.at = "process", !.todo = todo, !.next = Len(asked[c]) + 1,
                                          !.allowAsync = Len(todo) = 1]
<1>1. PICK todo \in Incoming(c) : Move(c, After(todo)) /\ mine' = [mine EXCEPT ![c] = Sent(mine[c], todo)]
  BY DEF Read
<1> DEFINE st == After(todo)
           mn == Sent(mine[c], todo)
<1>2. /\ rd.at = "read"
      /\ UNCHANGED documents /\ UNCHANGED touched /\ UNCHANGED shown /\ UNCHANGED lost
  BY DEF Read
<1>3. st.at = "process" /\ st.todo = todo
  BY Resting DEF ReaderStates
<1>4. Placed(reader, reader', c, st)
  BY <1>1, Places DEF ServerInv, Move
<1>5. Placed(mine, mine', c, mn)
  BY <1>1, Places DEF ServerInv
<1>6. rd.todo = <<>>
  BY <1>2, Mine DEF Conn, Pending, Outside
<1> HIDE DEF st, mn, rd
<1>7. Unapplied(rd) = {} /\ Unapplied(st) = UpdatesOf(todo)
  BY <1>2, <1>3, <1>6 DEF Unapplied, UpdatesOf
<1>8. /\ OneUpdate(st) /\ mn \in [DOMAIN mn -> TextSet]
      /\ UpdatesOf(todo) = {} => mn = mine[c]
      /\ \A m \in UpdatesOf(todo) : Followed(m, mine[c], mn)
      /\ \A m, k \in UpdatesOf(todo) : m = k
  BY <1>3, SentTexts DEF OneUpdate, mn, UpdatesOf
<1>9. ASSUME NEW k \in Conns, NEW d \in Docs PROVE Fits(k, d)'
  <2>1. Fits(k, d)
    BY DEF TextsInv
  <2>2. CASE k # c
    BY <1>2, <1>4, <1>5, <2>1, <2>2, FitsStays DEF Placed
  <2>3. CASE k = c
    <3> SUFFICES ASSUME touched[d] \subseteq {c}
                 PROVE  /\ d \in DOMAIN mn => Agreed(st, documents, mn, d)
                        /\ c \notin lost => Seen(st, documents, shown[c], d)
      BY <1>2, <1>4, <1>5, <2>3 DEF Fits, Placed
    <3>1. /\ d \in DOMAIN mine[c] => Agreed(rd, documents, mine[c], d)
          /\ c \notin lost => Seen(rd, documents, shown[c], d)
      BY <2>1, <2>3 DEF Fits, rd
    <3>2. d \in DOMAIN mine[c] =>
            d \in DOMAIN documents /\ documents[d] = mine[c][d] /\ Held(documents, d) = <<mine[c][d]>>
      BY <1>7, <3>1 DEF Agreed, Held
    <3>3. ASSUME d \in DOMAIN mn PROVE Agreed(st, documents, mn, d)
      <4>1. ASSUME NEW m \in UpdatesOf(todo), m.d = d PROVE HeldAfter(Held(documents, d), m.changes) = <<mn[d]>>
        BY <1>8, <3>2, <4>1 DEF Followed
      <4>2. ASSUME \A m \in UpdatesOf(todo) : m.d # d PROVE d \in DOMAIN documents /\ documents[d] = mn[d]
        <5>1. d \in DOMAIN mine[c] /\ mn[d] = mine[c][d]
          BY <1>8, <3>3, <4>2 DEF Followed
        <5> QED
          BY <3>2, <5>1
      <4> QED
        BY <1>7, <4>1, <4>2 DEF Agreed
    <3>4. ASSUME c \notin lost PROVE Seen(st, documents, shown[c], d)
      BY <1>2, <1>3, <3>1, <3>4 DEF Seen
    <3> QED
      BY <3>3, <3>4
  <2> QED
    BY <2>2, <2>3
<1>10. \A k \in Conns : mine'[k] \in [DOMAIN mine'[k] -> TextSet] /\ OneUpdate(reader'[k])
  BY <1>4, <1>5, <1>8 DEF TextsInv, Placed
<1>11. DOMAIN touched' = Docs /\ DOMAIN shown' = Conns /\ documents' \in [DOMAIN documents' -> TextSet]
  BY <1>2 DEF TextsInv
<1> QED
  BY <1>9, <1>10, <1>11 DEF TextsInv

-----------------------------------------------------------------------------
(* Diagnostics: the invariant holds                                        *)

\* Nobody has opened a document.
LEMMA InitTexts == ASSUME Init PROVE TextsInv
<1>1. /\ documents = NoDocuments /\ DOMAIN touched = Docs /\ DOMAIN shown = Conns
      /\ \A c \in Conns : mine[c] = NoDocuments /\ reader[c] = Reading
  BY DEF Init
<1>2. DOMAIN NoDocuments = {} /\ NoDocuments \in [DOMAIN NoDocuments -> TextSet]
  BY DEF NoDocuments
<1>3. OneUpdate(Reading)
  BY Resting DEF OneUpdate
<1>4. \A c \in Conns, d \in Docs : Fits(c, d)
  BY <1>1, <1>2 DEF Fits, Seen
<1> QED
  BY <1>1, <1>2, <1>3, <1>4 DEF TextsInv

\* Every step keeps it.
LEMMA NextTexts == ASSUME ServerInv, TextsInv, [Next]_vars PROVE TextsInv'
<1>1. CASE UNCHANGED vars
  BY <1>1, TextsStay DEF vars
<1>2. ASSUME NEW c \in Conns, Read(c) \/ ReadInvalid(c) \/ Disconnect(c) PROVE TextsInv'
  <2>1. CASE Disconnect(c)
    BY <2>1, TextsStay DEF Disconnect
  <2> QED
    BY <1>2, <2>1, ReadKeepsTexts, IdlingKeepsTexts
<1>3. ASSUME NEW c \in Conns, ReaderRuns(c) PROVE TextsInv'
  BY <1>3, PassingKeepsTexts, IdlingKeepsTexts, UpdateKeepsTexts, PublishKeepsTexts DEF ReaderRuns
<1>4. ASSUME NEW c \in Conns, NEW i \in DOMAIN pool[c].threads, ThreadRuns(c, i) PROVE TextsInv'
  BY <1>4, TextsStay DEF ThreadRuns, Take, Compute, SendResponse
<1> QED
  BY <1>1, <1>2, <1>3, <1>4 DEF Next

\* The inductive invariant of the documents: with the change its reader still
\* has to make, the server's text of a document is its client's, and the
\* diagnostics the client shows are of the server's text, unless they are on
\* their way (Update, RunDiagnostics, OffsetFromPosition).
THEOREM TextsInvariant == Spec => [](ServerInv /\ TextsInv)
  BY InitKeeps, NextKeeps, InitTexts, NextTexts, PTL DEF Spec

\* A connection that made every change of its document and has nothing in
\* progress shows the diagnostics of the text in its client's editor
\* (ApplyContentChange, RunDiagnostics).
THEOREM DiagnosticsAreCurrent == Spec => []DiagnosticsCurrent
<1>1. ASSUME ServerInv, TextsInv PROVE DiagnosticsCurrent
  <2> SUFFICES ASSUME NEW c \in Conns \ lost, NEW d \in DOMAIN mine[c], reader[c].at = "read", touched[d] = {c}
               PROVE  d \in DOMAIN shown[c] /\ shown[c][d][d] = mine[c][d]
    BY DEF DiagnosticsCurrent
  <2>1. d \in Docs /\ reader[c].todo = <<>>
    BY <1>1, Mine DEF Conn, Pending, Outside
  <2>2. Unapplied(reader[c]) = {}
    BY <2>1 DEF Unapplied, UpdatesOf
  <2>3. Agreed(reader[c], documents, mine[c], d) /\ Seen(reader[c], documents, shown[c], d)
    BY <1>1, <2>1 DEF TextsInv, Fits
  <2>4. d \in DOMAIN documents /\ documents[d] = mine[c][d]
    BY <2>2, <2>3 DEF Agreed
  <2> QED
    BY <2>3, <2>4 DEF Seen
<1> QED
  BY <1>1, TextsInvariant, PTL
=============================================================================
