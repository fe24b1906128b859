------------------------ MODULE PipeWireStreamProofs ------------------------
(***************************************************************************)
(* What PipeWireStream guarantees for every number of buffers and clients, *)
(* all formats and every length of the queue.                              *)
(***************************************************************************)
EXTENDS PipeWireStream, SequenceTheorems, TLAPS

-----------------------------------------------------------------------------
(* Sequences of events, and what they tell.                                *)

\* Taking the first element of a concatenation.
LEMMA ConcatHeadTail ==
  ASSUME NEW S, NEW s \in Seq(S), NEW t \in Seq(S), s # <<>>
  PROVE  /\ s \o t # <<>>
         /\ Head(s \o t) = Head(s)
         /\ Tail(s \o t) = Tail(s) \o t
<1>1. /\ s \o t \in Seq(S)
      /\ Len(s \o t) = Len(s) + Len(t)
      /\ Len(s) \in Nat /\ Len(t) \in Nat /\ Len(s) # 0
      /\ \A i \in 1 .. Len(s) + Len(t) :
           (s \o t)[i] = IF i <= Len(s) THEN s[i] ELSE t[i - Len(s)]
  BY ConcatProperties, EmptySeq, LenProperties
<1>2. s \o t # <<>>
  BY <1>1, EmptySeq
<1>3. /\ Tail(s) \in Seq(S)
      /\ Len(Tail(s)) = Len(s) - 1
      /\ \A i \in 1 .. Len(Tail(s)) : Tail(s)[i] = s[i + 1]
  BY HeadTailProperties
<1>4. /\ Tail(s \o t) \in Seq(S)
      /\ Len(Tail(s \o t)) = Len(s \o t) - 1
      /\ \A i \in 1 .. Len(Tail(s \o t)) : Tail(s \o t)[i] = (s \o t)[i + 1]
  BY <1>1, <1>2, HeadTailProperties
<1>5. /\ Tail(s) \o t \in Seq(S)
      /\ Len(Tail(s) \o t) = Len(Tail(s)) + Len(t)
      /\ \A i \in 1 .. Len(Tail(s)) + Len(t) :
           (Tail(s) \o t)[i] = IF i <= Len(Tail(s)) THEN Tail(s)[i] ELSE t[i - Len(Tail(s))]
  BY <1>3, ConcatProperties
<1>6. Tail(s \o t) = Tail(s) \o t
  <2>1. Len(Tail(s \o t)) = Len(Tail(s) \o t)
    BY <1>1, <1>3, <1>4, <1>5
  <2>2. \A i \in 1 .. Len(Tail(s \o t)) : Tail(s \o t)[i] = (Tail(s) \o t)[i]
    BY <1>1, <1>3, <1>4, <1>5
  <2> QED BY <1>4, <1>5, <2>1, <2>2, SeqEqual
<1>7. Head(s \o t) = Head(s)
  BY <1>1
<1> QED BY <1>2, <1>6, <1>7

\* An event that is appended changes nothing for the events before it.
LEMMA ToldLastAppend ==
  ASSUME NEW T, NEW q \in Seq(T), NEW e \in T, NEW news, NEW S,
         NEW i \in 1 .. Len(q) + 1, ToldLast(q, news, i, S)
  PROVE  ToldLast(Append(q, e), news, i, S)
<1>1. Len(q) \in Nat /\ \A j \in 1 .. Len(q) : Append(q, e)[j] = q[j]
  BY AppendProperties, LenProperties
<1>2. \A j \in 1 .. i - 1 : Append(q, e)[j] = q[j]
  BY <1>1
<1> QED BY <1>2 DEF ToldLast

\* A frame that is appended is no news.
LEMMA ToldLastAppendFrame ==
  ASSUME NEW T, NEW q \in Seq(T), NEW e \in T, IsFrame(e), NEW news, NEW S,
         ToldLast(q, news, Len(q) + 1, S)
  PROVE  ToldLast(Append(q, e), news, Len(q) + 2, S)
<1>1. /\ Len(q) \in Nat
      /\ \A j \in 1 .. Len(q) : Append(q, e)[j] = q[j]
      /\ Append(q, e)[Len(q) + 1] = e
  BY AppendProperties, LenProperties
<1>2. \A j \in 1 .. Len(q) + 1 : j \in 1 .. Len(q) \/ j = Len(q) + 1
  BY <1>1
<1> QED BY <1>1, <1>2 DEF ToldLast

\* Anything else is the last news.
LEMMA ToldLastAppendNews ==
  ASSUME NEW T, NEW q \in Seq(T), NEW e \in T, NEW news, NEW S, e \in S
  PROVE  ToldLast(Append(q, e), news, Len(q) + 2, S)
<1>1. Len(q) \in Nat /\ Append(q, e)[Len(q) + 1] = e
  BY AppendProperties, LenProperties
<1> QED BY <1>1 DEF ToldLast

\* A client that takes the first event knows its news, if it is any.
LEMMA ToldLastTail ==
  ASSUME NEW T, NEW q \in Seq(T), q # <<>>, NEW news, NEW S, \A e \in S : ~IsFrame(e),
         NEW i \in 2 .. Len(q) + 1, ToldLast(q, news, i, S)
  PROVE  ToldLast(Tail(q), IF IsFrame(Head(q)) THEN news ELSE Head(q), i - 1, S)
<1> DEFINE t == Tail(q)
<1>1. /\ Len(q) \in Nat /\ Len(q) # 0
      /\ Len(t) = Len(q) - 1
      /\ \A j \in 1 .. Len(t) : t[j] = q[j + 1]
      /\ Head(q) = q[1]
  BY HeadTailProperties, EmptySeq, LenProperties
<1> HIDE DEF t
<1>2. \A j \in 1 .. (i - 1) - 1 : t[j] = q[j + 1] /\ j + 1 \in 1 .. i - 1
  BY <1>1
<1>3. CASE news \in S /\ \A j \in 1 .. i - 1 : IsFrame(q[j])
  <2>1. IsFrame(Head(q)) /\ \A j \in 1 .. (i - 1) - 1 : IsFrame(t[j])
    BY <1>1, <1>2, <1>3
  <2> QED BY <1>3, <2>1 DEF ToldLast, t
<1>4. ASSUME NEW j \in 1 .. i - 1, q[j] \in S, \A k \in j + 1 .. i - 1 : IsFrame(q[k])
      PROVE  ToldLast(t, IF IsFrame(Head(q)) THEN news ELSE Head(q), i - 1, S)
  <2>1. CASE j = 1
    <3>1. ~IsFrame(Head(q)) /\ Head(q) \in S
      BY <1>1, <1>4, <2>1
    <3>2. \A k \in 1 .. (i - 1) - 1 : IsFrame(t[k])
      BY <1>2, <1>4, <2>1
    <3> QED BY <3>1, <3>2 DEF ToldLast
  <2>2. CASE j # 1
    <3>1. j - 1 \in 1 .. (i - 1) - 1 /\ (j - 1) + 1 = j
      BY <2>2
    <3>2. t[j - 1] \in S
      BY <1>2, <1>4, <3>1
    <3>3. \A k \in (j - 1) + 1 .. (i - 1) - 1 : k \in 1 .. (i - 1) - 1 /\ k + 1 \in j + 1 .. i - 1
      OBVIOUS
    <3>4. \A k \in (j - 1) + 1 .. (i - 1) - 1 : IsFrame(t[k])
      BY <1>2, <1>4, <3>3
    <3> QED BY <3>1, <3>2, <3>4 DEF ToldLast
  <2> QED BY <2>1, <2>2
<1> QED BY <1>3, <1>4 DEF ToldLast, t

-----------------------------------------------------------------------------
(* The inductive invariant.                                                *)

\* The owner is in the constructor, or was and failed.
Unborn == owner = "failed" \/ \E i \in DOMAIN Constructor : owner = Constructor[i]

\* What the owner's progress says of the rest.  Until the constructor ends no
\* callback and no client has done anything; when the destructor begins the
\* clients are done; when it has joined the loop thread there is no callback;
\* when it has cleared the queue no buffer is left outside PipeWire.
LifeInv ==
  /\ Unborn =>
       /\ loop = "none" /\ ~terminated
       /\ pw \in {"unconnected", "connecting"} /\ format = NoFormat
       /\ invoked = <<>> /\ eventQueue = <<>> /\ ~readable
       /\ announced = [kind |-> "none"]
       /\ \A c \in Clients : client[c] = "polling"
       /\ \A b \in Buffers : where[b] = "pipewire"
  /\ owner \in {"alive", "quit", "join"} => loop # "none"
  /\ owner \in {"clear", "disconnect", "destroyed"} => loop = "ended"
  /\ owner \in {"quit", "join", "clear", "disconnect", "destroyed"} => Unused
  /\ owner \in {"disconnect", "destroyed"} => \A b \in Buffers : where[b] = "pipewire"
  /\ owner = "disconnect" => eventQueue = <<>>
  /\ pw = "streaming" => format # NoFormat

\* The last news of a client that is not connected.
Unconnected == {[kind |-> "none"], DisconnectedEvent}

\* Clients are told that the stream is connected only when they believe that it
\* is not.
ConnectsAlternate ==
  \A i \in DOMAIN Unseen :
    Unseen[i].kind = "connected" => ToldLast(Unseen, announced, i, Unconnected)

\* A client that gets all events knows whether the stream is connected now, and
\* with which format.
StreamTold ==
  ~terminated /\ owner \notin {"disconnect", "destroyed"} =>
    ToldLast(Unseen, announced, Len(Unseen) + 1,
             IF pw = "streaming" THEN {ConnectedEvent(format)} ELSE Unconnected)

IInv ==
  /\ TypeOK
  /\ LifeInv
  /\ ReadableIffQueued
  /\ BuffersAccountedFor
  /\ FramesAreAnnounced
  /\ ConnectsAlternate
  /\ StreamTold

-----------------------------------------------------------------------------
(* Types, and the progress of the owner.                                   *)

\* The steps of the constructor.
LEMMA ConstructorSteps ==
  /\ DOMAIN Constructor = {1, 2, 3, 4, 5} /\ Len(Constructor) = 5
  /\ Constructor[1] = "eventfd" /\ Constructor[2] = "core" /\ Constructor[3] = "stream"
  /\ Constructor[4] = "connect" /\ Constructor[5] = "thread"
  /\ \A s : (\E i \in DOMAIN Constructor : s = Constructor[i])
              <=> s \in {"eventfd", "core", "stream", "connect", "thread"}
<1>1. /\ DOMAIN Constructor = {1, 2, 3, 4, 5} /\ Len(Constructor) = 5
      /\ Constructor[1] = "eventfd" /\ Constructor[2] = "core" /\ Constructor[3] = "stream"
      /\ Constructor[4] = "connect" /\ Constructor[5] = "thread"
  BY DEF Constructor
<1> QED BY <1>1

\* What callbacks report are events.
LEMMA EventTypes ==
  ASSUME TypeOK, LifeInv
  PROVE  /\ pw = "streaming" => format \in Offered
         /\ DisconnectedEvent \in Events
         /\ \A f \in Offered : ConnectedEvent(f) \in Events
         /\ \A kind \in {"memory", "dmabuf"}, f \in Offered, b \in Buffers :
              FrameEvent(kind, f, b) \in Events
         /\ \A old, new : (old = "paused" /\ new = "streaming" => format \in Offered) =>
              Reaction(old, new, format) = <<>>
              \/ /\ Reaction(old, new, format) \in Seq(Events)
                 /\ Len(Reaction(old, new, format)) = 1
<1>1. pw = "streaming" => format \in Offered
  BY DEF TypeOK, LifeInv
<1>2. /\ DisconnectedEvent \in Events
      /\ \A f \in Offered : ConnectedEvent(f) \in Events
      /\ \A kind \in {"memory", "dmabuf"}, f \in Offered, b \in Buffers :
           FrameEvent(kind, f, b) \in Events
  BY DEF Events
<1>3. \A e \in Events : <<e>> \in Seq(Events) /\ Len(<<e>>) = 1
  OBVIOUS
<1>4. ASSUME NEW old, NEW new, old = "paused" /\ new = "streaming" => format \in Offered
      PROVE  \/ Reaction(old, new, format) = <<>>
             \/ /\ Reaction(old, new, format) \in Seq(Events)
                /\ Len(Reaction(old, new, format)) = 1
  BY <1>2, <1>3, <1>4 DEF Reaction
<1> QED BY <1>1, <1>2, <1>4

\* Events and what they are about.
LEMMA EventForms ==
  ASSUME NEW e \in Events
  PROVE  /\ e.kind \in {"disconnected", "connected", "memory", "dmabuf"}
         /\ IsFrame(e) => e.format \in Offered /\ e.buffer \in Buffers
         /\ ~IsFrame(e) => e = DisconnectedEvent \/ \E f \in Offered : e = ConnectedEvent(f)
  BY DEF Events, IsFrame, DisconnectedEvent, ConnectedEvent, FrameEvent

\* Every step keeps the types.
LEMMA TypeNext == IInv /\ [Next]_vars => TypeOK'
<1> SUFFICES ASSUME IInv, [Next]_vars PROVE TypeOK'
  OBVIOUS
<1>0. TypeOK /\ LifeInv
  BY DEF IInv
<1>1. CASE Construct
  BY <1>0, <1>1, ConstructorSteps DEF Construct, StartsLoop, TypeOK, LifeInv, Unborn, queueVars, clientVars
<1>2. CASE ConstructFails
  BY <1>0, <1>2, ConstructorSteps DEF ConstructFails, TypeOK, queueVars, clientVars
<1>3. ASSUME NEW f \in Offered, StreamParamChanged(f) PROVE TypeOK'
  BY <1>0, <1>3 DEF StreamParamChanged, TypeOK, queueVars, clientVars
<1>4. ASSUME NEW new \in {"paused", "streaming", "error", "unconnected"}, StreamStateChanged(new)
      PROVE  TypeOK'
  <2>1. pw = "paused" /\ new = "streaming" => format \in Offered
    BY <1>0, <1>4 DEF StreamStateChanged, TypeOK
  <2> DEFINE r == Reaction(pw, new, format)
  <2>2. r = <<>> \/ (r \in Seq(Events) /\ Len(r) = 1)
    BY <1>0, <2>1, EventTypes
  <2> HIDE DEF r
  <2>3. /\ loop = "idle" /\ pending = <<>>
        /\ \/ UNCHANGED <<loop, pending>> /\ terminated' \in BOOLEAN
           \/ /\ pending' = r /\ UNCHANGED terminated
              /\ loop' = IF r = <<>> THEN "idle" ELSE "enqueue"
    BY <1>0, <1>4, EmptySeq DEF StreamStateChanged, Report, TypeOK, r
  <2>4. /\ pending' \in Seq(Events) /\ Len(pending') = IF loop' = "enqueue" THEN 1 ELSE 0
        /\ loop' \in {"idle", "enqueue"} /\ terminated' \in BOOLEAN
    BY <1>0, <2>2, <2>3 DEF TypeOK
  <2>5. /\ pw' = new /\ state' = new
        /\ UNCHANGED <<active, invoked, format, where, eventQueue, readable, client, announced, owner>>
    BY <1>4 DEF StreamStateChanged, queueVars, clientVars
  <2> QED BY <1>0, <2>4, <2>5 DEF TypeOK
<1>5. CASE CoreError
  BY <1>0, <1>5 DEF CoreError, TypeOK, queueVars, clientVars
<1>6. ASSUME NEW b \in Buffers, ProcessFrame(b) PROVE TypeOK'
  BY <1>0, <1>6, EventTypes DEF ProcessFrame, BufferTypes, Report, TypeOK, queueVars, clientVars
<1>7. CASE EnqueueEvent
  BY <1>0, <1>7 DEF EnqueueEvent, Report, TypeOK, clientVars
<1>8. CASE RunInvoked
  BY <1>0, <1>8 DEF RunInvoked, TypeOK, queueVars, clientVars
<1>9. ASSUME NEW c \in Clients, Client(c) PROVE TypeOK'
  <2>1. CASE Poll(c)
    BY <1>0, <2>1 DEF Poll, TypeOK, queueVars
  <2>2. CASE NextEventCheck(c)
    BY <1>0, <2>2 DEF NextEventCheck, TypeOK, queueVars
  <2>3. CASE NextEventPop(c)
    <3>1. CASE eventQueue = <<>>
      BY <1>0, <2>3, <3>1 DEF NextEventPop, TypeOK, queueVars
    <3>2. CASE eventQueue # <<>>
      <4>1. Head(eventQueue) \in Events /\ Tail(eventQueue) \in Seq(Events)
        BY <1>0, <3>2 DEF TypeOK
      <4> QED BY <1>0, <2>3, <3>2, <4>1, EventForms DEF NextEventPop, TypeOK, StaysReadable
    <3> QED BY <3>1, <3>2
  <2>4. CASE StopPolling(c)
    BY <1>0, <2>4 DEF StopPolling, TypeOK, queueVars
  <2> QED BY <1>9, <2>1, <2>2, <2>3, <2>4 DEF Client
<1>10. ASSUME NEW b \in Buffers, ReleaseFrame(b) PROVE TypeOK'
  BY <1>0, <1>10 DEF ReleaseFrame, TypeOK, queueVars, clientVars
<1>11. CASE DestroyBegin
  BY <1>0, <1>11 DEF DestroyBegin, InvokeDeactivate, TypeOK, queueVars, clientVars
<1>12. CASE DestroyQuit
  BY <1>0, <1>12 DEF DestroyQuit, TypeOK, queueVars, clientVars
<1>13. CASE DestroyJoin
  BY <1>0, <1>13 DEF DestroyJoin, TypeOK, queueVars, clientVars
<1>14. CASE DestroyClear
  BY <1>0, <1>14 DEF DestroyClear, TypeOK, clientVars
<1>15. CASE DestroyStream
  <2> DEFINE r == Reaction(pw, "unconnected", format)
  <2>1. r \in Seq(Events)
    BY <1>0, EventTypes, EmptySeq
  <2> HIDE DEF r
  <2>2. /\ pw' = "unconnected" /\ state' = "unconnected" /\ owner' = "destroyed"
        /\ \/ UNCHANGED <<eventQueue, readable>>
           \/ eventQueue' = eventQueue \o r /\ readable' = (readable \/ r # <<>>)
        /\ UNCHANGED <<active, invoked, format, where, loop, pending, client, announced, terminated>>
    BY <1>0, <1>15 DEF DestroyStream, TypeOK, queueVars, clientVars, r
  <2>3. eventQueue' \in Seq(Events) /\ readable' \in BOOLEAN
    <3>1. eventQueue \in Seq(Events) /\ eventQueue \o r \in Seq(Events)
      BY <1>0, <2>1, ConcatProperties DEF TypeOK
    <3>2. readable' \in BOOLEAN
      BY <1>0, <2>2 DEF TypeOK
    <3> QED BY <2>2, <3>1, <3>2
  <2> QED BY <1>0, <2>2, <2>3 DEF TypeOK
<1>16. CASE Finished \/ UNCHANGED vars
  BY <1>0, <1>16 DEF Finished, TypeOK, vars
<1> QED BY <1>1, <1>2, <1>3, <1>4, <1>5, <1>6, <1>7, <1>8, <1>9, <1>10, <1>11, <1>12, <1>13,
           <1>14, <1>15, <1>16 DEF Next, LoopThread, Owner

\* When the queue is cleared after the loop thread has ended, every buffer that
\* is in an event is given back with it.
LEMMA ClearReturnsBuffers ==
  ASSUME IInv, DestroyClear
  PROVE  \A b \in Buffers : where'[b] = "pipewire"
<1>1. TypeOK /\ LifeInv /\ BuffersAccountedFor
  BY DEF IInv
<1>2. loop = "ended" /\ pending = <<>> /\ eventQueue \in Seq(Events)
  BY <1>1, EmptySeq DEF DestroyClear, LifeInv, TypeOK
<1>3. Unseen = eventQueue
  BY <1>2, ConcatEmptySeq DEF Unseen
<1>4. \A b \in Buffers : where[b] \in {"pipewire", "event"}
  BY <1>1 DEF DestroyClear, LifeInv, Unused, TypeOK
<1>5. ASSUME NEW b \in Buffers, where[b] = "event"
      PROVE  \E i \in DOMAIN eventQueue : IsFrame(eventQueue[i]) /\ eventQueue[i].buffer = b
  BY <1>1, <1>3, <1>5 DEF BuffersAccountedFor
<1> QED BY <1>4, <1>5 DEF DestroyClear

\* Every step keeps LifeInv.
LEMMA LifeNext == IInv /\ [Next]_vars => LifeInv'
<1> SUFFICES ASSUME IInv, [Next]_vars PROVE LifeInv'
  OBVIOUS
<1>0. TypeOK /\ LifeInv /\ ReadableIffQueued
  BY DEF IInv
<1>a. Unborn <=> owner \in {"failed", "eventfd", "core", "stream", "connect", "thread"}
  BY ConstructorSteps DEF Unborn
<1>b. Unborn' <=> owner' \in {"failed", "eventfd", "core", "stream", "connect", "thread"}
  BY ConstructorSteps DEF Unborn
<1>1. CASE Construct
  BY <1>0, <1>1, <1>a, <1>b, ConstructorSteps DEF Construct, StartsLoop, LifeInv, queueVars, clientVars
<1>2. CASE ConstructFails
  BY <1>0, <1>2, <1>a, <1>b, ConstructorSteps DEF ConstructFails, LifeInv, queueVars, clientVars
<1>3. ASSUME NEW f \in Offered, StreamParamChanged(f) PROVE LifeInv'
  BY <1>0, <1>3, <1>a, <1>b DEF StreamParamChanged, LifeInv, Unused, queueVars, clientVars
<1>4. ASSUME NEW new \in {"paused", "streaming", "error", "unconnected"}, StreamStateChanged(new)
      PROVE  LifeInv'
  <2>1. loop = "idle" /\ (new = "streaming" => format # NoFormat)
        /\ pw' = new /\ loop' \in {"idle", "enqueue"}
        /\ UNCHANGED <<active, invoked, format, where, eventQueue, readable, client, announced, owner>>
    BY <1>4 DEF StreamStateChanged, Report, queueVars, clientVars
  <2> QED BY <1>0, <2>1, <1>a, <1>b DEF LifeInv, Unused
<1>5. CASE CoreError
  BY <1>0, <1>5, <1>a, <1>b DEF CoreError, LifeInv, Unused, queueVars, clientVars
<1>6. ASSUME NEW b \in Buffers, ProcessFrame(b) PROVE LifeInv'
  BY <1>0, <1>6, <1>a, <1>b DEF ProcessFrame, Report, LifeInv, Unused, TypeOK, queueVars, clientVars
<1>7. CASE EnqueueEvent
  BY <1>0, <1>7, <1>a, <1>b DEF EnqueueEvent, Report, LifeInv, Unused, clientVars
<1>8. CASE RunInvoked
  BY <1>0, <1>8, <1>a, <1>b DEF RunInvoked, LifeInv, Unused, queueVars, clientVars
<1>9. ASSUME NEW c \in Clients, Client(c) PROVE LifeInv'
  <2>0. ~Unborn /\ owner \notin {"quit", "join", "clear", "disconnect", "destroyed"}
    <3>1. /\ client[c] \in {"polling", "check", "pop"}
          /\ client[c] = "polling" => readable \/ owner = "alive"
      BY <1>9 DEF Client, Poll, NextEventCheck, NextEventPop, StopPolling
    <3> QED BY <1>0, <1>a, <3>1 DEF LifeInv, Unused
  <2>1. UNCHANGED <<loop, owner, pw, format>>
    BY <1>9 DEF Client, Poll, NextEventCheck, NextEventPop, StopPolling
  <2> QED BY <1>0, <2>0, <2>1, <1>a, <1>b DEF LifeInv
<1>10. ASSUME NEW b \in Buffers, ReleaseFrame(b) PROVE LifeInv'
  BY <1>0, <1>10, <1>a, <1>b DEF ReleaseFrame, LifeInv, Unused, TypeOK, queueVars, clientVars
<1>11. CASE DestroyBegin
  BY <1>0, <1>11, <1>a, <1>b DEF DestroyBegin, InvokeDeactivate, LifeInv, Unused, queueVars, clientVars
<1>12. CASE DestroyQuit
  BY <1>0, <1>12, <1>a, <1>b DEF DestroyQuit, LifeInv, Unused, queueVars, clientVars
<1>13. CASE DestroyJoin
  BY <1>0, <1>13, <1>a, <1>b DEF DestroyJoin, LifeInv, Unused, queueVars, clientVars
<1>14. CASE DestroyClear
  <2>1. \A b \in Buffers : where'[b] = "pipewire"
    BY <1>14, ClearReturnsBuffers
  <2> QED BY <1>0, <1>14, <2>1, <1>a, <1>b DEF DestroyClear, LifeInv, Unused, clientVars
<1>15. CASE DestroyStream
  <2>1. owner = "disconnect" /\ owner' = "destroyed" /\ pw' = "unconnected"
        /\ UNCHANGED <<where, loop, client>>
    BY <1>15 DEF DestroyStream, clientVars
  <2> QED BY <1>0, <2>1, <1>a, <1>b DEF LifeInv, Unused
<1>16. CASE Finished \/ UNCHANGED vars
  BY <1>0, <1>16, <1>a, <1>b DEF Finished, LifeInv, Unused, vars
<1> QED BY <1>1, <1>2, <1>3, <1>4, <1>5, <1>6, <1>7, <1>8, <1>9, <1>10, <1>11, <1>12, <1>13,
           <1>14, <1>15, <1>16 DEF Next, LoopThread, Owner

-----------------------------------------------------------------------------
(* The queue.                                                              *)

\* What IInv says of the events that are not seen yet.
QueueInv == BuffersAccountedFor /\ FramesAreAnnounced /\ ConnectsAlternate /\ StreamTold

\* The events that are not seen yet are a sequence; between callbacks it is the
\* queue.
LEMMA UnseenType ==
  ASSUME TypeOK
  PROVE  /\ Unseen \in Seq(Events)
         /\ DOMAIN Unseen = 1 .. Len(Unseen) /\ Len(Unseen) \in Nat
         /\ loop # "enqueue" => pending = <<>> /\ Unseen = eventQueue
<1>1. eventQueue \in Seq(Events) /\ pending \in Seq(Events)
  BY DEF TypeOK
<1>2. Unseen \in Seq(Events)
  BY <1>1, ConcatProperties DEF Unseen
<1>3. DOMAIN Unseen = 1 .. Len(Unseen) /\ Len(Unseen) \in Nat
  BY <1>2, LenProperties
<1>4. ASSUME loop # "enqueue" PROVE pending = <<>> /\ Unseen = eventQueue
  <2>1. pending = <<>>
    BY <1>1, <1>4, EmptySeq DEF TypeOK
  <2> QED BY <1>1, <2>1, ConcatEmptySeq DEF Unseen
<1> QED BY <1>2, <1>3, <1>4

\* A step that leaves the events alone leaves what they tell alone.
LEMMA SameEvents ==
  ASSUME QueueInv, Unseen' = Unseen, UNCHANGED <<announced, where, terminated>>,
         owner \in {"disconnect", "destroyed"} => owner' \in {"disconnect", "destroyed"},
         pw' = "streaming" <=> pw = "streaming",
         pw = "streaming" => format' = format
  PROVE  QueueInv'
<1>1. BuffersAccountedFor'
  BY DEF QueueInv, BuffersAccountedFor
<1>2. FramesAreAnnounced'
  BY DEF QueueInv, FramesAreAnnounced, ToldLast
<1>3. ConnectsAlternate'
  BY DEF QueueInv, ConnectsAlternate, ToldLast
<1>4. StreamTold'
  <2>1. (IF pw' = "streaming" THEN {ConnectedEvent(format')} ELSE Unconnected)
          = (IF pw = "streaming" THEN {ConnectedEvent(format)} ELSE Unconnected)
    OBVIOUS
  <2>2. \A S : ToldLast(Unseen', announced', Len(Unseen') + 1, S)
                 <=> ToldLast(Unseen, announced, Len(Unseen) + 1, S)
    BY DEF ToldLast
  <2> QED BY <2>1, <2>2 DEF QueueInv, StreamTold, Unconnected
<1> QED BY <1>1, <1>2, <1>3, <1>4 DEF QueueInv

\* processFrame() appends a frame, of a buffer that was not in an event.
LEMMA FrameIsAppended ==
  ASSUME IInv, NEW b \in Buffers, ProcessFrame(b)
  PROVE  QueueInv'
<1>1. TypeOK /\ LifeInv /\ QueueInv
  BY DEF IInv, QueueInv
<1>2. PICK kind \in BufferTypes(format) : Report(<<FrameEvent(kind, format, b)>>)
  BY DEF ProcessFrame
<1> DEFINE e == FrameEvent(kind, format, b)
<1>3. /\ kind \in {"memory", "dmabuf"} /\ (kind = "dmabuf" => format.modifier)
      /\ format \in Offered /\ e \in Events
      /\ IsFrame(e) /\ e.kind = kind /\ e.format = format /\ e.buffer = b
  BY <1>1, EventTypes DEF ProcessFrame, BufferTypes, FrameEvent, IsFrame
<1>4. format.modifier => SupportDmaBuf
  BY <1>3, StreamAssumption DEF Offered
<1> DEFINE q == Unseen
<1>5. /\ q \in Seq(Events) /\ Unseen' = Append(q, e)
      /\ UNCHANGED <<announced, terminated, owner, pw, format>>
      /\ pw = "streaming" /\ ~terminated
      /\ where[b] = "pipewire" /\ where' = [where EXCEPT ![b] = "event"]
  <2>1. Unseen = eventQueue /\ q \in Seq(Events)
    BY <1>1, UnseenType DEF ProcessFrame
  <2>2. Unseen' = eventQueue \o <<e>>
    BY <1>2 DEF ProcessFrame, Report, queueVars, Unseen
  <2>3. eventQueue \o <<e>> = Append(eventQueue, e)
    BY <1>1, <1>3, AppendIsConcat DEF TypeOK
  <2> QED BY <2>1, <2>2, <2>3 DEF ProcessFrame, clientVars
<1> HIDE DEF e, q
<1>6. /\ Len(q) \in Nat /\ DOMAIN q = 1 .. Len(q)
      /\ Append(q, e) \in Seq(Events) /\ Len(Append(q, e)) = Len(q) + 1
      /\ DOMAIN Append(q, e) = 1 .. Len(q) + 1
      /\ \A i \in 1 .. Len(q) : Append(q, e)[i] = q[i]
      /\ Append(q, e)[Len(q) + 1] = e
  BY <1>3, <1>5, AppendProperties, LenProperties
<1>7. BuffersAccountedFor'
  <2> SUFFICES ASSUME NEW x \in Buffers
               PROVE  LET holders == {i \in 1 .. Len(q) + 1 : IsFrame(Append(q, e)[i])
                                                               /\ Append(q, e)[i].buffer = x}
                      IN  IF where'[x] = "event" THEN \E i \in holders : holders = {i}
                          ELSE holders = {}
    BY <1>5, <1>6 DEF BuffersAccountedFor
  <2> DEFINE old == {i \in 1 .. Len(q) : IsFrame(q[i]) /\ q[i].buffer = x}
             new == {i \in 1 .. Len(q) + 1 : IsFrame(Append(q, e)[i]) /\ Append(q, e)[i].buffer = x}
  <2>1. IF where[x] = "event" THEN \E i \in old : old = {i} ELSE old = {}
    BY <1>1, <1>6 DEF QueueInv, BuffersAccountedFor, q
  <2>2. CASE x = b
    <3>1. old = {} /\ where'[x] = "event"
      BY <1>1, <1>5, <2>1, <2>2 DEF TypeOK
    <3>2. new = {Len(q) + 1}
      BY <1>3, <1>6, <2>2, <3>1
    <3> QED BY <3>1, <3>2
  <2>3. CASE x # b
    <3>1. new = old
      BY <1>3, <1>6, <2>3
    <3>2. where'[x] = where[x]
      BY <1>1, <1>5, <2>3 DEF TypeOK
    <3> QED BY <2>1, <3>1, <3>2
  <2> QED BY <2>2, <2>3
<1>8. ToldLast(q, announced, Len(q) + 1, {ConnectedEvent(format)})
  BY <1>1, <1>5 DEF QueueInv, StreamTold, q, ProcessFrame, LifeInv
<1>9. FramesAreAnnounced'
  <2> SUFFICES ASSUME NEW i \in 1 .. Len(q) + 1, IsFrame(Append(q, e)[i])
               PROVE  /\ ToldLast(Append(q, e), announced, i, {ConnectedEvent(Append(q, e)[i].format)})
                      /\ Append(q, e)[i].kind = "dmabuf" =>
                           Append(q, e)[i].format.modifier /\ SupportDmaBuf
    BY <1>5, <1>6 DEF FramesAreAnnounced, ToldLast
  <2>1. CASE i \in 1 .. Len(q)
    <3>1. /\ ToldLast(q, announced, i, {ConnectedEvent(q[i].format)})
          /\ q[i].kind = "dmabuf" => q[i].format.modifier /\ SupportDmaBuf
      BY <1>1, <1>6, <2>1 DEF QueueInv, FramesAreAnnounced, q
    <3>2. ToldLast(Append(q, e), announced, i, {ConnectedEvent(q[i].format)})
      BY <1>3, <1>5, <2>1, <3>1, ToldLastAppend
    <3> QED BY <1>6, <2>1, <3>1, <3>2
  <2>2. CASE i = Len(q) + 1
    <3>1. ToldLast(Append(q, e), announced, i, {ConnectedEvent(format)})
      BY <1>3, <1>5, <1>6, <1>8, <2>2, ToldLastAppend
    <3>2. Append(q, e)[i] = e
      BY <1>6, <2>2
    <3>3. e.kind = "dmabuf" => e.format.modifier /\ SupportDmaBuf
      BY <1>3, <1>4, Zenon
    <3>4. ToldLast(Append(q, e), announced, i, {ConnectedEvent(Append(q, e)[i].format)})
      BY <1>3, <3>1, <3>2
    <3>5. Append(q, e)[i].kind = "dmabuf" =>
            Append(q, e)[i].format.modifier /\ SupportDmaBuf
      BY <3>2, <3>3
    <3> QED BY <3>4, <3>5
  <2>3. i \in 1 .. Len(q) \/ i = Len(q) + 1
    BY <1>6
  <2> QED BY <2>1, <2>2, <2>3
<1>10. ConnectsAlternate'
  <2> SUFFICES ASSUME NEW i \in 1 .. Len(q) + 1, Append(q, e)[i].kind = "connected"
               PROVE  ToldLast(Append(q, e), announced, i, Unconnected)
    BY <1>5, <1>6 DEF ConnectsAlternate, ToldLast, Unconnected
  <2>1. i \in 1 .. Len(q) /\ q[i].kind = "connected"
    BY <1>3, <1>6
  <2>2. ToldLast(q, announced, i, Unconnected)
    BY <1>1, <1>6, <2>1 DEF QueueInv, ConnectsAlternate, q
  <2> QED BY <1>3, <1>5, <1>6, <2>1, <2>2, ToldLastAppend
<1>11. StreamTold'
  <2>1. ToldLast(Append(q, e), announced, Len(q) + 2, {ConnectedEvent(format)})
    BY <1>3, <1>5, <1>8, ToldLastAppendFrame
  <2> QED BY <1>5, <1>6, <2>1 DEF StreamTold, ToldLast
<1> QED BY <1>7, <1>9, <1>10, <1>11 DEF QueueInv

\* streamStateChanged() appends what the client must be told, if anything.
LEMMA ReactionIsAppended ==
  ASSUME IInv, NEW new \in {"paused", "streaming", "error", "unconnected"},
         StreamStateChanged(new)
  PROVE  QueueInv'
<1>1. TypeOK /\ LifeInv /\ QueueInv
  BY DEF IInv, QueueInv
<1>2. /\ Unseen = eventQueue /\ loop = "idle" /\ ~terminated /\ pending = <<>>
      /\ owner \notin {"disconnect", "destroyed"}
  BY <1>1, UnseenType DEF StreamStateChanged, LifeInv
<1>3. /\ pw' = new
      /\ UNCHANGED <<format, where, eventQueue, readable, announced, owner>>
  BY DEF StreamStateChanged, queueVars, clientVars
<1>4. CASE new = "streaming" /\ format.pixel \notin Convertible
  <2>1. terminated' = TRUE /\ Unseen' = Unseen
    BY <1>3, <1>4 DEF StreamStateChanged, Unseen
  <2>2. BuffersAccountedFor' /\ FramesAreAnnounced' /\ ConnectsAlternate'
    BY <1>1, <1>3, <2>1
       DEF QueueInv, BuffersAccountedFor, FramesAreAnnounced, ConnectsAlternate, ToldLast, Unconnected
  <2>3. StreamTold'
    BY <2>1 DEF StreamTold
  <2> QED BY <2>2, <2>3 DEF QueueInv
<1>5. CASE ~(new = "streaming" /\ format.pixel \notin Convertible)
  <2>1. Report(Reaction(pw, new, format)) /\ UNCHANGED terminated
    BY <1>5 DEF StreamStateChanged
  <2>2. CASE Reaction(pw, new, format) = <<>>
    <3>1. Unseen' = Unseen
      BY <1>2, <1>3, <2>1, <2>2 DEF Report, Unseen
    <3>2. pw # "streaming" /\ new # "streaming"
      BY <2>2 DEF Reaction, StreamStateChanged, Transitions
    <3> QED BY <1>1, <1>2, <1>3, <2>1, <3>1, <3>2, SameEvents
  <2>3. CASE Reaction(pw, new, format) # <<>>
    <3> DEFINE told == IF new = "streaming" THEN {ConnectedEvent(format)} ELSE Unconnected
    <3>1. PICK e \in Events : /\ Reaction(pw, new, format) = <<e>>
                              /\ e \in told /\ ~IsFrame(e)
                              /\ e.kind = "connected" => pw # "streaming"
      <4>1. new = "streaming" => format \in Offered
        BY <1>1 DEF StreamStateChanged, TypeOK
      <4>2. CASE new = "streaming"
        <5>1. pw = "paused" /\ Reaction(pw, new, format) = <<ConnectedEvent(format)>>
          BY <4>2 DEF StreamStateChanged, Transitions, Reaction
        <5>2. ~IsFrame(ConnectedEvent(format))
          BY DEF IsFrame, ConnectedEvent
        <5> QED BY <1>1, <4>1, <4>2, <5>1, <5>2, EventTypes
      <4>3. CASE new # "streaming"
        <5>1. Reaction(pw, new, format) = <<DisconnectedEvent>>
          BY <2>3, <4>3 DEF Reaction
        <5>2. ~IsFrame(DisconnectedEvent) /\ DisconnectedEvent.kind # "connected"
          BY DEF IsFrame, DisconnectedEvent
        <5> QED BY <1>1, <4>3, <5>1, <5>2, EventTypes DEF Unconnected
      <4> QED BY <4>2, <4>3
    <3> DEFINE q == Unseen
    <3>2. q \in Seq(Events) /\ Unseen' = Append(q, e)
      <4>1. Unseen' = eventQueue \o <<e>>
        BY <1>3, <2>1, <3>1 DEF Report, Unseen
      <4>2. eventQueue \o <<e>> = Append(eventQueue, e)
        BY <1>1, AppendIsConcat DEF TypeOK
      <4> QED BY <1>1, <1>2, <4>1, <4>2 DEF TypeOK
    <3> HIDE DEF q
    <3>3. /\ Len(q) \in Nat /\ DOMAIN q = 1 .. Len(q)
          /\ Append(q, e) \in Seq(Events) /\ Len(Append(q, e)) = Len(q) + 1
          /\ DOMAIN Append(q, e) = 1 .. Len(q) + 1
          /\ \A i \in 1 .. Len(q) : Append(q, e)[i] = q[i]
          /\ Append(q, e)[Len(q) + 1] = e
      BY <3>2, AppendProperties, LenProperties
    <3>4. BuffersAccountedFor'
      <4> SUFFICES ASSUME NEW x \in Buffers
                   PROVE  LET holders == {i \in 1 .. Len(q) + 1 : IsFrame(Append(q, e)[i])
                                                                   /\ Append(q, e)[i].buffer = x}
                          IN  IF where[x] = "event" THEN \E i \in holders : holders = {i}
                              ELSE holders = {}
        BY <1>3, <3>2, <3>3 DEF BuffersAccountedFor
      <4> DEFINE old == {i \in 1 .. Len(q) : IsFrame(q[i]) /\ q[i].buffer = x}
      <4>1. IF where[x] = "event" THEN \E i \in old : old = {i} ELSE old = {}
        BY <1>1, <3>3 DEF QueueInv, BuffersAccountedFor, q
      <4>2. {i \in 1 .. Len(q) + 1 : IsFrame(Append(q, e)[i]) /\ Append(q, e)[i].buffer = x} = old
        BY <3>1, <3>3
      <4> QED BY <4>1, <4>2
    <3>5. FramesAreAnnounced'
      <4> SUFFICES ASSUME NEW i \in 1 .. Len(q) + 1, IsFrame(Append(q, e)[i])
                   PROVE  /\ ToldLast(Append(q, e), announced, i, {ConnectedEvent(Append(q, e)[i].format)})
                          /\ Append(q, e)[i].kind = "dmabuf" =>
                               Append(q, e)[i].format.modifier /\ SupportDmaBuf
        BY <1>3, <3>2, <3>3 DEF FramesAreAnnounced, ToldLast
      <4>1. i \in 1 .. Len(q) /\ Append(q, e)[i] = q[i]
        BY <3>1, <3>3
      <4>2. /\ ToldLast(q, announced, i, {ConnectedEvent(q[i].format)})
            /\ q[i].kind = "dmabuf" => q[i].format.modifier /\ SupportDmaBuf
        BY <1>1, <3>3, <4>1 DEF QueueInv, FramesAreAnnounced, q
      <4>3. ToldLast(Append(q, e), announced, i, {ConnectedEvent(q[i].format)})
        BY <3>2, <4>1, <4>2, ToldLastAppend
      <4> QED BY <4>1, <4>2, <4>3
    <3>6. ConnectsAlternate'
      <4> SUFFICES ASSUME NEW i \in 1 .. Len(q) + 1, Append(q, e)[i].kind = "connected"
                   PROVE  ToldLast(Append(q, e), announced, i, Unconnected)
        BY <1>3, <3>2, <3>3 DEF ConnectsAlternate, ToldLast, Unconnected
      <4>1. ToldLast(q, announced, i, Unconnected)
        <5>1. CASE i \in 1 .. Len(q)
          BY <1>1, <3>3, <5>1 DEF QueueInv, ConnectsAlternate, q
        <5>2. CASE i = Len(q) + 1
          BY <1>1, <1>2, <3>1, <3>3, <5>2 DEF QueueInv, StreamTold, q
        <5> QED BY <3>3, <5>1, <5>2
      <4> QED BY <3>2, <4>1, ToldLastAppend
    <3>7. StreamTold'
      <4>1. ToldLast(Append(q, e), announced, Len(q) + 2, told)
        BY <3>1, <3>2, ToldLastAppendNews
      <4> QED BY <1>3, <3>2, <3>3, <4>1 DEF StreamTold, ToldLast, Unconnected
    <3> QED BY <3>4, <3>5, <3>6, <3>7 DEF QueueInv
  <2> QED BY <2>2, <2>3
<1> QED BY <1>4, <1>5

\* nextEvent() takes the oldest event, and the client knows what it tells.
LEMMA OldestIsTaken ==
  ASSUME IInv, NEW c \in Clients, NextEventPop(c)
  PROVE  QueueInv'
<1>1. TypeOK /\ LifeInv /\ QueueInv
  BY DEF IInv, QueueInv
<1>2. UNCHANGED <<pw, format, pending, owner, terminated>>
  BY DEF NextEventPop
<1>3. CASE eventQueue = <<>>
  <2>1. Unseen' = Unseen /\ UNCHANGED <<where, announced>>
    BY <1>2, <1>3 DEF NextEventPop, Unseen, queueVars
  <2> QED BY <1>1, <1>2, <2>1, SameEvents
<1>4. CASE eventQueue # <<>>
  <2> DEFINE e == Head(eventQueue)
             q == Unseen
             t == Tail(Unseen)
             news == IF IsFrame(e) THEN announced ELSE e
  <2>1. /\ q \in Seq(Events) /\ q # <<>> /\ Head(q) = e
        /\ Unseen' = t
    <3>1. eventQueue \in Seq(Events) /\ pending \in Seq(Events)
      BY <1>1 DEF TypeOK
    <3>2. /\ q # <<>> /\ Head(q) = e
          /\ t = Tail(eventQueue) \o pending
      BY <1>4, <3>1, ConcatHeadTail DEF Unseen
    <3>3. Unseen' = Tail(eventQueue) \o pending
      BY <1>2, <1>4 DEF NextEventPop, Unseen
    <3> QED BY <1>1, <3>2, <3>3, UnseenType
  <2>2. /\ announced' = news
        /\ where' = IF IsFrame(e) THEN [where EXCEPT ![e.buffer] = "client"] ELSE where
    BY <1>4 DEF NextEventPop
  <2>3. e \in Events
    BY <1>1, <1>4 DEF TypeOK
  <2> HIDE DEF e, q, t
  <2>4. /\ Len(q) \in Nat \ {0} /\ DOMAIN q = 1 .. Len(q)
        /\ t \in Seq(Events) /\ Len(t) = Len(q) - 1 /\ DOMAIN t = 1 .. Len(q) - 1
        /\ \A i \in 1 .. Len(q) - 1 : t[i] = q[i + 1] /\ i + 1 \in 2 .. Len(q)
        /\ q[1] = e
    BY <2>1, HeadTailProperties, LenProperties, EmptySeq DEF t, q
  <2>5. ASSUME NEW S, \A x \in S : ~IsFrame(x), NEW i \in 1 .. Len(t) + 1,
               ToldLast(q, announced, i + 1, S)
        PROVE  ToldLast(t, news, i, S)
    <3>1. i + 1 \in 2 .. Len(q) + 1 /\ (i + 1) - 1 = i
      BY <2>4
    <3> QED BY <2>1, <2>5, <3>1, ToldLastTail DEF q, t
  <2>6. BuffersAccountedFor'
    <3> SUFFICES ASSUME NEW x \in Buffers
                 PROVE  LET holders == {i \in 1 .. Len(q) - 1 : IsFrame(t[i]) /\ t[i].buffer = x}
                        IN  IF where'[x] = "event" THEN \E i \in holders : holders = {i}
                            ELSE holders = {}
      BY <2>1, <2>4 DEF BuffersAccountedFor
    <3> DEFINE old == {i \in 1 .. Len(q) : IsFrame(q[i]) /\ q[i].buffer = x}
               new == {i \in 1 .. Len(q) - 1 : IsFrame(t[i]) /\ t[i].buffer = x}
    <3>1. IF where[x] = "event" THEN \E i \in old : old = {i} ELSE old = {}
      BY <1>1, <2>4 DEF QueueInv, BuffersAccountedFor, q
    <3>2. \A i : i \in new <=> i + 1 \in old /\ i \in 1 .. Len(q) - 1
      BY <2>4
    <3>3. CASE IsFrame(e) /\ e.buffer = x
      <4>1. 1 \in old
        BY <2>4, <3>3
      <4>2. old = {1}
        BY <3>1, <4>1
      <4>3. new = {}
        BY <3>2, <4>2
      <4>4. where'[x] # "event"
        BY <1>1, <2>2, <3>3 DEF TypeOK
      <4> QED BY <4>3, <4>4
    <3>4. CASE ~(IsFrame(e) /\ e.buffer = x)
      <4>1. where'[x] = where[x]
        BY <1>1, <2>2, <3>4 DEF TypeOK
      <4>2. \A j \in old : j # 1 /\ j - 1 \in new
        BY <2>4, <3>2, <3>4
      <4>3. CASE where[x] = "event"
        <5>1. PICK j \in old : old = {j}
          BY <3>1, <4>3
        <5>2. new = {j - 1}
          BY <3>2, <4>2, <5>1
        <5> QED BY <4>1, <4>3, <5>2
      <4>4. CASE where[x] # "event"
        BY <3>1, <3>2, <4>1, <4>4
      <4> QED BY <4>3, <4>4
    <3> QED BY <3>3, <3>4
  <2>7. FramesAreAnnounced'
    <3> SUFFICES ASSUME NEW i \in 1 .. Len(q) - 1, IsFrame(t[i])
                 PROVE  /\ ToldLast(t, news, i, {ConnectedEvent(t[i].format)})
                        /\ t[i].kind = "dmabuf" => t[i].format.modifier /\ SupportDmaBuf
      BY <2>1, <2>2, <2>4 DEF FramesAreAnnounced, ToldLast
    <3>1. t[i] = q[i + 1] /\ i + 1 \in DOMAIN q /\ i \in 1 .. Len(t) + 1
      BY <2>4
    <3>2. /\ ToldLast(q, announced, i + 1, {ConnectedEvent(t[i].format)})
          /\ t[i].kind = "dmabuf" => t[i].format.modifier /\ SupportDmaBuf
      BY <1>1, <3>1 DEF QueueInv, FramesAreAnnounced, q
    <3>3. ~IsFrame(ConnectedEvent(t[i].format))
      BY DEF IsFrame, ConnectedEvent
    <3>4. ToldLast(t, news, i, {ConnectedEvent(t[i].format)})
      BY <2>5, <3>1, <3>2, <3>3
    <3> QED BY <3>2, <3>4
  <2>8. \A x \in Unconnected : ~IsFrame(x)
    BY DEF Unconnected, IsFrame, DisconnectedEvent
  <2>9. ConnectsAlternate'
    <3> SUFFICES ASSUME NEW i \in 1 .. Len(q) - 1, t[i].kind = "connected"
                 PROVE  ToldLast(t, news, i, Unconnected)
      BY <2>1, <2>2, <2>4 DEF ConnectsAlternate, ToldLast, Unconnected
    <3>1. t[i] = q[i + 1] /\ i + 1 \in DOMAIN q /\ i \in 1 .. Len(t) + 1
      BY <2>4
    <3>2. ToldLast(q, announced, i + 1, Unconnected)
      BY <1>1, <3>1 DEF QueueInv, ConnectsAlternate, q
    <3> QED BY <2>5, <2>8, <3>1, <3>2
  <2>10. StreamTold'
    <3> DEFINE told == IF pw = "streaming" THEN {ConnectedEvent(format)} ELSE Unconnected
    <3>1. \A x \in told : ~IsFrame(x)
      BY <2>8 DEF IsFrame, ConnectedEvent
    <3> HIDE DEF told
    <3>2. ASSUME ~terminated, owner \notin {"disconnect", "destroyed"}
          PROVE  ToldLast(t, news, Len(t) + 1, told)
      <4>1. ToldLast(q, announced, Len(q) + 1, told)
        BY <1>1, <3>2 DEF QueueInv, StreamTold, q, told
      <4>2. Len(t) + 1 \in 1 .. Len(t) + 1 /\ (Len(t) + 1) + 1 = Len(q) + 1
        BY <2>4
      <4> QED BY <2>5, <3>1, <4>1, <4>2
    <3> QED BY <1>2, <2>1, <2>2, <3>2 DEF StreamTold, ToldLast, Unconnected, told
  <2> QED BY <2>6, <2>7, <2>9, <2>10 DEF QueueInv
<1> QED BY <1>3, <1>4

\* pw_stream_disconnect() finds no frame queued, and reports no connection.
LEMMA DisconnectIsLast ==
  ASSUME IInv, DestroyStream
  PROVE  QueueInv'
<1>1. TypeOK /\ LifeInv
  BY DEF IInv
<1>2. /\ eventQueue = <<>> /\ pending = <<>> /\ owner' = "destroyed"
      /\ UNCHANGED <<where, announced, pending>>
      /\ \A b \in Buffers : where[b] = "pipewire"
  BY <1>1, UnseenType DEF DestroyStream, LifeInv, clientVars
<1>3. eventQueue' = <<>> \/ eventQueue' = <<DisconnectedEvent>>
  <2>1. Reaction(pw, "unconnected", format) = <<>> \/ Reaction(pw, "unconnected", format) = <<DisconnectedEvent>>
    BY DEF Reaction
  <2>2. eventQueue' = eventQueue \/ eventQueue' = eventQueue \o Reaction(pw, "unconnected", format)
    BY DEF DestroyStream, queueVars
  <2>3. DisconnectedEvent \in Events
    BY DEF Events
  <2>4. \A r \in Seq(Events) : <<>> \o r = r
    BY ConcatEmptySeq
  <2>5. <<>> \in Seq(Events) /\ <<DisconnectedEvent>> \in Seq(Events)
    BY <2>3
  <2> QED BY <1>2, <2>1, <2>2, <2>4, <2>5
<1>4. Unseen' = <<>> \/ Unseen' = <<DisconnectedEvent>>
  <2>1. eventQueue' \in Seq(Events)
    <3>1. <<>> \in Seq(Events) /\ <<DisconnectedEvent>> \in Seq(Events)
      BY DEF Events
    <3> QED BY <1>3, <3>1
  <2>2. Unseen' = eventQueue'
    BY <1>2, <2>1, ConcatEmptySeq DEF Unseen
  <2> QED BY <1>3, <2>2
<1>5. \A i \in DOMAIN Unseen' : ~IsFrame(Unseen'[i]) /\ Unseen'[i].kind # "connected"
  BY <1>4 DEF IsFrame, DisconnectedEvent
<1>6. \A b \in Buffers : where'[b] # "event"
  BY <1>2
<1>7. BuffersAccountedFor'
  BY <1>5, <1>6 DEF BuffersAccountedFor
<1>8. FramesAreAnnounced' /\ ConnectsAlternate'
  BY <1>5 DEF FramesAreAnnounced, ConnectsAlternate
<1>9. StreamTold'
  BY <1>2 DEF StreamTold
<1> QED BY <1>7, <1>8, <1>9 DEF QueueInv

\* Every step keeps what is said of the unseen events.
LEMMA QueueNext == IInv /\ [Next]_vars => QueueInv'
<1> SUFFICES ASSUME IInv, [Next]_vars PROVE QueueInv'
  OBVIOUS
<1>0. TypeOK /\ LifeInv /\ QueueInv
  BY DEF IInv, QueueInv
<1>1. CASE Construct
  <2>1. /\ UNCHANGED <<Unseen, announced, where, terminated, format>>
        /\ owner \notin {"disconnect", "destroyed"}
    BY <1>1, ConstructorSteps DEF Construct, queueVars, clientVars, Unseen
  <2>2. pw # "streaming" /\ pw' # "streaming"
    BY <1>0, <1>1 DEF Construct, LifeInv, Unborn
  <2> QED BY <1>0, <2>1, <2>2, SameEvents
<1>2. CASE ConstructFails
  BY <1>0, <1>2, SameEvents, ConstructorSteps DEF ConstructFails, queueVars, clientVars, Unseen
<1>3. ASSUME NEW f \in Offered, StreamParamChanged(f) PROVE QueueInv'
  BY <1>0, <1>3, SameEvents DEF StreamParamChanged, queueVars, clientVars, Unseen
<1>4. ASSUME NEW new \in {"paused", "streaming", "error", "unconnected"}, StreamStateChanged(new)
      PROVE  QueueInv'
  BY <1>4, ReactionIsAppended
<1>5. CASE CoreError
  BY <1>0, <1>5, SameEvents DEF CoreError, queueVars, clientVars, Unseen
<1>6. ASSUME NEW b \in Buffers, ProcessFrame(b) PROVE QueueInv'
  BY <1>6, FrameIsAppended
<1>7. CASE EnqueueEvent
  <2>1. Unseen' = (eventQueue \o pending) \o <<>>
    BY <1>7 DEF EnqueueEvent, Report, Unseen
  <2>2. Unseen' = Unseen
    BY <1>0, <2>1, UnseenType, ConcatEmptySeq DEF Unseen
  <2> QED BY <1>0, <1>7, <2>2, SameEvents DEF EnqueueEvent, clientVars
<1>8. CASE RunInvoked
  BY <1>0, <1>8, SameEvents DEF RunInvoked, queueVars, clientVars, Unseen
<1>9. ASSUME NEW c \in Clients, Client(c) PROVE QueueInv'
  <2>1. CASE Poll(c)
    BY <1>0, <2>1, SameEvents DEF Poll, queueVars, Unseen
  <2>2. CASE NextEventCheck(c)
    BY <1>0, <2>2, SameEvents DEF NextEventCheck, queueVars, Unseen
  <2>3. CASE NextEventPop(c)
    BY <2>3, OldestIsTaken
  <2>4. CASE StopPolling(c)
    BY <1>0, <2>4, SameEvents DEF StopPolling, queueVars, Unseen
  <2> QED BY <1>9, <2>1, <2>2, <2>3, <2>4 DEF Client
<1>10. ASSUME NEW b \in Buffers, ReleaseFrame(b) PROVE QueueInv'
  <2>1. UNCHANGED <<Unseen, announced, terminated, pw, format, owner>>
    BY <1>10 DEF ReleaseFrame, queueVars, clientVars, Unseen
  <2>2. \A x \in Buffers : where'[x] = "event" <=> where[x] = "event"
    BY <1>0, <1>10 DEF ReleaseFrame, TypeOK
  <2>3. BuffersAccountedFor'
    BY <1>0, <2>1, <2>2 DEF QueueInv, BuffersAccountedFor
  <2>4. FramesAreAnnounced' /\ ConnectsAlternate' /\ StreamTold'
    BY <1>0, <2>1
       DEF QueueInv, FramesAreAnnounced, ConnectsAlternate, StreamTold, ToldLast, Unconnected
  <2> QED BY <2>3, <2>4 DEF QueueInv
<1>11. CASE DestroyBegin
  BY <1>0, <1>11, SameEvents DEF DestroyBegin, InvokeDeactivate, queueVars, clientVars, Unseen
<1>12. CASE DestroyQuit
  BY <1>0, <1>12, SameEvents DEF DestroyQuit, queueVars, clientVars, Unseen
<1>13. CASE DestroyJoin
  BY <1>0, <1>13, SameEvents DEF DestroyJoin, queueVars, clientVars, Unseen
<1>14. CASE DestroyClear
  <2>1. \A b \in Buffers : where'[b] = "pipewire"
    BY <1>14, ClearReturnsBuffers
  <2>2. pending = <<>> /\ <<>> \in Seq(Events)
    BY <1>0, <1>14, UnseenType, EmptySeq DEF DestroyClear, LifeInv
  <2>3. Unseen' = <<>> /\ DOMAIN Unseen' = {}
    BY <1>14, <2>2, ConcatEmptySeq DEF DestroyClear, Unseen
  <2>4. BuffersAccountedFor' /\ FramesAreAnnounced' /\ ConnectsAlternate' /\ StreamTold'
    BY <1>14, <2>1, <2>3
       DEF DestroyClear, BuffersAccountedFor, FramesAreAnnounced, ConnectsAlternate, StreamTold
  <2> QED BY <2>4 DEF QueueInv
<1>15. CASE DestroyStream
  BY <1>15, DisconnectIsLast
<1>16. CASE Finished \/ UNCHANGED vars
  BY <1>0, <1>16, SameEvents DEF Finished, vars, Unseen
<1> QED BY <1>1, <1>2, <1>3, <1>4, <1>5, <1>6, <1>7, <1>8, <1>9, <1>10, <1>11, <1>12, <1>13,
           <1>14, <1>15, <1>16 DEF Next, LoopThread, Owner

\* Every step of a stream in use keeps the eventfd and the queue in agreement.
LEMMA ReadableNext == IInv /\ [Next]_vars => ReadableIffQueued'
<1> SUFFICES ASSUME IInv, [Next]_vars PROVE ReadableIffQueued'
  OBVIOUS
<1>0. TypeOK /\ LifeInv /\ ReadableIffQueued
  BY DEF IInv
<1>1. CASE Construct
  <2>1. Unborn
    BY <1>1 DEF Construct, Unborn
  <2> QED BY <1>0, <1>1, <2>1 DEF Construct, LifeInv, ReadableIffQueued, queueVars
<1>2. CASE EnqueueEvent
  <2>1. Len(eventQueue \o pending) # 0
    BY <1>0, <1>2, ConcatProperties DEF EnqueueEvent, TypeOK
  <2>2. eventQueue' # <<>> /\ readable'
    BY <1>2, <2>1 DEF EnqueueEvent
  <2> QED BY <2>2 DEF ReadableIffQueued
<1>3. ASSUME NEW c \in Clients, NextEventPop(c) PROVE ReadableIffQueued'
  BY <1>0, <1>3 DEF NextEventPop, ReadableIffQueued, StaysReadable, queueVars
<1>4. CASE DestroyClear \/ DestroyStream
  BY <1>4 DEF DestroyClear, DestroyStream, ReadableIffQueued
<1>5. CASE DestroyBegin \/ DestroyQuit \/ DestroyJoin
  BY <1>0, <1>5
     DEF DestroyBegin, InvokeDeactivate, DestroyQuit, DestroyJoin, ReadableIffQueued, queueVars
<1>6. CASE UNCHANGED <<eventQueue, readable, owner>>
  BY <1>0, <1>6 DEF ReadableIffQueued
<1>7. CASE ConstructFails
  BY <1>7 DEF ConstructFails, ReadableIffQueued
<1>8. CASE LoopThread
  BY <1>2, <1>6, <1>8
     DEF LoopThread, StreamParamChanged, StreamStateChanged, CoreError, ProcessFrame, RunInvoked,
         queueVars
<1>9. ASSUME NEW c \in Clients, Client(c) PROVE ReadableIffQueued'
  BY <1>3, <1>6, <1>9 DEF Client, Poll, NextEventCheck, StopPolling, queueVars
<1>10. ASSUME NEW b \in Buffers, ReleaseFrame(b) PROVE ReadableIffQueued'
  BY <1>6, <1>10 DEF ReleaseFrame, queueVars
<1>11. CASE Finished \/ UNCHANGED vars
  BY <1>6, <1>11 DEF Finished, vars
<1> QED BY <1>1, <1>4, <1>5, <1>7, <1>8, <1>9, <1>10, <1>11 DEF Next, Owner

\* The invariant holds initially.
LEMMA InvInit == Init => IInv
<1> SUFFICES ASSUME Init PROVE IInv
  OBVIOUS
<1>1. TypeOK
  BY ConstructorSteps, EmptySeq DEF Init, TypeOK
<1>2. LifeInv
  BY ConstructorSteps DEF Init, LifeInv, Unborn
<1>3. ReadableIffQueued
  BY ConstructorSteps DEF Init, ReadableIffQueued
<1>4. Unseen = <<>> /\ Len(Unseen) = 0 /\ DOMAIN Unseen = {}
  BY <1>1, UnseenType DEF Init
<1>5. BuffersAccountedFor /\ FramesAreAnnounced /\ ConnectsAlternate
  BY <1>4 DEF Init, BuffersAccountedFor, FramesAreAnnounced, ConnectsAlternate
<1>6. StreamTold
  BY <1>4 DEF Init, StreamTold, ToldLast, Unconnected
<1> QED BY <1>1, <1>2, <1>3, <1>5, <1>6 DEF IInv

\* Every step keeps the invariant.
LEMMA InvNext == IInv /\ [Next]_vars => IInv'
BY TypeNext, LifeNext, QueueNext, ReadableNext DEF IInv, QueueInv

-----------------------------------------------------------------------------
(* Theorems.                                                               *)

\* The inductive invariant on which the theorems rest holds in every state.
THEOREM InvariantHolds == Spec => []IInv
BY InvInit, InvNext, PTL DEF Spec

\* The variables keep their types; there is never more than one event that a
\* callback is about to enqueue.
THEOREM TypeCorrect == Spec => []TypeOK
<1>1. IInv => TypeOK
  BY DEF IInv
<1> QED BY <1>1, InvariantHolds, PTL

\* poll() misses no event, and the read() in nextEvent() never blocks.
THEOREM Readability == Spec => []ReadableIffQueued
<1>1. IInv => ReadableIffQueued
  BY DEF IInv
<1> QED BY <1>1, InvariantHolds, PTL

\* A client that gets a frame was told of a connection with its format last.
THEOREM Announcement == Spec => []FramesAreAnnounced
<1>1. IInv => FramesAreAnnounced
  BY DEF IInv
<1> QED BY <1>1, InvariantHolds, PTL

\* A buffer that is in an event is in exactly one.
THEOREM BufferAccounting == Spec => []BuffersAccountedFor
<1>1. IInv => BuffersAccountedFor
  BY DEF IInv
<1> QED BY <1>1, InvariantHolds, PTL

\* A stream that is destroyed, or was not constructed, has no callback running
\* and no buffer outside PipeWire.
THEOREM GoneIsUnused == Spec => []UnusedWhenGone
<1>1. IInv => UnusedWhenGone
  BY DEF IInv, LifeInv, Unborn, UnusedWhenGone
<1> QED BY <1>1, InvariantHolds, PTL

-----------------------------------------------------------------------------
(* The stream implements EventStream.                                      *)

\* The refinement mapping.
Told == IF announced.kind = "connected" THEN announced.format ELSE NoFormat
Held == {b \in Buffers : where[b] = "client"}
Open == owner = "alive" \/ \E i \in DOMAIN Constructor : owner = Constructor[i]

\* A format that can be announced is not the zeroed one.
LEMMA OfferedIsNotNoFormat == \A f \in Offered : f # NoFormat
<1> SUFFICES ASSUME NEW f \in Offered, f = NoFormat PROVE FALSE
  OBVIOUS
<1>1. f.pixel \in PixelFormats
  BY DEF Offered
<1>2. f.pixel = "none"
  BY DEF NoFormat
<1> QED BY <1>1, <1>2, StreamAssumption

\* nextEvent() is called only while the stream is open.
LEMMA TakenWhileOpen ==
  ASSUME IInv, NEW c \in Clients, client[c] = "pop"
  PROVE  owner = "alive"
<1>1. ~Unborn /\ owner \notin {"quit", "join", "clear", "disconnect", "destroyed"}
  BY DEF IInv, LifeInv, Unused
<1> QED BY <1>1, ConstructorSteps DEF IInv, TypeOK, Unborn

\* The event that nextEvent() returns is a step of EventStream.
LEMMA PopImplements ==
  ASSUME IInv, NEW c \in Clients, NextEventPop(c)
  PROVE  [Promise!Next]_<<Told, Held, Open>>
<1>1. TypeOK /\ BuffersAccountedFor /\ FramesAreAnnounced /\ ConnectsAlternate
  BY DEF IInv
<1>2. Open /\ Open' = Open
  BY TakenWhileOpen DEF NextEventPop, Open
<1>3. CASE eventQueue = <<>>
  <2>1. Told' = Told /\ Held' = Held
    BY <1>3 DEF NextEventPop, Told, Held
  <2> QED BY <1>2, <2>1
<1>4. CASE eventQueue # <<>>
  <2> DEFINE e == Head(eventQueue)
  <2>1. /\ e \in Events /\ 1 \in DOMAIN Unseen /\ Unseen[1] = e
    <3>1. eventQueue \in Seq(Events) /\ pending \in Seq(Events)
      BY <1>1 DEF TypeOK
    <3>2. Unseen # <<>> /\ Head(Unseen) = e
      BY <1>4, <3>1, ConcatHeadTail DEF Unseen
    <3>3. Unseen \in Seq(Events) /\ DOMAIN Unseen = 1 .. Len(Unseen) /\ Len(Unseen) \in Nat \ {0}
      BY <1>1, <3>2, UnseenType, EmptySeq
    <3>4. Head(Unseen) = Unseen[1]
      BY <3>2, <3>3
    <3> QED BY <1>4, <3>1, <3>2, <3>3, <3>4
  <2>2. \A S : ToldLast(Unseen, announced, 1, S) => announced \in S
    BY DEF ToldLast
  <2>3. CASE IsFrame(e)
    <3>1. e.buffer \in Buffers /\ e.format \in Offered
      BY <2>1, <2>3, EventForms
    <3>b. PICK b \in Buffers : b = e.buffer
      BY <3>1
    <3>2. where' = [where EXCEPT ![b] = "client"] /\ announced' = announced
      BY <1>4, <2>3, <3>b DEF NextEventPop
    <3>3. Told # NoFormat /\ Told' = Told
      <4>1. announced = ConnectedEvent(e.format)
        BY <1>1, <2>1, <2>2, <2>3 DEF FramesAreAnnounced
      <4>2. announced.kind = "connected" /\ announced.format = e.format
        BY <4>1 DEF ConnectedEvent
      <4>3. Told' = Told
        BY <3>2 DEF Told
      <4> QED BY <3>1, <4>2, <4>3, OfferedIsNotNoFormat DEF Told
    <3>4. b \notin Held
      <4>1. where[b] = "event"
        BY <1>1, <2>1, <2>3, <3>b DEF BuffersAccountedFor
      <4> QED BY <4>1 DEF Held
    <3>5. Held' = Held \cup {b}
      BY <1>1, <3>2 DEF Held, TypeOK
    <3>6. Promise!Frame(b)
      BY <1>2, <3>2, <3>3, <3>4, <3>5 DEF Promise!Frame, Told, Held, Open
    <3> QED BY <3>6 DEF Promise!Next
  <2>4. CASE ~IsFrame(e)
    <3>1. announced' = e /\ where' = where
      BY <1>4, <2>4 DEF NextEventPop
    <3>2. Held' = Held
      BY <3>1 DEF Held
    <3>3. CASE e = DisconnectedEvent
      <4>1. Told' = NoFormat
        BY <3>1, <3>3 DEF Told, DisconnectedEvent
      <4>2. Promise!Disconnected
        BY <1>2, <3>2, <4>1 DEF Promise!Disconnected, Told, Held, Open
      <4> QED BY <4>2 DEF Promise!Next
    <3>4. ASSUME NEW f \in Offered, e = ConnectedEvent(f)
          PROVE  Promise!Connected(f)
      <4>1. announced \in Unconnected
        BY <1>1, <2>1, <2>2, <3>4 DEF ConnectsAlternate, ConnectedEvent
      <4>2. Told = NoFormat
        BY <4>1 DEF Told, Unconnected, DisconnectedEvent
      <4>3. Told' = f
        BY <3>1, <3>4 DEF Told, ConnectedEvent
      <4> QED BY <1>2, <3>2, <4>2, <4>3 DEF Promise!Connected, Told, Held, Open
    <3>5. e = DisconnectedEvent \/ \E f \in Offered : e = ConnectedEvent(f)
      BY <2>1, <2>4, EventForms
    <3>6. CASE \E f \in Offered : e = ConnectedEvent(f)
      <4>1. \E f \in Offered : Promise!Connected(f)
        BY <3>4, <3>6
      <4> QED BY <4>1 DEF Promise!Next
    <3> QED BY <3>3, <3>5, <3>6
  <2> QED BY <2>3, <2>4
<1> QED BY <1>3, <1>4

\* Every step of the stream is a step of EventStream, or none.
LEMMA StepImplements == IInv /\ [Next]_vars => [Promise!Next]_<<Told, Held, Open>>
<1> SUFFICES ASSUME IInv, [Next]_vars PROVE [Promise!Next]_<<Told, Held, Open>>
  OBVIOUS
<1>0. TypeOK /\ LifeInv
  BY DEF IInv
<1>1. ASSUME UNCHANGED <<announced, where>>, Open' = Open
      PROVE  UNCHANGED <<Told, Held, Open>>
  BY <1>1 DEF Told, Held
<1>2. CASE Construct
  <2>1. Open' = Open
    BY <1>2, ConstructorSteps DEF Construct, Open
  <2> QED BY <1>1, <1>2, <2>1 DEF Construct, clientVars
<1>3. CASE ConstructFails \/ DestroyBegin
  <2>1. Open /\ ~Open'
    BY <1>3, ConstructorSteps DEF ConstructFails, DestroyBegin, InvokeDeactivate, Open
  <2>2. Held = {} /\ UNCHANGED <<announced, where>>
    BY <1>0, <1>3 DEF ConstructFails, DestroyBegin, InvokeDeactivate, Unused, LifeInv, Unborn, Held, clientVars
  <2>3. UNCHANGED <<Told, Held>>
    BY <2>2 DEF Told, Held
  <2>4. Promise!Close
    BY <2>1, <2>2, <2>3 DEF Promise!Close, Told, Held, Open
  <2> QED BY <2>4 DEF Promise!Next
<1>4. CASE UNCHANGED <<announced, where, owner>>
  BY <1>1, <1>4 DEF Open
<1>5. ASSUME NEW b \in Buffers, ProcessFrame(b) PROVE UNCHANGED <<Told, Held, Open>>
  <2>1. Held' = Held
    BY <1>0, <1>5 DEF ProcessFrame, Held, TypeOK
  <2>2. Told' = Told /\ Open' = Open
    BY <1>5 DEF ProcessFrame, clientVars, Told, Open
  <2> QED BY <2>1, <2>2
<1>6. CASE LoopThread
  BY <1>4, <1>5, <1>6
     DEF LoopThread, StreamParamChanged, StreamStateChanged, CoreError, EnqueueEvent, RunInvoked,
         clientVars
<1>7. ASSUME NEW c \in Clients, Client(c) PROVE [Promise!Next]_<<Told, Held, Open>>
  BY <1>4, <1>7, PopImplements DEF Client, Poll, NextEventCheck, StopPolling
<1>8. ASSUME NEW b \in Buffers, ReleaseFrame(b) PROVE [Promise!Next]_<<Told, Held, Open>>
  <2>1. b \in Held /\ Held' = Held \ {b}
    BY <1>0, <1>8 DEF ReleaseFrame, Held, TypeOK
  <2>2. Told' = Told /\ Open' = Open
    BY <1>8 DEF ReleaseFrame, clientVars, Told, Open
  <2>3. Promise!Release(b)
    BY <2>1, <2>2 DEF Promise!Release, Told, Held, Open
  <2> QED BY <2>3 DEF Promise!Next
<1>9. CASE DestroyQuit \/ DestroyJoin \/ DestroyStream
  <2>1. Open' = Open
    BY <1>9, ConstructorSteps DEF DestroyQuit, DestroyJoin, DestroyStream, Open
  <2> QED BY <1>1, <1>9, <2>1 DEF DestroyQuit, DestroyJoin, DestroyStream, clientVars
<1>10. CASE DestroyClear
  <2>1. Held = {} /\ Held' = {}
    BY <1>0, <1>10, ClearReturnsBuffers DEF DestroyClear, LifeInv, Unused, Held
  <2>2. Open' = Open /\ Told' = Told
    BY <1>10, ConstructorSteps DEF DestroyClear, Open, Told, clientVars
  <2> QED BY <2>1, <2>2
<1>11. CASE Finished \/ UNCHANGED vars
  BY <1>4, <1>11 DEF Finished, vars
<1> QED BY <1>2, <1>3, <1>6, <1>7, <1>8, <1>9, <1>10, <1>11 DEF Next, Owner

\* Whatever PipeWire does, clients of the stream see an EventStream.
THEOREM ImplementsEventStream == Spec => PromiseSpec
<1>1. Init => Promise!Init
  <2> SUFFICES ASSUME Init PROVE Promise!Init
    OBVIOUS
  <2>1. Told = NoFormat /\ Held = {} /\ Open = TRUE
    BY ConstructorSteps DEF Init, Told, Held, Open
  <2> QED BY <2>1 DEF Promise!Init, Told, Held, Open
<1>2. IInv /\ [Next]_vars => [Promise!Next]_<<Told, Held, Open>>
  BY StepImplements
<1> QED BY <1>1, <1>2, InvariantHolds, PTL DEF Spec, PromiseSpec, Promise!Spec, Told, Held, Open
=============================================================================
