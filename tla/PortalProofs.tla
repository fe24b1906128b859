---------------------------- MODULE PortalProofs ----------------------------
(***************************************************************************)
(* What asking the portal for a screen guarantees, whether the portal      *)
(* answers on the path that the client expects or makes up its own.        *)
(***************************************************************************)
EXTENDS Portal, SequenceTheorems, TLAPS

-----------------------------------------------------------------------------
(* The inductive invariant.                                                *)

\* The caller is in portalRequest(), and the portal has the call.
Pending == {"called", "wait", "leave"}

\* Where the caller is, and what it knows there.
PhaseInv ==
  /\ subscribed # {} => pc \in {"call"} \cup Pending
  /\ pc \in {"call", "called"} => subscribed = {ExpectedPath}
  /\ connection \/ pc = "ended"
  /\ pc \in {"subscribe", "call"} \cup Pending => request \in DOMAIN Requests
  /\ pc = "read" => request = 1
  /\ pc = "wait" => reply = "path"
  /\ pc = "leave" => result # "none"
  /\ pc = "called" => reply # "fd"

\* Between two requests no answer is due.  During one there is one at most: it is
\* still to come, on its way, or in the promise.
AnswersInv ==
  /\ pc \in {"read", "subscribe", "call", "open", "opening"} \/ (pc = "ended" /\ connection)
       => calls = {} /\ signals = <<>>
  /\ pc = "call" => promise = <<>>
  /\ pc \in Pending =>
       /\ calls \subseteq {request}
       /\ Len(signals) + Len(promise) <= 1
       /\ calls # {} => signals = <<>> /\ promise = <<>>
       /\ \A i \in DOMAIN signals : signals[i].request = request
       /\ \A i \in DOMAIN promise : promise[i].request = request
  /\ pc = "called" /\ reply = "none" => signals = <<>> /\ promise = <<>>

\* A request whose call timed out is the last one.  Without a timeout no answer is
\* due when a request is left; but for a request that is left because its handler
\* could not move, and then its answer finds no handler.
TimeoutInv ==
  /\ late => \/ pc = "called" /\ reply = "error"
             \/ pc = "leave" /\ result = "threw"
             \/ pc = "ended" /\ ~connection
  /\ ~late /\ (pc = "leave" \/ (pc = "called" /\ reply = "error"))
       => \/ calls = {} /\ signals = <<>>
          \/ pc = "leave" /\ result = "threw" /\ ReplyPath(request) \notin subscribed
  /\ astray => late

IInv == TypeOK /\ PhaseInv /\ AnswersInv /\ TimeoutInv

-----------------------------------------------------------------------------

\* The three requests and the paths that the portal answers them on.
LEMMA RequestProperties ==
  /\ Len(Requests) = 3 /\ DOMAIN Requests = 1 .. 3
  /\ Paths = {0, 1, 2, 3} /\ ExpectedPath = 0
  /\ \A r \in 1 .. 3 : ReplyPath(r) \in Paths
  /\ \A r \in 1 .. 3, a \in Answers :
       /\ Response(r, a) \in Responses /\ Response(r, a).request = r
       /\ After(r, a) \in {"next", "nothing", "threw"}
  /\ \A p \in Responses : p.request \in 1 .. 3 /\ p.answer \in Answers
<1>1. Len(Requests) = 3 /\ DOMAIN Requests = 1 .. 3
  BY DEF Requests
<1>2. ExpectedPath = 0 /\ Paths = {0, 1, 2, 3}
  BY <1>1 DEF Paths, ExpectedPath
<1>3. \A r \in 1 .. 3 : ReplyPath(r) \in Paths
  BY <1>2, PortalAssumption DEF ReplyPath
<1>4. ASSUME NEW r \in 1 .. 3, NEW a \in Answers
      PROVE  /\ Response(r, a) \in Responses /\ Response(r, a).request = r
             /\ After(r, a) \in {"next", "nothing", "threw"}
  <2>1. Response(r, a) \in Responses /\ Response(r, a).request = r
    BY <1>1 DEF Responses, Response
  <2>2. \/ a = "success" \/ a = "incomplete" \/ a = "cancelled"
        \/ a \in {"empty", "aborted", "unreadable"}
    BY DEF Answers
  <2>3. After(r, a) \in {"next", "nothing", "threw"}
    BY <2>2 DEF After
  <2> QED BY <2>1, <2>3
<1>5. \A p \in Responses : p.request \in 1 .. 3 /\ p.answer \in Answers
  BY <1>1 DEF Responses, Response
<1> QED BY <1>1, <1>2, <1>3, <1>4, <1>5

\* Sequences of responses.
LEMMA ResponsesProperties ==
  ASSUME NEW q \in Seq(Responses)
  PROVE  /\ Len(q) \in Nat /\ (Len(q) = 0 <=> q = <<>>) /\ DOMAIN q = 1 .. Len(q)
         /\ <<>> \in Seq(Responses) /\ Len(<<>>) = 0
         /\ \A x \in Responses : Append(q, x) \in Seq(Responses) /\ Len(Append(q, x)) = Len(q) + 1
         /\ \A x \in Responses : q = <<>> => \A i \in DOMAIN Append(q, x) : Append(q, x)[i] = x
         /\ q # <<>> => /\ Head(q) \in Responses /\ Head(q) = q[1]
                        /\ Tail(q) \in Seq(Responses) /\ Len(Tail(q)) = Len(q) - 1
<1>1. /\ Len(q) \in Nat /\ (Len(q) = 0 <=> q = <<>>) /\ DOMAIN q = 1 .. Len(q)
      /\ <<>> \in Seq(Responses) /\ Len(<<>>) = 0
  BY LenProperties, EmptySeq
<1>2. \A x \in Responses : Append(q, x) \in Seq(Responses) /\ Len(Append(q, x)) = Len(q) + 1
  BY AppendProperties
<1>3. ASSUME NEW x \in Responses, q = <<>>, NEW i \in DOMAIN Append(q, x)
      PROVE  Append(q, x)[i] = x
  <2>1. Append(q, x) \in Seq(Responses) /\ Len(Append(q, x)) = 1 /\ Append(q, x)[Len(q) + 1] = x
    BY <1>1, <1>3, AppendProperties
  <2>2. DOMAIN Append(q, x) = 1 .. 1
    BY <2>1, LenProperties
  <2> QED BY <1>1, <1>3, <2>1, <2>2
<1>4. q # <<>> => /\ Head(q) \in Responses /\ Head(q) = q[1]
                  /\ Tail(q) \in Seq(Responses) /\ Len(Tail(q)) = Len(q) - 1
  BY HeadTailProperties
<1> QED BY <1>1, <1>2, <1>3, <1>4

\* The initial states satisfy the invariant.
LEMMA InvInit == Init => IInv
<1> SUFFICES ASSUME Init PROVE IInv
  OBVIOUS
<1>1. TypeOK
  <2>1. request \in 1 .. Len(Requests) + 1
    BY RequestProperties DEF Init
  <2>2. promise \in Seq(Responses) /\ signals \in Seq(Responses)
    BY EmptySeq DEF Init
  <2>3. /\ pc \in {"read", "subscribe", "call", "called", "wait", "leave", "open", "opening", "ended"}
        /\ subscribed \subseteq Paths /\ calls \subseteq DOMAIN Requests
        /\ reply \in {"none", "path", "fd", "error"}
        /\ result \in {"none", "next", "nothing", "threw"}
        /\ outcome \in {"none", "shared", "nothing", "threw"}
        /\ outcome = "none" <=> pc # "ended"
    BY DEF Init
  <2>4. late \in BOOLEAN /\ astray \in BOOLEAN /\ connection \in BOOLEAN
    BY Zenon DEF Init
  <2> QED BY <2>1, <2>2, <2>3, <2>4, Zenon DEF TypeOK
<1>2. PhaseInv
  BY RequestProperties DEF Init, PhaseInv, Pending
<1>3. AnswersInv /\ TimeoutInv
  BY DEF Init, AnswersInv, TimeoutInv, Pending
<1> QED BY <1>1, <1>2, <1>3 DEF IInv

-----------------------------------------------------------------------------
(* The caller.                                                             *)

\* The steps of the caller before and after the requests.
LEMMA OutsideSteps ==
  ASSUME IInv, ReadProperties \/ OpenRemote \/ RemoteOpened \/ DropSharedScreen
  PROVE  IInv'
<1> USE DEF IInv, TypeOK, PhaseInv, AnswersInv, TimeoutInv, Pending, history, End
<1>1. CASE ReadProperties
  <2>1. CASE outcome' = "threw" /\ connection' = FALSE /\ pc' = "ended"
    BY <1>1, <2>1 DEF ReadProperties
  <2>2. CASE pc' = "subscribe" /\ UNCHANGED <<outcome, connection>>
    BY <1>1, <2>2, RequestProperties DEF ReadProperties
  <2> QED BY <1>1, <2>1, <2>2 DEF ReadProperties
<1>2. CASE OpenRemote
  BY <1>2 DEF OpenRemote
<1>3. CASE RemoteOpened
  BY <1>3 DEF RemoteOpened
<1>4. CASE DropSharedScreen
  BY <1>4 DEF DropSharedScreen
<1> QED BY <1>1, <1>2, <1>3, <1>4

\* Where the handler is after a call that returned the path p.
LEMMA MovesProperties ==
  ASSUME NEW p, NEW m \in Moves(p)
  PROVE  \/ m.to = "wait" /\ m.handled \in {subscribed, {p}}
         \/ m.to = "leave" /\ m.handled \in {subscribed, {}} /\ p # ExpectedPath
<1>1. CASE p = ExpectedPath
  BY <1>1 DEF Moves
<1>2. CASE p # ExpectedPath
  <2>1. CASE m = [handled |-> {p}, to |-> "wait"]
    BY <2>1
  <2>2. CASE m \in [handled : {subscribed, {}}, to : {"leave"}]
    BY <1>2, <2>2
  <2> QED BY <1>2, <2>1, <2>2 DEF Moves
<1> QED BY <1>1, <1>2

\* portalRequest() until the call has returned.
LEMMA CallSteps ==
  ASSUME IInv, Subscribe \/ SubscribeFails \/ CallMethod \/ CallReturns \/ CallFails
  PROVE  IInv'
<1> USE RequestProperties, ResponsesProperties
    DEF IInv, TypeOK, PhaseInv, AnswersInv, TimeoutInv, Pending, history
<1>1. CASE Subscribe
  BY <1>1 DEF Subscribe, NewPromise, SubscribedFirst
<1>2. CASE SubscribeFails
  BY <1>2 DEF SubscribeFails, End
<1>3. CASE CallMethod
  BY <1>3 DEF CallMethod
<1>4. CASE CallReturns
  <2>1. PICK m \in Moves(ReplyPath(request)) :
          subscribed' = m.handled /\ pc' = m.to
          /\ result' = IF m.to = "leave" THEN "threw" ELSE result
    BY <1>4 DEF CallReturns
  <2>2. request \in 1 .. 3 /\ subscribed = {ExpectedPath} /\ ReplyPath(request) \in Paths
    BY <1>4 DEF CallReturns
  <2>3. CASE pc' = "wait"
    <3>1. \E p \in Paths : subscribed' = {p}
      <4>1. ExpectedPath \in Paths
        BY DEF Paths
      <4>2. m.handled \in {subscribed, {ReplyPath(request)}}
        BY <2>1, <2>3, MovesProperties
      <4> QED BY <2>1, <2>2, <4>1, <4>2, Zenon
    <3>2. result' = result
      BY <2>1, <2>3
    <3> QED BY <1>4, <2>3, <3>1, <3>2 DEF CallReturns
  <2>4. CASE pc' # "wait"
    <3>1. pc' = "leave" /\ result' = "threw" /\ subscribed' \subseteq {ExpectedPath}
          /\ ReplyPath(request) \notin subscribed'
      BY <2>1, <2>2, <2>4, MovesProperties
    <3> QED BY <1>4, <3>1 DEF CallReturns
  <2> QED BY <2>3, <2>4
<1>5. CASE CallFails
  BY <1>5 DEF CallFails
<1> QED BY <1>1, <1>2, <1>3, <1>4, <1>5

\* portalRequest() from the moment that its promise is kept.
LEMMA AnswerSteps ==
  ASSUME IInv, Continue \/ Leave
  PROVE  IInv'
<1> USE DEF IInv, TypeOK, PhaseInv, AnswersInv, TimeoutInv, Pending, history
<1>1. CASE Continue
  <2>1. promise[1] \in Responses /\ promise # <<>> /\ Len(promise) >= 1
    BY <1>1, ResponsesProperties DEF Continue, Ready
  <2>2. promise[1].request = request /\ promise[1].answer \in Answers /\ request \in 1 .. 3
    BY <1>1, <2>1, RequestProperties, ResponsesProperties DEF Continue, Ready
  <2>3. After(request, promise[1].answer) \in {"next", "nothing", "threw"}
    BY <2>2, RequestProperties
  <2>4. calls = {} /\ signals = <<>>
    BY <1>1, <2>1, ResponsesProperties DEF Continue, Ready
  <2> HIDE DEF IInv, PhaseInv, AnswersInv, TimeoutInv
  <2>5. TypeOK'
    BY <1>1, <2>1, <2>3 DEF Continue, Ready, IInv
  <2>6. PhaseInv'
    BY <1>1, <2>1, <2>3 DEF Continue, Ready, IInv, PhaseInv
  <2>7. AnswersInv'
    BY <1>1, <2>1, <2>4 DEF Continue, Ready, IInv, AnswersInv
  <2>8. TimeoutInv'
    BY <1>1, <2>1, <2>4 DEF Continue, Ready, IInv, TimeoutInv
  <2> QED BY <2>5, <2>6, <2>7, <2>8 DEF IInv
<1>2. CASE Leave
  <2> USE RequestProperties
  <2>1. CASE result = "next"
    BY <1>2, <2>1 DEF Leave, SubscribedAfter
  <2>2. CASE result # "next"
    BY <1>2, <2>2 DEF Leave, SubscribedAfter, End
  <2> QED BY <2>1, <2>2
<1> QED BY <1>1, <1>2

-----------------------------------------------------------------------------
(* The portal and the thread of the connection.                            *)

\* The portal returns from a call, or does not in time.
LEMMA PortalSteps ==
  ASSUME IInv, PortalReturns \/ CallTimesOut \/ PortalOpens
  PROVE  IInv'
<1> USE RequestProperties
    DEF IInv, TypeOK, PhaseInv, AnswersInv, TimeoutInv, Pending, history
<1>1. CASE PortalReturns
  BY <1>1 DEF PortalReturns
<1>2. CASE CallTimesOut
  BY <1>2 DEF CallTimesOut
<1>3. CASE PortalOpens
  BY <1>3 DEF PortalOpens
<1> QED BY <1>1, <1>2, <1>3

\* The portal answers: the one answer that is due is on its way.
LEMMA RespondsStep ==
  ASSUME IInv, PortalResponds
  PROVE  IInv'
<1> USE DEF IInv
<1>1. PICK r \in calls, a \in Answers :
        /\ r = request => reply # "none"
        /\ calls' = calls \ {r}
        /\ signals' = Append(signals, Response(r, a))
        /\ UNCHANGED <<request, pc, subscribed, promise, reply, result, history, outcome,
                       connection>>
  BY DEF PortalResponds
<1>2. Response(r, a) \in Responses /\ Response(r, a).request = r /\ r \in 1 .. 3
  BY RequestProperties DEF TypeOK
<1>3. /\ signals' \in Seq(Responses) /\ Len(signals') = Len(signals) + 1
      /\ signals = <<>> => \A i \in DOMAIN signals' : signals'[i] = Response(r, a)
  BY <1>1, <1>2, ResponsesProperties DEF TypeOK
<1>4. TypeOK'
  BY <1>1, <1>3 DEF TypeOK, history
<1>5. PhaseInv'
  BY <1>1 DEF PhaseInv, history, Pending
<1>6. AnswersInv'
  BY <1>1, <1>2, <1>3, ResponsesProperties DEF TypeOK, AnswersInv, history, Pending
<1>7. TimeoutInv'
  BY <1>1 DEF TimeoutInv, history, ReplyPath
<1> QED BY <1>4, <1>5, <1>6, <1>7

\* A signal is dispatched: the answer that is due reaches the promise, or nobody
\* waits for it.
LEMMA DispatchStep ==
  ASSUME IInv, Dispatch
  PROVE  IInv'
<1> USE DEF IInv
<1>1. /\ signals # <<>> /\ connection
      /\ Head(signals) \in Responses /\ Head(signals) = signals[1]
      /\ signals' \in Seq(Responses) /\ Len(signals') = Len(signals) - 1
  BY ResponsesProperties DEF Dispatch, TypeOK
<1>2. /\ \/ promise' = promise
         \/ pc # "leave" /\ promise' = Append(promise, Head(signals))
      /\ astray' = astray \/ (pc = "leave" /\ astray')
      /\ UNCHANGED <<request, pc, subscribed, calls, reply, result, late, outcome, connection>>
  BY Zenon DEF Dispatch
<1>3. promise' \in Seq(Responses)
  <2>1. promise \in Seq(Responses) /\ Append(promise, Head(signals)) \in Seq(Responses)
    BY <1>1, ResponsesProperties DEF TypeOK
  <2> QED BY <1>2, <2>1
<1>4. TypeOK'
  <2>1. astray' \in BOOLEAN
    BY Zenon DEF Dispatch, TypeOK
  <2> QED BY <1>1, <1>2, <1>3, <2>1 DEF TypeOK
<1>5. PhaseInv'
  BY <1>2 DEF PhaseInv, Pending
<1>6. AnswersInv'
  BY <1>1, <1>2, <1>3, ResponsesProperties DEF TypeOK, AnswersInv, Pending
<1>7. TimeoutInv'
  <2>1. pc = "leave" => signals[1].request = request
    BY <1>1, ResponsesProperties DEF AnswersInv, TypeOK, Pending
  <2>2. astray' => late
    BY <1>1, <2>1, Zenon DEF Dispatch, TimeoutInv
  <2> QED BY <1>1, <1>2, <2>2 DEF TimeoutInv, ReplyPath
<1> QED BY <1>4, <1>5, <1>6, <1>7

-----------------------------------------------------------------------------
(* The results.                                                            *)

\* Every step preserves the invariant.
LEMMA InvNext == IInv /\ [Next]_vars => IInv'
<1> SUFFICES ASSUME IInv, [Next]_vars PROVE IInv'
  OBVIOUS
<1>1. CASE ReadProperties \/ OpenRemote \/ RemoteOpened \/ DropSharedScreen
  BY <1>1, OutsideSteps
<1>2. CASE Subscribe \/ SubscribeFails \/ CallMethod \/ CallReturns \/ CallFails
  BY <1>2, CallSteps
<1>3. CASE Continue \/ Leave
  BY <1>3, AnswerSteps
<1>4. CASE PortalReturns \/ CallTimesOut \/ PortalOpens
  BY <1>4, PortalSteps
<1>5. CASE PortalResponds
  BY <1>5, RespondsStep
<1>6. CASE Dispatch
  BY <1>6, DispatchStep
<1>7. CASE UNCHANGED vars
  BY <1>7 DEF vars, IInv, TypeOK, PhaseInv, AnswersInv, TimeoutInv, Pending
<1> QED BY <1>1, <1>2, <1>3, <1>4, <1>5, <1>6, <1>7, Zenon DEF Next, Caller, ThePortal, Finished

\* The invariant is one of the specification.
THEOREM InvariantHolds == Spec => []IInv
<1> QED BY InvInit, InvNext, PTL DEF Spec

\* The handler of the signal only runs while the variables of portalRequest() that
\* it refers to exist, except when the answer to a call that timed out comes late.
THEOREM HandlerIsSafe == Spec => []HandlerInv
<1>1. IInv => HandlerInv
  BY DEF IInv, PhaseInv, TimeoutInv, Pending, HandlerInv, HandlerWithinRequest, HandlerFindsPromise
<1> QED BY <1>1, InvariantHolds, PTL

\* The answer that portalRequest() gets is the answer to its own request, and it
\* gets one only, although all requests use one path.
THEOREM AnswersFit == Spec => []AnswerIsForRequest
<1>1. IInv => AnswerIsForRequest
  BY ResponsesProperties DEF IInv, TypeOK, AnswersInv, Pending, AnswerIsForRequest
<1> QED BY <1>1, InvariantHolds, PTL

-----------------------------------------------------------------------------
(* A portal that answers where it is expected to.                          *)

\* While the caller waits its handler is registered, on the expected path, and an
\* answer is due: still to come, on its way, or in the promise.
WaitInv ==
  Predictable =>
    /\ pc \in {"call", "called", "wait"} => subscribed = {ExpectedPath}
    /\ pc = "wait" \/ (pc = "called" /\ reply # "error") =>
         calls # {} \/ signals # <<>> \/ promise # <<>>

\* Every step preserves that: above all, no signal is dispatched without a handler.
LEMMA WaitNext ==
  ASSUME IInv, WaitInv, Next
  PROVE  WaitInv'
<1> SUFFICES ASSUME Predictable PROVE WaitInv'
  BY DEF WaitInv
<1> USE DEF WaitInv, history
<1>1. CASE ReadProperties \/ OpenRemote \/ RemoteOpened \/ DropSharedScreen
  BY <1>1 DEF ReadProperties, OpenRemote, RemoteOpened, DropSharedScreen, End, IInv, PhaseInv,
     Pending
<1>2. CASE Subscribe \/ SubscribeFails \/ CallMethod
  BY <1>2 DEF Subscribe, SubscribeFails, CallMethod, SubscribedFirst, End
<1>3. CASE CallReturns \/ CallFails
  BY <1>3 DEF CallReturns, CallFails, ReplyPath, Moves
<1>4. CASE Continue \/ Leave
  <2>1. pc' \notin {"call", "called", "wait"}
    BY <1>4 DEF Continue, Leave, End
  <2> QED BY <2>1
<1>5. CASE PortalReturns \/ CallTimesOut \/ PortalOpens
  BY <1>5 DEF PortalReturns, CallTimesOut, PortalOpens
<1>6. CASE PortalResponds
  <2>1. PICK r \in calls, a \in Answers :
          /\ signals' = Append(signals, Response(r, a))
          /\ UNCHANGED <<pc, subscribed, promise, reply>>
    BY <1>6 DEF PortalResponds
  <2>2. Response(r, a) \in Responses /\ signals \in Seq(Responses)
    BY RequestProperties DEF IInv, TypeOK
  <2>3. signals' \in Seq(Responses) /\ Len(signals') = Len(signals) + 1 /\ Len(signals) \in Nat
    BY <2>1, <2>2, ResponsesProperties
  <2>4. signals' # <<>>
    BY <2>3, ResponsesProperties
  <2> QED BY <2>1, <2>4
<1>7. CASE Dispatch
  <2>1. /\ signals # <<>> /\ UNCHANGED <<pc, subscribed, calls, reply>>
        /\ Head(signals) \in Responses /\ promise \in Seq(Responses)
        /\ IF ReplyPath(Head(signals).request) \notin subscribed THEN promise' = promise
           ELSE pc = "leave" \/ promise' = Append(promise, Head(signals))
    BY <1>7, ResponsesProperties DEF Dispatch, IInv, TypeOK
  <2>2. ReplyPath(Head(signals).request) = ExpectedPath
    BY DEF ReplyPath
  <2>3. Append(promise, Head(signals)) # <<>>
    BY <2>1, ResponsesProperties
  <2>4. pc \in {"called", "wait"} => promise' # <<>>
    BY <2>1, <2>2, <2>3
  <2> QED BY <2>1, <2>4
<1>8. CASE Finished
  BY <1>8 DEF Finished, vars
<1> QED BY <1>1, <1>2, <1>3, <1>4, <1>5, <1>6, <1>7, <1>8, Zenon
        DEF Next, Caller, ThePortal

\* A caller that waits has its answer, or it is on the way, or the portal has yet
\* to send it.
AnswerIsDue ==
  Predictable /\ pc = "wait" =>
    \/ promise # <<>>
    \/ \E i \in DOMAIN signals : signals[i].request = request
    \/ request \in calls

\* No answer is lost when the portal answers on the path that the client subscribed
\* to before the call; with other portals TLC finds one that is.
THEOREM AnswersAreNotLost == Spec => []AnswerIsDue
<1>1. Init => WaitInv
  BY DEF Init, WaitInv
<1>2. IInv /\ WaitInv /\ [Next]_vars => WaitInv'
  <2>1. IInv /\ WaitInv /\ Next => WaitInv'
    BY WaitNext
  <2>2. WaitInv /\ UNCHANGED vars => WaitInv'
    BY DEF WaitInv, vars
  <2> QED BY <2>1, <2>2
<1>3. IInv /\ WaitInv => AnswerIsDue
  <2> SUFFICES ASSUME IInv, WaitInv, Predictable, pc = "wait", promise = <<>> PROVE
                 (\E i \in DOMAIN signals : signals[i].request = request) \/ request \in calls
    BY DEF AnswerIsDue
  <2>1. calls # {} \/ signals # <<>>
    BY DEF WaitInv
  <2>2. calls \subseteq {request} /\ \A i \in DOMAIN signals : signals[i].request = request
    BY DEF IInv, AnswersInv, Pending
  <2>3. signals # <<>> => 1 \in DOMAIN signals
    BY ResponsesProperties DEF IInv, TypeOK
  <2> QED BY <2>1, <2>2, <2>3
<1> QED BY <1>1, <1>2, <1>3, InvariantHolds, PTL DEF Spec
=============================================================================
