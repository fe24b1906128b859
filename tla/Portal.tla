------------------------------- MODULE Portal -------------------------------
(***************************************************************************)
(* How the program asks xdg-desktop-portal for a shared screen             *)
(* (PortalModule/xdg-desktop-portal.cpp): requestPipeWireShare().          *)
(*                                                                         *)
(* The caller makes three requests in a row.  For each, portalRequest()    *)
(* subscribes to the Response signal of the object it expects the portal   *)
(* to answer on, calls the method, which returns the path of the object,   *)
(* and waits for a promise.  The D-Bus connection has a thread of its own  *)
(* that dispatches signals to the handler, which keeps the promise.        *)
(*                                                                         *)
(* The portal and the D-Bus daemon are outside src/.  The portal returns   *)
(* from the call before it sends the signal, the user may take any time in *)
(* between, and a signal that nobody subscribed to is gone.  A call may    *)
(* time out although the portal gets to it later.                          *)
(***************************************************************************)
EXTENDS Integers, Sequences, FiniteSets

CONSTANTS
  Predictable   \* the portal answers on the path that the client expects;
                \* old ones make up a path of their own

ASSUME PortalAssumption == Predictable \in BOOLEAN

VARIABLES
  request,     \* which request is made, counted from 1; the last call is no request
  pc,          \* where the caller is
  subscribed,  \* paths that signalProxy has a handler for
  promise,     \* promisedResponse: <<>>, or what it was set to
  calls,       \* calls of a method that the portal has not answered by a signal
  reply,       \* what the portal returned for the last call, if it has
  signals,     \* Response signals on their way to the client, oldest first
  result,      \* what the request comes to: "next" one, "nothing" or "threw"
  late,        \* history: a call timed out
  astray,      \* history: the handler ran when the promise was gone
  outcome,     \* how requestPipeWireShare() ended
  connection   \* the D-Bus connection is open, and with it the session

vars == <<request, pc, subscribed, promise, calls, reply, signals, result, late,
          astray, outcome, connection>>

history == <<late, astray>>

-----------------------------------------------------------------------------

Requests == <<"CreateSession", "SelectSources", "Start">>

\* The path that the handle token stands for: the same one for every request.
ExpectedPath == 0

\* The path that the portal returns and sends the signal from.
ReplyPath(r) == IF Predictable THEN ExpectedPath ELSE r

\* What the portal may answer: 0 with the results that are asked for, without
\* them, or without a stream in them; 1 when the user cancels, 2 when something
\* else ends it, and arguments that cannot be parsed.
Answers == {"success", "incomplete", "empty", "cancelled", "aborted", "unreadable"}

Response(r, a) == [request |-> r, answer |-> a]

\* What becomes of the answer to request r: a result to go on with, nullopt or
\* an exception.  Only Start takes a nullopt for a decision of the user, and
\* the results of SelectSources are not looked at.
After(r, a) ==
  CASE a = "success" -> "next"
    [] a = "incomplete" -> IF Requests[r] = "SelectSources" THEN "next" ELSE "threw"
    [] a = "cancelled" -> IF Requests[r] = "Start" THEN "nothing" ELSE "threw"
    [] a \in {"empty", "aborted", "unreadable"} -> "threw"

Init ==
  /\ request = 1
  /\ pc = "read"
  /\ subscribed = {}
  /\ promise = <<>>
  /\ calls = {}
  /\ reply = "none"
  /\ signals = <<>>
  /\ result = "none"
  /\ late = FALSE
  /\ astray = FALSE
  /\ outcome = "none"
  /\ connection = TRUE

-----------------------------------------------------------------------------
(* The caller.                                                             *)

\* requestPipeWireShare() ends.  Unless a screen is shared the connection is
\* closed, with the session.
End(r) ==
  /\ outcome' = r
  /\ connection' = (r = "shared")
  /\ pc' = "ended"

\* getPipeWireShareInfo() reads the properties of the portal, which may fail.
ReadProperties ==
  /\ pc = "read"
  /\ \/ pc' = "subscribe" /\ UNCHANGED <<outcome, connection>>
     \/ End("threw")
  /\ UNCHANGED <<request, subscribed, promise, calls, reply, signals, result, history>>

\* Mutant: the handler is installed when the path is known.
SubscribedFirstNot == {}

\* The paths of the first subscription of portalRequest().
SubscribedFirst == {ExpectedPath}

\* Mutant: the promise outlives the request.
NewPromiseNot(p) == p

\* The promise is a local variable of portalRequest().
NewPromise(p) == <<>>

\* portalRequest() makes a new promise and subscribes.
Subscribe ==
  /\ pc = "subscribe"
  /\ promise' = NewPromise(promise)
  /\ subscribed' = SubscribedFirst
  /\ pc' = "call"
  /\ UNCHANGED <<request, calls, reply, signals, result, history, outcome, connection>>

\* The same, throwing: createProxy() or finishRegistration() fails, so no handler
\* is registered, and nothing of the request is left.
SubscribeFails ==
  /\ pc = "subscribe"
  /\ End("threw")
  /\ UNCHANGED <<request, subscribed, promise, calls, reply, signals, result, history>>

\* callMethod() sends the call and waits.
CallMethod ==
  /\ pc = "call"
  /\ calls' = calls \cup {request}
  /\ reply' = "none"
  /\ pc' = "called"
  /\ UNCHANGED <<request, subscribed, promise, signals, result, history, outcome,
                 connection>>

\* Once callMethod() has returned the path p: the handler stays, or moves to p,
\* and the caller waits.  Moving may throw, in createProxy() with the handler
\* still where it was, or in finishRegistration() without one.
Moves(p) ==
  IF p = ExpectedPath THEN {[handled |-> subscribed, to |-> "wait"]}
  ELSE {[handled |-> {p}, to |-> "wait"]} \cup [handled : {subscribed, {}}, to : {"leave"}]

\* callMethod() returns.
CallReturns ==
  /\ pc = "called"
  /\ reply = "path"
  /\ \E m \in Moves(ReplyPath(request)) :
       /\ subscribed' = m.handled
       /\ pc' = m.to
       /\ result' = IF m.to = "leave" THEN "threw" ELSE result
  /\ UNCHANGED <<request, promise, calls, reply, signals, history, outcome, connection>>

\* callMethod() throws an error, and portalRequest() is left.
CallFails ==
  /\ pc = "called"
  /\ reply = "error"
  /\ result' = "threw"
  /\ pc' = "leave"
  /\ UNCHANGED <<request, subscribed, promise, calls, reply, signals, history,
                 outcome, connection>>

\* Mutant: the caller goes on when the call has returned.
ReadyAtOnce == pc = "wait"

\* The future is ready.
Ready == pc = "wait" /\ promise # <<>>

\* portalRequest() is left with the answer, or an exception.
Continue ==
  /\ Ready
  /\ result' = IF promise = <<>> THEN "next" ELSE After(request, promise[1].answer)
  /\ pc' = "leave"
  /\ UNCHANGED <<request, subscribed, promise, calls, reply, signals, history,
                 outcome, connection>>

\* signalProxy is destroyed at the end of portalRequest().
SubscribedAfter == {}

\* The promise is gone; the handler is unregistered by the destructor of
\* signalProxy, which was declared before.  Then comes the next request.
Leave ==
  /\ pc = "leave"
  /\ subscribed' = SubscribedAfter
  /\ IF result = "next"
     THEN /\ request' = request + 1
          /\ pc' = IF request = Len(Requests) THEN "open" ELSE "subscribe"
          /\ UNCHANGED <<outcome, connection>>
     ELSE End(result) /\ UNCHANGED request
  /\ UNCHANGED <<promise, calls, reply, signals, result, history>>

\* openPipeWireRemoteFd() sends its call.
OpenRemote ==
  /\ pc = "open"
  /\ reply' = "none"
  /\ pc' = "opening"
  /\ UNCHANGED <<request, subscribed, promise, calls, signals, result, history,
                 outcome, connection>>

\* It returns the file descriptor, and the screen is shared, or throws.
RemoteOpened ==
  /\ pc = "opening"
  /\ \/ reply = "fd" /\ End("shared")
     \/ reply = "error" /\ End("threw")
  /\ UNCHANGED <<request, subscribed, promise, calls, reply, signals, result, history>>

\* dropSharedScreen(), or the end of the last SharedScreen: the connection is
\* closed, and the screen is not shared any more.
DropSharedScreen ==
  /\ outcome = "shared"
  /\ connection
  /\ connection' = FALSE
  /\ UNCHANGED <<request, pc, subscribed, promise, calls, reply, signals, result,
                 history, outcome>>

-----------------------------------------------------------------------------
(* The portal, and the thread of the connection.                           *)

\* The portal returns from the method of a request.
PortalReturns ==
  /\ pc = "called" /\ reply = "none"
  /\ \/ reply' = "path" /\ UNCHANGED calls
     \/ reply' = "error" /\ calls' = calls \ {request}
  /\ UNCHANGED <<request, pc, subscribed, promise, signals, result, history, outcome,
                 connection>>

\* The call times out.  The portal may get to it all the same.
CallTimesOut ==
  /\ pc = "called" /\ reply = "none"
  /\ reply' = "error"
  /\ late' = TRUE
  /\ UNCHANGED <<request, pc, subscribed, promise, calls, signals, result, astray,
                 outcome, connection>>

\* The portal sends the answer to a request from whose method it returned.
PortalResponds ==
  \E r \in calls, a \in Answers :
    /\ r = request => reply # "none"
    /\ a = "empty" => Requests[r] = "Start"
    /\ calls' = calls \ {r}
    /\ signals' = Append(signals, Response(r, a))
    /\ UNCHANGED <<request, pc, subscribed, promise, reply, result, history, outcome,
                   connection>>

\* The portal returns from OpenPipeWireRemote.
PortalOpens ==
  /\ pc = "opening" /\ reply = "none"
  /\ reply' \in {"fd", "error"}
  /\ UNCHANGED <<request, pc, subscribed, promise, calls, signals, result, history,
                 outcome, connection>>

\* The thread of the connection dispatches a signal to the handler, if there
\* is one for the path.  The handler needs the promise.
Dispatch ==
  /\ connection
  /\ signals # <<>>
  /\ signals' = Tail(signals)
  /\ IF ReplyPath(Head(signals).request) \notin subscribed
     THEN UNCHANGED <<promise, astray>>
     ELSE IF pc = "leave"
          THEN astray' = TRUE /\ UNCHANGED promise
          ELSE promise' = Append(promise, Head(signals)) /\ UNCHANGED astray
  /\ UNCHANGED <<request, pc, subscribed, calls, reply, result, late, outcome, connection>>

Finished == ~connection /\ UNCHANGED vars

Caller ==
  \/ ReadProperties
  \/ Subscribe
  \/ SubscribeFails
  \/ CallMethod
  \/ CallReturns
  \/ CallFails
  \/ Continue
  \/ Leave
  \/ OpenRemote
  \/ RemoteOpened

ThePortal == PortalReturns \/ CallTimesOut \/ PortalResponds \/ PortalOpens

Next == Caller \/ DropSharedScreen \/ ThePortal \/ Dispatch \/ Finished

Spec == Init /\ [][Next]_vars

\* The caller and the thread of the connection run, and the portal answers
\* what it is asked: the user does decide, one way or the other.
Fairness ==
  /\ WF_vars(Caller)
  /\ WF_vars(PortalReturns) /\ WF_vars(PortalResponds) /\ WF_vars(PortalOpens)
  /\ WF_vars(Dispatch)

FairSpec == Spec /\ Fairness

-----------------------------------------------------------------------------
(* Properties                                                              *)

Paths == {ExpectedPath} \cup DOMAIN Requests

Responses == {Response(r, a) : r \in DOMAIN Requests, a \in Answers}

\* Types of the variables.
TypeOK ==
  /\ request \in 1 .. Len(Requests) + 1
  /\ pc \in {"read", "subscribe", "call", "called", "wait", "leave", "open", "opening", "ended"}
  /\ subscribed \subseteq Paths
  /\ promise \in Seq(Responses)
  /\ calls \subseteq DOMAIN Requests
  /\ reply \in {"none", "path", "fd", "error"}
  /\ signals \in Seq(Responses)
  /\ result \in {"none", "next", "nothing", "threw"}
  /\ late \in BOOLEAN /\ astray \in BOOLEAN
  /\ outcome \in {"none", "shared", "nothing", "threw"}
  /\ connection \in BOOLEAN
  /\ outcome = "none" <=> pc # "ended"

\* Although all requests use one path, an answer that the caller gets is the
\* answer to the request it waits for, and the promise is not set twice, which
\* would throw an exception in the thread of the connection.
AnswerIsForRequest ==
  pc \in {"call", "called", "wait"} =>
    Len(promise) <= 1 /\ \A i \in DOMAIN promise : promise[i].request = request

\* The handler refers to local variables of portalRequest(), so it is only
\* registered while these exist, and the connection.
HandlerWithinRequest ==
  subscribed # {} => connection /\ pc \in {"call", "called", "wait", "leave"}

\* The promise is destroyed a moment before the handler is unregistered.  No
\* answer comes in that moment, because none is due any more: except when the
\* call timed out and its answer comes late.
HandlerFindsPromise == astray => late

\* The handler, on a thread of its own, never uses what portalRequest() has left
\* behind, but for an answer that comes after a timeout.
HandlerInv == TypeOK /\ HandlerWithinRequest /\ HandlerFindsPromise

\* "A SharedScreen object on success, or nothing if the user cancelled the
\* request", or an exception (xdg-desktop-portal.hpp): if the portal answers,
\* the call ends in one of these ways.
RequestEnds == <>(outcome # "none")
=============================================================================
