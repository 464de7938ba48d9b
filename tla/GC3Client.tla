----------------------------- MODULE GC3Client -----------------------------
(***************************************************************************)
(* The REST client: concurrent calls over one aiohttp session, which the   *)
(* client was given or opens and closes itself.  A call awaits the headers *)
(* and then a body; one timer covers the whole of it.  What matters is the *)
(* exception it ends with: the coordinator and the flows tell credentials  *)
(* (GC3AuthError) from an unreachable panel (GC3ConnectionError) by it.    *)
(***************************************************************************)
CONSTANTS
  Calls,    \* the tasks that call the client
  Closers,  \* the tasks that close it
  Sessions, \* aiohttp sessions
  None      \* no session

ASSUME NoneAssumption == None \notin Sessions

VARIABLES
  session,   \* _session
  owns,      \* _owns_session
  open,      \* the sessions that are open
  injected,  \* the session passed to the constructor, if any, as a set
  call,      \* per task, its current or last call
  closing,   \* per closer, the session whose close() it awaits
  overlapped \* history: a close began while another was awaited

cvars == <<session, owns, open, injected, call, closing, overlapped>>

\* What a method does with its answer: status (get_pairing is alike), zones, or
\* the actions arm, disarm and pair, which return it as it is.
Method  == {"status", "zones", "action"}
\* HTTP statuses: fine, credentials refused, any other error.
Code    == {"200", "403", "500"}
Error   == {"403", "500"}
\* The exception classes, "other" being everything that is not a GC3Error.
Outcome == {"ok", "auth", "response", "connection", "other"}
\* Awaiting the headers, the body, an error's JSON, an error's text.
At      == {"idle", "headers", "body", "message", "text"}
\* Bodies: an object, a list of usable zones, a list with anything else in it,
\* null or nothing at all, and what is not JSON.
Body    == {"object", "zones", "list", "null", "text"}

Call == [at : At, method : Method, session : Sessions \cup {None},
         code : Code \cup {"none"}, outcome : Outcome \cup {"none"}]

NoCall == [at |-> "idle", method |-> "status", session |-> None,
           code |-> "none", outcome |-> "none"]

CInit ==
  /\ \/ session = None /\ injected = {}
     \/ session \in Sessions /\ injected = {session}
  /\ owns = (session = None)
  /\ open = injected
  /\ call = [c \in Calls |-> NoCall]
  /\ closing = [c \in Closers |-> None]
  /\ overlapped = FALSE

-----------------------------------------------------------------------------
(* Calls. *)

\* Sessions somebody still refers to; a new one is none of them.
InUse == open \cup {session} \cup {call[c].session : c \in Calls}
              \cup {closing[c] : c \in Closers}

EnsureSession ==
  IF session # None THEN UNCHANGED <<session, owns, open>>
  ELSE /\ session' \in Sessions \ InUse
       /\ open' = open \cup {session'}
       /\ owns' = TRUE

End(c, outcome) ==
  call' = [call EXCEPT ![c].at = "idle", ![c].session = None,
                       ![c].outcome = outcome]

Enters(c, at) == call' = [call EXCEPT ![c].at = at]

\* _request up to its first await.  A session that is being closed is still
\* _session, and refuses the request with a RuntimeError.
Begin(c, method) ==
  /\ call[c].at = "idle"
  /\ EnsureSession
  /\ call' = [call EXCEPT ![c] =
       IF session' \in open'
       THEN [NoCall EXCEPT !.at = "headers", !.method = method,
                           !.session = session']
       ELSE [NoCall EXCEPT !.method = method, !.outcome = "other"]]
  /\ UNCHANGED <<injected, closing, overlapped>>

sess == <<session, owns, open, injected, closing, overlapped>>

Answers(c) == call[c].session \in open

\* Mutation: only a refusal is treated as an error.
only_403(code) == IF code = "403" THEN "message" ELSE "body"

after_headers(code) == IF code \in Error THEN "message" ELSE "body"

Headers(c) ==
  /\ call[c].at = "headers" /\ Answers(c)
  /\ \E code \in Code :
       call' = [call EXCEPT ![c].code = code, ![c].at = after_headers(code)]
  /\ UNCHANGED sess

\* The JSON parser, then from_json.  from_json takes the shape on trust: of
\* what is not an object it raises AttributeError, of odd fields ValueError.
Parsed(method, body) ==
  CASE body = "text" -> "response"
    [] body # "text" /\ method = "action" -> "ok"
    [] body # "text" /\ method = "status" ->
         IF body = "object" THEN "ok" ELSE "other"
    [] body # "text" /\ method = "zones" ->
         IF body = "zones" THEN "ok"
         ELSE IF body = "list" THEN "other" ELSE "response"

ReadBody(c) ==
  /\ call[c].at = "body" /\ Answers(c)
  /\ \E body \in Body : End(c, Parsed(call[c].method, body))
  /\ UNCHANGED sess

\* The exception raised once the error's message is there.
ErrorFor(code) == IF code = "403" THEN "auth" ELSE "response"

\* _safe_message: the JSON of the error, or, it being unusable or the
\* connection gone, its text.
ReadMessage(c) ==
  /\ call[c].at = "message"
  /\ \/ Answers(c) /\ End(c, ErrorFor(call[c].code))
     \/ Enters(c, "text")
  /\ UNCHANGED sess

\* Mutation: an undecodable text is not caught.
DecodeText(c) ==
  /\ call[c].at = "text"
  /\ End(c, ErrorFor(call[c].code)) \/ End(c, "other")
  /\ UNCHANGED sess

\* Whatever happens to the text, the error is raised, without it if need be.
ReadText(c) ==
  /\ call[c].at = "text"
  /\ End(c, ErrorFor(call[c].code))
  /\ UNCHANGED sess

\* An aiohttp.ClientError.  (While an error's body is read it is caught there.)
ConnectionLost(c) ==
  /\ call[c].at \in {"headers", "body"}
  /\ End(c, "connection")
  /\ UNCHANGED sess

\* Mutation: the timer stops when the headers are there.
HeadersTimeOut(c) ==
  /\ call[c].at = "headers"
  /\ End(c, "connection")
  /\ UNCHANGED sess

\* The total timeout.  _safe_message catches TimeoutError only around the text.
TimesOut(c) ==
  /\ call[c].at # "idle"
  /\ End(c, IF call[c].at = "text" THEN ErrorFor(call[c].code)
            ELSE "connection")
  /\ UNCHANGED sess

-----------------------------------------------------------------------------
(* close(). *)

\* aiohttp marks the session closed at once and may then wait for its
\* connections.
CloseBegins(c) ==
  /\ closing[c] = None
  /\ owns /\ session # None
  /\ closing' = [closing EXCEPT ![c] = session]
  /\ open' = open \ {session}
  /\ overlapped' = (overlapped \/ \E d \in Closers : closing[d] # None)
  /\ UNCHANGED <<session, owns, injected, call>>

\* Mutation: the closed session is kept.
KeepSession == UNCHANGED session

ForgetSession == session' = None

CloseEnds(c) ==
  /\ closing[c] # None
  /\ ForgetSession
  /\ closing' = [closing EXCEPT ![c] = None]
  /\ UNCHANGED <<owns, open, injected, call, overlapped>>

-----------------------------------------------------------------------------
CallStep(c) ==
  \/ \E method \in Method : Begin(c, method)
  \/ Headers(c) \/ ReadBody(c) \/ ReadMessage(c) \/ ReadText(c)
  \/ ConnectionLost(c) \/ TimesOut(c)

CNext ==
  \/ \E c \in Calls : CallStep(c)
  \/ \E c \in Closers : CloseBegins(c) \/ CloseEnds(c)

CSpec == CInit /\ [][CNext]_cvars

\* Only the timer is sure to act: the panel need not answer.
CFairSpec == CSpec /\ \A c \in Calls : WF_cvars(TimesOut(c))

-----------------------------------------------------------------------------
\* Every variable keeps its type, a body is read as an answer or as an error's
\* message as its status says, and only a call in flight holds a session.
CTypeOK ==
  /\ session \in Sessions \cup {None} /\ owns \in BOOLEAN
  /\ open \subseteq Sessions /\ injected \subseteq Sessions
  /\ call \in [Calls -> Call] /\ closing \in [Closers -> Sessions \cup {None}]
  /\ overlapped \in BOOLEAN
  /\ \A c \in Calls :
       /\ call[c].at = "body" => call[c].code = "200"
       /\ call[c].at \in {"message", "text"} => call[c].code \in Error
       /\ call[c].at = "idle" <=> call[c].session = None

\* No session is leaked and none is closed that is not ours: but for two closes
\* that overlap, the open sessions are the one injected and the one in use.
SessionsAccountedFor ==
  ~overlapped =>
    open = injected \cup
             (IF session = None \/ \E c \in Closers : closing[c] # None
                THEN {} ELSE {session})

\* An error status is never lost: whatever becomes of the error's own body, the
\* call ends with a GC3Error, and with GC3AuthError only if the panel refused
\* the keys, so that Home Assistant asks for new ones for no other reason.
ErrorsReported ==
  \A c \in Calls : call[c].at = "idle" =>
    /\ call[c].code \in Error =>
         call[c].outcome \in {ErrorFor(call[c].code), "connection"}
    /\ call[c].outcome = "auth" => call[c].code = "403"

\* Every call ends, whatever the panel does, headers sent or not.
CallsEnd == \A c \in Calls : call[c].at # "idle" ~> call[c].at = "idle"
=============================================================================
