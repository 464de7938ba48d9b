-------------------------- MODULE GC3ClientProofs --------------------------
(* Proofs about GC3Client, for any number of calls, closers and sessions. *)
EXTENDS GC3Client, TLAPS

\* A client owns its sessions unless it was given one, which it then keeps.
Ownership ==
  IF injected = {} THEN owns
  ELSE /\ ~owns /\ session # None /\ injected = {session}
       /\ \A c \in Closers : closing[c] = None

\* Until two closes overlap, only one is awaited, and _session is still there.
OneClose ==
  ~overlapped =>
    /\ \A c, d \in Closers : closing[c] # None /\ closing[d] # None => c = d
    /\ \A c \in Closers : closing[c] # None => session # None

\* What the invariants say of sessions, and of one call.
SessionInv ==
  /\ session \in Sessions \cup {None} /\ owns \in BOOLEAN
  /\ open \subseteq Sessions /\ injected \subseteq Sessions
  /\ closing \in [Closers -> Sessions \cup {None}]
  /\ overlapped \in BOOLEAN
  /\ Ownership /\ OneClose /\ SessionsAccountedFor
CallInv(r) ==
  /\ r \in Call
  /\ r.at = "body" => r.code = "200"
  /\ r.at \in {"message", "text"} => r.code \in Error
  /\ r.at = "idle" <=> r.session = None
  /\ r.at = "idle" =>
       /\ r.code \in Error => r.outcome \in {ErrorFor(r.code), "connection"}
       /\ r.outcome = "auth" => r.code = "403"
CallsInv == call \in [Calls -> Call] /\ \A c \in Calls : CallInv(call[c])

\* The inductive invariant.
CInv == SessionInv /\ CallsInv

LEMMA CInvInit == CInit => CInv
<1> SUFFICES ASSUME CInit PROVE CInv
  OBVIOUS
<1>1. SessionInv
  <2>1. CASE session = None
    <3>1. /\ injected = {} /\ open = {} /\ owns = TRUE
          /\ closing = [c \in Closers |-> None] /\ overlapped = FALSE
      BY <2>1, NoneAssumption DEF CInit
    <3>. QED
      BY <2>1, <3>1
         DEF SessionInv, Ownership, OneClose, SessionsAccountedFor
  <2>2. CASE session # None
    <3>1. /\ session \in Sessions /\ injected = {session} /\ open = {session}
          /\ owns = FALSE /\ closing = [c \in Closers |-> None]
          /\ overlapped = FALSE
      BY <2>2 DEF CInit
    <3>. QED
      BY <2>2, <3>1
         DEF SessionInv, Ownership, OneClose, SessionsAccountedFor
  <2>. QED  BY <2>1, <2>2
<1>2. NoCall \in Call /\ CallInv(NoCall)
  BY DEF NoCall, Call, CallInv, At, Method, Code, Outcome, Error, ErrorFor
<1>3. CallsInv
  BY <1>2 DEF CInit, CallsInv
<1>. QED  BY <1>1, <1>3 DEF CInv

\* A step of one call leaves the others alone.
LEMMA OtherCalls ==
  ASSUME CallsInv, NEW c \in Calls, NEW r, CallInv(r),
         call' = [call EXCEPT ![c] = r]
  PROVE  CallsInv'
<1>1. r \in Call
  BY DEF CallInv
<1>2. \A d \in Calls : call'[d] = IF d = c THEN r ELSE call[d]
  BY DEF CallsInv
<1>3. call' \in [Calls -> Call]
  BY <1>1 DEF CallsInv
<1>4. \A d \in Calls : CallInv(call'[d])
  BY <1>2 DEF CallsInv
<1>. QED  BY <1>3, <1>4 DEF CallsInv, CallInv

\* A call ends as it should if the outcome fits its status.
LEMMA EndKeeps ==
  ASSUME CallsInv, NEW c \in Calls, NEW outcome \in Outcome, End(c, outcome),
         call[c].code \in Error =>
           outcome \in {ErrorFor(call[c].code), "connection"},
         outcome = "auth" => call[c].code = "403"
  PROVE  CallsInv'
<1> DEFINE r == [call[c] EXCEPT !.at = "idle", !.session = None,
                                !.outcome = outcome]
<1>1. call' = [call EXCEPT ![c] = r]
  BY DEF End
<1>2. call[c] \in Call
  BY DEF CallsInv
<1>3. /\ r \in Call /\ r.at = "idle" /\ r.session = None
      /\ r.outcome = outcome /\ r.code = call[c].code
  BY <1>2 DEF Call, At
<1>4. CallInv(r)
  BY <1>3 DEF CallInv
<1>. QED  BY <1>1, <1>4, OtherCalls

\* A new session is opened only when there is none and none is being closed.
LEMMA BeginStep ==
  ASSUME CInv, NEW c \in Calls, NEW method \in Method, Begin(c, method)
  PROVE  CInv'
<1>1. SessionInv /\ CallsInv
  BY DEF CInv
<1>2. SessionInv' /\ session' \in Sessions
  <2>1. CASE session # None
    BY <1>1, <2>1 DEF Begin, EnsureSession, SessionInv,
                      Ownership, OneClose, SessionsAccountedFor
  <2>2. CASE session = None
    <3>1. /\ session' \in Sessions /\ session' # None /\ owns' = TRUE
          /\ open' = open \cup {session'}
          /\ UNCHANGED <<injected, closing, overlapped>>
      BY <2>2, NoneAssumption DEF Begin, EnsureSession
    <3>2. injected = {}
      BY <1>1, <2>2 DEF SessionInv, Ownership
    <3>3. Ownership' /\ OneClose'
      BY <1>1, <3>1, <3>2 DEF SessionInv, Ownership, OneClose
    <3>4. SessionsAccountedFor'
      BY <1>1, <2>2, <3>1, <3>2
         DEF SessionInv, OneClose, SessionsAccountedFor
    <3>. QED  BY <1>1, <3>1, <3>3, <3>4 DEF SessionInv
  <2>. QED  BY <2>1, <2>2
<1>3. PICK r : /\ call' = [call EXCEPT ![c] = r]
               /\ \/ r = [NoCall EXCEPT !.at = "headers", !.method = method,
                                        !.session = session']
                  \/ r = [NoCall EXCEPT !.method = method, !.outcome = "other"]
  BY DEF Begin
<1>4. CallInv(r)
  BY <1>2, <1>3, NoneAssumption
     DEF NoCall, Call, CallInv, At, Method, Code, Outcome, Error, ErrorFor
<1>5. CallsInv'
  BY <1>1, <1>3, <1>4, OtherCalls
<1>. QED  BY <1>2, <1>5 DEF CInv

\* The awaits of one call, each with all it can end in.
LEMMA CallStepKeeps ==
  ASSUME CInv, NEW c \in Calls, CallStep(c)
  PROVE  CInv'
<1>1. SessionInv /\ CallsInv
  BY DEF CInv
<1>2. CallInv(call[c]) /\ call[c] \in Call
  BY <1>1 DEF CallsInv
<1>3. CASE \E method \in Method : Begin(c, method)
  BY <1>3, BeginStep
<1>4. CASE Headers(c)
  <2>1. PICK code \in Code :
          call' = [call EXCEPT ![c].code = code, ![c].at = after_headers(code)]
    BY <1>4 DEF Headers
  <2> DEFINE r == [call[c] EXCEPT !.code = code, !.at = after_headers(code)]
  <2>2. call' = [call EXCEPT ![c] = r]
    BY <2>1
  <2>3. call[c].at = "headers" /\ call[c].session # None
    BY <1>2, <1>4 DEF Headers, CallInv
  <2>4. CallInv(r)
    BY <1>2, <2>3 DEF CallInv, Call, At, Code, Error, after_headers
  <2>. QED  BY <1>1, <1>4, <2>2, <2>4, OtherCalls DEF CInv, Headers, sess,
               SessionInv, Ownership, OneClose, SessionsAccountedFor
<1>5. CASE ReadMessage(c) /\ Enters(c, "text")
  <2> DEFINE r == [call[c] EXCEPT !.at = "text"]
  <2>1. call' = [call EXCEPT ![c] = r]
    BY <1>5 DEF Enters
  <2>2. call[c].at = "message"
    BY <1>5 DEF ReadMessage
  <2>3. CallInv(r)
    BY <1>2, <2>2 DEF CallInv, Call, At
  <2>. QED  BY <1>1, <1>5, <2>1, <2>3, OtherCalls DEF CInv, ReadMessage, sess,
               SessionInv, Ownership, OneClose, SessionsAccountedFor
<1>6. ASSUME NEW outcome \in Outcome, End(c, outcome), UNCHANGED sess,
             call[c].code \in Error =>
               outcome \in {ErrorFor(call[c].code), "connection"},
             outcome = "auth" => call[c].code = "403"
      PROVE  CInv'
  BY <1>1, <1>6, EndKeeps DEF CInv, sess,
     SessionInv, Ownership, OneClose, SessionsAccountedFor
<1>7. CASE ReadBody(c)
  <2>1. PICK body \in Body : End(c, Parsed(call[c].method, body))
    BY <1>7 DEF ReadBody
  <2>2. call[c].code \notin Error /\ call[c].method \in Method
    BY <1>2, <1>7 DEF ReadBody, CallInv, Error, Call
  <2>3. /\ Parsed(call[c].method, body) \in Outcome
        /\ Parsed(call[c].method, body) # "auth"
    BY <2>2 DEF Parsed, Method, Body, Outcome
  <2>. QED  BY <1>6, <1>7, <2>1, <2>2, <2>3 DEF ReadBody
<1>8. ASSUME call[c].at \in {"message", "text"}
      PROVE  /\ ErrorFor(call[c].code) \in Outcome
             /\ ErrorFor(call[c].code) = "auth" => call[c].code = "403"
  BY <1>2, <1>8 DEF CallInv, Error, ErrorFor, Outcome
<1>9. CASE ReadMessage(c) /\ End(c, ErrorFor(call[c].code))
  BY <1>6, <1>8, <1>9 DEF ReadMessage
<1>10. CASE ReadText(c)
  BY <1>6, <1>8, <1>10 DEF ReadText
<1>11. CASE ConnectionLost(c)
  BY <1>6, <1>11 DEF ConnectionLost, Outcome
<1>12. CASE TimesOut(c)
  <2>1. CASE call[c].at = "text"
    BY <1>6, <1>8, <1>12, <2>1 DEF TimesOut
  <2>2. CASE call[c].at # "text"
    BY <1>6, <1>12, <2>2 DEF TimesOut, Outcome
  <2>. QED  BY <2>1, <2>2
<1>. QED
  BY <1>3, <1>4, <1>5, <1>7, <1>9, <1>10, <1>11, <1>12
     DEF CallStep, ReadMessage

\* Closing: the session is closed at once and forgotten later.
LEMMA CloseKeeps ==
  ASSUME CInv, NEW c \in Closers, CloseBegins(c) \/ CloseEnds(c)
  PROVE  CInv'
<1>1. SessionInv
  BY DEF CInv
<1>2. CallsInv'
  BY DEF CInv, CallsInv, CallInv, CloseBegins, CloseEnds
<1>3. CASE CloseBegins(c)
  <2>1. /\ session # None /\ owns /\ injected = {} /\ closing[c] = None
        /\ \A d \in Closers :
             closing'[d] = IF d = c THEN session ELSE closing[d]
        /\ closing' \in [Closers -> Sessions \cup {None}]
        /\ open' = open \ {session} /\ UNCHANGED <<session, owns, injected>>
    BY <1>1, <1>3 DEF CloseBegins, SessionInv, Ownership
  <2>2. CASE overlapped'
    <3>1. overlapped' \in BOOLEAN
      BY <1>1, <1>3 DEF CloseBegins, SessionInv
    <3>. QED
      BY <1>1, <1>2, <2>1, <2>2, <3>1
         DEF CInv, SessionInv, Ownership, OneClose, SessionsAccountedFor
  <2>3. CASE ~overlapped'
    <3>1. /\ ~overlapped /\ \A d \in Closers : closing[d] = None
          /\ overlapped' \in BOOLEAN
      BY <1>1, <1>3, <2>3 DEF CloseBegins, SessionInv
    <3>2. open = {session}
      BY <1>1, <2>1, <3>1 DEF SessionInv, SessionsAccountedFor
    <3>3. SessionsAccountedFor'
      BY <2>1, <3>2 DEF SessionsAccountedFor
    <3>4. Ownership' /\ OneClose'
      BY <2>1, <3>1 DEF Ownership, OneClose
    <3>. QED  BY <1>1, <1>2, <2>1, <3>1, <3>3, <3>4 DEF CInv, SessionInv
  <2>. QED  BY <2>2, <2>3
<1>4. CASE CloseEnds(c)
  <2>1. /\ closing[c] # None /\ session' = None
        /\ \A d \in Closers : closing'[d] = IF d = c THEN None ELSE closing[d]
        /\ closing' \in [Closers -> Sessions \cup {None}]
        /\ UNCHANGED <<owns, open, injected, overlapped>>
    BY <1>1, <1>4 DEF CloseEnds, ForgetSession, SessionInv
  <2>2. injected = {}
    BY <1>1, <2>1 DEF SessionInv, Ownership
  <2>3. ~overlapped => open = {} /\ \A d \in Closers : closing'[d] = None
    BY <1>1, <2>1, <2>2 DEF SessionInv, OneClose, SessionsAccountedFor
  <2>4. Ownership' /\ OneClose' /\ SessionsAccountedFor'
    BY <1>1, <2>1, <2>2, <2>3
       DEF SessionInv, Ownership, OneClose, SessionsAccountedFor
  <2>. QED  BY <1>1, <1>2, <2>1, <2>4 DEF CInv, SessionInv
<1>. QED  BY <1>3, <1>4

\* The inductive invariant holds.
THEOREM CInvariant == CSpec => []CInv
<1>1. CInv /\ [CNext]_cvars => CInv'
  <2> SUFFICES ASSUME CInv, [CNext]_cvars PROVE CInv'
    OBVIOUS
  <2>1. CASE UNCHANGED cvars
    BY <2>1 DEF cvars, CInv, SessionInv, CallsInv, CallInv, Ownership, OneClose,
                SessionsAccountedFor
  <2>. QED  BY <2>1, CallStepKeeps, CloseKeeps DEF CNext
<1>. QED  BY <1>1, CInvInit, PTL DEF CSpec

\* Types, and each call reading what its status says.
THEOREM ClientTypes == CSpec => []CTypeOK
<1>1. CInv => CTypeOK
  BY DEF CInv, SessionInv, CallsInv, CallInv, CTypeOK
<1>. QED  BY <1>1, CInvariant, PTL

\* Unless two closes overlap no session is leaked, and an injected session is
\* never closed.
THEOREM NoSessionLeaks == CSpec => []SessionsAccountedFor
<1>1. CInv => SessionsAccountedFor
  BY DEF CInv, SessionInv
<1>. QED  BY <1>1, CInvariant, PTL

\* Error statuses end as GC3Errors, and only refusals as GC3AuthError.
THEOREM ErrorsAreReported == CSpec => []ErrorsReported
<1>1. CInv => ErrorsReported
  BY DEF CInv, CallsInv, CallInv, ErrorsReported
<1>. QED  BY <1>1, CInvariant, PTL
=============================================================================
