----------------------------- MODULE SseStream -----------------------------
(***************************************************************************)
(* One subscriber of tools/sse_probe.py: stream() connects to the panel's  *)
(* event endpoint, retries a refusal, and reads chunks until its deadline, *)
(* the server's end or a timeout, cutting the bytes into frames.  A byte   *)
(* is a letter or a newline, the panel sends any bytes in chunks of any    *)
(* length, and time is a clock of whole seconds started by the call, which *)
(* reads MaxTime from then on: later only the silence is still counted.    *)
(***************************************************************************)
EXTENDS Integers, Sequences, FiniteSets, SequencesExt

CONSTANTS
  Framings,       \* values of --framing tried
  ReadTimeouts,   \* values of --read-timeout tried; 0 is none
  Seconds,        \* --seconds
  RetryAfter,     \* --retry-after
  MaxRetries,     \* the argument retries of the first call
  SockConnect,    \* the limit on connecting
  MaxBytes,       \* bound: bytes the panel sends
  MaxTime         \* bound: the clock, and the longest silence

ASSUME SseAssumption ==
  /\ Framings \subseteq {"auto", "blank", "line"}
  /\ ReadTimeouts \subseteq Nat
  /\ {Seconds, RetryAfter, MaxRetries, SockConnect, MaxBytes, MaxTime} \subseteq Nat
  /\ Seconds <= MaxTime

VARIABLES
  args,       \* the options --framing and --read-timeout
  at,         \* the await stream() is in, or "done"
  now,        \* the clock
  last,       \* when that await began or something last arrived
  retries,    \* refusals still retried
  buf,        \* bytes not yet framed
  res,        \* the StreamResult
  received,   \* the bytes so far, as the raw log lines show them
  arrivals    \* history: when the stream opened and when chunks came

vars == <<args, at, now, last, retries, buf, res, received, arrivals>>

Letter == "x"
Newline == "\n"
Byte == {Letter, Newline}
Chunks(n) == UNION {[1..k -> Byte] : k \in 1..n}

\* StreamResult, what the properties tell apart of it.  "record" holds the
\* frames as they were logged; those that are no preamble are the events.
NewResult == [connected |-> FALSE, chunks |-> 0, record |-> <<>>, residue |-> <<>>,
              closed_by_server |-> FALSE, read_timed_out |-> FALSE,
              max_gap |-> 0, error |-> "none"]
Events(r) == {f \in DOMAIN r.record : ~r.record[f].preamble}

deadline == Seconds
blank_framed == args.framing \in {"auto", "blank"}
Sep == IF blank_framed THEN <<Newline, Newline>> ELSE <<Newline>>
Silent(limit) == now - last >= limit

-----------------------------------------------------------------------------
(* Framing *)

\* str.strip: newlines are the only white space here.
Strip(t) ==
  LET solid == {i \in DOMAIN t : t[i] # Newline}
  IN  IF solid = {} THEN <<>> ELSE SubSeq(t, Min(solid), Max(solid))

\* _record_frame
RecordFrames(record, frames, preamble) ==
  record \o [i \in DOMAIN frames |-> [text |-> frames[i], preamble |-> preamble]]
\* The frames that are recorded: stripped, and not without text.
NonBlank[texts \in Seq(Seq(Byte))] ==
  IF texts = <<>> THEN <<>>
  ELSE NonBlank[Front(texts)] \o
         (IF Strip(Last(texts)) = <<>> THEN <<>> ELSE <<Strip(Last(texts))>>)

\* bytes.partition, repeated "while sep in buf".
Starts(sep, b) == {i \in 1..(Len(b) - Len(sep) + 1) : SubSeq(b, i, i + Len(sep) - 1) = sep}
Framed(sep, bytes) ==
  LET cut[b \in Seq(Byte)] ==
        IF Starts(sep, b) = {} THEN [frames |-> <<>>, rest |-> b]
        ELSE LET i == Min(Starts(sep, b))
                 tail == cut[SubSeq(b, i + Len(sep), Len(b))]
             IN  [frames |-> <<SubSeq(b, 1, i - 1)>> \o tail.frames, rest |-> tail.rest]
  IN  cut[bytes]

\* Mutation: the bytes after the last newline are no line.
WholeLines(b) == Framed(<<Newline>>, b).frames

\* bytes.split(b"\n")
Lines(b) == LET f == Framed(<<Newline>>, b) IN Append(f.frames, f.rest)

-----------------------------------------------------------------------------
(* Connecting, refusals and retries *)

Init ==
  /\ args \in [framing : Framings, read_timeout : ReadTimeouts]
  /\ at = "connect" /\ now = 0 /\ last = 0
  /\ retries = MaxRetries
  /\ buf = <<>> /\ res = NewResult
  /\ received = <<>> /\ arrivals = {}

Goto(where) == at' = where /\ last' = now

\* The socket is connected and the request sent.
Connects ==
  /\ at = "connect"
  /\ Goto("headers")
  /\ UNCHANGED <<args, now, retries, buf, res, received, arrivals>>

\* A status below 400: the stream is open.
Opens ==
  /\ at = "headers"
  /\ Goto("read")
  /\ res' = [res EXCEPT !.connected = TRUE]
  /\ arrivals' = {now}
  /\ UNCHANGED <<args, now, retries, buf, received>>

Refused ==
  /\ at = "headers"
  /\ Goto("body")
  /\ UNCHANGED <<args, now, retries, buf, res, received, arrivals>>

\* A piece of the headers or of a refusal's body: sock_read starts again, and
\* with total=None nothing else limits these awaits.
Drips ==
  /\ at \in {"headers", "body"}
  /\ last' = now
  /\ UNCHANGED <<args, at, now, retries, buf, res, received, arrivals>>

\* Mutation: refusals are retried as long as there is time.
MayAlwaysRetry == now + RetryAfter < deadline

MayRetry == retries > 0 /\ now + RetryAfter < deadline
\* The refusal's body has come: pause for a retry, or return.
RefusalRead ==
  /\ at = "body"
  /\ Goto(IF MayRetry THEN "pause" ELSE "done")
  /\ res' = [res EXCEPT !.error = "refused"]
  /\ UNCHANGED <<args, now, retries, buf, received, arrivals>>

\* The recursive call: a new result, one retry fewer, the same deadline.
Retries ==
  /\ at = "pause" /\ Silent(RetryAfter)
  /\ Goto("connect")
  /\ retries' = retries - 1
  /\ res' = NewResult
  /\ UNCHANGED <<args, now, buf, received, arrivals>>

\* The outer handlers: they keep what was recorded and forget buf.
Ends(error) ==
  /\ at' = "done" /\ buf' = <<>>
  /\ res' = [res EXCEPT !.error = error]
  /\ UNCHANGED <<args, now, last, retries, received, arrivals>>

SockReadTimesOut == args.read_timeout > 0 /\ Silent(args.read_timeout)
\* Mutation: only the connecting is limited.
ConnectTimesOut == at = "connect" /\ Silent(SockConnect) /\ Ends("timed out")

TimesOut ==
  /\ \/ at = "connect" /\ Silent(SockConnect)
     \/ at \in {"headers", "body"} /\ SockReadTimesOut
  /\ Ends("timed out")

ConnectionLost ==
  /\ at \in {"connect", "headers", "body", "read"}
  /\ Ends("client error")

-----------------------------------------------------------------------------
(* Reading *)

Receive(chunk) ==
  LET chunks == res.chunks + 1
      framed == Framed(Sep, buf \o chunk)
  IN  /\ at = "read" /\ now < deadline
      /\ last' = now
      /\ buf' = framed.rest
      /\ res' = [res EXCEPT !.chunks = chunks, !.max_gap = Max({@, now - last}),
                   !.record = RecordFrames(@, NonBlank[framed.frames], chunks = 1)]
      /\ received' = received \o chunk
      /\ arrivals' = arrivals \union {now}
      /\ UNCHANGED <<args, at, now, retries>>

\* What is left of a blank-line framed stream is framed by line if it can be.
LastFrames == IF blank_framed /\ Contains(buf, Newline) THEN NonBlank[Lines(buf)] ELSE <<>>
Residue == IF blank_framed /\ Contains(buf, Newline) THEN <<>> ELSE buf
\* Mutation: a residue is taken for events.
ResidueIsEvent == FALSE

ResidueIsPreamble == res.chunks <= 1

\* Mutation: only the gaps between arrivals count.
TailIgnored == 0

Silence == now - last

\* The end of the loop and what follows it.
Finish(closed, timed_out) ==
  /\ at' = "done" /\ buf' = <<>>
  /\ res' = [res EXCEPT !.closed_by_server = closed, !.read_timed_out = timed_out,
               !.record = RecordFrames(@, LastFrames, ResidueIsPreamble),
               !.residue = Residue, !.max_gap = Max({@, Silence})]
  /\ UNCHANGED <<args, now, last, retries, received, arrivals>>

DeadlineReached == at = "read" /\ now >= deadline /\ Finish(FALSE, FALSE)
ServerCloses == at = "read" /\ now < deadline /\ Finish(TRUE, FALSE)
\* Mutation: every timeout is taken for the deadline.
DeadlineAssumed == FALSE

\* wait_for or the socket timed out; only before the last second it is our limit.
OurLimit == now < deadline - 1
ReadTimesOut == at = "read" /\ now < deadline /\ SockReadTimesOut /\ Finish(FALSE, OurLimit)

-----------------------------------------------------------------------------
\* Timers are prompt: the clock does not pass one that is due.
TimerDue ==
  \/ at = "connect" /\ Silent(SockConnect)
  \/ at \in {"headers", "body", "read"} /\ SockReadTimesOut
  \/ at = "pause" /\ Silent(RetryAfter)
  \/ at = "read" /\ now >= deadline
Tick ==
  /\ at # "done" /\ ~TimerDue
  /\ \/ now < MaxTime /\ now' = now + 1 /\ last' = last
     \/ now = MaxTime /\ last > 0 /\ now' = now /\ last' = last - 1
  /\ UNCHANGED <<args, at, retries, buf, res, received, arrivals>>

Panel ==
  \/ Connects
  \/ Opens
  \/ Refused
  \/ RefusalRead
  \/ Drips
  \/ ServerCloses
  \/ \E chunk \in Chunks(MaxBytes - Len(received)) : Receive(chunk)
Timers == TimesOut \/ ReadTimesOut \/ DeadlineReached \/ Retries

Next == Panel \/ Timers \/ ConnectionLost \/ Tick

\* The event loop runs what is due; the panel need not say anything.
Fairness == WF_vars(Timers) /\ WF_vars(Tick)
Spec == Init /\ [][Next]_vars /\ Fairness

-----------------------------------------------------------------------------
Frames == [text : Seq(Byte), preamble : BOOLEAN]

\* Types of what stream() keeps.  Nothing is counted before the stream is open.
StreamTypeOK ==
  /\ args \in [framing : Framings, read_timeout : ReadTimeouts]
  /\ at \in {"connect", "headers", "body", "pause", "read", "done"}
  /\ now \in 0..MaxTime /\ last \in 0..now /\ retries \in 0..MaxRetries
  /\ buf \in Seq(Byte) /\ received \in Seq(Byte)
  /\ res \in [connected : BOOLEAN, chunks : Nat, record : Seq(Frames),
              residue : Seq(Byte), closed_by_server : BOOLEAN,
              read_timed_out : BOOLEAN, max_gap : 0..now,
              error : {"none", "refused", "timed out", "client error"}]
  /\ ~res.connected => res.chunks = 0 /\ res.record = <<>> /\ ~res.closed_by_server

\* The framing of a whole stream, read byte by byte: a frame ends where the
\* separator is first complete.
Scan(sep, bytes) ==
  LET scan[b \in Seq(Byte)] ==
        IF b = <<>> THEN [done |-> <<>>, cur |-> <<>>]
        ELSE LET before == scan[Front(b)]
                 cur    == Append(before.cur, Last(b))
             IN  IF IsSuffix(sep, cur)
                 THEN [done |-> Append(before.done, SubSeq(cur, 1, Len(cur) - Len(sep))),
                       cur |-> <<>>]
                 ELSE [done |-> before.done, cur |-> cur]
  IN  scan[bytes]
Letters[b \in Seq(Byte)] ==
  IF b = <<>> THEN 0 ELSE Letters[Front(b)] + IF Last(b) = Newline THEN 0 ELSE 1
LettersIn[texts \in Seq(Seq(Byte))] ==
  IF texts = <<>> THEN 0 ELSE LettersIn[Front(texts)] + Letters[Last(texts)]
Texts == [i \in DOMAIN res.record |-> res.record[i].text]

\* sse_probe.py:268-273, 316-336: the frames are those of the bytes received,
\* wherever the chunks were cut, and at the end no letter is missing from the
\* frames and the residue together.  (A stream that ends in a ClientError does
\* lose what was not framed yet.)
FramesAsSent ==
  LET whole == Scan(Sep, received)
      framed == NonBlank[whole.done]
  IN  /\ IsPrefix(framed, Texts)
      /\ at = "read" => Texts = framed /\ buf = whole.cur
      /\ at = "done" /\ res.error = "none" =>
           LettersIn[Texts] + Letters[res.residue] = Letters[received]

\* sse_probe.py:119-122: a greeting is no event.  A panel that spoke only once,
\* whatever it said and however the stream ended, has no events, and no frame
\* after an event is taken for a greeting.  (A greeting cut into two chunks is.)
GreetingIsNoEvent ==
  /\ res.chunks <= 1 => Events(res) = {}
  /\ \A f \in DOMAIN res.record : res.record[f].preamble =>
       \A g \in 1..f : res.record[g].preamble

\* sse_probe.py:286-294: a stream that ended more than a second before its
\* deadline says why, and blames the read timeout only for a silence that long.
EarlyEndExplained ==
  at = "done" /\ res.connected =>
    /\ now < deadline - 1 =>
         res.closed_by_server \/ res.read_timed_out \/ res.error # "none"
    /\ res.read_timed_out => SockReadTimesOut /\ ~res.closed_by_server

\* sse_probe.py:338-343: max_gap is the longest time nothing came between the
\* opening and the end, the tail included.  (Not after a ClientError.)
Adjacent(T) == {p \in T \X T : p[1] <= p[2] /\ \A c \in T : c <= p[1] \/ c >= p[2]}
LongestGap(T) == Max({p[2] - p[1] : p \in Adjacent(T)})
SilenceMeasured ==
  at = "done" /\ res.connected /\ res.error = "none" =>
    res.max_gap = LongestGap(arrivals \union {now})

\* sse_probe.py:229-231, 279-285: an open stream is given up at its deadline at
\* the latest, and with a read timeout every call of stream() returns, unless the
\* panel sends pieces of the headers or of a refusal's body for ever.
WindowEnds ==
  /\ (at = "read") ~> (at = "done")
  /\ args.read_timeout > 0 => <>(at = "done") \/ []<><<Drips>>_vars
=============================================================================
