----------------------------- MODULE MCSseStream -----------------------------
(***************************************************************************)
(* One call of stream() with one retry, both framings, with and without a  *)
(* read timeout.                                                           *)
(***************************************************************************)
EXTENDS SseStream

\* "blank" frames as "auto" does.
MCFramings == {"auto", "line"}
\* No timeout, and one shorter than the window.
MCReadTimeouts == {0, 1}
=============================================================================
