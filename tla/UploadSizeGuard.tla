-------------------------- MODULE UploadSizeGuard ---------------------------
(***************************************************************************)
(* UploadSizeLimitMiddleware: one guarded POST on its way through the      *)
(* middleware that counts the bytes of its body.  The application behind   *)
(* it reads the body through counting_receive and answers through          *)
(* tracking_send, in whatever order it likes; the middleware must see to   *)
(* it that the client gets exactly one response, and a 413 when the body   *)
(* has outgrown the cap first.                                             *)
(***************************************************************************)
EXTENDS Naturals, Sequences

CONSTANTS
    Cap,       \* what the cap resolver of the path returns
    MaxBody,   \* bound: bytes a client sends
    MaxChunk,  \* bound: bytes of one http.request message
    Statuses   \* what the application may answer of its own accord

ASSUME CapAssumption == Cap \in Nat /\ MaxBody \in Nat /\ MaxChunk \in Nat

VARIABLES
    declared,  \* {n} for a Content-Length of n, {} if missing or malformed
    guard,     \* "waiting", "serving" or "done"
    app,       \* where the application behind the middleware stands
    received,  \* bytes of the body counted so far
    tripped,   \* the counter has crossed the cap
    started,   \* response_started
    wire       \* the statuses of the responses sent to the client

guardVars == <<declared, guard, app, received, tripped, started, wire>>

GuardInit ==
    /\ declared \in {{}} \cup {{n} : n \in 0..MaxBody}
    /\ guard = "waiting"
    /\ app = "outside"
    /\ received = 0
    /\ tripped = FALSE
    /\ started = FALSE
    /\ wire = <<>>

-----------------------------------------------------------------------------
(* Seeded faults; no part of the specification.                            *)

\* The 413 of the middleware whatever has been sent before.
AlwaysOwesAnswer == tripped
-----------------------------------------------------------------------------
\* The fast path: a 413 before a byte of the body is read.
Unacceptable == declared = {} \/ \E n \in declared : n > Cap

Enter ==
    /\ guard = "waiting"
    /\ IF Unacceptable
       THEN /\ guard' = "done"
            /\ wire' = Append(wire, 413)
            /\ UNCHANGED app
       ELSE /\ guard' = "serving"
            /\ app' = "reading"
            /\ UNCHANGED wire
    /\ UNCHANGED <<declared, received, tripped, started>>

\* counting_receive: the length of a chunk may belie the declared length.  An
\* application that has begun to answer may still listen to the client.
BodyArrives ==
    /\ app \in {"reading", "answering"}
    /\ \E n \in 1..MaxChunk :
          /\ received + n <= MaxBody
          /\ received' = received + n
          /\ tripped' = (received' > Cap)
    /\ app' = IF tripped' THEN "aborted" ELSE app
    /\ UNCHANGED <<declared, guard, started, wire>>

\* The body is complete: the handler runs.
BodyEnds ==
    /\ app = "reading"
    /\ app' = "handling"
    /\ UNCHANGED <<declared, guard, received, tripped, started, wire>>

\* tracking_send drops what comes after the trip and before a response.
Swallows == tripped /\ ~started

\* http.response.start goes through tracking_send.
SendStart(code) ==
    IF Swallows
    THEN UNCHANGED <<started, wire>>
    ELSE started' = TRUE /\ wire' = Append(wire, code)

\* The application answers: before the body is read, after it, or with what
\* the framework makes of a _BodyCapExceeded it has caught.
AppAnswers(code) ==
    /\ \/ app = "reading" /\ app' = "answering"
       \/ app = "handling" /\ app' = "over"
       \/ app = "aborted" /\ ~started /\ app' = "over"
    /\ SendStart(code)
    /\ UNCHANGED <<declared, guard, received, tripped>>

\* The application returns; or _BodyCapExceeded comes through it raw.
AppEnds ==
    /\ app \in {"answering", "aborted"}
    /\ app' = "over"
    /\ UNCHANGED <<declared, guard, received, tripped, started, wire>>

\* Any other exception passes the middleware by: ServerErrorMiddleware, around
\* the whole application, answers it unless a response has been started.
Crash ==
    /\ app = "handling"
    /\ app' = "over"
    /\ guard' = "done"
    /\ wire' = IF started THEN wire ELSE Append(wire, 500)
    /\ UNCHANGED <<declared, received, tripped, started>>

\* The middleware resumes, and answers itself if the counter has tripped.
OwesAnswer == tripped /\ ~started

Leave ==
    /\ guard = "serving"
    /\ app = "over"
    /\ guard' = "done"
    /\ wire' = IF OwesAnswer THEN Append(wire, 413) ELSE wire
    /\ UNCHANGED <<declared, app, received, tripped, started>>
-----------------------------------------------------------------------------
(* Properties.                                                             *)

\* The client gets one response, never two, and the 413 if the cap was
\* crossed before the application had begun to answer.
OneResponse ==
    /\ Len(wire) <= 1
    /\ guard = "done" => Len(wire) = 1
    /\ guard = "done" /\ tripped /\ ~started => wire = <<413>>
=============================================================================
