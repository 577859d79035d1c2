---------------------------- MODULE ProviderCall ----------------------------
(***************************************************************************)
(* One chunk of a run in front of a vendor.  complete_structured of an     *)
(* adapter builds a body and a less demanding fallback body; call_llm      *)
(* sends the first, strips the sampling parameters the vendor's refusal    *)
(* names, falls back, and classifies what is left.  The correction engine  *)
(* tries again after a transient failure and keeps the OCR text in the     *)
(* end; a permanent failure ends the run.                                  *)
(*                                                                         *)
(* A body is the set of what it asks of the vendor: "core" is what every   *)
(* request needs (model, messages, max_tokens), "schema" the strict form   *)
(* of the answer, and the sampling parameters.  What the vendor refuses is *)
(* fixed; which of its reasons a refusal reports is not.                   *)
(***************************************************************************)
EXTENDS Naturals

CONSTANTS
    Sampling,       \* the strippable sampling parameters the adapters send
    MaxAttempts     \* calls the engine makes for one chunk

ASSUME SamplingAssumption == {"core", "schema"} \cap Sampling = {}
ASSUME AttemptsAssumption == MaxAttempts \in Nat \ {0}

VARIABLES
    vendor,     \* what the vendor refuses, and whether it names parameters
    known,      \* parameters the adapter omits for this family of models
    attempt,    \* the engine's calls for this chunk so far
    call,       \* which post of call_llm comes next
    body,       \* call_llm's body
    fallback,   \* call_llm's fallback_body
    named,      \* history: parameters the vendor named before the last reply
    last        \* history: the last reply, with the body it answers

callVars == <<vendor, known, attempt, call, body, fallback, named, last>>

Fields == {"core", "schema"} \cup Sampling

Calls == { "none", "idle", "first", "stripped", "fallback", "ok", "unusable",
           "transient", "permanent", "corrected", "kept", "fatal" }

NoReply == [status |-> "none", cites |-> {}, to |-> {}]

CallInit ==
    /\ vendor = [refuses |-> {}, names |-> FALSE]
    /\ known = {}
    /\ attempt = 0
    /\ call = "none"
    /\ body = {}
    /\ fallback = {}
    /\ named = {}
    /\ last = NoReply

-----------------------------------------------------------------------------
(* Seeded faults; no part of the specification.                            *)

\* The fallback body keeps the parameter that has just been refused.
FallbackUntouched(cited) == fallback' = fallback

\* 429 taken for one more rejection by the vendor.
BusyIsRejection(status) ==
    IF status \in {"invalid", "denied", "busy"} THEN "permanent"
    ELSE "transient"
-----------------------------------------------------------------------------
(* Helpers.                                                                *)

\* complete_structured: temperature is left out for the families known to
\* refuse it.
FullBody == Fields \ known

\* response_format json_object, no tool_choice, no responseSchema.
Undemanding(b) == b \ {"schema"}

\* _cited_strippable_params: named by the refusal and present in the body.
Cited(reply) == reply.cites \cap Sampling \cap body

\* _strip_param, on the fallback body as well.
StripFallback(cited) == fallback' = fallback \ cited

\* _wrap_if_transient.  "invalid" is 400 or 422, "denied" any other 4xx that
\* does not heal, "busy" 408, 425, 429 and 5xx, "unreachable" a transport
\* failure.
Classified(status) ==
    IF status \in {"invalid", "denied"} THEN "permanent" ELSE "transient"

\* extract_chat_text and its like, on a reply that has arrived.
Usable == {"ok", "unusable"}

\* What the vendor may answer to b: a refusal reports one or more of the
\* fields it refuses.
Replies(b) ==
    [status: {"busy", "unreachable", "denied"}, cites: {{}}, to: {b}]
    \cup (IF b \cap vendor.refuses = {}
          THEN [status: {"answered"}, cites: {{}}, to: {b}]
          ELSE {[status |-> "invalid", to |-> b,
                 cites |-> IF vendor.names THEN reported ELSE {}] :
                   reported \in SUBSET (b \cap vendor.refuses) \ {{}}})

\* The end of call_llm and of the adapter, on the reply it is left with.
Conclude(reply) ==
    \/ reply.status = "answered" /\ call' \in Usable
    \/ reply.status # "answered" /\ call' = Classified(reply.status)
-----------------------------------------------------------------------------
(* call_llm: one action per post and its reply.                            *)

\* A run reaches its chunk, with a model of some family of some vendor.
ReachChunk ==
    /\ vendor' \in [refuses: SUBSET Fields, names: BOOLEAN]
    /\ known' \in SUBSET (Sampling \cap vendor'.refuses)
    /\ call' = "idle"
    /\ UNCHANGED <<attempt, body, fallback, named, last>>

\* The run is over, and call_llm with it.
LeaveChunk ==
    /\ vendor' = [refuses |-> {}, names |-> FALSE]
    /\ known' = {}
    /\ attempt' = 0
    /\ call' = "none"
    /\ body' = {}
    /\ fallback' = {}
    /\ named' = {}
    /\ last' = NoReply

\* The engine calls the adapter: a first time, or again after a failure that
\* may heal.  Nothing the vendor said in an earlier call is remembered.
StartCall ==
    /\ \/ call = "idle"
       \/ call \in {"unusable", "transient"} /\ attempt < MaxAttempts
    /\ attempt' = attempt + 1
    /\ call' = "first"
    /\ body' = FullBody
    /\ fallback' = Undemanding(FullBody)
    /\ named' = {}
    /\ last' = NoReply
    /\ UNCHANGED <<vendor, known>>

FirstReply ==
    /\ call = "first"
    /\ \E reply \in Replies(body) :
          /\ last' = reply
          /\ IF reply.status = "invalid" /\ Cited(reply) # {}
             THEN /\ call' = "stripped"
                  /\ body' = body \ Cited(reply)
                  /\ StripFallback(Cited(reply))
                  /\ named' = Cited(reply)
             ELSE /\ IF reply.status = "invalid"
                     THEN call' = "fallback" ELSE Conclude(reply)
                  /\ UNCHANGED <<body, fallback, named>>
    /\ UNCHANGED <<vendor, known, attempt>>

StrippedReply ==
    /\ call = "stripped"
    /\ \E reply \in Replies(body) :
          /\ last' = reply
          /\ IF reply.status = "invalid"
             THEN call' = "fallback" ELSE Conclude(reply)
    /\ UNCHANGED <<vendor, known, attempt, body, fallback, named>>

FallbackReply ==
    /\ call = "fallback"
    /\ \E reply \in Replies(fallback) : last' = reply /\ Conclude(reply)
    /\ UNCHANGED <<vendor, known, attempt, body, fallback, named>>

\* The engine's verdict on the chunk: corrected, kept as the OCR read it, or
\* the end of the run.
ChunkSettles ==
    /\ \/ call = "ok" /\ call' = "corrected"
       \/ call = "permanent" /\ call' = "fatal"
       \/ /\ call \in {"unusable", "transient"} /\ attempt = MaxAttempts
          /\ call' = "kept"
    /\ UNCHANGED <<vendor, known, attempt, body, fallback, named, last>>

CallNext ==
    \/ StartCall
    \/ FirstReply
    \/ StrippedReply
    \/ FallbackReply
    \/ ChunkSettles
-----------------------------------------------------------------------------
(* Properties.                                                             *)

CallTypeOK ==
    /\ vendor \in [refuses: SUBSET Fields, names: BOOLEAN]
    /\ known \subseteq Sampling
    /\ attempt \in 0..MaxAttempts
    /\ call \in Calls
    /\ body \subseteq Fields /\ fallback \subseteq Fields
    /\ named \subseteq Sampling
    /\ last.to \subseteq Fields

\* The two fallbacks of call_llm compose: what the vendor has refused by name
\* is in no later body of the call, and a rejection ends the run only when
\* the least demanding body the call could build has been refused as well.
RefusedStaysOut ==
    /\ call = "stripped" => body \cap named = {}
    /\ call = "fallback" => fallback \cap named = {}
    /\ call \in {"permanent", "fatal"} /\ last.status = "invalid" =>
           last.to = FullBody \ ({"schema"} \cup named)

\* A run ends early only because of an answer that no retry can change.  A
\* busy or unreachable vendor never does it, nor one that dislikes nothing but
\* the strict schema, or the parameters it names when it first refuses.
HealsWhatItCan ==
    call = "fatal" =>
        \/ last.status = "denied"
        \/ "core" \in vendor.refuses
        \/ (Sampling \cap vendor.refuses) \ (known \cup named) # {}

\* base.py: when a 400 or 422 cites one of these parameters and the body
\* carries it, strip it and retry: no run ends over a body that would have
\* been accepted without what the vendor has just named.
NamedParameterIsStripped ==
    call = "permanent" /\ last.status = "invalid" =>
        (last.to \ (last.cites \cap Sampling)) \cap vendor.refuses # {}
=============================================================================
