---------------------- MODULE CorrectionSessionProofs -----------------------
(***************************************************************************)
(* Safety of a session for any providers and catalogues, any vendor, any   *)
(* number of attempts and any number of jobs: late answers never mix, and  *)
(* the two fallbacks of call_llm compose.  Each part of the session has an *)
(* invariant of its own; SubmitInv ties them to the stage of the page.     *)
(***************************************************************************)
EXTENDS CorrectionSession, TLAPS

\* useModels: the request with the latest id is about the chosen provider.
PickerInv ==
    /\ PickerTypeOK
    /\ PickedFromOwnCatalogue
    /\ \A r \in listing : IsCurrentList(r) => r.of = provider

\* The least demanding body of the call.
LastResort == FullBody \ ({"schema"} \cup named)

\* call_llm: what the two bodies hold before each post, and what the last
\* reply of a rejected call was about.
CallInv ==
    /\ CallTypeOK
    /\ call \in {"none", "idle"} => attempt = 0
    /\ call = "first" => body = FullBody /\ named = {}
    /\ call = "stripped" => body = FullBody \ named
    /\ call \in {"first", "stripped", "fallback"} => fallback = LastResort
    /\ call \in {"permanent", "fatal"} =>
           \/ last.status = "denied"
           \/ /\ last.status = "invalid"
              /\ last.to = LastResort
              /\ last.to \cap vendor.refuses # {}

\* A fetch on its way for the job on the page is the one that is shown as
\* under way, at the attempt that was counted last.
FetchIsShown(f) ==
    f.job = jobId => f.kind \in busy /\ f.attempt = tries[f.kind]

\* retryFetch and the flags of App.
ViewInv ==
    /\ ViewTypeOK
    /\ ShownIsOfThisJob
    /\ fetching \subseteq [kind: Kinds, job: 1..created, attempt: 1..Attempts]
    /\ tries \in [Kinds -> 0..Attempts]
    /\ \A f \in fetching : FetchIsShown(f)
    /\ \A k \in Kinds :
          /\ k \in busy => data[k] = 0 /\ k \notin failed
          /\ k \notin busy \cup failed /\ data[k] = 0 => tries[k] = 0
    /\ ~IsDone => /\ busy = {} /\ failed = {}
                  /\ \A k \in Kinds : data[k] = 0 /\ tries[k] = 0

\* App: a submission under way leaves the page editable, and is counted.
SubmitInv ==
    /\ AccessTypeOK
    /\ stage \in {"idle", "running", "done", "failed"}
    /\ submitting \in BOOLEAN
    /\ created \in 0..MaxJobs
    /\ jobId <= created
    /\ jobId = 0 <=> stage = "idle"
    /\ submitting => Editable /\ created < MaxJobs
    /\ call = "none" <=> stage # "running"

IInv == PickerInv /\ CallInv /\ ViewInv /\ SubmitInv
-----------------------------------------------------------------------------
(* The picker: App's configuration and useModels.                          *)

\* No provider is chosen yet, and no list is on its way.
LEMMA PickerStart == PickerInit => PickerInv
<1> USE DEF PickerInit
<1>1. PickerInit => PickerTypeOK
  <2> SUFFICES ASSUME PickerInit PROVE PickerTypeOK
    OBVIOUS
  <2>1. requestId \in 0..MaxLists
    BY MaxListsAssumption
  <2>2. loading \in BOOLEAN /\ listFailed \in BOOLEAN
    OBVIOUS
  <2>3. provider \in Providers \cup {None} /\ selected \in Models \cup {None}
    OBVIOUS
  <2>4. listing = {} /\ models \subseteq Models
    OBVIOUS
  <2>5. QED
    BY <2>1, <2>2, <2>3, <2>4 DEF PickerTypeOK
<1>2. PickerInit => PickedFromOwnCatalogue
  BY DEF PickedFromOwnCatalogue
<1>3. QED
  BY <1>1, <1>2 DEF PickerInv

\* A list that is abandoned leaves no request that is still current.
LEMMA RenewKeepsPickerInv ==
    ASSUME PickerInv, NEW p \in Providers \cup {None}, requestId < MaxLists,
           provider' = p, ForgetModels
    PROVE  PickerInv'
<1>1. /\ requestId' = requestId + 1
      /\ models' = {} /\ loading' = FALSE /\ listFailed' = FALSE
      /\ selected' = None /\ listing' = listing
  BY DEF ForgetModels, Renew
<1>2. requestId' \in 0..MaxLists
  BY <1>1, MaxListsAssumption DEF PickerInv, PickerTypeOK
<1>3. \A r \in listing' : /\ r.id \in 1..requestId' /\ r.of \in Providers
                          /\ r.id # requestId'
  BY <1>1, <1>2 DEF PickerInv, PickerTypeOK
<1>4. PickerTypeOK'
  BY <1>1, <1>2, <1>3 DEF PickerTypeOK
<1>5. PickedFromOwnCatalogue'
  BY <1>1 DEF PickedFromOwnCatalogue
<1>6. QED
  BY <1>3, <1>4, <1>5 DEF PickerInv, IsCurrentList

\* useModels asks for the catalogue of the chosen provider.
LEMMA LoadKeepsPickerInv ==
    ASSUME PickerInv, LoadModels
    PROVE  PickerInv'
<1> DEFINE new == [id |-> requestId + 1, of |-> provider]
<1>1. /\ listing' = listing \cup {new}
      /\ requestId' = requestId + 1
      /\ models' = {} /\ loading' = TRUE /\ listFailed' = FALSE
      /\ UNCHANGED <<provider, selected>>
  BY DEF LoadModels, Renew
<1>2. provider \in Providers
  BY DEF PickerInv, PickerTypeOK, LoadModels
<1>3. new.id = requestId' /\ new.of = provider
  BY <1>1
<1>4. requestId' \in 0..MaxLists
  BY <1>1, MaxListsAssumption DEF LoadModels, PickerInv, PickerTypeOK
<1>5. \A r \in listing' : /\ r.id \in 1..requestId' /\ r.of \in Providers
                          /\ r.id = requestId' => r.of = provider'
  BY <1>1, <1>2, <1>3, <1>4 DEF PickerInv, PickerTypeOK
<1>6. \E r \in listing' : r.id = requestId'
  BY <1>1, <1>3
<1>7. PickerTypeOK'
  BY <1>1, <1>4, <1>5 DEF PickerInv, PickerTypeOK
<1>8. PickedFromOwnCatalogue'
  BY <1>1, <1>6 DEF PickerInv, PickedFromOwnCatalogue, IsCurrentList
<1>9. QED
  BY <1>5, <1>7, <1>8 DEF PickerInv, IsCurrentList

\* A choice among what the page offers.
LEMMA SelectKeepsPickerInv ==
    ASSUME PickerInv, NEW m \in Models, SelectModel(m)
    PROVE  PickerInv'
<1>1. m[1] = provider
  BY DEF SelectModel, PickerInv, PickedFromOwnCatalogue
<1>2. QED
  BY <1>1 DEF SelectModel, PickerInv, PickerTypeOK, PickedFromOwnCatalogue,
              IsCurrentList

\* The walk of list_models covers the catalogue up to the page bound.
LEMMA WalkCoversCatalogue ==
    ASSUME NEW p \in Providers
    PROVE  {p} \X (1..Reach(p)) = {m \in Models : m[1] = p /\ m[2] <= Pages[p]}
<1>1. Pages[p] \in Nat \ {0} /\ PageBound \in Nat \ {0}
  BY PagesAssumption, PageBoundAssumption
<1>2. \A n : n \in 1..Reach(p) <=> n \in 1..PageBound /\ n <= Pages[p]
  BY <1>1 DEF Reach
<1>3. QED
  BY <1>2 DEF Models

\* useModels: a list is answered, late or on time, or fails.
LEMMA ListKeepsPickerInv ==
    ASSUME PickerInv, NEW r \in listing, ListStep(r)
    PROVE  PickerInv'
<1>1. PICK found, error : /\ ListSettles(r, found, error)
                          /\ error \in BOOLEAN
                          /\ found \in {{}, {r.of} \X (1..Reach(r.of))}
  BY DEF ListStep, ListAnswers, ListFails
<1>2. /\ listing' = listing \ {r}
      /\ UNCHANGED <<provider, selected, requestId>>
  BY <1>1 DEF ListSettles
<1>3. r.of \in Providers
  BY DEF PickerInv, PickerTypeOK
<1>4. CASE IsCurrentList(r)
  <2>1. /\ models' = found /\ loading' = FALSE /\ listFailed' = error
    BY <1>1, <1>4 DEF ListSettles
  <2>2. r.of = provider
    BY <1>4 DEF PickerInv
  <2>3. found # {} =>
            found = {m \in Models : m[1] = provider /\ m[2] <= Pages[provider]}
    BY <1>1, <1>3, <2>2, WalkCoversCatalogue
  <2>4. found \subseteq Models
    BY <2>3
  <2>5. PickerTypeOK'
    BY <1>1, <1>2, <2>1, <2>4 DEF PickerInv, PickerTypeOK
  <2>6. PickedFromOwnCatalogue'
    BY <1>2, <2>1, <2>3
    DEF PickerInv, PickedFromOwnCatalogue, Models
  <2>7. QED
    BY <1>2, <2>5, <2>6 DEF PickerInv, IsCurrentList
<1>5. CASE ~IsCurrentList(r)
  <2>1. UNCHANGED <<models, loading, listFailed>>
    BY <1>1, <1>5 DEF ListSettles
  <2>2. loading => \E s \in listing' : s.id = requestId'
    BY <1>2, <1>5 DEF PickerInv, PickedFromOwnCatalogue, IsCurrentList
  <2>3. QED
    BY <1>2, <2>1, <2>2
    DEF PickerInv, PickerTypeOK, PickedFromOwnCatalogue, IsCurrentList, Models
<1>6. QED
  BY <1>4, <1>5

\* The other parts of the session leave the picker alone.
LEMMA PickerStutters == PickerInv /\ UNCHANGED pickerVars => PickerInv'
  BY DEF pickerVars, PickerInv, PickerTypeOK, PickedFromOwnCatalogue,
         IsCurrentList, Models
-----------------------------------------------------------------------------
(* call_llm.                                                               *)

\* No call has been made.
LEMMA CallStart == CallInit => CallInv
  BY AttemptsAssumption
  DEF CallInit, CallInv, CallTypeOK, Calls, NoReply

\* A run reaches its chunk, in front of any vendor.
LEMMA ReachChunkKeepsCallInv ==
    ASSUME CallInv, call = "none", ReachChunk
    PROVE  CallInv'
  BY DEF ReachChunk, CallInv, CallTypeOK, Calls

\* The run is over, and call_llm with it.
LEMMA LeaveChunkKeepsCallInv ==
    ASSUME CallInv, LeaveChunk
    PROVE  CallInv'
  BY AttemptsAssumption
  DEF LeaveChunk, CallInv, CallTypeOK, Calls, NoReply

\* Every reply names the body it answers, and a body of fields.
LEMMA ReplyIsToBody ==
    ASSUME NEW b \in SUBSET Fields, NEW reply \in Replies(b)
    PROVE  /\ reply.to = b
           /\ reply.status \in {"busy", "unreachable", "denied", "answered",
                                "invalid"}
           /\ reply.status = "invalid" => b \cap vendor.refuses # {}
<1>1. CASE reply \in [status: {"busy", "unreachable", "denied"}, cites: {{}},
                      to: {b}]
  BY <1>1
<1>2. CASE reply \in [status: {"answered"}, cites: {{}}, to: {b}]
  BY <1>2
<1>3. CASE /\ b \cap vendor.refuses # {}
           /\ reply \in {[status |-> "invalid", to |-> b,
                          cites |-> IF vendor.names THEN reported ELSE {}] :
                         reported \in SUBSET (b \cap vendor.refuses) \ {{}}}
  BY <1>3
<1>4. QED
  BY <1>1, <1>2, <1>3 DEF Replies

\* What call_llm makes of a reply it does not answer with another post.
LEMMA ConcludedCall ==
    ASSUME NEW reply, Conclude(reply)
    PROVE  /\ call' \in {"ok", "unusable", "transient", "permanent"}
           /\ call' = "permanent" => reply.status \in {"invalid", "denied"}
  BY DEF Conclude, Usable, Classified

\* complete_structured computes both bodies of a call before the first post.
LEMMA StartCallKeepsCallInv ==
    ASSUME CallInv, StartCall
    PROVE  CallInv'
<1>1. attempt' \in 0..MaxAttempts
  BY AttemptsAssumption DEF StartCall, CallInv, CallTypeOK
<1>2. QED
  BY <1>1, SamplingAssumption
  DEF StartCall, CallInv, CallTypeOK, Calls, FullBody, Undemanding, LastResort,
      Fields, NoReply

\* The first post: stripped of what it was refused for, or not, it leaves the
\* fallback without the parameters named.
LEMMA FirstReplyKeepsCallInv ==
    ASSUME CallInv, FirstReply
    PROVE  CallInv'
<1> USE DEF CallInv, CallTypeOK, Calls, LastResort
<1>1. PICK reply \in Replies(body) :
         /\ last' = reply
         /\ \/ /\ reply.status = "invalid"
               /\ call' = "stripped"
               /\ body' = body \ Cited(reply)
               /\ StripFallback(Cited(reply))
               /\ named' = Cited(reply)
            \/ /\ \/ reply.status = "invalid" /\ call' = "fallback"
                  \/ reply.status # "invalid" /\ Conclude(reply)
               /\ UNCHANGED <<body, fallback, named>>
  BY DEF FirstReply
<1>2. /\ call = "first" /\ UNCHANGED <<vendor, known, attempt>>
      /\ body = FullBody /\ named = {} /\ fallback = LastResort
  BY DEF FirstReply
<1>3. /\ reply.to = body
      /\ reply.status \in {"busy", "unreachable", "denied", "answered", "invalid"}
  BY ReplyIsToBody
<1>4. CASE call' = "stripped"
  BY <1>1, <1>2, <1>3, <1>4, ConcludedCall
  DEF Cited, StripFallback, FullBody, Fields
<1>5. CASE call' = "fallback"
  BY <1>1, <1>2, <1>3, <1>5, ConcludedCall DEF FullBody
<1>6. CASE reply.status # "invalid" /\ Conclude(reply)
                /\ UNCHANGED <<body, fallback, named>>
  <2>1. /\ call' \in {"ok", "unusable", "transient", "permanent"}
        /\ call' = "permanent" => reply.status = "denied"
    BY <1>6, ConcludedCall
  <2>2. QED
    BY <1>1, <1>2, <1>3, <1>6, <2>1
<1>7. QED
  BY <1>1, <1>4, <1>5, <1>6

\* The reply to the stripped body: it has been stripped once and for all.
LEMMA StrippedReplyKeepsCallInv ==
    ASSUME CallInv, StrippedReply
    PROVE  CallInv'
<1> USE DEF CallInv, CallTypeOK, Calls, LastResort
<1>1. PICK reply \in Replies(body) :
         /\ last' = reply
         /\ \/ reply.status = "invalid" /\ call' = "fallback"
            \/ reply.status # "invalid" /\ Conclude(reply)
  BY DEF StrippedReply
<1>2. /\ call = "stripped"
      /\ UNCHANGED <<vendor, known, attempt, body, fallback, named>>
  BY DEF StrippedReply
<1>3. reply.to = body
  BY ReplyIsToBody
<1>4. CASE call' = "fallback"
  BY <1>1, <1>2, <1>3, <1>4 DEF FullBody
<1>5. CASE reply.status # "invalid" /\ Conclude(reply)
  <2>1. /\ call' \in {"ok", "unusable", "transient", "permanent"}
        /\ call' = "permanent" => reply.status = "denied"
    BY <1>5, ConcludedCall
  <2>2. QED
    BY <1>1, <1>2, <1>3, <2>1
<1>6. QED
  BY <1>1, <1>4, <1>5

\* Only the reply to the fallback body makes a rejection permanent.
LEMMA FallbackReplyKeepsCallInv ==
    ASSUME CallInv, FallbackReply
    PROVE  CallInv'
<1> USE DEF CallInv, CallTypeOK, Calls, LastResort
<1>1. PICK reply \in Replies(fallback) : last' = reply /\ Conclude(reply)
  BY DEF FallbackReply
<1>2. /\ call = "fallback" /\ fallback = LastResort
      /\ UNCHANGED <<vendor, known, attempt, body, fallback, named>>
  BY DEF FallbackReply
<1>3. /\ reply.to = fallback
      /\ reply.status = "invalid" => fallback \cap vendor.refuses # {}
  BY ReplyIsToBody
<1>4. /\ call' \in {"ok", "unusable", "transient", "permanent"}
      /\ call' = "permanent" => reply.status \in {"invalid", "denied"}
  BY <1>1, ConcludedCall
<1>5. LastResort' = LastResort
  BY <1>2 DEF FullBody
<1>6. QED
  BY <1>1, <1>2, <1>3, <1>4, <1>5

\* The engine's verdict on the chunk.
LEMMA SettlesKeepsCallInv ==
    ASSUME CallInv, ChunkSettles
    PROVE  CallInv'
  BY DEF ChunkSettles, CallInv, CallTypeOK, Calls, LastResort, FullBody

\* The steps of call_llm together.
LEMMA CallNextKeepsCallInv ==
    ASSUME CallInv, CallNext
    PROVE  CallInv' /\ (call # "none" => call' # "none")
<1>1. CallInv'
  BY StartCallKeepsCallInv, FirstReplyKeepsCallInv, StrippedReplyKeepsCallInv,
     FallbackReplyKeepsCallInv, SettlesKeepsCallInv DEF CallNext
<1>2. call' # "none"
  BY ConcludedCall
  DEF CallNext, StartCall, FirstReply, StrippedReply, FallbackReply,
      ChunkSettles
<1>3. QED
  BY <1>1, <1>2

\* The other parts of the session leave the call alone.
LEMMA CallStutters == CallInv /\ UNCHANGED callVars => CallInv'
  BY DEF callVars, CallInv, CallTypeOK, Calls, LastResort, FullBody

\* What the invariant of the call says about the run: a rejection that ends
\* it is about something that no stripping can take away.
LEMMA CallInvGives == CallInv => RefusedStaysOut /\ HealsWhatItCan
<1> SUFFICES ASSUME CallInv PROVE RefusedStaysOut /\ HealsWhatItCan
  OBVIOUS
<1> USE DEF CallInv, CallTypeOK, LastResort
<1>1. RefusedStaysOut
  BY DEF RefusedStaysOut
<1>2. HealsWhatItCan
  <2> SUFFICES ASSUME call = "fatal", last.status # "denied",
                      "core" \notin vendor.refuses
               PROVE  (Sampling \cap vendor.refuses) \ (known \cup named) # {}
    BY DEF HealsWhatItCan
  <2>1. PICK field \in LastResort : field \in vendor.refuses
    OBVIOUS
  <2>2. field \in Sampling /\ field \notin known \cup named
    BY <2>1, SamplingAssumption DEF FullBody, Fields
  <2>3. QED
    BY <2>1, <2>2
<1>3. QED
  BY <1>1, <1>2
-----------------------------------------------------------------------------
(* The fetches of the result.                                              *)

\* Nothing is shown before there is a job.
LEMMA ViewStart == Init => ViewInv
<1> SUFFICES ASSUME Init PROVE ViewInv
  OBVIOUS
<1> USE DEF Init, ViewInit, Blank
<1>1. jobId \in 0..MaxJobs /\ tries \in [Kinds -> 0..Attempts]
  BY FetchesAssumption, AccessBoundsAssumption
<1>2. /\ fetching = {} /\ busy = {} /\ failed = {}
      /\ \A k \in Kinds : data[k] = 0 /\ tries[k] = 0
  OBVIOUS
<1>3. ViewTypeOK
  BY <1>1, <1>2, AccessBoundsAssumption DEF ViewTypeOK
<1>4. ShownIsOfThisJob
  BY <1>2, FetchesAssumption DEF ShownIsOfThisJob
<1>5. QED
  BY <1>1, <1>2, <1>3, <1>4 DEF ViewInv

\* An effect starts a fetch for the job on the page, the first of its kind.
LEMMA StartFetchKeepsViewInv ==
    ASSUME ViewInv, SubmitInv, NEW k \in Kinds, Fetch(k)
    PROVE  ViewInv'
<1> DEFINE new == [kind |-> k, job |-> jobId, attempt |-> 1]
<1>1. /\ IsDone /\ data[k] = 0 /\ k \notin busy \cup failed
      /\ busy' = busy \cup {k}
      /\ fetching' = fetching \cup {new}
      /\ tries' = Counted(k)
      /\ UNCHANGED <<jobId, data, failed, debug, page, scans, broken, stage,
                     created>>
  BY DEF Fetch, StartFetch
<1>2. tries[k] = 0 /\ tries' = [tries EXCEPT ![k] = 1]
  <2>1. tries[k] = 0
    BY <1>1 DEF ViewInv
  <2>2. ~(0 > Attempts) /\ 0 + 1 = 1
    BY FetchesAssumption
  <2>3. QED
    BY <1>1, <2>1, <2>2 DEF Counted
<1>3. jobId \in 1..created /\ created \in Nat
  BY <1>1, AccessBoundsAssumption DEF SubmitInv, IsDone, ViewInv, ViewTypeOK
<1>4. new \in [kind: Kinds, job: 1..created, attempt: 1..Attempts]
  BY <1>3, FetchesAssumption
<1>5. \A f \in fetching : f.job = jobId => f.kind # k
  BY <1>1 DEF ViewInv, FetchIsShown
<1>6. \A f \in fetching' : FetchIsShown(f)'
  <2>1. FetchIsShown(new)'
    BY <1>1, <1>2 DEF ViewInv, FetchIsShown
  <2>2. ASSUME NEW f \in fetching PROVE FetchIsShown(f)'
    BY <1>1, <1>2, <1>5, <2>2 DEF ViewInv, FetchIsShown
  <2>3. QED
    BY <1>1, <2>1, <2>2
<1>7. tries' \in [Kinds -> 0..Attempts]
  BY <1>2, FetchesAssumption DEF ViewInv
<1>8. fetching' \subseteq [kind: Kinds, job: 1..created', attempt: 1..Attempts]
  BY <1>1, <1>4 DEF ViewInv
<1>9. ViewTypeOK'
  BY <1>1, <1>3, <1>8, AccessBoundsAssumption
  DEF ViewInv, ViewTypeOK, SubmitInv, Jobs
<1>10. ShownIsOfThisJob'
  <2> SUFFICES ASSUME NEW l \in Kinds
               PROVE  /\ data'[l] \in {0, jobId'}
                      /\ tries'[l] <= Attempts
                      /\ l \in failed' => tries'[l] = Attempts
                      /\ l \in busy' => \E f \in fetching' :
                                           f.kind = l /\ f.job = jobId'
    BY DEF ShownIsOfThisJob
  <2>1. CASE l = k
    <3>1. tries'[k] = 1 /\ 1 <= Attempts
      BY <1>2, FetchesAssumption DEF ViewInv
    <3>2. new \in fetching' /\ new.kind = k /\ new.job = jobId'
      BY <1>1
    <3>3. QED
      BY <1>1, <2>1, <3>1, <3>2
  <2>2. CASE l # k
    BY <1>1, <1>2, <2>2 DEF ViewInv, ShownIsOfThisJob
  <2>3. QED
    BY <2>1, <2>2
<1>11. IsDone'
  BY <1>1 DEF IsDone
<1>12. QED
  BY <1>1, <1>2, <1>6, <1>7, <1>8, <1>9, <1>10, <1>11 DEF ViewInv

\* A fetch of another job than the one on the page changes nothing but itself.
LEMMA StaleFetchKeepsViewInv ==
    ASSUME ViewInv, NEW f \in fetching, f.job # jobId,
           UNCHANGED <<jobId, data, busy, failed, debug, page, scans, broken,
                       tries, stage, created>>,
           \/ fetching' = fetching \ {f}
           \/ /\ f.attempt < Attempts
              /\ fetching' = (fetching \ {f}) \cup {[f EXCEPT !.attempt = @ + 1]}
    PROVE  ViewInv'
<1>1. f \in [kind: Kinds, job: 1..created, attempt: 1..Attempts]
  BY DEF ViewInv
<1>2. \A g \in fetching' :
         \/ g \in fetching
         \/ /\ g.job # jobId
            /\ g \in [kind: Kinds, job: 1..created, attempt: 1..Attempts]
  BY <1>1, FetchesAssumption
<1>3. \A g \in fetching : g.job = jobId => g \in fetching'
  OBVIOUS
<1>4. /\ fetching' \subseteq [kind: Kinds, job: 1..created', attempt: 1..Attempts]
      /\ \A g \in fetching' : FetchIsShown(g)'
  BY <1>2 DEF ViewInv, FetchIsShown
<1>5. ViewTypeOK'
  <2>1. \A g \in fetching' : g.job \in Jobs
    BY <1>1, <1>2 DEF ViewInv, ViewTypeOK
  <2>2. QED
    BY <1>4, <2>1 DEF ViewInv, ViewTypeOK
<1>6. ShownIsOfThisJob'
  BY <1>3 DEF ViewInv, ShownIsOfThisJob
<1>7. QED
  BY <1>4, <1>5, <1>6 DEF ViewInv, IsDone

\* What the invariant says of a fetch that is still of interest.
LEMMA CurrentFetch ==
    ASSUME ViewInv, NEW f \in fetching, f.job = jobId
    PROVE  /\ f \in [kind: Kinds, job: 1..created, attempt: 1..Attempts]
           /\ f.kind \in busy /\ f.attempt = tries[f.kind]
           /\ data[f.kind] = 0 /\ f.kind \notin failed
           /\ \A g \in fetching : g.job = jobId /\ g.kind = f.kind => g = f
<1>1. f \in [kind: Kinds, job: 1..created, attempt: 1..Attempts]
  BY DEF ViewInv
<1>2. f.kind \in busy /\ f.attempt = tries[f.kind]
  BY DEF ViewInv, FetchIsShown
<1>3. data[f.kind] = 0 /\ f.kind \notin failed
  BY <1>1, <1>2 DEF ViewInv
<1>4. ASSUME NEW g \in fetching, g.job = jobId, g.kind = f.kind
      PROVE  g = f
  <2>1. g \in [kind: Kinds, job: 1..created, attempt: 1..Attempts]
    BY DEF ViewInv
  <2>2. g.attempt = f.attempt
    BY <1>2, <1>4 DEF ViewInv, FetchIsShown
  <2>3. QED
    BY <1>1, <1>4, <2>1, <2>2
<1>5. QED
  BY <1>1, <1>2, <1>3, <1>4

\* A scan that is loaded, or is not, is one of the layout's.
LEMMA LoadScanType ==
    ASSUME NEW p, NEW link, scans \subseteq Scans, broken \subseteq Scans,
           LoadScan(p, link)
    PROVE  scans' \subseteq Scans /\ broken' \subseteq Scans
  BY DEF LoadScan

\* A current fetch ends: its data is shown, or its error is latched after the
\* last attempt.
LEMMA CurrentFetchEnds ==
    ASSUME ViewInv, NEW f \in fetching, f.job = jobId, jobId # 0,
           fetching' = fetching \ {f}, busy' = busy \ {f.kind},
           UNCHANGED <<jobId, debug, tries, stage, created>>,
           \/ data' = [data EXCEPT ![f.kind] = f.job] /\ failed' = failed
           \/ /\ f.attempt = Attempts
              /\ data' = data /\ failed' = failed \cup {f.kind},
           page' \in Nat, scans' \subseteq Scans, broken' \subseteq Scans
    PROVE  ViewInv'
<1>1. /\ f.kind \in busy /\ f.kind \in Kinds /\ f.attempt = tries[f.kind]
      /\ data[f.kind] = 0 /\ f.kind \notin failed
      /\ \A g \in fetching' : g.job = jobId => g.kind # f.kind
  BY CurrentFetch
<1>2. IsDone /\ IsDone'
  BY <1>1 DEF ViewInv, IsDone
<1>3. \A g \in fetching' : FetchIsShown(g)'
  BY <1>1 DEF ViewInv, FetchIsShown
<1>4. fetching' \subseteq [kind: Kinds, job: 1..created', attempt: 1..Attempts]
  BY DEF ViewInv
<1>5. data' \in [Kinds -> 0..MaxJobs]
  BY <1>1 DEF ViewInv, ViewTypeOK
<1>6. ViewTypeOK'
  BY <1>1, <1>5 DEF ViewInv, ViewTypeOK
<1>7. ASSUME NEW k \in Kinds
      PROVE  /\ data'[k] \in {0, jobId'}
             /\ tries'[k] <= Attempts
             /\ k \in failed' => tries'[k] = Attempts
             /\ k \in busy' => \E g \in fetching' : g.kind = k /\ g.job = jobId'
             /\ k \in busy' => data'[k] = 0 /\ k \notin failed'
             /\ k \notin busy' \cup failed' /\ data'[k] = 0 => tries'[k] = 0
  <2>1. CASE k = f.kind
    BY <1>1, <1>5, <2>1 DEF ViewInv, ViewTypeOK, ShownIsOfThisJob
  <2>2. CASE k # f.kind
    <3>1. /\ data'[k] = data[k]
          /\ k \in busy' <=> k \in busy
          /\ k \in failed' <=> k \in failed
      BY <1>1, <2>2 DEF ViewInv, ViewTypeOK
    <3>2. k \in busy => \E g \in fetching' : g.kind = k /\ g.job = jobId'
      BY <2>2 DEF ViewInv, ShownIsOfThisJob
    <3>3. QED
      BY <3>1, <3>2 DEF ViewInv, ShownIsOfThisJob
  <2>3. QED
    BY <2>1, <2>2
<1>8. ShownIsOfThisJob'
  BY <1>7 DEF ShownIsOfThisJob
<1>9. QED
  BY <1>2, <1>3, <1>4, <1>6, <1>7, <1>8 DEF ViewInv

\* A current fetch tries again, and is counted.
LEMMA CurrentFetchRetries ==
    ASSUME ViewInv, NEW f \in fetching, f.job = jobId, f.attempt < Attempts,
           fetching' = (fetching \ {f}) \cup {[f EXCEPT !.attempt = @ + 1]},
           tries' = Counted(f.kind),
           UNCHANGED <<jobId, data, busy, failed, debug, page, scans, broken,
                       stage, created>>
    PROVE  ViewInv'
<1> DEFINE k == f.kind
           next == [f EXCEPT !.attempt = @ + 1]
<1>1. /\ f \in [kind: Kinds, job: 1..created, attempt: 1..Attempts]
      /\ k \in busy /\ k \in Kinds /\ f.attempt = tries[k] /\ k \notin failed
      /\ \A g \in fetching \ {f} : g.job = jobId => g.kind # k
  BY CurrentFetch
<1>2. tries' = [tries EXCEPT ![k] = f.attempt + 1]
  <2>1. ~(tries[k] > Attempts) /\ tries[k] = f.attempt
    BY <1>1, FetchesAssumption
  <2>2. QED
    BY <2>1 DEF Counted
<1>3. /\ next \in [kind: Kinds, job: 1..created, attempt: 1..Attempts]
      /\ next.kind = k /\ next.job = jobId /\ next.attempt = f.attempt + 1
  BY <1>1, FetchesAssumption
<1>4. tries' \in [Kinds -> 0..Attempts]
  BY <1>1, <1>2, FetchesAssumption DEF ViewInv
<1>5. \A g \in fetching' : FetchIsShown(g)'
  BY <1>1, <1>2, <1>3 DEF ViewInv, FetchIsShown
<1>6. fetching' \subseteq [kind: Kinds, job: 1..created', attempt: 1..Attempts]
  BY <1>3 DEF ViewInv
<1>7. ViewTypeOK'
  <2>1. \A g \in fetching' : g.job \in Jobs
    BY <1>3 DEF ViewInv, ViewTypeOK
  <2>2. QED
    BY <1>6, <2>1 DEF ViewInv, ViewTypeOK
<1>8. ASSUME NEW l \in Kinds
      PROVE  /\ tries'[l] <= Attempts
             /\ l \in failed' => tries'[l] = Attempts
             /\ l \in busy' => \E g \in fetching' : g.kind = l /\ g.job = jobId'
             /\ l \notin busy' \cup failed' /\ data'[l] = 0 => tries'[l] = 0
  <2>1. CASE l = k
    BY <1>1, <1>2, <1>3, <1>4, <2>1, FetchesAssumption
  <2>2. CASE l # k
    <3>1. tries'[l] = tries[l]
      BY <1>2, <2>2 DEF ViewInv
    <3>2. QED
      BY <2>2, <3>1 DEF ViewInv, ShownIsOfThisJob
  <2>3. QED
    BY <2>1, <2>2
<1>9. ShownIsOfThisJob'
  BY <1>8 DEF ViewInv, ShownIsOfThisJob
<1>10. QED
  BY <1>1, <1>4, <1>5, <1>6, <1>7, <1>8, <1>9 DEF ViewInv, IsDone

\* An answer or a failure of a fetch, for the job on the page or an earlier one.
LEMMA FetchStepKeepsViewInv ==
    ASSUME ViewInv, NEW f \in fetching, FetchStep(f),
           UNCHANGED <<stage, created>>
    PROVE  ViewInv'
<1>1. /\ f \in [kind: Kinds, job: 1..created, attempt: 1..Attempts]
      /\ f.job # 0
  BY DEF ViewInv
<1>2. CASE FetchSucceeds(f)
  <2>1. CASE f.job = jobId
    <3>1. /\ page' \in Nat /\ scans' \subseteq Scans /\ broken' \subseteq Scans
      BY <1>2, <2>1, LoadScanType
      DEF FetchSucceeds, IsCurrentJob, ViewInv, ViewTypeOK
    <3>2. QED
      BY <1>1, <1>2, <2>1, <3>1, CurrentFetchEnds
      DEF FetchSucceeds, IsCurrentJob
  <2>2. CASE f.job # jobId
    BY <1>2, <2>2, StaleFetchKeepsViewInv DEF FetchSucceeds, IsCurrentJob
  <2>3. QED
    BY <2>1, <2>2
<1>3. CASE FetchRetries(f)
  BY <1>3, StaleFetchKeepsViewInv, CurrentFetchRetries
  DEF FetchRetries, IsCurrentJob, MayTryAgain
<1>4. CASE FetchGivesUp(f)
  <2>1. f.attempt = Attempts
    BY <1>1, <1>4, FetchesAssumption DEF FetchGivesUp, MayTryAgain
  <2>2. CASE f.job = jobId
    BY <1>1, <1>4, <2>1, <2>2, CurrentFetchEnds
    DEF FetchGivesUp, IsCurrentJob, LatchError, ViewInv, ViewTypeOK
  <2>3. CASE f.job # jobId
    BY <1>4, <2>3, StaleFetchKeepsViewInv DEF FetchGivesUp, IsCurrentJob
  <2>4. QED
    BY <2>2, <2>3
<1>5. QED
  BY <1>2, <1>3, <1>4 DEF FetchStep
-----------------------------------------------------------------------------
(* The reader, and the reset of the page.                                  *)

\* The reader opens or closes a view, which may start its first fetch.
LEMMA ToggleKeepsViewInv ==
    ASSUME ViewInv, ToggleDebug, IsDone, UNCHANGED <<stage, created>>
    PROVE  ViewInv'
<1>1. CASE debug /\ "trace" \in failed
  <2>1. /\ failed' = failed \ {"trace"}
        /\ tries' = [tries EXCEPT !["trace"] = 0]
        /\ debug' \in BOOLEAN
        /\ UNCHANGED <<jobId, data, busy, fetching, page, scans, broken>>
    BY <1>1 DEF ToggleDebug
  <2>2. "trace" \in Kinds /\ "trace" \notin busy
    BY <1>1 DEF ViewInv, ViewTypeOK
  <2>3. \A f \in fetching : f.job = jobId => f.kind # "trace"
    BY <2>2 DEF ViewInv, FetchIsShown
  <2>4. tries' \in [Kinds -> 0..Attempts]
    <3>1. 0 \in 0..Attempts
      BY FetchesAssumption
    <3>2. QED
      BY <2>1, <3>1 DEF ViewInv
  <2>5. \A k \in Kinds : k # "trace" => tries'[k] = tries[k]
    BY <2>1 DEF ViewInv
  <2>6. tries'["trace"] = 0
    BY <2>1, <2>2 DEF ViewInv
  <2>7. \A f \in fetching' : FetchIsShown(f)'
    <3> SUFFICES ASSUME NEW f \in fetching, f.job = jobId
                 PROVE  f.kind \in busy /\ f.attempt = tries'[f.kind]
      BY <2>1 DEF FetchIsShown
    <3>1. f.kind # "trace" /\ f.kind \in Kinds
      BY <2>3 DEF ViewInv
    <3>2. QED
      BY <2>5, <3>1 DEF ViewInv, FetchIsShown
  <2>8. ViewTypeOK'
    BY <2>1 DEF ViewInv, ViewTypeOK
  <2>9. ShownIsOfThisJob'
    BY <2>1, <2>2, <2>5, <2>6, FetchesAssumption DEF ViewInv, ShownIsOfThisJob
  <2>10. QED
    BY <2>1, <2>2, <2>4, <2>5, <2>6, <2>7, <2>8, <2>9 DEF ViewInv, IsDone
<1>2. CASE ~(debug /\ "trace" \in failed)
  <2>1. /\ debug' \in BOOLEAN
        /\ UNCHANGED <<jobId, data, busy, failed, fetching, page, scans, broken,
                       tries>>
    BY <1>2 DEF ToggleDebug
  <2>2. QED
    BY <2>1 DEF ViewInv, ViewTypeOK, ShownIsOfThisJob, FetchIsShown, IsDone
<1>3. QED
  BY <1>1, <1>2

\* The reader turns to another page.
LEMMA TurnKeepsViewInv ==
    ASSUME ViewInv, NEW p \in Scans, TurnTo(p), UNCHANGED <<stage, created>>
    PROVE  ViewInv'
<1>1. /\ page' \in Nat /\ scans' \subseteq Scans /\ broken' \subseteq Scans
      /\ UNCHANGED <<jobId, data, busy, failed, fetching, debug, tries>>
  BY LoadScanType, ScansAssumption DEF TurnTo, ViewInv, ViewTypeOK
<1>2. QED
  BY <1>1 DEF ViewInv, ViewTypeOK, ShownIsOfThisJob, FetchIsShown, IsDone

\* handleReset: whatever is still on its way is of no job any more.
LEMMA ClearKeepsViewInv ==
    ASSUME ViewInv, ClearView, UNCHANGED created
    PROVE  ViewInv'
<1>1. /\ jobId' = 0 /\ busy' = {} /\ failed' = {} /\ debug' = FALSE
      /\ page' = 0 /\ scans' = {} /\ broken' = {} /\ UNCHANGED fetching
      /\ data' = [k \in Kinds |-> 0] /\ tries' = [k \in Kinds |-> 0]
  BY DEF ClearView
<1>2. \A f \in fetching' : FetchIsShown(f)'
  BY <1>1 DEF ViewInv, FetchIsShown
<1>3. ViewTypeOK'
  <2>1. 0 \in 0..MaxJobs
    BY AccessBoundsAssumption
  <2>2. jobId' \in 0..MaxJobs /\ data' \in [Kinds -> 0..MaxJobs]
    BY <1>1, <2>1
  <2>3. QED
    BY <1>1, <2>2 DEF ViewInv, ViewTypeOK
<1>4. ShownIsOfThisJob'
  BY <1>1, FetchesAssumption DEF ShownIsOfThisJob
<1>5. tries' \in [Kinds -> 0..Attempts]
  BY <1>1, FetchesAssumption
<1>6. QED
  BY <1>1, <1>2, <1>3, <1>4, <1>5 DEF ViewInv

\* The answer of POST /api/jobs: no fetch on its way is of a job this new.
LEMMA NewJobKeepsViewInv ==
    ASSUME ViewInv, SubmitInv, ~IsDone, created < MaxJobs,
           created' = created + 1, jobId' = created + 1,
           UNCHANGED <<data, busy, failed, fetching, debug, page, scans, broken,
                       tries>>
    PROVE  ViewInv'
<1>1. created \in Nat /\ created + 1 \in 0..MaxJobs
  BY AccessBoundsAssumption DEF SubmitInv
<1>2. \A f \in fetching : f.job # jobId' /\ f.job \in 1..created'
  BY <1>1 DEF ViewInv
<1>3. fetching' \subseteq [kind: Kinds, job: 1..created', attempt: 1..Attempts]
  BY <1>1 DEF ViewInv
<1>4. ViewTypeOK'
  BY <1>1 DEF ViewInv, ViewTypeOK
<1>5. ShownIsOfThisJob'
  BY DEF ViewInv, ShownIsOfThisJob
<1>6. \A f \in fetching' : FetchIsShown(f)'
  BY <1>2 DEF FetchIsShown
<1>7. QED
  BY <1>3, <1>4, <1>5, <1>6 DEF ViewInv

\* What does not touch the page leaves the invariant alone, and so does a
\* change of its stage that shows no less of it.
LEMMA ViewStutters ==
    ASSUME ViewInv, UNCHANGED <<viewVars, created>>, ~IsDone' => ~IsDone
    PROVE  ViewInv'
  BY DEF viewVars, ViewInv, ViewTypeOK, ShownIsOfThisJob, FetchIsShown
-----------------------------------------------------------------------------
(* The session.                                                            *)

\* The session starts in the invariant.
LEMMA InitIInv == Init => IInv
<1>1. ASSUME Init PROVE SubmitInv
  <2>1. 0 \in 0..MaxJobs /\ 0 \in 0..MaxNow /\ 0 <= 0
    BY AccessBoundsAssumption
  <2>2. /\ stored = {} /\ now = 0 /\ call = "none" /\ jobId = 0
        /\ stage = "idle" /\ submitting = FALSE /\ created = 0
    BY <1>1 DEF Init, AccessInit, CallInit, ViewInit
  <2>3. AccessTypeOK
    BY <2>1, <2>2 DEF AccessTypeOK
  <2>4. QED
    BY <2>1, <2>2, <2>3 DEF SubmitInv
<1>2. QED
  BY <1>1, PickerStart, CallStart, ViewStart DEF Init, IInv

\* The user, the answers of list_models and the browser's effects.
LEMMA PageKeepsIInv ==
    ASSUME IInv,
           \/ Configure \/ ListArrives \/ Play \/ SubmitFails \/ Read \/ Reset
           \/ \E k \in Kinds : Fetch(k) \/ ResultArrives(k)
    PROVE  IInv'
<1> USE DEF IInv
<1>1. ASSUME UNCHANGED <<stage, submitting, created, jobId, stored, now, call>>
      PROVE  SubmitInv'
  BY <1>1 DEF SubmitInv, AccessTypeOK, Editable
<1>2. CASE Configure
  <2>1. PickerInv'
    <3>1. ASSUME NEW p \in Providers, ChooseProvider(p) PROVE PickerInv'
      BY <3>1, RenewKeepsPickerInv DEF ChooseProvider
    <3>2. QED
      BY <1>2, <3>1, LoadKeepsPickerInv, SelectKeepsPickerInv DEF Configure
  <2>2. QED
    BY <1>1, <1>2, <2>1, CallStutters, ViewStutters
    DEF Configure, IsDone, viewVars, accessVars, callVars
<1>3. CASE ListArrives
  BY <1>1, <1>3, ListKeepsPickerInv, CallStutters, ViewStutters
  DEF ListArrives, IsDone, viewVars, accessVars, callVars
<1>4. CASE Play
  <2>1. SubmitInv'
    BY <1>4, AccessBoundsAssumption
    DEF Play, CanPlay, SubmitInv, AccessTypeOK, Editable, accessVars, callVars,
        viewVars
  <2>2. QED
    BY <1>4, <2>1, PickerStutters, CallStutters, ViewStutters DEF Play, IsDone
<1>5. CASE SubmitFails
  <2>1. SubmitInv'
    BY <1>5
    DEF SubmitFails, SubmitInv, AccessTypeOK, accessVars, callVars, viewVars
  <2>2. QED
    BY <1>5, <2>1, PickerStutters, CallStutters, ViewStutters
    DEF SubmitFails, IsDone
<1>6. CASE Read
  BY <1>1, <1>6, ToggleKeepsViewInv, TurnKeepsViewInv, PickerStutters,
     CallStutters
  DEF Read, ToggleDebug, TurnTo, accessVars, callVars
<1>7. CASE Reset
  <2>1. PickerInv'
    BY <1>7, RenewKeepsPickerInv DEF Reset, PickerInv, PickerTypeOK
  <2>2. SubmitInv'
    BY <1>7, AccessBoundsAssumption
    DEF Reset, ClearView, SubmitInv, AccessTypeOK, Editable, Settled,
        accessVars, callVars
  <2>3. QED
    BY <1>7, <2>1, <2>2, ClearKeepsViewInv, CallStutters DEF Reset
<1>8. ASSUME NEW k \in Kinds, Fetch(k) PROVE IInv'
  BY <1>1, <1>8, StartFetchKeepsViewInv, PickerStutters, CallStutters
  DEF Fetch, StartFetch, accessVars, callVars
<1>9. ASSUME NEW k \in Kinds, ResultArrives(k) PROVE IInv'
  <2>1. PICK f \in fetching : FetchStep(f)
    BY <1>9 DEF ResultArrives
  <2>2. UNCHANGED jobId
    BY <2>1 DEF FetchStep, FetchSucceeds, FetchRetries, FetchGivesUp
  <2>3. QED
    BY <1>1, <1>9, <2>1, <2>2, FetchStepKeepsViewInv, PickerStutters,
       CallStutters
    DEF ResultArrives, accessVars, callVars
<1>10. QED
  BY <1>2, <1>3, <1>4, <1>5, <1>6, <1>7, <1>8, <1>9

\* The job: created, corrected, settled; and the server that forgets it.
LEMMA JobKeepsIInv ==
    ASSUME IInv, JobCreated \/ Correct \/ RunSucceeds \/ RunFails \/ Server
    PROVE  IInv'
<1> USE DEF IInv
<1>1. CASE JobCreated
  <2>1. /\ ~IsDone /\ call = "none" /\ created < MaxJobs
    BY <1>1 DEF JobCreated, SubmitInv, Editable, IsDone
  <2>2. CallInv'
    BY <1>1, <2>1, ReachChunkKeepsCallInv DEF JobCreated
  <2>3. ViewInv'
    BY <1>1, <2>1, NewJobKeepsViewInv DEF JobCreated
  <2>4. SubmitInv'
    <3>1. /\ submitting' = FALSE /\ stage' = "running" /\ call' = "idle"
          /\ created' = created + 1 /\ jobId' = created + 1
          /\ stored' = stored \cup {created + 1} /\ now' = now
      BY <1>1 DEF JobCreated, StoreJob, ReachChunk
    <3>2. /\ created + 1 \in 1..MaxJobs /\ created + 1 # 0
          /\ created + 1 <= created + 1
      BY <2>1, AccessBoundsAssumption DEF SubmitInv
    <3>3. AccessTypeOK'
      BY <3>1, <3>2 DEF SubmitInv, AccessTypeOK, Jobs
    <3>4. created' \in 0..MaxJobs
      BY <3>1, <3>2, AccessBoundsAssumption
    <3>5. QED
      BY <3>1, <3>2, <3>3, <3>4 DEF SubmitInv
  <2>5. QED
    BY <1>1, <2>2, <2>3, <2>4, PickerStutters DEF JobCreated
<1>2. CASE Correct
  <2>1. CallInv' /\ call' # "none"
    BY <1>2, CallNextKeepsCallInv DEF Correct, SubmitInv
  <2>2. SubmitInv'
    BY <1>2, <2>1
    DEF Correct, SubmitInv, AccessTypeOK, Editable, accessVars, viewVars
  <2>3. QED
    BY <1>2, <2>1, <2>2, PickerStutters, ViewStutters DEF Correct, IsDone
<1>3. CASE RunSucceeds \/ RunFails
  <2>1. /\ stage = "running" /\ stage' \in {"done", "failed"} /\ LeaveChunk
        /\ UNCHANGED <<pickerVars, accessVars, viewVars, submitting, created>>
    BY <1>3 DEF RunSucceeds, RunFails
  <2>2. SubmitInv'
    BY <2>1
    DEF SubmitInv, AccessTypeOK, Editable, LeaveChunk, accessVars, viewVars
  <2>3. QED
    BY <2>1, <2>2, PickerStutters, LeaveChunkKeepsCallInv, ViewStutters
    DEF IsDone
<1>4. CASE Server
  <2>1. AccessTypeOK'
    BY <1>4, AccessBoundsAssumption
    DEF Server, EvictJob, RestartServer, Tick, SubmitInv, AccessTypeOK
  <2>2. SubmitInv'
    BY <1>4, <2>1 DEF Server, SubmitInv, Editable, callVars, viewVars
  <2>3. QED
    BY <1>4, <2>2, PickerStutters, CallStutters, ViewStutters
    DEF Server, IsDone
<1>5. QED
  BY <1>1, <1>2, <1>3, <1>4

\* A step outside the session.
LEMMA StutterKeepsIInv == IInv /\ UNCHANGED vars => IInv'
<1> SUFFICES ASSUME IInv, UNCHANGED vars PROVE IInv'
  OBVIOUS
<1>1. SubmitInv'
  BY DEF IInv, vars, SubmitInv, AccessTypeOK, Editable, accessVars, callVars,
         viewVars
<1>2. QED
  BY <1>1, PickerStutters, CallStutters, ViewStutters DEF IInv, vars, IsDone

\* The parts of the session keep their invariants through every answer that
\* comes late.
THEOREM IInvIsInvariant == Spec => []IInv
<1>1. IInv /\ [Next]_vars => IInv'
  BY PageKeepsIInv, JobKeepsIInv, StutterKeepsIInv DEF Next
<1>2. QED
  BY InitIInv, <1>1, PTL DEF Spec
-----------------------------------------------------------------------------
(* What the invariant gives.                                               *)

\* Every variable keeps the type of what it stands for, and the page is about
\* a job exactly when it is not idle.
THEOREM TypeCorrect == Spec => []TypeOK
<1>1. IInv => TypeOK
  BY DEF IInv, PickerInv, CallInv, ViewInv, SubmitInv, TypeOK
<1>2. QED
  BY <1>1, IInvIsInvariant, PTL

\* Whichever list answers last, the user picks from the catalogue of the
\* chosen provider (useModels, list_models).
THEOREM PickerSafe == Spec => []PickedFromOwnCatalogue
<1>1. IInv => PickedFromOwnCatalogue
  BY DEF IInv, PickerInv
<1>2. QED
  BY <1>1, IInvIsInvariant, PTL

\* What the vendor has refused by name stays out of the later bodies of the
\* call, and only the least demanding body is refused for good (call_llm).
THEOREM FallbacksCompose == Spec => []RefusedStaysOut
<1>1. IInv => RefusedStaysOut
  BY CallInvGives DEF IInv
<1>2. QED
  BY <1>1, IInvIsInvariant, PTL

\* No run ends early over anything a retry or a fallback could have healed.
THEOREM RunsAreHealed == Spec => []HealsWhatItCan
<1>1. IInv => HealsWhatItCan
  BY CallInvGives DEF IInv
<1>2. QED
  BY <1>1, IInvIsInvariant, PTL

\* Data, errors and retries on the page are of the job it is about (App,
\* retryFetch).
THEOREM ViewSafe == Spec => []ShownIsOfThisJob
<1>1. IInv => ShownIsOfThisJob
  BY DEF IInv, ViewInv
<1>2. QED
  BY <1>1, IInvIsInvariant, PTL
=============================================================================
