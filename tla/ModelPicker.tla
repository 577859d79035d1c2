---------------------------- MODULE ModelPicker -----------------------------
(***************************************************************************)
(* The choice of a provider and of one of its models: the configuration    *)
(* part of App, the hook useModels, and list_models behind it, which walks *)
(* the pages of the vendor's catalogue.  An answer may arrive long after   *)
(* the user has turned to another provider.                                *)
(*                                                                         *)
(* A model is the pair of its provider and of its page in the catalogue:   *)
(* pages are what a list may miss, and providers what it may mix up.       *)
(***************************************************************************)
EXTENDS FiniteSets, Naturals

CONSTANTS
    Providers,  \* Provider
    None,       \* no provider, no model
    Pages,      \* the length of each vendor's catalogue
    PageBound,  \* the range(10) of the adapters
    MaxLists    \* bound: values requestIdRef takes

ASSUME PagesAssumption == Pages \in [Providers -> Nat \ {0}]
ASSUME PageBoundAssumption == PageBound \in Nat \ {0}
ASSUME MaxListsAssumption == MaxLists \in Nat

VARIABLES
    provider,   \* App's provider
    selected,   \* App's selectedModel
    models,     \* useModels: models
    loading,    \* useModels: loading
    listFailed, \* useModels: error
    requestId,  \* useModels: requestIdRef
    listing     \* list_models requests on their way: id and provider

pickerVars == <<provider, selected, models, loading, listFailed, requestId,
                listing>>

Models == {<<p, n>> : p \in Providers, n \in 1..PageBound}

PickerInit ==
    /\ provider = None
    /\ selected = None
    /\ models = {}
    /\ loading = FALSE
    /\ listFailed = FALSE
    /\ requestId = 0
    /\ listing = {}

-----------------------------------------------------------------------------
(* Seeded fault; no part of the specification.                             *)

\* A hook without its staleness token.
AlwaysCurrent(r) == TRUE
-----------------------------------------------------------------------------
(* Helpers.                                                                *)

\* The pages the walk of list_models reads of a provider's catalogue.
Reach(p) == IF Pages[p] < PageBound THEN Pages[p] ELSE PageBound

\* requestId === requestIdRef.current
IsCurrentList(r) == r.id = requestId

\* setState, and an id that makes every answer on its way stale.
Renew(busy) ==
    /\ requestId' = requestId + 1
    /\ models' = {}
    /\ loading' = busy
    /\ listFailed' = FALSE

\* useModels.reset and setSelectedModel(null), in App's handlers.
ForgetModels ==
    /\ Renew(FALSE)
    /\ selected' = None
    /\ UNCHANGED listing
-----------------------------------------------------------------------------
(* The user; the controls are disabled while a job runs or is done.        *)

ChooseProvider(p) ==
    /\ requestId < MaxLists
    /\ provider' = p
    /\ ForgetModels

\* The button is disabled while a list is loading.
LoadModels ==
    /\ provider # None
    /\ ~loading
    /\ requestId < MaxLists
    /\ Renew(TRUE)
    /\ listing' = listing \cup
           {[id |-> requestId + 1, of |-> provider]}
    /\ UNCHANGED <<provider, selected>>

SelectModel(m) ==
    /\ ~loading
    /\ m \in models
    /\ selected' = m
    /\ UNCHANGED <<provider, models, loading, listFailed, requestId, listing>>
-----------------------------------------------------------------------------
(* list_models, and its answer.                                            *)

\* The promise of listModels settles; a stale one is ignored.
ListSettles(r, found, failed) ==
    /\ listing' = listing \ {r}
    /\ IF IsCurrentList(r)
       THEN /\ models' = found
            /\ loading' = FALSE
            /\ listFailed' = failed
       ELSE UNCHANGED <<models, loading, listFailed>>
    /\ UNCHANGED <<provider, selected, requestId>>

ListAnswers(r) == ListSettles(r, {r.of} \X (1..Reach(r.of)), FALSE)

\* A wrong key, the rate limit, a vendor or a network that does not answer:
\* whatever the status it is mapped to, the client shows an error.
ListFails(r) == ListSettles(r, {}, TRUE)

ListStep(r) == ListAnswers(r) \/ ListFails(r)
-----------------------------------------------------------------------------
(* Properties.                                                             *)

PickerTypeOK ==
    /\ provider \in Providers \cup {None}
    /\ selected \in Models \cup {None}
    /\ models \subseteq Models
    /\ loading \in BOOLEAN /\ listFailed \in BOOLEAN
    /\ requestId \in 0..MaxLists
    /\ \A r \in listing : r.id \in 1..requestId /\ r.of \in Providers

\* What the user sees and picks is the catalogue of the provider that is
\* selected now, all of it up to the page bound, whichever request answers
\* last; and a list that is loading has a request that will end it.
PickedFromOwnCatalogue ==
    /\ models # {} => models = {m \in Models : m[1] = provider /\ m[2] <= Pages[provider]}
    /\ selected # None => selected[1] = provider
    /\ loading => \E r \in listing : IsCurrentList(r)
=============================================================================
