--------------------------- MODULE ServiceWorker ---------------------------
(***************************************************************************)
(* The loader page (index.ts of dweb-api-serviceworker) in several tabs    *)
(* of one browser, and the service worker it registers. A page that no     *)
(* worker controls removes the registration it finds, registers the        *)
(* worker again, waits until it is active, and reloads; its navigation is  *)
(* then a fetch event (FetchEvents). The tabs share the registration, and  *)
(* interleave at every await. External: the browser's registration, life   *)
(* cycle and control of pages, as far as the two scripts use them.         *)
(***************************************************************************)
EXTENDS FetchEvents

VARIABLES
  page,          \* per tab: where the script of its page is
  controller,    \* per tab: the worker that controls the page
  found,         \* per tab: the registration getRegistrations() gave
  mine,          \* per tab: the worker whose activation the page waits for
  shouldReload,  \* per tab: the name resolved to something to fetch
  disturbed,     \* per tab: another tab unregistered since this one registered (history)
  registration,  \* the worker registered for the scope "/"
  state          \* per worker: ServiceWorker.state

pageVars == <<page, controller, found, mine, shouldReload, disturbed, registration, state>>
swVars == <<fetchVars, pageVars>>

\* The script of the page runs or awaits.
Loading == {"loaded", "listing", "unregistering", "resolving", "registering",
            "waiting", "ready", "reloading"}

\* No script runs: no page yet, content from the worker, or the script ended.
Settled == {"closed", "served", "failed", "ended"}

Active == {"activating", "activated"}

ServiceWorkerInit ==
  /\ FetchInit
  /\ page = [t \in Tabs |-> "closed"]
  /\ controller = [t \in Tabs |-> NoWorker]
  /\ found = [t \in Tabs |-> NoWorker]
  /\ mine = [t \in Tabs |-> NoWorker]
  /\ shouldReload = [t \in Tabs |-> FALSE]
  /\ disturbed = [t \in Tabs |-> FALSE]
  /\ registration = NoWorker
  /\ state = [w \in Workers |-> "redundant"]

\* The registration of the scope has a worker in one of these states.
RegisteredIn(states) == \E w \in Workers : w = registration /\ state[w] \in states

-----------------------------------------------------------------------------
(* Navigations. *)

\* A navigation replaces the page of t and drops what its events waited for.
NewPage(t, p, w) ==
  /\ page' = [page EXCEPT ![t] = p]
  /\ controller' = [controller EXCEPT ![t] = w]
  /\ mine' = [mine EXCEPT ![t] = NoWorker]
  /\ shouldReload' = [shouldReload EXCEPT ![t] = FALSE]
  /\ disturbed' = [disturbed EXCEPT ![t] = FALSE]
  /\ UNCHANGED <<found, registration, state>>

\* The registered worker answers; an activating one is waited for.
LoadThroughWorker(t) ==
  /\ RegisteredIn({"activated"})
  /\ NewPage(t, "served", registration)
  /\ Dispatch(t, registration, TRUE)

\* The web server answers with the page of the loader.
LoadFromNetwork(t) ==
  /\ NewPage(t, "loaded", NoWorker)
  /\ navigates' = [navigates EXCEPT ![t] = TRUE]
  /\ step' = [step EXCEPT ![t] = "idle"]
  /\ ipfs' = [ipfs EXCEPT ![t] = FALSE]
  /\ reply' = [reply EXCEPT ![t] = "none"]
  /\ UNCHANGED <<trustless, ensHost, verifiedFetch, at, hops>>

Load(t) ==
  \/ LoadThroughWorker(t)
  \/ ~RegisteredIn(Active) /\ LoadFromNetwork(t)

\* The user opens or reloads the page.
Visit(t) == page[t] \in Settled /\ step[t] \in Over /\ Load(t)

\* The page waits for an event that is past, or for a worker that is gone.
Hangs(t) ==
  \/ page[t] = "waiting" /\ \E w \in Workers : w = mine[t] /\ state[w] \in {"activated", "redundant"}
  \/ page[t] = "ready" /\ registration = NoWorker

\* A forced reload bypasses the worker.
HardReload(t) ==
  /\ page[t] \in Settled \/ Hangs(t)
  /\ step[t] \in Over
  /\ LoadFromNetwork(t)

\* window.location.reload() of the script.
Reload(t) == page[t] = "reloading" /\ Load(t)

\* The page shows content, which sends its requests one at a time.
ShowsContent(t) ==
  /\ page[t] = "served" /\ step[t] \in Over
  /\ navigates[t] => reply[t] \in {"gateway", "verified"}

Request(t) ==
  /\ ShowsContent(t)
  /\ \E w \in Workers : w = controller[t] /\ Dispatch(t, w, FALSE)
  /\ UNCHANGED pageVars

-----------------------------------------------------------------------------
(* The script of the page. *)

At(t, p) == page[t] = p
Step(t, p) == page' = [page EXCEPT ![t] = p]

\* With a controller the registration is kept. The worker hands out the
\* loader itself when the host is no ENS name.
ScriptStarts(t) ==
  /\ At(t, "loaded") \/ (At(t, "served") /\ navigates[t] /\ step[t] = "answered" /\ reply[t] = "plain")
  /\ Step(t, IF controller[t] = NoWorker THEN "listing" ELSE "resolving")
  /\ UNCHANGED <<fetchVars, controller, found, mine, shouldReload, disturbed, registration, state>>

GetRegistrations(t) ==
  /\ At(t, "listing")
  /\ found' = [found EXCEPT ![t] = registration]
  /\ Step(t, IF registration = NoWorker THEN "resolving" ELSE "unregistering")
  /\ UNCHANGED <<fetchVars, controller, mine, shouldReload, disturbed, registration, state>>

\* The browser keeps a worker that is not registered any more while it
\* controls a page or handles an event.
InUse(w) ==
  \/ state[w] \in {"installing", "activating"}
  \/ \E t \in Tabs : controller[t] = w
  \/ EventsOf(w) # {}

\* The browser drops worker w: its global is gone with it.
Ended(w) ==
  /\ state' = [state EXCEPT ![w] = "redundant"]
  /\ verifiedFetch' = [verifiedFetch EXCEPT ![w] = FALSE]

\* The pages between their register() and their reload.
Registered == {t \in Tabs : page[t] \in {"waiting", "ready", "reloading"}}

\* registration.unregister(); jobs of a scope queue up behind an install. It
\* resolves, with false when the registration is gone already.
Unregister(t) ==
  /\ At(t, "unregistering")
  /\ Step(t, "resolving")
  /\ found' = [found EXCEPT ![t] = NoWorker]
  /\ IF registration = found[t]
       THEN /\ state[registration] # "installing"
            /\ registration' = NoWorker
            /\ IF InUse(registration) THEN UNCHANGED <<state, verifiedFetch>> ELSE Ended(registration)
            /\ disturbed' = [u \in Tabs |-> disturbed[u] \/ u \in Registered]
       ELSE UNCHANGED <<registration, state, verifiedFetch, disturbed>>
  /\ UNCHANGED <<trustless, ensHost, navigates, step, at, ipfs, hops, reply, controller, mine, shouldReload>>

\* createServiceWorker and resolveUrl of the page's own URL.
PageResolves(t) ==
  /\ At(t, "resolving")
  /\ Step(t, "registering")
  /\ \E resolved \in BOOLEAN :
       /\ resolved => ensHost
       /\ shouldReload' = [shouldReload EXCEPT ![t] = resolved]
  /\ UNCHANGED <<fetchVars, controller, found, mine, disturbed, registration, state>>

\* A rejection leaves the script: nothing is registered.
PageFails(t) ==
  /\ At(t, "resolving")
  /\ Step(t, "failed")
  /\ UNCHANGED <<fetchVars, controller, found, mine, shouldReload, disturbed, registration, state>>

\* A worker instance that nothing refers to stands for one not yet created.
Unused(w) ==
  /\ state[w] = "redundant"
  /\ w # registration
  /\ \A t \in Tabs : w \notin {mine[t], found[t], controller[t]}
  /\ EventsOf(w) = {}

\* Variant: the script does not wait for the activation.
AwaitsNothing(t, w) == Step(t, "ready") /\ w \in Workers /\ UNCHANGED mine

\* Variant: the script listens to the state of a worker that is active already.
AwaitsAlways(t, w) == Step(t, "waiting") /\ mine' = [mine EXCEPT ![t] = w]

Awaits(t, w) ==
  IF state'[w] \in Active
    THEN Step(t, "ready") /\ UNCHANGED mine
    ELSE Step(t, "waiting") /\ mine' = [mine EXCEPT ![t] = w]

\* register() gives the registration there is, after the install it queues
\* behind. The script then listens to the worker that is installing or waiting.
RegisterAgain(t) ==
  /\ At(t, "registering")
  /\ registration # NoWorker /\ state[registration] # "installing"
  /\ UNCHANGED state
  /\ Awaits(t, registration)
  /\ UNCHANGED <<fetchVars, controller, found, shouldReload, disturbed, registration>>

RegisterNew(t) ==
  /\ At(t, "registering")
  /\ registration = NoWorker
  /\ \E w \in Workers :
       /\ Unused(w)
       /\ \A v \in Workers : Unused(v) => w <= v
       /\ registration' = w
       /\ state' = [state EXCEPT ![w] = "installing"]
       /\ Awaits(t, w)
  /\ UNCHANGED <<fetchVars, controller, found, shouldReload, disturbed>>

RegisterFails(t) ==
  /\ At(t, "registering")
  /\ Step(t, "failed")
  /\ UNCHANGED <<fetchVars, controller, found, mine, shouldReload, disturbed, registration, state>>

\* navigator.serviceWorker.ready.
Ready(t) ==
  /\ At(t, "ready")
  /\ RegisteredIn(Active)
  /\ Step(t, IF shouldReload[t] THEN "reloading" ELSE "ended")
  /\ UNCHANGED <<fetchVars, controller, found, mine, shouldReload, disturbed, registration, state>>

-----------------------------------------------------------------------------
(* The life of a worker. *)

\* The install event ends at once, with skipWaiting().
Installed(w) ==
  /\ state[w] = "installing"
  /\ state' = [state EXCEPT ![w] = "installed"]
  /\ UNCHANGED <<fetchVars, page, controller, found, mine, shouldReload, disturbed, registration>>

Activates(w) ==
  /\ state[w] = "installed" /\ w = registration
  /\ state' = [state EXCEPT ![w] = "activating"]
  /\ UNCHANGED <<fetchVars, page, controller, found, mine, shouldReload, disturbed, registration>>

\* The activate event ends with clients.claim(), which takes the pages of its
\* own registration; then statechange resolves the promise of who waits for w.
Activated(w) ==
  /\ state[w] = "activating"
  /\ state' = [state EXCEPT ![w] = "activated"]
  /\ controller' = [t \in Tabs |->
       IF w = registration /\ page[t] # "closed" THEN w ELSE controller[t]]
  /\ page' = [t \in Tabs |-> IF page[t] = "waiting" /\ mine[t] = w THEN "ready" ELSE page[t]]
  /\ mine' = [t \in Tabs |-> IF mine[t] = w THEN NoWorker ELSE mine[t]]
  /\ UNCHANGED <<fetchVars, found, shouldReload, disturbed, registration>>

\* The browser drops a worker as soon as it is neither registered nor in use.
Unneeded(w) == w # registration /\ state[w] \in {"installed", "activated"} /\ ~InUse(w)

Dropped(w) ==
  /\ Unneeded(w)
  /\ Ended(w)
  /\ UNCHANGED <<trustless, ensHost, navigates, step, at, ipfs, hops, reply,
                 page, controller, found, mine, shouldReload, disturbed, registration>>

-----------------------------------------------------------------------------
\* What the script awaits of the browser, the web server and the worker.
Browses(t) ==
  \/ Reload(t)
  \/ ScriptStarts(t)
  \/ GetRegistrations(t) \/ Unregister(t)
  \/ RegisterAgain(t) \/ RegisterNew(t) \/ RegisterFails(t)
  \/ Ready(t)

Script(t) == Browses(t) \/ PageResolves(t) \/ PageFails(t)

NoneUnneeded == \A w \in Workers : ~Unneeded(w)

RunScript(t) == NoneUnneeded /\ Script(t)
HandleEvent(e) == NoneUnneeded /\ Handle(e) /\ UNCHANGED pageVars
Live(w) == Dropped(w) \/ (NoneUnneeded /\ (Installed(w) \/ Activates(w) \/ Activated(w)))

\* Of its own accord: the user, the pages, the browser.
User(t) == NoneUnneeded /\ (Visit(t) \/ HardReload(t) \/ Request(t))
Stop(w) == NoneUnneeded /\ Terminate(w) /\ UNCHANGED pageVars

ServiceWorkerNext ==
  \/ \E t \in Tabs : User(t) \/ RunScript(t)
  \/ \E e \in Events : HandleEvent(e)
  \/ \E w \in Workers : Live(w) \/ Stop(w)

Spec == ServiceWorkerInit /\ [][ServiceWorkerNext]_swVars

\* Fetches are answered or fail, and the browser runs the life of a worker to its
\* end. Users visit when they like, and the browser stops workers at will. Nothing
\* bounds the RPC of EnsService.init, which an event and the page await first: it
\* may never answer (InitEnds, PageResolves, PageFails).
EventFair(e) == WF_swVars(Proceeds(e) /\ UNCHANGED pageVars)

FairEvents == \A e \in Events : EventFair(e)

Fairness ==
  /\ \A t \in Tabs : WF_swVars(Browses(t))
  /\ FairEvents
  /\ \A w \in Workers : WF_swVars(Live(w))

FairSpec == Spec /\ Fairness

-----------------------------------------------------------------------------
(* Properties. *)

TypeOK ==
  /\ FetchTypeOK
  /\ page \in [Tabs -> Loading \cup Settled]
  /\ controller \in [Tabs -> Workers \cup {NoWorker}]
  /\ found \in [Tabs -> Workers \cup {NoWorker}]
  /\ mine \in [Tabs -> Workers \cup {NoWorker}]
  /\ shouldReload \in [Tabs -> BOOLEAN]
  /\ disturbed \in [Tabs -> BOOLEAN]
  /\ registration \in Workers \cup {NoWorker}
  /\ state \in [Workers -> {"installing", "installed", "activating", "activated", "redundant"}]

\* The reload at the end of the script is answered by the worker and not by
\* the loader again, or the loader would reload for ever; unless another tab
\* has unregistered the worker since.
ReloadIsServed ==
  \A t \in Tabs :
    page[t] \in {"ready", "reloading"} /\ ~disturbed[t] => RegisteredIn(Active)

\* The loader of a tab comes to an end - content served by the worker, or a
\* script that has ended - unless another tab unregistered the worker it
\* waits for, or its RPC never answers.
PageSettles ==
  \A t \in Tabs : page[t] \in Loading ~>
    (page[t] \in Settled \/ disturbed[t] \/ [](page[t] = "resolving"))

\* Every fetch event is answered or rejected, also when the browser stops the
\* worker that handles it, unless its RPC never answers or its site redirects it
\* MaxHops times: whatever MaxHops is, for the loop of service-worker.ts:100 has
\* no limit of its own.
EventsAnswered ==
  \A e \in Events : step[e] \in Pending ~>
    (step[e] \in Over \/ [](step[e] = "init") \/ hops[e] = MaxHops)

\* A page waits for an activation that is past, or for a worker that nobody is going
\* to register, only when another tab has unregistered its worker: whatever the
\* worker does between register() and the listener of the page.
HangsOnlyDisturbed == \A t \in Tabs : Hangs(t) => disturbed[t]

\* What an event awaits is not out of the question.
WaitsCanEnd ==
  \A e \in Events : step[e] \in Pending \ {"init"} =>
    ENABLED <<Proceeds(e) /\ UNCHANGED pageVars>>_swVars

\* How far an event is from its answer: each redirect is a stage.
Stage(e) ==
  CASE step[e] = "init" -> MaxHops + 5
    [] step[e] = "creating" -> MaxHops + 4
    [] step[e] = "resolving" -> MaxHops + 3
    [] step[e] \in Calls -> MaxHops - hops[e] + 2
    [] OTHER -> 1

\* Wherever an event stands, it is over or comes nearer to its answer, whatever the
\* other events, the pages and the browser do: it never starts over. The exceptions
\* are those of EventsAnswered.
EventsComeNearer ==
  \A e \in Events, n \in Nat :
    step[e] \in Pending /\ Stage(e) = n ~>
      (step[e] \in Over \/ Stage(e) < n \/ hops[e] = MaxHops \/ [](step[e] = "init"))
=============================================================================
