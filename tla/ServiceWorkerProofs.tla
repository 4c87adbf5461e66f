------------------------ MODULE ServiceWorkerProofs ------------------------
(***************************************************************************)
(* The safety properties of ServiceWorker, for every number of tabs and of *)
(* worker instances, and chains of redirects that need not end.            *)
(***************************************************************************)
EXTENDS ServiceWorker, TLAPS

\* An event has a worker exactly while it is handled.
Handled == \A e \in Events : step[e] \in Pending <=> at[e] # NoWorker

\* The kind of its record is not known before the name is resolved.
KnownOnceResolved ==
  \A e \in Events : step[e] \in {"init", "creating", "resolving", "plain"} => ~ipfs[e]

EventInv == Handled /\ KnownOnceResolved /\ VerifiedFetchIsSet /\ TrustlessIsVerified /\ RedirectsFollowed

\* A page waits for the registered worker, unless another tab has removed it.
WaitsForRegistered ==
  \A t \in Tabs : page[t] = "waiting" /\ ~disturbed[t] => mine[t] = registration /\ registration \in Workers

\* No event of a tab is open while the loader runs in it.
LoaderIsIdle == \A t \in Tabs : page[t] \in Loading => step[t] \in Over

PageInv == WaitsForRegistered /\ ReloadIsServed /\ LoaderIsIdle

PageTypeOK ==
  /\ page \in [Tabs -> Loading \cup Settled]
  /\ controller \in [Tabs -> Workers \cup {NoWorker}]
  /\ found \in [Tabs -> Workers \cup {NoWorker}]
  /\ mine \in [Tabs -> Workers \cup {NoWorker}]
  /\ shouldReload \in [Tabs -> BOOLEAN]
  /\ disturbed \in [Tabs -> BOOLEAN]
  /\ registration \in Workers \cup {NoWorker}
  /\ state \in [Workers -> {"installing", "installed", "activating", "activated", "redundant"}]

IInv == TypeOK /\ EventInv /\ PageInv

-----------------------------------------------------------------------------
(* Fetch events. *)

\* What the handler of one event does.
LEMMA HandleStep ==
  ASSUME FetchTypeOK, EventInv, NEW e \in Events, Handle(e)
  PROVE  FetchTypeOK' /\ EventInv'
<1> USE NoWorkerIsNone, MaxHopsIsNatural
    DEF FetchTypeOK, EventInv, Handled, KnownOnceResolved, VerifiedFetchIsSet, TrustlessIsVerified,
        RedirectsFollowed, Goto, Ends, Answer, Reject, Route, Pending, Calls, Over
<1>1. CASE InitEnds(e)
  BY <1>1 DEF InitEnds
<1>2. CASE Created(e)
  BY <1>2 DEF Created
<1>3. CASE NotCreated(e)
  BY <1>3 DEF NotCreated
<1>4. CASE NotEnsName(e)
  BY <1>4 DEF NotEnsName
<1>5. CASE Resolves(e)
  <2>1. PICK k \in Kinds :
          /\ ipfs' = [ipfs EXCEPT ![e] = k \in Ipfs]
          /\ \/ k \in Fetchable /\ IF ByVerifiedFetch(k) THEN VerifiedStep(e) ELSE Goto(e, "gateway")
             \/ k \in Throwing /\ Reject(e)
             \/ k \in Unfetchable /\ NotFound(e)
    BY <1>5 DEF Resolves
  <2>2. ipfs' \in [Events -> BOOLEAN]
    BY <2>1
  <2>3. k \in Unfetchable => k \notin Ipfs
    BY DEF Unfetchable, Ipfs, NoRecord
  <2>4. CASE k \in Fetchable /\ ByVerifiedFetch(k) /\ VerifiedStep(e)
    BY <1>5, <2>1, <2>2, <2>4 DEF Resolves, VerifiedStep
  <2>5. CASE k \in Fetchable /\ ~ByVerifiedFetch(k) /\ Goto(e, "gateway")
    BY <1>5, <2>1, <2>2, <2>5 DEF Resolves, ByVerifiedFetch
  <2>6. CASE Reject(e)
    BY <1>5, <2>1, <2>2, <2>6 DEF Resolves
  <2>7. CASE k \in Unfetchable /\ NotFound(e)
    BY <1>5, <2>1, <2>2, <2>3, <2>7 DEF Resolves, NotFound
  <2>8. QED
    BY <2>1, <2>4, <2>5, <2>6, <2>7
<1>6. CASE FetchEnds(e)
  BY <1>6 DEF FetchEnds
<1>7. CASE VerifiedAnswers(e)
  <2>1. PICK r \in Response :
          IF NextCall(e, r) = "none"
            THEN Answer(e, ReplyOf(r))
            ELSE /\ step' = [step EXCEPT ![e] = NextCall(e, r)]
                 /\ hops' = [hops EXCEPT ![e] = IF @ < MaxHops THEN @ + 1 ELSE @]
                 /\ UNCHANGED <<at, reply>>
    BY <1>7 DEF VerifiedAnswers
  <2>2. CASE NextCall(e, r) = "none"
    <3>1. ~r.redirected /\ ~r.moved
      BY <2>2 DEF NextCall, Response
    <3>2. Answer(e, "verified")
      BY <2>1, <2>2, <3>1 DEF ReplyOf
    <3>3. QED
      BY <1>7, <3>2 DEF VerifiedAnswers
  <2>3. CASE NextCall(e, r) # "none"
    <3>1. NextCall(e, r) \in Calls
      BY <2>3 DEF NextCall
    <3>2. (IF hops[e] < MaxHops THEN hops[e] + 1 ELSE hops[e]) \in 0..MaxHops
      OBVIOUS
    <3>3. QED
      BY <1>7, <2>1, <2>3, <3>1, <3>2 DEF VerifiedAnswers
  <2>4. QED
    BY <2>2, <2>3
<1>8. CASE VerifiedFails(e)
  BY <1>8 DEF VerifiedFails
<1>9. QED
  BY <1>1, <1>2, <1>3, <1>4, <1>5, <1>6, <1>7, <1>8 DEF Handle, Proceeds

\* An event starts anew, at a worker.
LEMMA DispatchStep ==
  ASSUME FetchTypeOK, EventInv, NEW e \in Events, step[e] \in Over,
         NEW w \in Workers, NEW n \in BOOLEAN, Dispatch(e, w, n)
  PROVE  FetchTypeOK' /\ EventInv'
BY NoWorkerIsNone
   DEF FetchTypeOK, EventInv, Handled, KnownOnceResolved, VerifiedFetchIsSet, TrustlessIsVerified,
       RedirectsFollowed, Dispatch, Pending, Calls, Over

\* The browser stops a worker, whose events fail with it.
LEMMA TerminateStep ==
  ASSUME FetchTypeOK, EventInv, NEW w \in Workers, Terminate(w)
  PROVE  FetchTypeOK' /\ EventInv'
BY NoWorkerIsNone, MaxHopsIsNatural
   DEF FetchTypeOK, EventInv, Handled, KnownOnceResolved, VerifiedFetchIsSet, TrustlessIsVerified,
       RedirectsFollowed, Terminate, EventsOf, Pending, Calls, Over

\* The global of a worker without events is lost.
LEMMA EndedStep ==
  ASSUME FetchTypeOK, EventInv, NEW w \in Workers, EventsOf(w) = {},
         verifiedFetch' = [verifiedFetch EXCEPT ![w] = FALSE],
         UNCHANGED <<trustless, ensHost, navigates, step, at, ipfs, hops, reply>>
  PROVE  FetchTypeOK' /\ EventInv'
BY NoWorkerIsNone
   DEF FetchTypeOK, EventInv, Handled, KnownOnceResolved, VerifiedFetchIsSet, TrustlessIsVerified,
       RedirectsFollowed, EventsOf, Pending, Calls, Over

\* The loader replaces a page whose event is over.
LEMMA NetworkStep ==
  ASSUME FetchTypeOK, EventInv, NEW t \in Tabs, step[t] \in Over, LoadFromNetwork(t)
  PROVE  FetchTypeOK' /\ EventInv'
BY NoWorkerIsNone
   DEF FetchTypeOK, EventInv, Handled, KnownOnceResolved, VerifiedFetchIsSet, TrustlessIsVerified,
       RedirectsFollowed, LoadFromNetwork, Events, Pending, Calls, Over

LEMMA SameEvents ==
  ASSUME FetchTypeOK, EventInv, UNCHANGED fetchVars
  PROVE  FetchTypeOK' /\ EventInv'
BY DEF FetchTypeOK, EventInv, Handled, KnownOnceResolved, VerifiedFetchIsSet, TrustlessIsVerified,
       RedirectsFollowed, fetchVars

-----------------------------------------------------------------------------
(* Pages, the registration and the workers. *)

\* Steps of the events leave the pages alone, and no loader has an event.
LEMMA PagesOfEventStep ==
  ASSUME TypeOK, PageInv, UNCHANGED pageVars,
         \A e \in Events : step[e] \in Over => step'[e] \in Over
  PROVE  PageTypeOK' /\ PageInv'
BY DEF TypeOK, PageTypeOK, PageInv, WaitsForRegistered, ReloadIsServed, LoaderIsIdle, RegisteredIn,
       pageVars, Events

LEMMA HandleKeepsOver ==
  ASSUME FetchTypeOK, NEW e \in Events, Handle(e), NEW d \in Events, step[d] \in Over
  PROVE  step'[d] \in Over
<1>1. step[e] \in Pending
  BY DEF Handle, Proceeds, InitEnds, Created, NotCreated, NotEnsName, Resolves, FetchEnds, VerifiedAnswers,
         VerifiedFails, Pending
<1>2. d # e
  BY <1>1 DEF Pending, Calls, Over
<1>3. step'[d] = step[d]
  BY <1>2 DEF FetchTypeOK, Handle, Proceeds, InitEnds, Created, NotCreated, NotEnsName, Resolves, FetchEnds,
         VerifiedAnswers, VerifiedFails, VerifiedStep, NotFound, Answer, Reject, Ends, Goto, Route
<1>4. QED
  BY <1>3

\* A page is replaced: by the loader, or by what the worker answers.
LEMMA LoadStep ==
  ASSUME IInv, NEW t \in Tabs, step[t] \in Over,
         LoadThroughWorker(t) \/ LoadFromNetwork(t)
  PROVE  IInv'
<1> USE NoWorkerIsNone DEF IInv, TypeOK
<1>1. CASE LoadThroughWorker(t)
  <2>1. registration \in Workers
    BY <1>1 DEF LoadThroughWorker, RegisteredIn
  <2>2. FetchTypeOK' /\ EventInv'
    BY <1>1, <2>1, DispatchStep DEF LoadThroughWorker, Events
  <2>3. PageTypeOK' /\ PageInv'
    BY <1>1, <2>1 DEF LoadThroughWorker, NewPage, Dispatch, PageTypeOK, PageInv, WaitsForRegistered,
       ReloadIsServed, LoaderIsIdle, RegisteredIn, Loading, Settled, FetchTypeOK, Events
  <2>4. QED
    BY <2>2, <2>3 DEF PageTypeOK
<1>2. CASE LoadFromNetwork(t)
  <2>1. FetchTypeOK' /\ EventInv'
    BY <1>2, NetworkStep
  <2>2. PageTypeOK' /\ PageInv'
    BY <1>2 DEF LoadFromNetwork, NewPage, PageTypeOK, PageInv, WaitsForRegistered,
       ReloadIsServed, LoaderIsIdle, RegisteredIn, Loading, Settled, Over, FetchTypeOK, Events
  <2>3. QED
    BY <2>1, <2>2 DEF PageTypeOK
<1>3. QED
  BY <1>1, <1>2

LEMMA ScriptStep ==
  ASSUME IInv, NEW t \in Tabs, Script(t)
  PROVE  IInv'
<1> USE NoWorkerIsNone DEF IInv, TypeOK, PageTypeOK, PageInv, WaitsForRegistered, ReloadIsServed,
      LoaderIsIdle, RegisteredIn, At, Step, Loading, Settled, Active
<1> DEFINE Rest == PageTypeOK' /\ PageInv'
<1>1. CASE Reload(t)
  <2>1. step[t] \in Over
    BY <1>1 DEF Reload
  <2>2. QED
    BY <1>1, <2>1, LoadStep DEF Reload, Load
<1>2. CASE ScriptStarts(t)
  <2>1. FetchTypeOK' /\ EventInv'
    BY <1>2, SameEvents DEF ScriptStarts
  <2>2. Rest
    BY <1>2 DEF ScriptStarts, fetchVars, Over
  <2>3. QED
    BY <2>1, <2>2
<1>3. CASE GetRegistrations(t)
  <2>1. FetchTypeOK' /\ EventInv'
    BY <1>3, SameEvents DEF GetRegistrations
  <2>2. Rest
    BY <1>3 DEF GetRegistrations, fetchVars
  <2>3. QED
    BY <2>1, <2>2
<1>4. CASE Unregister(t)
  <2>1. CASE registration = found[t] /\ InUse(registration)
    <3>1. FetchTypeOK' /\ EventInv'
      BY <1>4, <2>1, SameEvents DEF Unregister, fetchVars
    <3>2. Rest
      BY <1>4, <2>1 DEF Unregister, Registered
    <3>3. QED
      BY <3>1, <3>2
  <2>2. CASE registration = found[t] /\ ~InUse(registration)
    <3>1. FetchTypeOK' /\ EventInv'
      <4>1. CASE registration \in Workers
        BY <1>4, <2>2, <4>1, EndedStep DEF Unregister, Ended, InUse
      <4>2. CASE registration = NoWorker
        <5>1. UNCHANGED verifiedFetch
          BY <1>4, <2>2, <4>2 DEF Unregister, Ended, FetchTypeOK
        <5>2. QED
          BY <1>4, <5>1, SameEvents DEF Unregister, fetchVars
      <4>3. QED
        BY <4>1, <4>2
    <3>2. Rest
      BY <1>4, <2>2 DEF Unregister, Registered, Ended
    <3>3. QED
      BY <3>1, <3>2
  <2>3. CASE registration # found[t]
    <3>1. FetchTypeOK' /\ EventInv'
      BY <1>4, <2>3, SameEvents DEF Unregister, fetchVars
    <3>2. Rest
      BY <1>4, <2>3 DEF Unregister
    <3>3. QED
      BY <3>1, <3>2
  <2>4. QED
    BY <2>1, <2>2, <2>3
<1>5. CASE PageResolves(t)
  <2>1. FetchTypeOK' /\ EventInv'
    BY <1>5, SameEvents DEF PageResolves
  <2>2. Rest
    BY <1>5 DEF PageResolves, fetchVars
  <2>3. QED
    BY <2>1, <2>2
<1>6. CASE PageFails(t) \/ RegisterFails(t)
  <2>1. FetchTypeOK' /\ EventInv'
    BY <1>6, SameEvents DEF PageFails, RegisterFails
  <2>2. Rest
    BY <1>6 DEF PageFails, RegisterFails, fetchVars
  <2>3. QED
    BY <2>1, <2>2
<1>7. CASE RegisterAgain(t)
  <2>1. FetchTypeOK' /\ EventInv'
    BY <1>7, SameEvents DEF RegisterAgain
  <2>2. Rest
    BY <1>7 DEF RegisterAgain, Awaits, fetchVars
  <2>3. QED
    BY <2>1, <2>2
<1>8. CASE RegisterNew(t)
  <2>1. FetchTypeOK' /\ EventInv'
    BY <1>8, SameEvents DEF RegisterNew
  <2>2. PICK w \in Workers : /\ registration' = w
                             /\ state' = [state EXCEPT ![w] = "installing"]
                             /\ Awaits(t, w)
    BY <1>8 DEF RegisterNew
  <2>3. Step(t, "waiting") /\ mine' = [mine EXCEPT ![t] = w]
    BY <2>2 DEF Awaits
  <2>4. Rest
    BY <1>8, <2>2, <2>3 DEF RegisterNew, fetchVars
  <2>5. QED
    BY <2>1, <2>4
<1>9. CASE Ready(t)
  <2>1. FetchTypeOK' /\ EventInv'
    BY <1>9, SameEvents DEF Ready
  <2>2. Rest
    BY <1>9 DEF Ready, fetchVars
  <2>3. QED
    BY <2>1, <2>2
<1>10. QED
  BY <1>1, <1>2, <1>3, <1>4, <1>5, <1>6, <1>7, <1>8, <1>9 DEF Script, Browses

LEMMA LiveStep ==
  ASSUME IInv, NEW w \in Workers, Live(w)
  PROVE  IInv'
<1> USE NoWorkerIsNone DEF IInv, TypeOK, PageTypeOK, PageInv, WaitsForRegistered, ReloadIsServed,
      LoaderIsIdle, RegisteredIn, Active
<1>1. CASE Installed(w) \/ Activates(w)
  <2>1. FetchTypeOK' /\ EventInv'
    BY <1>1, SameEvents DEF Installed, Activates
  <2>2. PageTypeOK' /\ PageInv'
    BY <1>1 DEF Installed, Activates, fetchVars
  <2>3. QED
    BY <2>1, <2>2
<1>2. CASE Activated(w)
  <2>1. FetchTypeOK' /\ EventInv'
    BY <1>2, SameEvents DEF Activated
  <2>2. PageTypeOK'
    BY <1>2 DEF Activated, Loading
  <2>3. WaitsForRegistered'
    BY <1>2 DEF Activated
  <2>4. ReloadIsServed'
    BY <1>2 DEF Activated
  <2>5. LoaderIsIdle'
    BY <1>2 DEF Activated, fetchVars, Loading
  <2>6. QED
    BY <2>1, <2>2, <2>3, <2>4, <2>5
<1>3. CASE Dropped(w)
  <2>1. FetchTypeOK' /\ EventInv'
    BY <1>3, EndedStep DEF Dropped, Unneeded, InUse, Ended
  <2>2. PageTypeOK' /\ PageInv'
    BY <1>3 DEF Dropped, Unneeded, Ended
  <2>3. QED
    BY <2>1, <2>2
<1>4. QED
  BY <1>1, <1>2, <1>3 DEF Live

-----------------------------------------------------------------------------
(* The invariant, and what follows from it. *)

LEMMA Inductive ==
  /\ ServiceWorkerInit => IInv
  /\ IInv /\ [ServiceWorkerNext]_swVars => IInv'
<1>1. ServiceWorkerInit => IInv
  <2>1. ServiceWorkerInit => TypeOK
    BY MaxHopsIsNatural DEF ServiceWorkerInit, FetchInit, TypeOK, FetchTypeOK, Over, Settled
  <2>2. ServiceWorkerInit => EventInv
    BY DEF ServiceWorkerInit, FetchInit, EventInv, Handled, KnownOnceResolved, VerifiedFetchIsSet,
           TrustlessIsVerified, RedirectsFollowed, Pending, Calls
  <2>3. ServiceWorkerInit => PageInv
    BY DEF ServiceWorkerInit, PageInv, WaitsForRegistered, ReloadIsServed, LoaderIsIdle, Loading
  <2>4. QED
    BY <2>1, <2>2, <2>3 DEF IInv
<1>2. ASSUME IInv, [ServiceWorkerNext]_swVars
      PROVE  IInv'
  <2>1. ASSUME NEW t \in Tabs, User(t)
        PROVE  IInv'
    <3>1. CASE Visit(t)
      BY <1>2, <3>1, LoadStep DEF Visit, Load
    <3>2. CASE HardReload(t)
      BY <1>2, <3>2, LoadStep DEF HardReload
    <3>3. CASE Request(t)
      <4>1. PICK w \in Workers : w = controller[t] /\ Dispatch(t, w, FALSE)
        BY <3>3 DEF Request
      <4>2. FetchTypeOK' /\ EventInv'
        BY <1>2, <3>3, <4>1, DispatchStep DEF Request, ShowsContent, IInv, TypeOK, Events
      <4>3. PageTypeOK' /\ PageInv'
        BY <1>2, <3>3, <4>1 DEF Request, ShowsContent, IInv, TypeOK, PageTypeOK, PageInv,
           WaitsForRegistered, ReloadIsServed, LoaderIsIdle, RegisteredIn, pageVars, Dispatch,
           Loading, FetchTypeOK, Events
      <4>4. QED
        BY <4>2, <4>3 DEF IInv, TypeOK, PageTypeOK
    <3>4. QED
      BY <2>1, <3>1, <3>2, <3>3 DEF User
  <2>2. ASSUME NEW t \in Tabs, RunScript(t)
        PROVE  IInv'
    BY <1>2, <2>2, ScriptStep DEF RunScript
  <2>3. ASSUME NEW e \in Events, HandleEvent(e)
        PROVE  IInv'
    <3>1. FetchTypeOK' /\ EventInv'
      BY <1>2, <2>3, HandleStep DEF HandleEvent, IInv, TypeOK
    <3>2. PageTypeOK' /\ PageInv'
      BY <1>2, <2>3, HandleKeepsOver, PagesOfEventStep DEF HandleEvent, IInv, TypeOK
    <3>3. QED
      BY <3>1, <3>2 DEF IInv, TypeOK, PageTypeOK
  <2>4. ASSUME NEW w \in Workers, Live(w)
        PROVE  IInv'
    BY <1>2, <2>4, LiveStep
  <2>5. ASSUME NEW w \in Workers, Stop(w)
        PROVE  IInv'
    <3>1. FetchTypeOK' /\ EventInv'
      BY <1>2, <2>5, TerminateStep DEF Stop, IInv, TypeOK
    <3>2. \A e \in Events : step[e] \in Over => step'[e] \in Over
      BY <1>2, <2>5 DEF Stop, Terminate, Over
    <3>3. PageTypeOK' /\ PageInv'
      BY <1>2, <2>5, <3>2, PagesOfEventStep DEF Stop, IInv
    <3>4. QED
      BY <3>1, <3>3 DEF IInv, TypeOK, PageTypeOK
  <2>6. CASE UNCHANGED swVars
    <3>1. FetchTypeOK' /\ EventInv'
      BY <1>2, <2>6, SameEvents DEF swVars, IInv, TypeOK
    <3>2. PageTypeOK' /\ PageInv'
      BY <1>2, <2>6, PagesOfEventStep DEF swVars, fetchVars, IInv
    <3>3. QED
      BY <3>1, <3>2 DEF IInv, TypeOK, PageTypeOK
  <2>7. QED
    BY <1>2, <2>1, <2>2, <2>3, <2>4, <2>5, <2>6 DEF ServiceWorkerNext
<1>3. QED
  BY <1>1, <1>2

LEMMA Invariant == Spec => []IInv
BY Inductive, PTL DEF Spec

\* Every variable has its type, in particular a fetch event is answered with a
\* response and never with undefined.
THEOREM TypeCorrect == Spec => []TypeOK
<1>1. IInv => TypeOK
  BY DEF IInv
<1>2. QED
  BY <1>1, Invariant, PTL

\* The guard of service-worker.ts:84 never throws, however many events create
\* the verified fetch and whenever the browser stops a worker.
THEOREM GuardNeverThrows == Spec => []VerifiedFetchIsSet
<1>1. IInv => VerifiedFetchIsSet
  BY DEF IInv, EventInv
<1>2. QED
  BY <1>1, Invariant, PTL

\* In the trustless mode a plain gateway never serves an IPFS or IPNS record.
THEOREM TrustlessServing == Spec => []TrustlessIsVerified
<1>1. IInv => TrustlessIsVerified
  BY DEF IInv, EventInv
<1>2. QED
  BY <1>1, Invariant, PTL

\* No event is answered with a redirect, for chains of redirects of any length.
THEOREM RedirectLoopIsComplete == Spec => []RedirectsFollowed
<1>1. IInv => RedirectsFollowed
  BY DEF IInv, EventInv
<1>2. QED
  BY <1>1, Invariant, PTL

\* A reload reaches the worker unless another tab has removed it, for any
\* number of tabs.
THEOREM ReloadReachesWorker == Spec => []ReloadIsServed
<1>1. IInv => ReloadIsServed
  BY DEF IInv, PageInv
<1>2. QED
  BY <1>1, Invariant, PTL

-----------------------------------------------------------------------------
(* Pages do not wait in vain. *)

\* The registered worker is alive, and its activation is ahead of who waits for it.
ActivationAhead ==
  /\ registration \in Workers => state[registration] # "redundant"
  /\ \A t \in Tabs : page[t] = "waiting" /\ ~disturbed[t] => state[registration] # "activated"

\* Steps that leave alone what ActivationAhead is about, or end the wait of a page.
LEMMA AheadStays ==
  ASSUME ActivationAhead, UNCHANGED <<registration, state, disturbed>>,
         \A t \in Tabs : page'[t] = "waiting" => page[t] = "waiting"
  PROVE  ActivationAhead'
BY DEF ActivationAhead

LEMMA LoadKeepsAhead ==
  ASSUME IInv, ActivationAhead, NEW t \in Tabs, LoadThroughWorker(t) \/ LoadFromNetwork(t)
  PROVE  ActivationAhead'
BY DEF IInv, TypeOK, ActivationAhead, LoadThroughWorker, LoadFromNetwork, NewPage

LEMMA ScriptKeepsAhead ==
  ASSUME IInv, ActivationAhead, NEW t \in Tabs, Script(t)
  PROVE  ActivationAhead'
<1> USE NoWorkerIsNone DEF At, Step
<1>0. /\ page \in [Tabs -> Loading \cup Settled] /\ disturbed \in [Tabs -> BOOLEAN]
      /\ registration \in Workers \cup {NoWorker}
      /\ state \in [Workers -> {"installing", "installed", "activating", "activated", "redundant"}]
  BY DEF IInv, TypeOK
<1>1. CASE Reload(t)
  BY <1>1, LoadKeepsAhead DEF Reload, Load
<1>2. CASE ScriptStarts(t) \/ GetRegistrations(t) \/ PageResolves(t) \/ PageFails(t)
           \/ RegisterFails(t) \/ Ready(t)
  BY <1>0, <1>2, AheadStays DEF ScriptStarts, GetRegistrations, PageResolves, PageFails, RegisterFails, Ready
<1>3. CASE Unregister(t)
  <2>1. CASE registration = found[t]
    <3>1. registration' = NoWorker /\ disturbed' = [u \in Tabs |-> disturbed[u] \/ u \in Registered]
      BY <1>3, <2>1 DEF Unregister
    <3>2. \A u \in Tabs : page'[u] = "waiting" => u \in Registered
      BY <1>0, <1>3 DEF Unregister, Registered
    <3>3. QED
      BY <3>1, <3>2 DEF ActivationAhead
  <2>2. CASE registration # found[t]
    BY <1>0, <1>3, <2>2, AheadStays DEF Unregister
  <2>3. QED
    BY <2>1, <2>2
<1>4. CASE RegisterAgain(t)
  <2>1. registration \in Workers /\ UNCHANGED <<state, registration, disturbed>>
    BY <1>0, <1>4 DEF RegisterAgain
  <2>2. \A u \in Tabs \ {t} : page'[u] = page[u]
    BY <1>0, <1>4 DEF RegisterAgain, Awaits
  <2>3. page'[t] = "waiting" => state[registration] # "activated"
    BY <1>0, <1>4, <2>1 DEF RegisterAgain, Awaits, Active
  <2>4. QED
    BY <2>1, <2>2, <2>3 DEF ActivationAhead
<1>5. CASE RegisterNew(t)
  <2>1. PICK w \in Workers : registration' = w /\ state' = [state EXCEPT ![w] = "installing"]
    BY <1>5 DEF RegisterNew
  <2>2. state'[registration'] = "installing"
    BY <1>0, <2>1
  <2>3. QED
    BY <2>2 DEF ActivationAhead
<1>6. QED
  BY <1>1, <1>2, <1>3, <1>4, <1>5 DEF Script, Browses

LEMMA LiveKeepsAhead ==
  ASSUME IInv, ActivationAhead, NEW w \in Workers, Live(w)
  PROVE  ActivationAhead'
<1>0. /\ page \in [Tabs -> Loading \cup Settled] /\ WaitsForRegistered
      /\ state \in [Workers -> {"installing", "installed", "activating", "activated", "redundant"}]
  BY DEF IInv, TypeOK, PageInv
<1>1. CASE Installed(w) \/ Activates(w)
  <2>1. UNCHANGED <<page, registration, disturbed>>
    BY <1>1 DEF Installed, Activates
  <2>2. \A x \in Workers : state'[x] = state[x] \/ state'[x] \in {"installed", "activating"}
    BY <1>0, <1>1 DEF Installed, Activates
  <2>3. \A t \in Tabs : page[t] = "waiting" /\ ~disturbed[t] => registration \in Workers
    BY <1>0 DEF WaitsForRegistered
  <2>4. QED
    BY <2>1, <2>2, <2>3 DEF ActivationAhead
<1>2. CASE Dropped(w)
  BY <1>0, <1>2 DEF Dropped, Unneeded, Ended, ActivationAhead
<1>3. CASE Activated(w)
  <2>1. UNCHANGED <<registration, disturbed>> /\ state' = [state EXCEPT ![w] = "activated"]
    BY <1>3 DEF Activated
  <2>2. ASSUME NEW t \in Tabs, page'[t] = "waiting", ~disturbed[t]
        PROVE  registration # w /\ page[t] = "waiting"
    BY <1>0, <1>3, <2>2 DEF Activated, WaitsForRegistered
  <2>3. QED
    BY <1>0, <2>1, <2>2 DEF ActivationAhead
<1>4. QED
  BY <1>1, <1>2, <1>3 DEF Live

LEMMA AheadInductive ==
  /\ ServiceWorkerInit => ActivationAhead
  /\ IInv /\ ActivationAhead /\ [ServiceWorkerNext]_swVars => ActivationAhead'
<1>1. ServiceWorkerInit => ActivationAhead
  BY NoWorkerIsNone DEF ServiceWorkerInit, ActivationAhead
<1>2. ASSUME IInv, ActivationAhead, [ServiceWorkerNext]_swVars
      PROVE  ActivationAhead'
  <2>1. ASSUME NEW t \in Tabs, User(t)
        PROVE  ActivationAhead'
    <3>1. CASE Visit(t) \/ HardReload(t)
      BY <1>2, <3>1, LoadKeepsAhead DEF Visit, HardReload, Load
    <3>2. CASE Request(t)
      BY <1>2, <3>2, AheadStays DEF Request, pageVars
    <3>3. QED
      BY <2>1, <3>1, <3>2 DEF User
  <2>2. CASE \/ \E e \in Events : HandleEvent(e)
             \/ \E w \in Workers : Stop(w)
             \/ UNCHANGED swVars
    BY <1>2, <2>2, AheadStays DEF HandleEvent, Stop, swVars, pageVars
  <2>3. QED
    BY <1>2, <2>1, <2>2, ScriptKeepsAhead, LiveKeepsAhead DEF ServiceWorkerNext, RunScript
<1>3. QED
  BY <1>1, <1>2

\* Only a page whose worker another tab has unregistered waits in vain, for any
\* number of tabs and workers and any order of their steps.
THEOREM NobodyWaitsInVain == Spec => []HangsOnlyDisturbed
<1>1. ASSUME IInv, ActivationAhead, NEW t \in Tabs, Hangs(t)
      PROVE  disturbed[t]
  <2>1. WaitsForRegistered /\ ReloadIsServed
    BY <1>1 DEF IInv, PageInv
  <2>2. QED
    BY <1>1, <2>1, NoWorkerIsNone
       DEF Hangs, ActivationAhead, WaitsForRegistered, ReloadIsServed, RegisteredIn
<1>2. IInv /\ ActivationAhead => HangsOnlyDisturbed
  BY <1>1 DEF HangsOnlyDisturbed
<1>3. QED
  BY <1>2, Invariant, AheadInductive, PTL DEF Spec

-----------------------------------------------------------------------------
(* Every event comes nearer to its answer. That what it awaits can settle is *)
(* a hypothesis.                                                             *)

\* The distance is a natural number: it cannot shrink for ever.
Measured == \A e \in Events : Stage(e) \in Nat

LEMMA DistanceIsMeasured == TypeOK => Measured
<1>1. ASSUME TypeOK, NEW e \in Events
      PROVE  Stage(e) \in Nat
  <2>1. hops[e] \in 0 .. MaxHops
    BY <1>1 DEF TypeOK, FetchTypeOK
  <2>2. QED
    BY <2>1, MaxHopsIsNatural DEF Stage
<1>2. QED
  BY <1>1 DEF Measured

\* Its own steps take it nearer, but for the redirects that are not counted.
LEMMA HandleIsNearer ==
  ASSUME TypeOK, NEW e \in Events, Handle(e), hops[e] # MaxHops
  PROVE  step'[e] \in Over \/ Stage(e)' < Stage(e)
<1>1. /\ step \in [Events -> Pending \cup Over] /\ hops \in [Events -> 0 .. MaxHops]
      /\ MaxHops \in Nat
  BY MaxHopsIsNatural DEF TypeOK, FetchTypeOK
<1> USE DEF Calls
<1>2. CASE Reject(e)
  BY <1>1, <1>2 DEF Reject, Ends, Over
<1>3. ASSUME NEW r, Answer(e, r)
      PROVE  step'[e] \in Over
  BY <1>1, <1>3 DEF Answer, Ends, Over
<1>4. ASSUME NEW s \in Pending, Goto(e, s)
      PROVE  step'[e] = s /\ hops'[e] = hops[e]
  BY <1>1, <1>4 DEF Goto
<1>5. hops[e] \in 0 .. MaxHops
  BY <1>1
<1>6. CASE InitEnds(e)
  <2>1. CASE Goto(e, "creating") \/ Goto(e, "resolving") \/ Goto(e, "plain")
    <3>1. step[e] = "init" /\ step'[e] \in {"creating", "resolving", "plain"}
      BY <1>4, <1>6, <2>1 DEF InitEnds, Pending
    <3>2. QED
      BY <1>1, <3>1 DEF Stage
  <2>2. QED
    BY <1>2, <1>6, <2>1 DEF InitEnds, Route
<1>7. CASE Created(e)
  <2>1. step[e] = "creating" /\ step'[e] \in {"resolving", "plain"}
    BY <1>4, <1>7 DEF Created, Route, Pending
  <2>2. QED
    BY <1>1, <2>1 DEF Stage
<1>8. CASE NotEnsName(e)
  <2>1. step[e] = "resolving" /\ step'[e] = "plain"
    BY <1>4, <1>8 DEF NotEnsName, Pending
  <2>2. QED
    BY <1>1, <2>1 DEF Stage
<1>9. CASE Resolves(e)
  <2>1. CASE Goto(e, "first") \/ Goto(e, "gateway")
    <3>1. step[e] = "resolving" /\ step'[e] \in {"first", "gateway"} /\ hops'[e] = hops[e]
      BY <1>4, <1>9, <2>1 DEF Resolves, Pending
    <3>2. QED
      BY <1>1, <1>5, <3>1 DEF Stage
  <2>2. QED
    BY <1>2, <1>3, <1>9, <2>1 DEF Resolves, VerifiedStep, NotFound
<1>10. CASE FetchEnds(e)
  BY <1>2, <1>3, <1>10 DEF FetchEnds
<1>11. CASE VerifiedAnswers(e)
  <2>1. PICK r \in Response :
          IF NextCall(e, r) = "none"
            THEN Answer(e, ReplyOf(r))
            ELSE /\ step' = [step EXCEPT ![e] = NextCall(e, r)]
                 /\ hops' = [hops EXCEPT ![e] = IF @ < MaxHops THEN @ + 1 ELSE @]
    BY <1>11 DEF VerifiedAnswers
  <2>2. CASE NextCall(e, r) = "none"
    BY <1>3, <2>1, <2>2
  <2>3. CASE NextCall(e, r) # "none"
    <3>1. step[e] \in Calls /\ step'[e] \in Calls /\ hops'[e] = hops[e] + 1
      BY <1>1, <1>5, <1>11, <2>1, <2>3 DEF NextCall, VerifiedAnswers
    <3>2. QED
      BY <1>1, <1>5, <3>1 DEF Stage
  <2>4. QED
    BY <2>2, <2>3
<1>12. CASE NotCreated(e) \/ VerifiedFails(e)
  BY <1>2, <1>12 DEF NotCreated, VerifiedFails
<1>13. QED
  BY <1>6, <1>7, <1>8, <1>9, <1>10, <1>11, <1>12 DEF Handle, Proceeds

\* Every other step leaves it where it is, or ends it.
LEMMA OthersStay ==
  ASSUME IInv, [ServiceWorkerNext]_swVars, NEW e \in Events, step[e] \in Pending,
         ~HandleEvent(e)
  PROVE  step'[e] \in Over \/ (step'[e] = step[e] /\ hops'[e] = hops[e])
<1>1. /\ step \in [Events -> Pending \cup Over] /\ hops \in [Events -> 0 .. MaxHops]
      /\ step[e] \notin Over /\ LoaderIsIdle
  BY DEF IInv, TypeOK, FetchTypeOK, PageInv, Pending, Calls, Over
<1>2. ASSUME NEW t \in Tabs, step[t] \in Over, LoadThroughWorker(t) \/ LoadFromNetwork(t)
      PROVE  step'[e] = step[e] /\ hops'[e] = hops[e]
  BY <1>1, <1>2 DEF LoadThroughWorker, LoadFromNetwork, Dispatch
<1>3. ASSUME NEW t \in Tabs, User(t)
      PROVE  step'[e] = step[e] /\ hops'[e] = hops[e]
  <2>1. CASE Visit(t) \/ HardReload(t)
    BY <1>2, <2>1 DEF Visit, HardReload, Load
  <2>2. CASE Request(t)
    BY <1>1, <2>2 DEF Request, ShowsContent, Dispatch
  <2>3. QED
    BY <1>3, <2>1, <2>2 DEF User
<1>4. ASSUME NEW t \in Tabs, Script(t)
      PROVE  step'[e] = step[e] /\ hops'[e] = hops[e]
  <2>1. CASE Reload(t)
    <3>1. step[t] \in Over
      BY <1>1, <2>1 DEF Reload, LoaderIsIdle, Loading
    <3>2. QED
      BY <1>2, <2>1, <3>1 DEF Reload, Load
  <2>2. CASE ~Reload(t)
    BY <1>4, <2>2 DEF Script, Browses, ScriptStarts, GetRegistrations, Unregister, PageResolves, PageFails,
       RegisterAgain, RegisterNew, RegisterFails, Ready, fetchVars
  <2>3. QED
    BY <2>1, <2>2
<1>5. ASSUME NEW d \in Events \ {e}, Handle(d)
      PROVE  step'[e] = step[e] /\ hops'[e] = hops[e]
  BY <1>1, <1>5 DEF Handle, Proceeds, InitEnds, Created, NotCreated, NotEnsName, Resolves, FetchEnds,
     VerifiedAnswers, VerifiedFails, VerifiedStep, NotFound, Answer, Reject, Ends, Goto, Route
<1>6. CASE \E w \in Workers : Live(w)
  BY <1>6 DEF Live, Dropped, Installed, Activates, Activated, fetchVars
<1>7. CASE \E w \in Workers : Stop(w)
  BY <1>7 DEF Stop, Terminate, Over
<1>8. CASE UNCHANGED swVars
  BY <1>8 DEF swVars, fetchVars
<1>9. QED
  BY <1>3, <1>4, <1>5, <1>6, <1>7, <1>8 DEF ServiceWorkerNext, RunScript, HandleEvent

\* Wherever an event stands, it is over or comes nearer, in a distance that cannot
\* shrink for ever, unless its RPC never answers or MaxHops redirects were followed:
\* for any number of tabs and workers, and whatever number MaxHops is. An event that
\* is never over is one whose RPC never answers or whose redirects never end.
THEOREM EventsAdvance == FairSpec /\ []WaitsCanEnd => []Measured /\ EventsComeNearer
<1>1. ASSUME NEW e \in Events, NEW n \in Nat
      PROVE  FairSpec /\ []WaitsCanEnd =>
               (step[e] \in Pending /\ Stage(e) = n ~>
                  (step[e] \in Over \/ Stage(e) < n \/ hops[e] = MaxHops \/ [](step[e] = "init")))
  <2>1. IInv /\ [ServiceWorkerNext]_swVars /\ (step[e] \in Pending /\ Stage(e) = n) =>
          \/ (step[e] \in Pending /\ Stage(e) = n)' /\ (step[e] = "init" <=> (step[e] = "init")')
          \/ (step[e] \in Over \/ Stage(e) < n)' \/ hops[e] = MaxHops
    <3>1. ASSUME IInv, [ServiceWorkerNext]_swVars, step[e] \in Pending, Stage(e) = n, ~HandleEvent(e)
          PROVE  step'[e] \in Over \/ (step'[e] = step[e] /\ (step[e] \in Pending /\ Stage(e) = n)')
      BY <3>1, OthersStay DEF Stage
    <3>2. ASSUME IInv, Stage(e) = n, Handle(e), hops[e] # MaxHops
          PROVE  (step[e] \in Over \/ Stage(e) < n)'
      BY <3>2, HandleIsNearer DEF IInv
    <3>3. QED
      BY <3>1, <3>2 DEF HandleEvent
  <2>2. IInv /\ <<Proceeds(e) /\ UNCHANGED pageVars>>_swVars /\ (step[e] \in Pending /\ Stage(e) = n) =>
          (step[e] \in Over \/ Stage(e) < n)' \/ hops[e] = MaxHops
    BY HandleIsNearer DEF IInv, Handle
  <2>3. WaitsCanEnd /\ (step[e] \in Pending /\ Stage(e) = n) /\ ~(step[e] = "init") =>
          ENABLED <<Proceeds(e) /\ UNCHANGED pageVars>>_swVars
    BY DEF WaitsCanEnd
  <2>4. FairEvents => EventFair(e)
    BY DEF FairEvents
  <2>5. QED
    BY <2>1, <2>2, <2>3, <2>4, Invariant, PTL DEF FairSpec, Fairness, EventFair, Spec
<1>2. FairSpec /\ []WaitsCanEnd => EventsComeNearer
  BY <1>1 DEF EventsComeNearer
<1>3. QED
  BY <1>2, DistanceIsMeasured, TypeCorrect, PTL DEF FairSpec
=============================================================================
