------------------------------ MODULE Memoize ------------------------------
(***************************************************************************)
(* What a call of memoize promises its caller, without Redis, the memory   *)
(* cache or time-outs: it is served a value of a bounded age or fails with *)
(* its resolver, which it calls at most twice, or three times when a call  *)
(* was rejected. The other modules see no more of the cache than this.     *)
(***************************************************************************)
EXTENDS Naturals

CONSTANTS
  Request,  \* the calls
  MaxAge    \* the oldest value a call is served

VARIABLES
  state,    \* "idle", "busy", "served", "failed"
  age,      \* of the value served
  tries,    \* how often the call has called its resolver
  refused   \* whether the resolver rejected one of these

memoizeVars == <<state, age, tries, refused>>

MaxTries(wasRefused) == IF wasRefused THEN 3 ELSE 2

MInit ==
  /\ state = [r \in Request |-> "idle"]
  /\ age = [r \in Request |-> 0]
  /\ tries = [r \in Request |-> 0]
  /\ refused = [r \in Request |-> FALSE]

\* A call begins, and may be served from memory at once.
Call(r) ==
  /\ state[r] # "busy"
  /\ \/ state' = [state EXCEPT ![r] = "busy"] /\ age' = [age EXCEPT ![r] = 0]
     \/ state' = [state EXCEPT ![r] = "served"] /\ \E a \in 0 .. MaxAge : age' = [age EXCEPT ![r] = a]
  /\ tries' = [tries EXCEPT ![r] = 0]
  /\ refused' = [refused EXCEPT ![r] = FALSE]

\* It calls its resolver, for the first time or because something went wrong.
Resolve(r) ==
  /\ state[r] = "busy"
  /\ \E now \in {refused[r], TRUE} :
       /\ tries[r] < MaxTries(now)
       /\ refused' = [refused EXCEPT ![r] = now]
  /\ tries' = [tries EXCEPT ![r] = @ + 1]
  /\ UNCHANGED <<state, age>>

Serve(r) ==
  /\ state[r] = "busy"
  /\ state' = [state EXCEPT ![r] = "served"]
  /\ \E a \in 0 .. MaxAge : age' = [age EXCEPT ![r] = a]
  /\ UNCHANGED <<tries, refused>>

\* It fails with the rejection of its last attempt, never for another reason.
Fail(r) ==
  /\ state[r] = "busy"
  /\ tries[r] > 0
  /\ state' = [state EXCEPT ![r] = "failed"]
  /\ refused' = [refused EXCEPT ![r] = TRUE]
  /\ UNCHANGED <<age, tries>>

MNext == \E r \in Request : Call(r) \/ Resolve(r) \/ Serve(r) \/ Fail(r)

MSpec == MInit /\ [][MNext]_memoizeVars
=============================================================================
