----------------------------- MODULE Supervision -----------------------------
(***************************************************************************)
(* What the cluster supervisor promises, without processes, channels or    *)
(* signals: while it is up every worker that exits is replaced at once, as *)
(* long as fewer than Budget workers have exited within any Window; the    *)
(* exit that spends the budget ends the primary; a primary that is         *)
(* stopping replaces nobody.                                               *)
(***************************************************************************)
EXTENDS Integers, Sequences

CONSTANTS
  Strength,  \* workers the supervisor keeps
  Budget,    \* exits within the window that end the primary
  Window     \* length of the sliding window, in ticks

VARIABLES
  mode,    \* "up", "stopping", "exit0", "exit1"
  members, \* number of workers whose exit the supervisor has not seen
  recent   \* ages of the exits seen within the window, the oldest first

supervisionVars == <<mode, members, recent>>

SInit ==
  /\ mode = "up"
  /\ members = Strength
  /\ recent = <<>>

\* A worker exits and another takes its place.
Replace ==
  /\ mode = "up"
  /\ Len(recent) + 1 < Budget
  /\ recent' = Append(recent, 0)
  /\ UNCHANGED <<mode, members>>

\* The exit that spends the budget.
GiveUp ==
  /\ mode = "up"
  /\ Len(recent) + 1 = Budget
  /\ mode' = "exit1"
  /\ recent' = Append(recent, 0)
  /\ members' = members - 1

Stop ==
  /\ mode = "up"
  /\ mode' = "stopping"
  /\ UNCHANGED <<members, recent>>

\* A worker of a stopping supervisor exits.
Lose ==
  /\ mode = "stopping"
  /\ members > 0
  /\ members' = members - 1
  /\ UNCHANGED <<mode, recent>>

Leave ==
  /\ mode = "stopping"
  /\ mode' = "exit0"
  /\ UNCHANGED <<members, recent>>

\* A tick passes; the exits that get too old fall out of the window.
Age ==
  /\ mode \in {"up", "stopping"}
  /\ \E old \in 0 .. Len(recent) :
       /\ \A i \in 1 .. old : recent[i] >= Window
       /\ \A i \in old + 1 .. Len(recent) : recent[i] < Window
       /\ recent' = [i \in 1 .. Len(recent) - old |-> recent[old + i] + 1]
  /\ UNCHANGED <<mode, members>>

SNext == Replace \/ GiveUp \/ Stop \/ Lose \/ Leave \/ Age

SSpec == SInit /\ [][SNext]_supervisionVars
=============================================================================
