-------------------------- MODULE SourceExclusion --------------------------
(***************************************************************************)
(* What the coordinator promises about each source, without leases, tokens, *)
(* ids or a condition variable: readers share a source, a Writer has it     *)
(* alone, a draining source admits nobody new, and the version moves only   *)
(* when a Writer reports the end of its update.                             *)
(***************************************************************************)
EXTENDS Naturals

CONSTANT Paths

VARIABLES
  readers,    \* readers of each source, the leaked ones included
  phase,      \* where the Writer of each source is
  version     \* the generation of each source

vars == <<readers, phase, version>>

Phase == {"open", "draining", "writing", "unclosed"}

TypeOK ==
  /\ readers \in [Paths -> Nat]
  /\ phase \in [Paths -> Phase]
  /\ version \in [Paths -> Nat]

Init ==
  /\ readers = [p \in Paths |-> 0]
  /\ phase = [p \in Paths |-> "open"]
  /\ version = [p \in Paths |-> 0]

Enter(p) ==
  /\ phase[p] = "open"
  /\ readers' = [readers EXCEPT ![p] = @ + 1]
  /\ UNCHANGED <<phase, version>>

Leave(p) ==
  /\ readers[p] > 0
  /\ readers' = [readers EXCEPT ![p] = @ - 1]
  /\ UNCHANGED <<phase, version>>

\* A Writer announces itself, or withdraws before it has opened anything.
Announce(p) ==
  /\ phase[p] = "open"
  /\ phase' = [phase EXCEPT ![p] = "draining"]
  /\ UNCHANGED <<readers, version>>

Withdraw(p) ==
  /\ phase[p] = "draining"
  /\ phase' = [phase EXCEPT ![p] = "open"]
  /\ UNCHANGED <<readers, version>>

StartUpdate(p) ==
  /\ phase[p] = "draining"
  /\ readers[p] = 0
  /\ phase' = [phase EXCEPT ![p] = "writing"]
  /\ UNCHANGED <<readers, version>>

\* The end of the update is reported: the data has a new version, and the
\* source opens if the Writer's Dataset is known to be closed.
ReportClosed(p) ==
  /\ phase[p] = "writing"
  /\ phase' = [phase EXCEPT ![p] = "open"]
  /\ version' = [version EXCEPT ![p] = @ + 1]
  /\ UNCHANGED readers

ReportNotClosed(p) ==
  /\ phase[p] = "writing"
  /\ phase' = [phase EXCEPT ![p] = "unclosed"]
  /\ version' = [version EXCEPT ![p] = @ + 1]
  /\ UNCHANGED readers

Recover(p) ==
  /\ phase[p] = "unclosed"
  /\ phase' = [phase EXCEPT ![p] = "open"]
  /\ UNCHANGED <<readers, version>>

Next ==
  \E p \in Paths :
    \/ Enter(p) \/ Leave(p)
    \/ Announce(p) \/ Withdraw(p) \/ StartUpdate(p)
    \/ ReportClosed(p) \/ ReportNotClosed(p) \/ Recover(p)

Spec == Init /\ [][Next]_vars
=============================================================================
