------------------------------- MODULE Requests -------------------------------
(***************************************************************************)
(* How the server runs requests, for the components that have one module   *)
(* each and are checked together: net/http serves every request in a       *)
(* goroutine of its own (a worker), and each repository call is one SQL    *)
(* statement that commits by itself, so a request is a sequence of steps   *)
(* between which others run.                                               *)
(*                                                                         *)
(* A setting says how much can go wrong in a behaviour: how many requests  *)
(* run at a time, and whether statements fail and requests die.  It never  *)
(* changes; a property that needs a quieter server names the setting.      *)
(***************************************************************************)
EXTENDS Integers, FiniteSets

CONSTANTS
    Settings,  \* the settings behaviours start in
    Nothing    \* what an idle worker holds; NULL

ASSUME SettingsAssumption ==
    \A s \in Settings :
        IsFiniteSet(s.workers) /\ s.workers # {} /\ s.failures \in BOOLEAN

VARIABLES
    setting,  \* [workers, failures]
    pc,       \* the statement a worker runs next
    loc       \* what a worker has read and decided

requests == <<setting, pc, loc>>

RequestsInit ==
    /\ setting \in Settings
    /\ pc = [w \in setting.workers |-> "idle"]
    /\ loc = [w \in setting.workers |-> Nothing]

\* Settings in which less can go wrong.
Alone     == Cardinality(setting.workers) = 1
Unfailing == ~setting.failures
Calm      == Alone /\ Unfailing

Idle(w) == w \in setting.workers /\ pc[w] = "idle"
At(w, label) == w \in setting.workers /\ pc[w] = label

Quiet == \A w \in setting.workers : pc[w] = "idle"

\* The next statement is label, with l read and decided so far.
Hold(w, label, l) ==
    /\ pc' = [pc EXCEPT ![w] = label]
    /\ loc' = [loc EXCEPT ![w] = l]
    /\ UNCHANGED setting

Goto(w, label) == Hold(w, label, loc[w])

\* The goroutine returns; what it had read is gone.
Finish(w) == Hold(w, "idle", Nothing)

\* A request of a single statement leaves its worker idle.
AtOnce(w) == Idle(w) /\ UNCHANGED requests

\* A statement fails, or the client, or the process, goes away.
Abort(w) ==
    /\ w \in setting.workers
    /\ setting.failures
    /\ pc[w] # "idle"
    /\ Finish(w)
===============================================================================
