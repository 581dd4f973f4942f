---------------------------- MODULE GatewaySelector ----------------------------
(***************************************************************************)
(* GatewaySelector: which gateway each group of domains goes through.      *)
(*                                                                         *)
(* Every start of the VPN makes a selector, which loads the saved choice,  *)
(* and every stop closes it.  Its scheduler thread refreshes the choice:   *)
(* it submits probes, waits for one future after the other, replaces the   *)
(* gateways that failed, saves the choice and reports it.  close () comes  *)
(* from another thread at any moment and interrupts the scheduler thread   *)
(* up to twice; an interrupt makes the next future that is not done yet    *)
(* count as failed.                                                        *)
(*                                                                         *)
(* A key <<g, a>> stands for all probes of gateway a for the check domains *)
(* of group g: it passes if each of them does.                             *)
(***************************************************************************)
EXTENDS Naturals, Sequences, Functions

CONSTANTS
    Groups,        \* GatewayGroup
    Addresses,     \* gateway addresses
    None,          \* a preference that is not set
    Candidates,    \* per group: the list of its candidates
    Default,       \* per group: its default address
    Selectors,     \* the selectors that are made, one after the other
    Overlap,       \* a selector may be made while an older one's refresh goes on
    MaxRefreshes,  \* bound: refreshes of one selector
    MaxCrashes     \* bound: deaths of the process

ASSUME SelectorAssumption ==
    /\ Candidates \in [Groups -> Seq(Addresses)]
    /\ \A g \in Groups : IsInjective(Candidates[g])
    /\ Default \in [Groups -> Addresses]
    /\ \A g \in Groups : Default[g] \in Range(Candidates[g])
    /\ None \notin Addresses
    /\ Overlap \in BOOLEAN
    /\ MaxRefreshes \in Nat /\ MaxCrashes \in Nat

VARIABLES
    prefs,      \* the preferences "gateways" in memory
    disk,       \* ... and what of them has been written
    shown,      \* the choice whose summary TunnelStateStore was given last
    selected,   \* per selector: the choice
    closing,    \* per selector: not made yet, open, or how far close () is
    started,    \* the selectors whose refreshes are scheduled
    pc,         \* per selector: where its scheduler thread is in refresh ()
    interrupt,  \* per selector: the scheduler thread's interrupt flag
    todo,       \* per selector: the keys whose futures are still to be asked
    passed,     \* per selector: the keys that passed, as the code has it
    answers,    \* per selector: the keys whose probes do pass in this refresh
    refreshes,  \* per selector: refreshes so far
    crashes     \* process deaths so far

storeVars == <<prefs, disk, shown>>
threadVars == <<pc, todo, passed, answers, refreshes>>
vars == <<storeVars, selected, closing, started, threadVars, interrupt, crashes>>

CandidateSet(g) == Range(Candidates[g])
Keys == {key \in Groups \X Addresses : key[2] \in CandidateSet(key[1])}
Selections == {choice \in [Groups -> Addresses] : \A g \in Groups : choice[g] \in CandidateSet(g)}

TypeOK ==
    /\ prefs \in [Groups -> Addresses \cup {None}]
    /\ disk \in [Groups -> Addresses \cup {None}]
    /\ shown \in Selections
    /\ selected \in [Selectors -> Selections]
    /\ closing \in [Selectors -> {"unmade", "open", "cancel", "shutdown", "done"}]
    /\ started \in SUBSET Selectors
    /\ pc \in [Selectors -> {"idle", "auth", "current", "alternatives", "persist", "report"}]
    /\ interrupt \in [Selectors -> BOOLEAN]
    /\ todo \in [Selectors -> SUBSET Keys]
    /\ passed \in [Selectors -> SUBSET Keys]
    /\ answers \in [Selectors -> SUBSET Keys]
    /\ refreshes \in [Selectors -> 0 .. MaxRefreshes]
    /\ crashes \in 0 .. MaxCrashes

(* What an earlier run of the app, or an earlier version with other        *)
(* candidates, may have saved.                                             *)
Init ==
    /\ prefs \in [Groups -> Addresses \cup {None}]
    /\ disk = prefs
    /\ shown = Default
    /\ selected = [s \in Selectors |-> Default]
    /\ closing = [s \in Selectors |-> "unmade"]
    /\ started = {}
    /\ pc = [s \in Selectors |-> "idle"]
    /\ interrupt = [s \in Selectors |-> FALSE]
    /\ todo = [s \in Selectors |-> {}]
    /\ passed = [s \in Selectors |-> {}]
    /\ answers = [s \in Selectors |-> {}]
    /\ refreshes = [s \in Selectors |-> 0]
    /\ crashes = 0

-----------------------------------------------------------------------------
(* The service's side *)

(* Mutant of Loaded: whatever was saved is taken. *)
LoadedUnchecked(saved) ==
    [g \in Groups |-> IF saved[g] # None THEN saved[g] ELSE Default[g]]

(* loadSavedGateways: a saved address that is no candidate is ignored. *)
Loaded(saved) ==
    [g \in Groups |-> IF saved[g] \in CandidateSet(g) THEN saved[g] ELSE Default[g]]

(* The constructor; startTunnel makes one only after the last is closed. *)
Made(s) ==
    /\ closing[s] = "unmade"
    /\ \A r \in Selectors : closing[r] \in {"unmade", "done"} /\ (Overlap \/ pc[r] = "idle")
    /\ closing' = [closing EXCEPT ![s] = "open"]
    /\ selected' = [selected EXCEPT ![s] = Loaded(prefs)]
    /\ UNCHANGED <<storeVars, started, threadVars, interrupt, crashes>>

(* The state becomes On (selector.summary ()), then selector.start ().     *)
Starts(s) ==
    /\ closing[s] = "open" /\ s \notin started
    /\ started' = started \cup {s}
    /\ shown' = selected[s]
    /\ UNCHANGED <<prefs, disk, selected, closing, threadVars, interrupt, crashes>>

(* close (): closed.compareAndSet, *)
CloseMarks(s) ==
    /\ closing[s] = "open"
    /\ closing' = [closing EXCEPT ![s] = "cancel"]
    /\ UNCHANGED <<storeVars, selected, started, threadVars, interrupt, crashes>>

(* periodicTask?.cancel (true), and then scheduler.shutdownNow (): each    *)
(* interrupts the scheduler thread if it is at work.                       *)
CloseInterrupts(s) ==
    /\ closing[s] \in {"cancel", "shutdown"}
    /\ closing' = [closing EXCEPT ![s] = IF @ = "cancel" THEN "shutdown" ELSE "done"]
    /\ interrupt' = [interrupt EXCEPT ![s] = @ \/ pc[s] # "idle"]
    /\ UNCHANGED <<storeVars, selected, started, threadVars, crashes>>

-----------------------------------------------------------------------------
(* The scheduler thread: refreshSafely and refresh *)

(* refreshSafely looks at closed, and refresh submits the DNS queries.     *)
(* Whatever the gateways answer in this refresh is drawn here.             *)
RefreshBegins(s) ==
    /\ s \in started /\ pc[s] = "idle" /\ closing[s] = "open"
    /\ refreshes[s] < MaxRefreshes
    /\ refreshes' = [refreshes EXCEPT ![s] = @ + 1]
    /\ pc' = [pc EXCEPT ![s] = "auth"]
    /\ \E passing \in SUBSET Keys : answers' = [answers EXCEPT ![s] = passing]
    /\ UNCHANGED <<storeVars, selected, closing, started, todo, passed, interrupt, crashes>>

(* authorizeSmartDns: a query whose future is not done yet is given up at  *)
(* an interrupt, and the flag is gone.                                     *)
AuthorizationInterrupted(s) ==
    /\ pc[s] = "auth" /\ interrupt[s]
    /\ interrupt' = [interrupt EXCEPT ![s] = FALSE]
    /\ UNCHANGED <<storeVars, selected, closing, started, threadVars, crashes>>

CurrentKeys(s) == {<<g, selected[s][g]>> : g \in Groups}

(* The current gateways' probes are submitted: the first probeMatrix. *)
CurrentSubmitted(s) ==
    /\ pc[s] = "auth"
    /\ pc' = [pc EXCEPT ![s] = "current"]
    /\ todo' = [todo EXCEPT ![s] = CurrentKeys(s)]
    /\ UNCHANGED <<storeVars, selected, closing, started, passed, answers, refreshes, interrupt, crashes>>

(* future.get () for the probes of one key.  The code asks in the order of *)
(* the lists; nothing depends on it, and the model takes any.              *)
ProbeCollected(s) ==
    \E key \in todo[s] :
        /\ todo' = [todo EXCEPT ![s] = @ \ {key}]
        /\ passed' = [passed EXCEPT ![s] = @ \cup ({key} \cap answers[s])]
        /\ UNCHANGED <<storeVars, selected, closing, started, pc, answers, refreshes, interrupt, crashes>>

(* Mutant of ProbeInterrupted: getOrDefault (true). *)
ProbeInterruptedPasses(s) ==
    \E key \in todo[s] :
        /\ interrupt[s]
        /\ interrupt' = [interrupt EXCEPT ![s] = FALSE]
        /\ todo' = [todo EXCEPT ![s] = @ \ {key}]
        /\ passed' = [passed EXCEPT ![s] = @ \cup {key}]
        /\ UNCHANGED <<storeVars, selected, closing, started, pc, answers, refreshes, crashes>>

(* ... which throws if the thread is interrupted before the future is      *)
(* done: getOrDefault (false), whatever the gateway would have answered.   *)
ProbeInterrupted(s) ==
    \E key \in todo[s] :
        /\ interrupt[s]
        /\ interrupt' = [interrupt EXCEPT ![s] = FALSE]
        /\ todo' = [todo EXCEPT ![s] = @ \ {key}]
        /\ UNCHANGED <<storeVars, selected, closing, started, pc, passed, answers, refreshes, crashes>>

(* The second probeMatrix: all other candidates of the groups that failed. *)
AlternativesSubmitted(s) ==
    /\ pc[s] = "current" /\ todo[s] = {}
    /\ pc' = [pc EXCEPT ![s] = "alternatives"]
    /\ todo' = [todo EXCEPT ![s] =
                   {key \in Keys \ CurrentKeys(s) :
                       <<key[1], selected[s][key[1]]>> \notin passed[s]}]
    /\ UNCHANGED <<storeVars, selected, closing, started, passed, answers, refreshes, interrupt, crashes>>

(* Mutant of IsFirst: the probe that happened to end first wins. *)
IsAny(g, a, passing) == a \in CandidateSet(g) /\ <<g, a>> \in passing

(* candidates.firstOrNull: the first of the list that passed. *)
IsFirst(g, a, passing) ==
    \E n \in DOMAIN Candidates[g] :
        /\ a = Candidates[g][n] /\ <<g, a>> \in passing
        /\ \A m \in 1 .. n - 1 : <<g, Candidates[g][m]>> \notin passing

(* The gateway that replaces the current one, if any: the current one if   *)
(* it passed, or else the first that did, or else it is kept.              *)
Replaces(g, current, a, passing) ==
    \/ <<g, current>> \in passing /\ a = current
    \/ <<g, current>> \notin passing /\ IsFirst(g, a, passing)
    \/ a = current /\ \A b \in CandidateSet(g) : <<g, b>> \notin passing

(* selected.set (immutableUpdated), closed or not *)
Selects(s) ==
    /\ pc[s] = "alternatives" /\ todo[s] = {}
    /\ pc' = [pc EXCEPT ![s] = "persist"]
    /\ \E choice \in Selections :
          /\ \A g \in Groups : Replaces(g, selected[s][g], choice[g], passed[s])
          /\ selected' = [selected EXCEPT ![s] = choice]
    /\ UNCHANGED <<storeVars, closing, started, todo, passed, answers, refreshes, interrupt, crashes>>

(* Mutant of Persists: a default need not be saved. *)
PersistsNonDefault(s) ==
    /\ pc[s] = "persist"
    /\ prefs' = [g \in Groups |-> IF selected[s][g] # Default[g] THEN selected[s][g] ELSE prefs[g]]
    /\ pc' = [pc EXCEPT ![s] = "report"]
    /\ UNCHANGED <<disk, shown, selected, closing, started, todo, passed, answers, refreshes, interrupt, crashes>>

(* persist: edited in memory, written later *)
Persists(s) ==
    /\ pc[s] = "persist"
    /\ prefs' = selected[s]
    /\ pc' = [pc EXCEPT ![s] = "report"]
    /\ UNCHANGED <<disk, shown, selected, closing, started, todo, passed, answers, refreshes, interrupt, crashes>>

(* onSelectionUpdated, unless closed; the task ends. *)
Reports(s) ==
    /\ pc[s] = "report"
    /\ shown' = IF closing[s] = "open" THEN selected[s] ELSE shown
    /\ pc' = [pc EXCEPT ![s] = "idle"]
    /\ passed' = [passed EXCEPT ![s] = {}]
    /\ answers' = [answers EXCEPT ![s] = {}]
    /\ interrupt' = [interrupt EXCEPT ![s] = FALSE]
    /\ UNCHANGED <<prefs, disk, selected, closing, started, todo, refreshes, crashes>>

RefreshSteps(s) ==
    \/ AuthorizationInterrupted(s) \/ CurrentSubmitted(s)
    \/ ProbeCollected(s) \/ ProbeInterrupted(s)
    \/ AlternativesSubmitted(s) \/ Selects(s) \/ Persists(s) \/ Reports(s)

-----------------------------------------------------------------------------
(* Android's side (external) *)

(* apply () writes the preferences some time later. *)
Flushes ==
    /\ disk # prefs
    /\ disk' = prefs
    /\ UNCHANGED <<prefs, shown, selected, closing, started, threadVars, interrupt, crashes>>

(* The process dies with its selectors; preferences that were not written  *)
(* are lost.                                                               *)
ProcessDies ==
    /\ crashes < MaxCrashes
    /\ crashes' = crashes + 1
    /\ prefs' = disk
    /\ closing' = [s \in Selectors |-> IF closing[s] = "unmade" THEN "unmade" ELSE "done"]
    /\ started' = {}
    /\ pc' = [s \in Selectors |-> "idle"]
    /\ interrupt' = [s \in Selectors |-> FALSE]
    /\ todo' = [s \in Selectors |-> {}]
    /\ passed' = [s \in Selectors |-> {}]
    /\ answers' = [s \in Selectors |-> {}]
    /\ UNCHANGED <<disk, shown, selected, refreshes>>

Next ==
    \/ \E s \in Selectors :
          \/ Made(s) \/ Starts(s) \/ CloseMarks(s) \/ CloseInterrupts(s)
          \/ RefreshBegins(s) \/ RefreshSteps(s)
    \/ Flushes \/ ProcessDies

Spec == Init /\ [][Next]_vars

-----------------------------------------------------------------------------
(* Properties *)

(* What a refresh owes: a gateway that passes is kept; a replacement       *)
(* passes, and no candidate before it in the list does; a gateway that     *)
(* fails is kept only if every candidate fails.                            *)
IsRight(g, old, new, passing) ==
    /\ <<g, old>> \in passing => new = old
    /\ new # old => /\ <<g, new>> \in passing
                    /\ \A n \in DOMAIN Candidates[g] : Candidates[g][n] = new =>
                         \A m \in 1 .. n - 1 : <<g, Candidates[g][m]>> \notin passing
    /\ <<g, old>> \notin passing /\ new = old =>
          \A a \in CandidateSet(g) : <<g, a>> \notin passing

(* The step that replaces the choice does what the whole refresh owes,     *)
(* over all its waits, as long as the selector has not been closed.        *)
RefreshIsRight ==
    [][\A s \in Selectors, g \in Groups :
         pc[s] = "alternatives" /\ pc'[s] = "persist" /\ closing[s] = "open" =>
            IsRight(g, selected[s][g], selected'[s][g], answers[s])]_vars

(* Closed or not, interrupted or not, no gateway is chosen whose probes    *)
(* did not pass in this refresh.                                           *)
OnlyPassingChosen ==
    [][\A s \in Selectors, g \in Groups :
         pc[s] = "alternatives" /\ selected'[s][g] # selected[s][g] =>
            <<g, selected'[s][g]>> \in answers[s]]_vars

(* A gateway that passes is not replaced, close () or no close ().         *)
WorkingIsKept ==
    [][\A s \in Selectors, g \in Groups :
         pc[s] = "alternatives" /\ selected'[s][g] # selected[s][g] =>
            <<g, selected[s][g]>> \notin answers[s]]_vars

(* The open selector's choice is what the next one will load: over closes  *)
(* in the middle of a refresh, process deaths and stale preferences.       *)
SavedIsUsed ==
    \A s \in Selectors :
        closing[s] = "open" /\ pc[s] # "persist" => selected[s] = Loaded(prefs)

(* The addresses shown are those that connections are sent to. *)
ShownIsUsed ==
    \A s \in started :
        closing[s] = "open" /\ pc[s] \notin {"persist", "report"} => shown = selected[s]

-----------------------------------------------------------------------------
(* The inductive invariant *)

UnmadeIsQuiet == \A s \in Selectors : closing[s] = "unmade" => pc[s] = "idle" /\ s \notin started

OneOpen == \A r, s \in Selectors : closing[r] = "open" /\ closing[s] = "open" => r = s

QuietBetweenRefreshes ==
    \A s \in Selectors :
        /\ pc[s] \notin {"current", "alternatives"} => todo[s] = {}
        /\ pc[s] \in {"idle", "auth"} => passed[s] = {}

OnlyClosedInterrupted == \A s \in Selectors : interrupt[s] => closing[s] \notin {"unmade", "open"}

PassedDoPass == \A s \in Selectors : passed[s] \subseteq answers[s]

(* An open selector's results are exact, for every key asked so far that   *)
(* matters: the current gateways', then those of the groups that failed.   *)
Settled(s, key) == key \in todo[s] \/ (key \in passed[s] <=> key \in answers[s])

CollectedIsExact ==
    \A s \in Selectors : closing[s] = "open" =>
        /\ pc[s] = "current" =>
              todo[s] \subseteq CurrentKeys(s) /\ \A key \in CurrentKeys(s) : Settled(s, key)
        /\ pc[s] = "alternatives" =>
              /\ todo[s] \cap CurrentKeys(s) = {}
              /\ \A key \in Keys :
                    <<key[1], selected[s][key[1]]>> \notin passed[s] => Settled(s, key)

(* Without overlap nobody but the open selector saves a choice. *)
AloneUnlessOverlap ==
    ~Overlap => \A r, s \in Selectors : closing[s] = "open" /\ r # s => pc[r] = "idle"

SelectorInv ==
    /\ TypeOK /\ UnmadeIsQuiet /\ OneOpen /\ QuietBetweenRefreshes
    /\ OnlyClosedInterrupted /\ PassedDoPass /\ CollectedIsExact /\ AloneUnlessOverlap

=============================================================================
