------------------------------ MODULE EngineSpec ------------------------------
(***************************************************************************)
(* What the service may rely on of the tunnel engine behind                *)
(* TProxyStartService and TProxyStopService: one engine at most, each call *)
(* taking effect in one instant between its call and its return.  The      *)
(* engine may also end by itself; nobody is told.                          *)
(***************************************************************************)
CONSTANT Threads

VARIABLES
    phase,   \* "idle", "live", or "over": ended and not yet collected
    call     \* what each thread is in: a call, or a result it has to return

specVars == <<phase, call>>

Calls == {"start", "stop"}
Results == {"startTrue", "startFalse", "stopTrue"}

Init == phase = "idle" /\ call = [t \in Threads |-> "none"]

Invoke(t) ==
    /\ call[t] = "none"
    /\ \E c \in Calls : call' = [call EXCEPT ![t] = c]
    /\ UNCHANGED phase

Result(t, c, r) == call[t] = c /\ call' = [call EXCEPT ![t] = r]

(* A start that finds a live engine is refused; one that runs out of       *)
(* memory or threads is refused too, with nothing running.                 *)
Refuse(t) == Result(t, "start", "startFalse") /\ phase # "over" /\ UNCHANGED phase

Start(t) == Result(t, "start", "startTrue") /\ phase = "idle" /\ phase' = "live"

(* A start first collects the engine that ended. *)
Collect(t) == call[t] = "start" /\ phase = "over" /\ phase' = "idle" /\ UNCHANGED call

(* A stop returns only with nothing live. *)
Stop(t) == Result(t, "stop", "stopTrue") /\ phase # "live" /\ phase' = "idle"

Return(t) ==
    /\ call[t] \in Results
    /\ call' = [call EXCEPT ![t] = "none"]
    /\ UNCHANGED phase

End == phase = "live" /\ phase' = "over" /\ UNCHANGED call

Next ==
    \/ End
    \/ \E t \in Threads :
          Invoke(t) \/ Refuse(t) \/ Start(t) \/ Collect(t) \/ Stop(t) \/ Return(t)

Spec == Init /\ [][Next]_specVars

=============================================================================
