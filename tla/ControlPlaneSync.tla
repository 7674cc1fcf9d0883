--------------------------- MODULE ControlPlaneSync ---------------------------
(***************************************************************************)
(* wrapEventSubscriberWithControlPlaneSync over a subscription of the      *)
(* event store: each event the subscriber was told of waits in             *)
(* pendingEvents until one of the cycles that a timer starts has pushed it *)
(* to the control plane.  The warnings a failed cycle gives the subscriber *)
(* are left out.  Callbacks do not throw.                                  *)
(***************************************************************************)
EXTENDS EventSubscription

CONSTANT MaxTroubles    \* bound: requests that fail, policies that deny

ASSUME SyncAssumption == MaxTroubles \in Nat

VARIABLES
    cycle,      \* runSyncCycle: "none", or the request it awaits
    pending,    \* pendingEvents
    batch,      \* the events of the push under way
    accepted,   \* what the control plane has taken
    doubled,    \* history: a push was taken and its answer lost
    troubles    \* how many requests failed or were denied

syncVars == <<cycle, pending, batch, accepted, doubled, troubles>>

vars == <<subVars, syncVars>>

-----------------------------------------------------------------------------
\* The wrapped callback: the subscriber's, then the queue.
TellAndKeep ==
    /\ Tell
    /\ pending' = Append(pending, Head(chunk))
    /\ UNCHANGED <<cycle, batch, accepted, doubled, troubles>>

\* The interval; a cycle that is in flight keeps others out.
Tick ==
    /\ ~disposed /\ cycle = "none"
    /\ cycle' = "policies"
    /\ UNCHANGED <<subVars, pending, batch, accepted, doubled, troubles>>

PoliciesAllow ==
    /\ cycle = "policies"
    /\ cycle' = "heartbeat"
    /\ UNCHANGED <<subVars, pending, batch, accepted, doubled, troubles>>

Trouble == troubles < MaxTroubles /\ troubles' = troubles + 1

\* Mutation of CycleFails: the flag that a cycle is in flight stays set.
CycleFailsInFlight ==
    /\ cycle \in {"policies", "heartbeat"}
    /\ Trouble
    /\ cycle' = "stuck"
    /\ UNCHANGED <<subVars, pending, batch, accepted, doubled>>

\* The policies or the heartbeat fail; or the policies deny, and the cycle ends after
\* its heartbeat.
CycleFails ==
    /\ cycle \in {"policies", "heartbeat"}
    /\ Trouble
    /\ cycle' = "none"
    /\ UNCHANGED <<subVars, pending, batch, accepted, doubled>>

\* Mutation of Heartbeat: the queue is copied.
HeartbeatCopies ==
    /\ cycle = "heartbeat"
    /\ cycle' = IF pending = <<>> THEN "none" ELSE "push"
    /\ batch' = pending
    /\ UNCHANGED <<subVars, pending, accepted, doubled, troubles>>

\* The whole queue is taken for the push, if there is anything in it.
Heartbeat ==
    /\ cycle = "heartbeat"
    /\ cycle' = IF pending = <<>> THEN "none" ELSE "push"
    /\ batch' = pending /\ pending' = <<>>
    /\ UNCHANGED <<subVars, accepted, doubled, troubles>>

Push ==
    /\ cycle = "push"
    /\ cycle' = "none"
    /\ accepted' = accepted \o batch /\ batch' = <<>>
    /\ UNCHANGED <<subVars, pending, doubled, troubles>>

\* Mutation of Requeue: the batch comes after what was told meanwhile.
RequeueLast == pending' = pending \o batch /\ batch' = <<>>

Requeue == pending' = batch \o pending /\ batch' = <<>>

PushFails ==
    /\ cycle = "push"
    /\ Trouble
    /\ cycle' = "none"
    /\ Requeue
    /\ UNCHANGED <<subVars, accepted, doubled>>

PushUnanswered ==
    /\ cycle = "push"
    /\ Trouble
    /\ cycle' = "none"
    /\ accepted' = accepted \o batch /\ doubled' = TRUE
    /\ Requeue
    /\ UNCHANGED subVars

-----------------------------------------------------------------------------
Init ==
    /\ SubInit
    /\ cycle = "none" /\ pending = <<>> /\ batch = <<>> /\ accepted = <<>>
    /\ doubled = FALSE /\ troubles = 0

Trip == PoliciesAllow \/ Heartbeat \/ Push

Next ==
    \/ SubStep /\ UNCHANGED syncVars
    \/ TellAndKeep
    \/ Tick \/ Trip \/ CycleFails \/ PushFails \/ PushUnanswered

Spec == Init /\ [][Next]_vars

\* The watcher speaks, timers fire, reads, callbacks and requests come to an end.
FairSpec ==
    /\ Spec
    /\ WF_vars(Notify /\ UNCHANGED syncVars)
    /\ WF_vars(Measure /\ UNCHANGED syncVars)
    /\ WF_vars(Fire /\ UNCHANGED syncVars)
    /\ WF_vars((Begin \/ ReadTail \/ PassAgain \/ Rest) /\ UNCHANGED syncVars)
    /\ WF_vars(TellAndKeep)
    /\ WF_vars(Tick)
    /\ WF_vars(Trip)

-----------------------------------------------------------------------------
TypeOK ==
    /\ SubTypeOK
    /\ cycle \in {"none", "policies", "heartbeat", "push"}
    /\ pending \in Seq(Events) /\ batch \in Seq(Events) /\ accepted \in Seq(Events)
    /\ (batch # <<>>) = (cycle = "push")
    /\ doubled \in BOOLEAN /\ troubles \in 0 .. MaxTroubles

Forwarded == accepted \o batch \o pending

\* Until a push is taken and its answer lost, each event the subscriber was told of is
\* at the control plane, in the push under way or in the queue, once and in order,
\* whatever arrives while a push is under way and is put back when it fails.
ForwardedOnce == ~doubled => Forwarded = told

\* Lost answers included: what is forwarded is what the subscriber was told of, no less and
\* no more, and nothing comes to the control plane before all earlier events have.
ForwardedInOrder ==
    /\ Range(Forwarded) = Range(told)
    /\ \A i \in DOMAIN Forwarded : \A e \in Range(told) :
          e < Forwarded[i] => \E k \in 1 .. i : Forwarded[k] = e

\* Every event the subscriber was told of comes to the control plane, unless the
\* subscription is disposed of first: what is in the queue then is dropped.
EveryEventIsForwarded ==
    \A e \in Events : e \in Range(told) ~> (e \in Range(accepted) \/ disposed)
=============================================================================
