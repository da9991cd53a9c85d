------------------------------ MODULE Trackers ------------------------------
(***************************************************************************)
(* The announces of a torrent: torrent._announceToTracker with the         *)
(* recovery after an error, TrackerManager.announce (tracker.js), which    *)
(* goes through the trackers, and RetryManager.retry (retryManager.js)     *)
(* around both.  stop cancels the two retry managers, puts new ones in     *)
(* their places and announces "stopped" itself.                            *)
(*                                                                         *)
(* A call of _announceToTracker is a record; what it awaits is an answer   *)
(* ("ask"), the pause before a tracker is asked again ("inner") or before  *)
(* all are gone through again ("outer").  Any datagram ends the timer of a *)
(* request to a UDP tracker, one with a foreign transaction id too, which  *)
(* is then ignored: when nothing more comes, that call hangs for ever.  A  *)
(* call that hangs does nothing more, so it is no longer among the calls.  *)
(***************************************************************************)
EXTENDS Integers, FiniteSets, Sequences

CONSTANTS Tracker,
          Udp,                         \* the trackers that are asked over UDP
          InnerRetries, OuterRetries,  \* maxRetries of the two managers
          WarnAt, ErrorAt,  \* consecutive failures for WARNING and ERROR
          MaxCalls,   \* bound: calls in flight and recovery timers
          MaxStopped  \* bound: calls of stop, and no start after the last

ASSUME TrackersAssumption ==
  /\ IsFiniteSet(Tracker) /\ Tracker # {} /\ Udp \subseteq Tracker
  /\ InnerRetries \in Nat /\ OuterRetries \in Nat
  /\ WarnAt \in Nat \ {0} /\ ErrorAt \in Nat /\ WarnAt <= ErrorAt
  /\ MaxCalls \in Nat \ {0} /\ MaxStopped \in Nat

Id == 1..(MaxCalls + 1)

VARIABLES life,       \* "running", "stopping" or "stopped"
          calls,      \* number -> the call
          recoveries, \* 5 s timers of _executeRecoveryAction
          failed,     \* consecutiveFailures, up to ErrorAt
          stopsMade

trackerVars == <<life, calls, recoveries, failed, stopsMade>>

Call == [event : {"none", "stopped"}, at : {"ask", "inner", "outer"},
         todo : Seq(Tracker), inner : 0..InnerRetries, outer : 0..OuterRetries,
         cut : BOOLEAN,      \* the outer retry manager of the call is cancelled
         innerCut : BOOLEAN, \* the inner one of the tracker being asked is
         answered : BOOLEAN] \* a tracker has answered, without peers

TrackersInit ==
  /\ life = "stopped" /\ calls = [i \in {} |-> 0] /\ recoveries = 0
  /\ failed = [t \in Tracker |-> 0] /\ stopsMade = 0
-----------------------------------------------------------------------------
(* _getSortedTrackers: by state; the success rate decides among equals. *)
Grade(f) == IF f >= ErrorAt THEN 2 ELSE IF f >= WarnAt THEN 1 ELSE 0
Orders == {s \in [1..Cardinality(Tracker) -> Tracker] :
             /\ \A m, n \in DOMAIN s : s[m] = s[n] => m = n
             /\ \A m, n \in DOMAIN s : m < n => Grade(failed[s[m]]) <= Grade(failed[s[n]])}

Fresh(event, order) ==
  [event |-> event, at |-> "ask", todo |-> order, inner |-> 0, outer |-> 0,
   cut |-> FALSE, innerCut |-> FALSE, answered |-> FALSE]
WithCall(f, i, call) == [j \in DOMAIN f \union {i} |-> IF j = i THEN call ELSE f[j]]
WithoutCall(f, i) == [j \in DOMAIN f \ {i} |-> f[j]]
Retries(call, n) == IF call.event = "stopped" THEN 0 ELSE n

Announce(event, f) ==
  \E i \in {CHOOSE j \in Id \ DOMAIN f : TRUE}, order \in Orders :
    calls' = WithCall(f, i, Fresh(event, order))

(* The end of stop's own announce lets stop end. *)
LifeAfter(call) ==
  life' = IF call.event = "stopped" /\ life = "stopping" THEN "stopped" ELSE life

(* The catch of _announceToTracker: a call that was cancelled while the torrent stops
   is silent; else a timer is set, unless the torrent is stopped. *)
FailedAlways(i) ==                                               \* mutant
  /\ recoveries' = recoveries + 1 /\ recoveries < MaxCalls + 1
  /\ calls' = WithoutCall(calls, i) /\ LifeAfter(calls[i])
Failed(i) ==
  /\ recoveries' = IF life = "running" THEN recoveries + 1 ELSE recoveries
  /\ calls' = WithoutCall(calls, i) /\ LifeAfter(calls[i])

(* The next tracker, with the retry manager that is in place now.  After the last one
   an answer without peers is a result; else everything is tried again later, unless
   that was the last attempt or the manager is cancelled. *)
NextTracker(i, call) ==
  IF Len(call.todo) > 1
  THEN /\ calls' = [calls EXCEPT ![i] = [call EXCEPT !.todo = Tail(@), !.at = "ask",
                                          !.inner = 0, !.innerCut = FALSE]]
       /\ UNCHANGED <<life, recoveries>>
  ELSE IF call.answered
  THEN calls' = WithoutCall(calls, i) /\ LifeAfter(call) /\ UNCHANGED recoveries
  ELSE IF call.cut \/ call.outer >= Retries(call, OuterRetries)
  THEN Failed(i)
  ELSE calls' = [calls EXCEPT ![i] = [call EXCEPT !.at = "outer"]]
       /\ UNCHANGED <<life, recoveries>>

Asked(i) == i \in DOMAIN calls /\ calls[i].at = "ask"
TrackerAnswers(i, peers) ==
  /\ Asked(i)
  /\ failed' = [failed EXCEPT ![Head(calls[i].todo)] = 0]
  /\ IF peers
     THEN calls' = WithoutCall(calls, i) /\ LifeAfter(calls[i]) /\ UNCHANGED recoveries
     ELSE NextTracker(i, [calls[i] EXCEPT !.answered = TRUE])
  /\ UNCHANGED stopsMade

CountFailure(t) == failed' = [failed EXCEPT ![t] = IF @ < ErrorAt THEN @ + 1 ELSE @]

(* A tracker does not answer, or answers an error for which retrying is no use; a
   cancelled retry counts as a failure of the tracker too. *)
MayRetry(i) == ~calls[i].innerCut /\ calls[i].inner < Retries(calls[i], InnerRetries)
TrackerFails(i, retried) ==
  /\ Asked(i) /\ (retried => MayRetry(i))
  /\ IF retried
     THEN /\ calls' = [calls EXCEPT ![i].at = "inner"]
          /\ UNCHANGED <<life, recoveries, failed>>
     ELSE CountFailure(Head(calls[i].todo)) /\ NextTracker(i, calls[i])
  /\ UNCHANGED stopsMade

(* The message handler of a UDP announce: the timer is cleared before the transaction
   id is looked at.  This is the last datagram the call gets: it hangs, and stop with
   it when it is stop's own. *)
ForeignDatagram(i) ==
  /\ Asked(i) /\ Head(calls[i].todo) \in Udp
  /\ calls' = WithoutCall(calls, i)
  /\ UNCHANGED <<life, recoveries, failed, stopsMade>>

SleepEnds(i) ==
  /\ i \in DOMAIN calls /\ calls[i].at # "ask"
  /\ \/ /\ calls[i].at = "inner"
        /\ calls' = [calls EXCEPT ![i].at = "ask", ![i].inner = @ + 1]
     \/ /\ calls[i].at = "outer"
        /\ \E order \in Orders :
             calls' = [calls EXCEPT ![i] = [Fresh(@.event, order) EXCEPT
                                              !.outer = calls[i].outer + 1]]
  /\ UNCHANGED <<life, recoveries, failed, stopsMade>>
-----------------------------------------------------------------------------
Room == Cardinality(DOMAIN calls) + recoveries < MaxCalls

(* start announces; the interval of a running torrent does, whatever is in flight. *)
StartAnnounce ==
  /\ life = "stopped" /\ stopsMade < MaxStopped /\ Room
  /\ life' = "running" /\ Announce("none", calls)
  /\ UNCHANGED <<recoveries, failed, stopsMade>>
IntervalFires ==
  /\ life = "running" /\ Room
  /\ Announce("none", calls)
  /\ UNCHANGED <<life, recoveries, failed, stopsMade>>

(* The timer of _executeRecoveryAction: it looks at no state when it fires. *)
RecoveryFires ==
  /\ recoveries > 0
  /\ recoveries' = recoveries - 1
  /\ Announce("none", calls)
  /\ UNCHANGED <<life, failed, stopsMade>>

(* stop: both managers are cancelled.  Who sleeps before all trackers ends, who sleeps
   before one goes on with the next one and the new manager. *)
AfterCancel(call) ==
  IF call.at = "inner" /\ Len(call.todo) > 1
  THEN [call EXCEPT !.cut = TRUE, !.at = "ask", !.todo = Tail(@), !.inner = 0,
                    !.innerCut = FALSE]
  ELSE [call EXCEPT !.cut = TRUE, !.innerCut = TRUE]
Ends(call) == call.at = "outer" \/ (call.at = "inner" /\ Len(call.todo) = 1)
StopTorrent ==
  /\ life = "running" /\ stopsMade < MaxStopped
  /\ stopsMade' = stopsMade + 1 /\ life' = "stopping"
  /\ Announce("stopped", [i \in {j \in DOMAIN calls : ~Ends(calls[j])} |->
                            AfterCancel(calls[i])])
  /\ failed' = [t \in Tracker |->
       IF failed[t] < ErrorAt
          /\ \E i \in DOMAIN calls : calls[i].at = "inner" /\ Head(calls[i].todo) = t
       THEN failed[t] + 1 ELSE failed[t]]
  /\ UNCHANGED recoveries

TrackersNext ==
  \/ StartAnnounce \/ IntervalFires \/ RecoveryFires \/ StopTorrent
  \/ \E i \in Id : \/ SleepEnds(i) \/ ForeignDatagram(i)
                   \/ \E b \in BOOLEAN : TrackerAnswers(i, b) \/ TrackerFails(i, b)

(* A request to a tracker ends (it has a timeout) unless a foreign datagram was the last
   thing it heard, and timers fire. *)
CallGoesOn(i) == SleepEnds(i) \/ ForeignDatagram(i) \/ TrackerFails(i, MayRetry(i))
TrackersFairness ==
  /\ WF_trackerVars(RecoveryFires)
  /\ \A i \in Id : WF_trackerVars(CallGoesOn(i))

TrackersSpec == TrackersInit /\ [][TrackersNext]_trackerVars /\ TrackersFairness
-----------------------------------------------------------------------------
(* Type invariant. *)
TrackersTypeOK ==
  /\ life \in {"running", "stopping", "stopped"} /\ recoveries \in 0..(MaxCalls + 1)
  /\ DOMAIN calls \subseteq Id /\ \A i \in DOMAIN calls : calls[i] \in Call
  /\ failed \in [Tracker -> 0..ErrorAt] /\ stopsMade \in 0..MaxStopped

(* When a torrent is stopped its announces die out, although trackers may fail for
   ever, retries are nested, a cancelled call goes on with its next tracker and a
   recovery timer fires after the stop: in the end a torrent that does not run makes
   none, and none is about to be made. *)
AnnouncesEnd ==
  []<>(life = "running" \/ (DOMAIN calls = {} /\ recoveries = 0))
=============================================================================
