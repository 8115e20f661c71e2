---------------------------- MODULE ObstacleFeed ----------------------------
(***************************************************************************)
(* Tracked obstacles on their way into the QP: the subscription and its    *)
(* callback on the node executor, the fill on the control thread, and the  *)
(* lifecycle and task transitions that drop cached perception.  Each       *)
(* region locked by obstacles_mutex_ is one step.                          *)
(*                                                                         *)
(* A message is abstracted to its age and to the number of its tracks that *)
(* pass the fill's filters (well formed, not too wide, moving); which of   *)
(* them get a slot is left open.                                           *)
(***************************************************************************)
EXTENDS SlotCapacity, Sequences

CONSTANTS
  Timeout,       \* obstacle_timeout_
  Ahead, Delay,  \* a message arrives stamped up to Ahead in the future, Delay ago
  MaxMovers,     \* most usable tracks of a message
  MaxElapsed,    \* longest time from a cycle's stamp to its fill
  Depth          \* KeepLast depth of the subscription

ASSUME MoversAssumption == MaxMovers \in Nat
ASSUME TimeAssumption == {Timeout, Ahead, Delay, MaxElapsed} \subseteq Nat
ASSUME DepthAssumption == Depth \in Nat \ {0}

\* Ages are kept up to Old, at which a message is stale for any cycle.
Old      == Timeout + MaxElapsed + Delay + 1
\* A message's past: published since the last deactivation, queued at it, or had by
\* the callback before it.
Pasts    == {"new", "queued", "held"}
Messages == [age : (-Ahead)..Old, movers : 0..MaxMovers, past : Pasts]
Nothing  == [age |-> Old, movers |-> -1, past |-> "none"]

VARIABLES
  lifecycle,   \* of the controller server and the plugin
  predict,     \* predict_obstacles_; the subscription exists with it
  queue,       \* received by the middleware, not yet by the callback
  latest,      \* latest_obstacles_
  task,        \* the server runs a task
  cycle,       \* where the control thread is
  elapsed,     \* since the cycle's stamp
  snapshot,    \* the fill's own reference to the message
  predicted,   \* predicted_obstacles_: how many, and whether this task's
  filled       \* how the last fill ended

executor == <<lifecycle, predict, queue, latest>>
control  == <<task, cycle, elapsed, snapshot, predicted, filled>>
vars     == <<executor, control>>

None == [n |-> 0, own |-> TRUE]
Subscribed == predict /\ lifecycle # "unconfigured"

Init ==
  /\ lifecycle = "unconfigured" /\ predict = FALSE
  /\ queue = <<>> /\ latest = Nothing
  /\ task = FALSE /\ cycle = "idle" /\ elapsed = 0
  /\ snapshot = Nothing /\ predicted = None /\ filled = "none"

-----------------------------------------------------------------------------
(* The tracker and the executor. *)

\* The tracker publishes; a full queue drops its oldest message.
Publish ==
  /\ Subscribed
  /\ \E age \in (-Ahead)..Delay, movers \in 0..MaxMovers :
       LET message == [age |-> age, movers |-> movers, past |-> "new"]
           kept == IF Len(queue) = Depth THEN Tail(queue) ELSE queue
       IN  queue' = Append(kept, message)
  /\ UNCHANGED <<lifecycle, predict, latest, control>>

\* obstacleCallback(), in every lifecycle state with a subscription.
ObstacleCallback ==
  /\ queue # <<>>
  /\ latest' = Head(queue) /\ queue' = Tail(queue)
  /\ UNCHANGED <<lifecycle, predict, control>>

Configure ==
  /\ lifecycle = "unconfigured"
  /\ lifecycle' = "inactive" /\ predict' \in BOOLEAN
  /\ UNCHANGED <<queue, latest, control>>

Activate ==
  /\ lifecycle = "inactive"
  /\ lifecycle' = "active"
  /\ UNCHANGED <<predict, queue, latest, control>>

\* What deactivate() leaves of the cached message.
Remaining == Nothing

Past(message, tag) == IF message = Nothing THEN message ELSE [message EXCEPT !.past = tag]

\* The server has joined the control thread before it deactivates the plugin.  The
\* subscription, and what it has queued, stays.
Deactivate ==
  /\ lifecycle = "active" /\ cycle = "idle"
  /\ lifecycle' = "inactive" /\ task' = FALSE
  /\ latest' = Past(Remaining, "held") /\ predicted' = None
  /\ queue' = [i \in DOMAIN queue |-> Past(queue[i], "queued")]
  /\ UNCHANGED <<predict, cycle, elapsed, snapshot, filled>>

Cleanup ==
  /\ lifecycle = "inactive"
  /\ lifecycle' = "unconfigured" /\ queue' = <<>>
  /\ latest' = Nothing /\ predicted' = None
  /\ UNCHANGED <<predict, task, cycle, elapsed, snapshot, filled>>

-----------------------------------------------------------------------------
(* The control thread. *)

StartTask ==
  /\ lifecycle = "active" /\ ~task
  /\ task' = TRUE
  /\ predicted' = [predicted EXCEPT !.own = (@ /\ predicted.n = 0)]
  /\ UNCHANGED <<executor, cycle, elapsed, snapshot, filled>>

\* Mutant: reset() leaves the last cycle's predictions in place.
ForgetPredictions_Kept == UNCHANGED predicted

\* reset() drops what the last cycle drew.
ForgetPredictions == predicted' = None

EndTask ==
  /\ task /\ cycle = "idle"
  /\ task' = FALSE /\ ForgetPredictions
  /\ UNCHANGED <<executor, cycle, elapsed, snapshot, filled>>

\* The cycle's stamp, which the fill takes a message's age at.
BeginCycle ==
  /\ task /\ cycle = "idle"
  /\ cycle' = "stamped" /\ elapsed' = 0 /\ filled' = "none"
  /\ UNCHANGED <<executor, task, snapshot, predicted>>

\* A brake or an exception before the fill.
EarlyExit ==
  /\ cycle = "stamped"
  /\ cycle' = "idle"
  /\ UNCHANGED <<executor, task, elapsed, snapshot, predicted, filled>>

\* Top of the fill, after the yield has read the predictions.
ClearPredictions ==
  /\ cycle = "stamped"
  /\ cycle' = "cleared" /\ predicted' = None
  /\ UNCHANGED <<executor, task, elapsed, snapshot, filled>>

TakeSnapshot ==
  /\ cycle = "cleared"
  /\ cycle' = "snapped"
  /\ snapshot' = IF predict THEN latest ELSE Nothing
  /\ UNCHANGED <<executor, task, elapsed, predicted, filled>>

\* Age at the cycle's stamp.
AgeAtStamp(message) == message.age - elapsed

\* Mutant: the age has no upper bound.
Fresh_NoTimeout(message) == AgeAtStamp(message) >= 0

Fresh(message) == AgeAtStamp(message) \in 0..Timeout

Usable(message) == message # Nothing /\ Fresh(message)

FillPredictive ==
  /\ cycle = "snapped" /\ Usable(snapshot)
  /\ predicted' = [n |-> Selected(snapshot.movers), own |-> TRUE]
  /\ filled' = "predictive" /\ cycle' = "solve"
  /\ UNCHANGED <<executor, task, elapsed, snapshot>>

\* The message's frame has no transform: costmap-only, for this cycle.
FillWithoutTransform ==
  /\ cycle = "snapped" /\ Usable(snapshot)
  /\ filled' = "no_transform" /\ cycle' = "solve"
  /\ UNCHANGED <<executor, task, elapsed, snapshot, predicted>>

FillCostmap ==
  /\ cycle = "snapped" /\ ~Usable(snapshot)
  /\ filled' = "costmap" /\ cycle' = "solve"
  /\ UNCHANGED <<executor, task, elapsed, snapshot, predicted>>

\* The solve and everything after it, which read the predictions at most.
EndCycle ==
  /\ cycle = "solve"
  /\ cycle' = "idle" /\ snapshot' = Nothing
  /\ UNCHANGED <<executor, task, elapsed, predicted, filled>>

-----------------------------------------------------------------------------
Aged(message) ==
  IF message.age = Old THEN message ELSE [message EXCEPT !.age = @ + 1]

\* Time passes, for a cycle up to MaxElapsed between its stamp and its fill.
Tick ==
  /\ elapsed < MaxElapsed \/ cycle \in {"idle", "solve"}
  /\ elapsed' = Minimum(MaxElapsed, elapsed + 1)
  /\ queue' = [i \in DOMAIN queue |-> Aged(queue[i])]
  /\ latest' = Aged(latest) /\ snapshot' = Aged(snapshot)
  /\ UNCHANGED <<lifecycle, predict, task, cycle, predicted, filled>>

Cycle ==
  \/ BeginCycle \/ EarlyExit \/ ClearPredictions \/ TakeSnapshot
  \/ FillPredictive \/ FillWithoutTransform \/ FillCostmap \/ EndCycle

Next ==
  \/ Publish \/ ObstacleCallback \/ Configure \/ Activate \/ Deactivate \/ Cleanup
  \/ StartTask \/ EndTask \/ Cycle \/ Tick

Spec == Init /\ [][Next]_vars

\* The executor spins, a task's cycles run, and time passes.
Fairness == WF_vars(ObstacleCallback) /\ WF_vars(Cycle) /\ WF_vars(Tick)
FairSpec == Spec /\ Fairness

-----------------------------------------------------------------------------
(* Properties. *)

TypeOK ==
  /\ lifecycle \in {"unconfigured", "inactive", "active"} /\ predict \in BOOLEAN
  /\ queue \in Seq(Messages) /\ Len(queue) <= Depth
  /\ {latest, snapshot} \subseteq Messages \cup {Nothing}
  /\ task \in BOOLEAN
  /\ cycle \in {"idle", "stamped", "cleared", "snapped", "solve"}
  /\ elapsed \in 0..MaxElapsed
  /\ predicted \in [n : 0..K, own : BOOLEAN]
  /\ MaxDynamic >= 0 => predicted.n <= MaxDynamic
  /\ filled \in {"none", "costmap", "predictive", "no_transform"}

\* A re-activated controller acts on nothing its callback had before the last
\* deactivation; what was queued at it may still be delivered, but not once a message
\* published since has been; and the predictions a cycle's yield reads were made by a
\* cycle of its own task.
CurrentPerception ==
  /\ latest.past # "held" /\ snapshot.past # "held"
  /\ latest.past = "new" => \A i \in DOMAIN queue : queue[i].past = "new"
  /\ cycle = "stamped" => predicted.own

\* A tracker that falls silent is forgotten: once nothing is received any more, the
\* cycles that reach their fill leave no prediction to yield to or to constrain by.
SilentTrackerForgotten ==
  <>[](queue = <<>>) /\ []<>(cycle = "solve") => <>[](predicted.n = 0)
=============================================================================
