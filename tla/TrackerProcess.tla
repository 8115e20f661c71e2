--------------------------- MODULE TrackerProcess ---------------------------
(***************************************************************************)
(* The tracker node's lifecycle and scan callback, under its two hosts:    *)
(* the standalone driver of main.cpp, whose one thread runs callbacks and  *)
(* transitions in turn while a watcher waits for the stop flag; and a      *)
(* component container, whose threads overlap them.                        *)
(*                                                                         *)
(* A transition is a sequence of the steps other threads can see.  A       *)
(* callback may start on a scan taken before its subscription was dropped, *)
(* and holds the state mutex while it waits for a transform.  rclcpp is    *)
(* external: an executor that spins runs callbacks and requested           *)
(* transitions until cancel() clears its spinning flag, which the start of *)
(* a spin sets.                                                            *)
(***************************************************************************)
EXTENDS Naturals

VARIABLES
  composed,     \* which host
  state,        \* the node's primary state
  declared,     \* its parameters have been declared
  active,       \* active_
  sub, tf,      \* scan_sub_; tf_buffer_ and tf_listener_
  pub,          \* obstacle_pub_: "none", "idle", "on"
  tracker,      \* "none", "empty", "fed"
  mutex,        \* state_mutex_: "free", "scan"; transitions hold it for one step
  life,         \* what the transition in progress does next
  goal,         \* the state it leads to
  callback,     \* the callback: "none", "called", "lookup", "found"
  main,         \* main()'s thread
  watcher, stop, spinning

perception == <<sub, tf, pub, tracker>>
node == <<state, declared, active, perception, mutex, life, goal, callback>>
host == <<composed, main, watcher, stop, spinning>>
process_vars == <<node, host>>

ProcessInit ==
  /\ composed \in BOOLEAN
  /\ state = "unconfigured" /\ declared = FALSE /\ active = FALSE
  /\ sub = FALSE /\ tf = FALSE /\ pub = "none" /\ tracker = "none"
  /\ mutex = "free" /\ life = "none" /\ goal = "none" /\ callback = "none"
  /\ main = IF composed THEN "container" ELSE "configure"
  /\ watcher = "none" /\ stop = FALSE /\ spinning = composed

-----------------------------------------------------------------------------
(* Transitions.                                                            *)

\* The standalone driver's thread is in neither a callback nor a transition.
ThreadFree == life = "none" /\ (composed \/ callback = "none")

\* rclcpp's transition table.
From == [configure |-> {"unconfigured"}, activate |-> {"inactive"},
         deactivate |-> {"active"}, cleanup |-> {"inactive"},
         shutdown |-> {"unconfigured", "inactive", "active"}]

Begin(tr) ==
  /\ life = "none" /\ state \in From[tr]
  /\ life' = CASE tr = "configure" -> "declare" [] tr = "activate" -> "publisher_on"
               [] tr = "deactivate" -> "stop_scans" [] OTHER -> "stop_all"
  /\ goal' = CASE tr = "shutdown" -> "finalized" [] tr = "cleanup" -> "unconfigured"
               [] tr = "activate" -> "active" [] OTHER -> "inactive"
  /\ UNCHANGED <<state, declared, active, perception, mutex, callback>>

End(s) == life' = "none" /\ goal' = "none" /\ state' = s

\* on_configure(): a parameter out of range fails it, and so does declaring one that
\* an earlier attempt has declared.
Declare ==
  /\ life = "declare" /\ declared' = TRUE
  /\ \/ End("unconfigured") /\ UNCHANGED <<active, perception, mutex, callback>>
     \/ /\ ~declared
        /\ life' = "construct"
        /\ UNCHANGED <<state, goal, active, perception, mutex, callback>>

\* create_publisher() may throw, with the tracker made.
Construct ==
  /\ life = "construct" /\ mutex = "free"
  /\ tracker' = "empty"
  /\ \/ pub' = "idle" /\ End("inactive")
     \/ End("unconfigured") /\ UNCHANGED pub
  /\ UNCHANGED <<declared, active, sub, tf, mutex, callback>>

\* on_activate().
PublisherOn ==
  /\ life = "publisher_on" /\ pub' = "on" /\ life' = "restart"
  /\ UNCHANGED <<state, goal, declared, active, sub, tf, tracker, mutex, callback>>

Restarted == IF tracker = "none" THEN "none" ELSE "empty"

Restart ==
  /\ life = "restart" /\ mutex = "free"
  /\ tracker' = Restarted /\ tf' = TRUE /\ life' = "subscribe"
  /\ UNCHANGED <<state, goal, declared, active, sub, pub, mutex, callback>>

\* create_subscription() may throw, which fails the transition where it stands.
Subscribe ==
  /\ life = "subscribe"
  /\ \/ sub' = TRUE /\ life' = "go" /\ UNCHANGED <<state, goal>>
     \/ End("inactive") /\ UNCHANGED sub
  /\ UNCHANGED <<declared, active, tf, pub, tracker, mutex, callback>>

Go ==
  /\ life = "go" /\ active' = TRUE /\ life' = "activated"
  /\ UNCHANGED <<state, goal, declared, perception, mutex, callback>>

\* rclcpp changes the state once on_activate() has returned.
Activated ==
  /\ life = "activated" /\ End("active")
  /\ UNCHANGED <<declared, active, perception, mutex, callback>>

\* on_deactivate().
StopScans ==
  /\ life = "stop_scans" /\ active' = FALSE /\ sub' = FALSE /\ life' = "drop_tf"
  /\ UNCHANGED <<state, goal, declared, tf, pub, tracker, mutex, callback>>

\* Mutant: released without waiting for the callback.
MayRelease_Unlocked == TRUE

MayRelease == mutex = "free"

DropTf ==
  /\ life = "drop_tf" /\ MayRelease
  /\ tf' = FALSE /\ life' = "publisher_off"
  /\ UNCHANGED <<state, goal, declared, active, sub, pub, tracker, mutex, callback>>

\* Deactivating the publisher; a throw is an ERROR, which ends the node's life.
PublisherOff ==
  /\ life = "publisher_off"
  /\ \/ pub' = "idle" /\ End("inactive")
     \/ End("finalized") /\ UNCHANGED pub
  /\ UNCHANGED <<declared, active, sub, tf, tracker, mutex, callback>>

\* teardown().
StopAll ==
  /\ life = "stop_all" /\ active' = FALSE /\ sub' = FALSE /\ life' = "release"
  /\ UNCHANGED <<state, goal, declared, tf, pub, tracker, mutex, callback>>

Release ==
  /\ life = "release" /\ MayRelease
  /\ pub' = "none" /\ tf' = FALSE /\ tracker' = "none" /\ End(goal)
  /\ UNCHANGED <<declared, active, sub, mutex, callback>>

Transition ==
  /\ Declare \/ Construct \/ PublisherOn \/ Restart \/ Subscribe \/ Go
     \/ Activated \/ StopScans \/ DropTf \/ PublisherOff \/ StopAll \/ Release
  /\ UNCHANGED host

-----------------------------------------------------------------------------
(* scanCallback(), one at a time: its group is mutually exclusive.         *)

\* The executor takes a scan while the subscription exists.
TakeScan ==
  /\ spinning /\ sub /\ callback = "none" /\ (composed \/ (main = "spin" /\ life = "none"))
  /\ callback' = "called"
  /\ UNCHANGED <<state, declared, active, perception, mutex, life, goal, host>>

\* Mutant: the callback relies on the subscription alone.
MayScan_NoFlag == tracker # "none" /\ tf

MayScan == active /\ tracker # "none" /\ tf

\* The guards under the lock; an empty detection window skips the scan as well.
Enter ==
  /\ callback = "called" /\ mutex = "free"
  /\ \/ MayScan /\ callback' = "lookup" /\ mutex' = "scan"
     \/ callback' = "none" /\ UNCHANGED mutex
  /\ UNCHANGED <<state, declared, active, perception, life, goal, host>>

\* Mutant: the way out of a failed lookup keeps the mutex.
Lookup_Leaks ==
  /\ callback = "lookup"
  /\ \/ callback' = "found" /\ UNCHANGED mutex
     \/ callback' = "none" /\ UNCHANGED mutex
  /\ UNCHANGED <<state, declared, active, perception, life, goal, host>>

\* The transform arrives, or the wait for it times out and the scan is skipped.
Lookup ==
  /\ callback = "lookup"
  /\ \/ callback' = "found" /\ UNCHANGED mutex
     \/ callback' = "none" /\ mutex' = "free"
  /\ UNCHANGED <<state, declared, active, perception, life, goal, host>>

\* Update and publish.  A publish that throws ends the standalone spin.
Publish ==
  /\ callback = "found"
  /\ tracker' = "fed" /\ callback' = "none" /\ mutex' = "free"
  /\ \/ UNCHANGED <<main, spinning>>
     \/ ~composed /\ main' = "join" /\ spinning' = FALSE
  /\ UNCHANGED <<state, declared, active, sub, tf, pub, life, goal,
                 composed, watcher, stop>>

\* Requested transitions run on an executor that spins.
Request ==
  /\ spinning /\ (composed \/ (main = "spin" /\ ThreadFree))
  /\ \E tr \in DOMAIN From : Begin(tr)
  /\ UNCHANGED host

-----------------------------------------------------------------------------
(* main() of the standalone driver, and its watcher.                       *)

Signal == ~composed /\ main # "exit" /\ stop' = TRUE
          /\ UNCHANGED <<node, composed, main, watcher, spinning>>

To(m) == main' = m /\ UNCHANGED <<composed, watcher, stop, spinning>>

Configure == main = "configure" /\ Begin("configure") /\ To("configured")

Activate ==
  /\ main = "configured" /\ life = "none"
  /\ IF state = "inactive" /\ ~stop THEN Begin("activate") /\ To("activated")
     ELSE To("join") /\ UNCHANGED node

StartWatcher ==
  /\ main = "activated" /\ life = "none"
  /\ IF state = "active" /\ ~stop
     THEN main' = "start" /\ watcher' = "poll" /\ UNCHANGED <<composed, stop, spinning>>
     ELSE To("join")
  /\ UNCHANGED node

Spin ==
  /\ main = "start" /\ main' = "spin" /\ spinning' = TRUE
  /\ UNCHANGED <<node, composed, watcher, stop>>

SpinEnds == main = "spin" /\ ~spinning /\ ThreadFree /\ To("join") /\ UNCHANGED node

\* The flag is raised to release the watcher.
Join ==
  /\ main = "join" /\ main' = "wait" /\ stop' = TRUE
  /\ UNCHANGED <<node, composed, watcher, spinning>>

Joined == main = "wait" /\ watcher \in {"none", "done"} /\ To("finalize") /\ UNCHANGED node

\* finalize(): every step looks at the state the one before left.
Deactivate ==
  /\ main = "finalize" /\ To("cleanup")
  /\ IF state = "active" THEN Begin("deactivate") ELSE UNCHANGED node

Cleanup ==
  /\ main = "cleanup" /\ life = "none" /\ To("shutdown")
  /\ IF state = "inactive" THEN Begin("cleanup") ELSE UNCHANGED node

MayShutdown == state \in From["shutdown"]

Shutdown ==
  /\ main = "shutdown" /\ life = "none" /\ To("destroy")
  /\ IF MayShutdown THEN Begin("shutdown") ELSE UNCHANGED node

Exit == main = "destroy" /\ life = "none" /\ To("exit") /\ UNCHANGED node

Main == Configure \/ Activate \/ StartWatcher \/ Spin \/ SpinEnds \/ Join \/ Joined
        \/ Deactivate \/ Cleanup \/ Shutdown \/ Exit

Poll ==
  /\ watcher = "poll" /\ stop /\ watcher' = "guard"
  /\ UNCHANGED <<node, composed, main, stop, spinning>>

\* Mutant: cancelled whether it spins or not.
MayCancel_AtOnce == TRUE

\* The watcher waits up to a second for the spin.  It is assumed to have started by
\* then; the wait runs out only when the spin is over.
MayCancel == spinning \/ main # "start"

Cancel ==
  /\ watcher = "guard" /\ MayCancel
  /\ watcher' = "done" /\ spinning' = FALSE
  /\ UNCHANGED <<node, composed, main, stop>>

Callback == Enter \/ Lookup \/ Publish
Watcher  == Poll \/ Cancel

ProcessNext == Transition \/ TakeScan \/ Callback \/ Request \/ Signal \/ Main \/ Watcher

\* Threads run; scans, requests and signals may never come.
ProcessSpec == /\ ProcessInit /\ [][ProcessNext]_process_vars
        /\ WF_process_vars(Transition) /\ WF_process_vars(Callback)
        /\ WF_process_vars(Main) /\ WF_process_vars(Watcher)

-----------------------------------------------------------------------------
(* Properties.                                                             *)

TypeOK ==
  /\ composed \in BOOLEAN /\ state \in {"unconfigured", "inactive", "active", "finalized"}
  /\ {declared, active, sub, tf, stop, spinning} \subseteq BOOLEAN
  /\ pub \in {"none", "idle", "on"} /\ tracker \in {"none", "empty", "fed"}
  /\ mutex = IF callback \in {"lookup", "found"} THEN "scan" ELSE "free"
  /\ main = "container" <=> composed

\* A callback that got past its guards has its transform buffer, its tracker and an
\* activated publisher until it ends, whatever transition runs beside it.
UsesWhatExists ==
  callback \in {"lookup", "found"} => tf /\ tracker # "none" /\ pub = "on"

\* A scan is worked on in an active node, or in one whose activation has nothing left
\* to do: not while an activation still builds what the callback uses, not after one
\* that failed, and not, on a scan taken before a deactivation, in a node that has been
\* deactivated, cleaned up or shut down since.
OutputOnlyWhileActive ==
  callback \in {"lookup", "found"} => state = "active" \/ life = "activated"

\* When the flag goes up the tracker knows nothing: no scan has fed it since its reset,
\* a callback left from before the activation included.
FreshStart == [][active' /\ ~active => tracker' = "empty"]_process_vars

\* A process that exits has finalized its node, with no callback and no transition
\* left, wherever it was stopped.
FinalizedAtExit ==
  main = "exit" => state = "finalized" /\ life = "none" /\ callback = "none"

\* A transition waits for one callback at most, and ends.
TransitionsEnd == life # "none" ~> life = "none"

\* A stop ends the standalone process, whenever it comes and whatever is in progress.
StopEndsProcess == stop ~> main = "exit"

=============================================================================
