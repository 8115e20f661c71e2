---------------------------- MODULE TrackerProofs ----------------------------
(***************************************************************************)
(* Proofs about the obstacle tracker.  TrackerProcess: the node's safety   *)
(* in both hosts.  ObjectTracker and Clustering: for any sweep, gates,     *)
(* counts and limits, scans are cut into whole objects and tracks are      *)
(* matched, confirmed, dropped and started as the tracker promises.        *)
(***************************************************************************)
EXTENDS TrackerProcess, ObjectTracker, TLAPS, FiniteSetTheorems, SequenceTheorems

-----------------------------------------------------------------------------
(* The process.  The invariant says what the node holds at each point of a *)
(* transition, and which of main()'s steps one may be in progress at.      *)

Lives == {"none", "declare", "construct", "publisher_on", "restart", "subscribe", "go",
          "activated", "stop_scans", "drop_tf", "publisher_off", "stop_all", "release"}
States == {"unconfigured", "inactive", "active", "finalized"}
Mains  == {"container", "configure", "configured", "activated", "start", "spin", "join",
           "wait", "finalize", "cleanup", "shutdown", "destroy", "exit"}

\* The control states.
ControlOK ==
  /\ life \in Lives /\ main \in Mains
  /\ goal \in States \cup {"none"}
  /\ callback \in {"none", "called", "lookup", "found"}
  /\ watcher \in {"none", "poll", "guard", "done"}

\* Where a transition stands: the state it started from, and what it has done.
LifeInv ==
  /\ life = "none" => goal = "none"
  /\ life \in {"declare", "construct"} => state = "unconfigured" /\ goal = "inactive"
  /\ life \in {"publisher_on", "restart", "subscribe", "go", "activated"} =>
       state = "inactive" /\ goal = "active"
  /\ life \in {"stop_scans", "drop_tf", "publisher_off"} =>
       state = "active" /\ goal = "inactive"
  /\ life \in {"stop_all", "release"} => goal \in {"unconfigured", "finalized"}
  /\ life = "stop_all" => state # "finalized"

\* What a node holds while its flag is up, and while a callback works.
HoldsInv ==
  /\ active => /\ tf /\ tracker # "none" /\ pub = "on"
               /\ \/ state = "active" /\ life \in {"none", "stop_scans", "stop_all"}
                  \/ life = "activated"
  /\ life = "activated" => active
  /\ life \in {"restart", "subscribe", "go"} => pub = "on"
  /\ life \in {"subscribe", "go"} => tf /\ tracker = "empty"
  /\ state \in {"inactive", "active"} => tracker # "none"
  /\ callback \in {"lookup", "found"} =>
       /\ tf /\ tracker # "none" /\ pub = "on"
       /\ \/ /\ state = "active"
             /\ life \in {"none", "stop_scans", "drop_tf", "stop_all", "release"}
          \/ life = "activated"

\* The standalone thread does one thing at a time, and leaves nothing in progress
\* where main() goes on.
MainInv ==
  ~composed =>
    /\ callback # "none" => main = "spin" /\ life = "none"
    /\ main \in {"configure", "start", "join", "wait", "finalize", "exit"} => life = "none"
    /\ main = "destroy" => \/ life = "none" /\ state = "finalized"
                           \/ life \in {"stop_all", "release"} /\ goal = "finalized"
    /\ main = "exit" => state = "finalized"

ProcessInv == TypeOK /\ ControlOK /\ LifeInv /\ HoldsInv /\ MainInv

-----------------------------------------------------------------------------
(* The invariant is established and preserved.                             *)

LEMMA ProcessInitInv == ProcessInit => ProcessInv
BY DEF ProcessInit, ProcessInv, TypeOK, ControlOK, LifeInv, HoldsInv, MainInv, Lives, States,
       Mains

\* A step of a transition.
LEMMA TransitionInv == ProcessInv /\ Transition => ProcessInv'
<1> SUFFICES ASSUME ProcessInv, Transition PROVE ProcessInv'
  OBVIOUS
<1> USE DEF ProcessInv, TypeOK, ControlOK, LifeInv, HoldsInv, MainInv, Lives, States, Mains,
            host, perception, End
<1>1. CASE Declare BY <1>1 DEF Declare, Transition
<1>2. CASE Construct BY <1>2 DEF Construct, Transition
<1>3. CASE PublisherOn BY <1>3 DEF PublisherOn, Transition
<1>4. CASE Restart BY <1>4 DEF Restart, Transition, Restarted
<1>5. CASE Subscribe BY <1>5 DEF Subscribe, Transition
<1>6. CASE Go BY <1>6 DEF Go, Transition
<1>12. CASE Activated BY <1>12 DEF Activated, Transition
<1>7. CASE StopScans BY <1>7 DEF StopScans, Transition
<1>8. CASE DropTf BY <1>8 DEF DropTf, Transition, MayRelease
<1>9. CASE PublisherOff BY <1>9 DEF PublisherOff, Transition
<1>10. CASE StopAll
  <2>1. /\ active' = FALSE /\ sub' = FALSE
        /\ UNCHANGED <<composed, state, declared, tf, pub, tracker, mutex, callback, main,
                       stop, spinning>>
    BY <1>10 DEF StopAll, Transition
  <2>2. TypeOK'
    <3> HIDE DEF ProcessInv, ControlOK, LifeInv, HoldsInv, MainInv
    <3>1. TypeOK BY DEF ProcessInv
    <3> QED BY <3>1, <2>1
  <2>3. ControlOK' BY <1>10 DEF StopAll, Transition
  <2>4. LifeInv' BY <1>10 DEF StopAll, Transition
  <2>5. HoldsInv' BY <1>10 DEF StopAll, Transition
  <2>6. MainInv' BY <1>10 DEF StopAll, Transition
  <2> QED BY <2>2, <2>3, <2>4, <2>5, <2>6
<1>11. CASE Release BY <1>11 DEF Release, Transition, MayRelease
<1> QED BY <1>1, <1>2, <1>3, <1>4, <1>5, <1>6, <1>7, <1>8, <1>9, <1>10, <1>11,
       <1>12 DEF Transition

\* A step of the scan callback.
LEMMA CallbackInv == ProcessInv /\ (TakeScan \/ Callback) => ProcessInv'
<1> SUFFICES ASSUME ProcessInv, TakeScan \/ Callback PROVE ProcessInv'
  OBVIOUS
<1> USE DEF ProcessInv, TypeOK, ControlOK, LifeInv, HoldsInv, MainInv, Lives, States, Mains,
            host, perception
<1>1. CASE TakeScan BY <1>1 DEF TakeScan
<1>2. CASE Enter BY <1>2 DEF Enter, MayScan
<1>3. CASE Lookup BY <1>3 DEF Lookup
<1>4. CASE Publish BY <1>4 DEF Publish
<1> QED BY <1>1, <1>2, <1>3, <1>4 DEF Callback

\* A transition begins: one step for each, whoever asks for it.
LEMMA RequestInv == ProcessInv /\ Request => ProcessInv'
<1> SUFFICES ASSUME ProcessInv, Request PROVE ProcessInv'
  OBVIOUS
<1> USE DEF ProcessInv, TypeOK, ControlOK, LifeInv, HoldsInv, MainInv, Lives, States, Mains,
            host, perception, Begin, From, Request, ThreadFree
<1>1. PICK tr \in DOMAIN From : Begin(tr)
  BY DEF Request
<1>2. CASE tr = "configure" BY <1>1, <1>2
<1>3. CASE tr = "activate" BY <1>1, <1>3
<1>4. CASE tr = "deactivate" BY <1>1, <1>4
<1>5. CASE tr = "cleanup" BY <1>1, <1>5
<1>6. CASE tr = "shutdown" BY <1>1, <1>6
<1> QED BY <1>1, <1>2, <1>3, <1>4, <1>5, <1>6

\* A step of main(), of its watcher or of a signal.
LEMMA HostInv == ProcessInv /\ (Main \/ Watcher \/ Signal) => ProcessInv'
<1> SUFFICES ASSUME ProcessInv, Main \/ Watcher \/ Signal PROVE ProcessInv'
  OBVIOUS
<1> USE DEF ProcessInv, TypeOK, ControlOK, LifeInv, HoldsInv, MainInv, Lives, States, Mains,
            host, node, perception, To, ThreadFree
<1>1. CASE Configure BY <1>1 DEF Configure, Begin, From
<1>2. CASE Activate BY <1>2 DEF Activate, Begin, From
<1>3. CASE StartWatcher BY <1>3 DEF StartWatcher
<1>4. CASE Spin BY <1>4 DEF Spin
<1>5. CASE SpinEnds BY <1>5 DEF SpinEnds
<1>6. CASE Join BY <1>6 DEF Join
<1>7. CASE Joined BY <1>7 DEF Joined
<1>8. CASE Deactivate BY <1>8 DEF Deactivate, Begin, From
<1>9. CASE Cleanup BY <1>9 DEF Cleanup, Begin, From
<1>10. CASE Shutdown BY <1>10 DEF Shutdown, Begin, From, MayShutdown
<1>11. CASE Exit BY <1>11 DEF Exit
<1>12. CASE Poll BY <1>12 DEF Poll
<1>13. CASE Cancel
  <2>1. TypeOK' /\ ControlOK'
    <3>1. {declared, active, sub, tf, stop, spinning}' \subseteq BOOLEAN BY <1>13 DEF Cancel
    <3>2. UNCHANGED <<composed, state, pub, tracker, mutex, callback, main, life, goal>>
      BY <1>13 DEF Cancel
    <3>3. ControlOK' BY <1>13, <3>2 DEF Cancel
    <3> QED BY <3>1, <3>2, <3>3
  <2>2. LifeInv' BY <1>13 DEF Cancel, MayCancel
  <2>3. HoldsInv' BY <1>13 DEF Cancel, MayCancel
  <2>4. MainInv' BY <1>13 DEF Cancel, MayCancel
  <2> QED BY <2>1, <2>2, <2>3, <2>4
<1>14. CASE Signal BY <1>14 DEF Signal
<1> QED BY <1>1, <1>2, <1>3, <1>4, <1>5, <1>6, <1>7, <1>8,
       <1>9, <1>10, <1>11, <1>12, <1>13, <1>14 DEF Main, Watcher

LEMMA ProcessNextInv == ProcessInv /\ [ProcessNext]_process_vars => ProcessInv'
<1>1. ProcessInv /\ UNCHANGED process_vars => ProcessInv'
  BY DEF ProcessInv, TypeOK, ControlOK, LifeInv, HoldsInv, MainInv, Lives, States, Mains,
     process_vars, node, host, perception
<1> QED BY <1>1, TransitionInv, CallbackInv, RequestInv, HostInv DEF ProcessNext

LEMMA ProcessInductive == ProcessSpec => []ProcessInv
BY ProcessInitInv, ProcessNextInv, PTL DEF ProcessSpec

-----------------------------------------------------------------------------
\* The node's state, its resources and the lock keep their types, and the lock is
\* held exactly while a callback is past its guards.
THEOREM ProcessTypeCorrect == ProcessSpec => []TypeOK
<1>1. ProcessInv => TypeOK BY DEF ProcessInv
<1> QED BY <1>1, ProcessInductive, PTL

\* A callback past its guards keeps what it uses, whatever runs beside it.
THEOREM CallbackUsesWhatExists == ProcessSpec => []UsesWhatExists
<1>1. ProcessInv => UsesWhatExists BY DEF ProcessInv, HoldsInv, UsesWhatExists
<1> QED BY <1>1, ProcessInductive, PTL

\* Scans are worked on in an active node, or in one about to be.
THEOREM NoOutputUnlessActive == ProcessSpec => []OutputOnlyWhileActive
<1>1. ProcessInv => OutputOnlyWhileActive BY DEF ProcessInv, HoldsInv, OutputOnlyWhileActive
<1> QED BY <1>1, ProcessInductive, PTL

\* Only the last step of an activation raises the flag, over a tracker as it reset it.
THEOREM ActivationStartsFresh == ProcessSpec => FreshStart
<1>1. ProcessInv /\ [ProcessNext]_process_vars =>
        [active' /\ ~active => tracker' = "empty"]_process_vars
  <2> SUFFICES ASSUME ProcessInv, ProcessNext, active', ~active
               PROVE  tracker' = "empty"
    OBVIOUS
  <2>1. CASE Transition
    BY <2>1 DEF ProcessInv, LifeInv, HoldsInv, Transition, Declare, Construct, PublisherOn,
       Restart, Subscribe, Go, Activated, StopScans, DropTf, PublisherOff, StopAll, Release, End, perception
  <2>2. CASE TakeScan \/ Callback \/ Request \/ Signal \/ Main \/ Watcher
    <3>1. UNCHANGED active
      BY <2>2 DEF TakeScan, Callback, Enter, Lookup, Publish, Request, Begin, Signal, Main,
         Configure, Activate, StartWatcher, Spin, SpinEnds, Join, Joined, Deactivate,
         Cleanup, Shutdown, Exit, Watcher, Poll, Cancel, node
    <3> QED BY <3>1
  <2> QED BY <2>1, <2>2 DEF ProcessNext
<1> QED BY <1>1, ProcessInductive, PTL DEF ProcessSpec, FreshStart

\* However the process is stopped, its node is finalized before it exits.
THEOREM ExitsFinalized == ProcessSpec => []FinalizedAtExit
<1>1. ProcessInv => FinalizedAtExit
  BY DEF ProcessInv, TypeOK, LifeInv, MainInv, FinalizedAtExit
<1> QED BY <1>1, ProcessInductive, PTL


-----------------------------------------------------------------------------
(* Numbers.                                                                *)

\* A nonempty set of naturals has a least element.
LEMMA LeastExists ==
  ASSUME NEW S \in SUBSET Nat, S # {} PROVE \E x \in S : \A y \in S : x <= y
<1> DEFINE R == OpToRel(<, Nat)
<1>1. \A x, y \in Nat : <<x, y>> \in R <=> x < y
  BY DEF OpToRel
<1>2. IsWellFoundedOn(R, Nat)
  BY NatLessThanWellFounded
<1> HIDE DEF R
<1>3. PICK x \in S : \A y \in S : ~(<<y, x>> \in R)
  BY <1>2, WFMin
<1>4. ASSUME NEW y \in S PROVE x <= y
  <2>1. x \in Nat /\ y \in Nat
    OBVIOUS
  <2>2. ~(y < x)
    BY <1>1, <1>3, <2>1
  <2> QED BY <2>1, <2>2
<1> QED BY <1>4

\* A nonempty bounded one has a greatest.
LEMMA GreatestExists ==
  ASSUME NEW n \in Nat, NEW S \in SUBSET (0 .. n), S # {}
  PROVE  \E x \in S : \A y \in S : y <= x
<1> DEFINE T == {n - x : x \in S}
<1>1. T \in SUBSET Nat /\ T # {}
  <2>1. \A x \in S : n - x \in Nat
    OBVIOUS
  <2>2. PICK x \in S : TRUE
    OBVIOUS
  <2>3. n - x \in T
    OBVIOUS
  <2> QED BY <2>1, <2>3
<1>2. PICK t \in T : \A u \in T : t <= u
  <2> HIDE DEF T
  <2> QED BY <1>1, LeastExists
<1>3. PICK x \in S : t = n - x
  OBVIOUS
<1>4. \A y \in S : n - x <= n - y
  BY <1>2, <1>3
<1> QED BY <1>4

\* Remainders one turn to either side.
LEMMA Offset ==
  ASSUME NEW d \in Nat \ {0}, NEW k \in Int, NEW r \in 0 .. d - 1
  PROVE  ((d * k) + r) % d = r
OBVIOUS

LEMMA Turn ==
  ASSUME NEW d \in Nat \ {0}, NEW x \in Int, -d <= x, x < 2 * d
  PROVE  x % d = IF x < 0 THEN x + d ELSE IF x < d THEN x ELSE x - d
<1>1. CASE x < 0
  <2>1. x + d \in 0 .. d - 1 /\ (d * (-1)) + (x + d) = x
    BY <1>1
  <2>2. ((d * (-1)) + (x + d)) % d = x + d
    BY <2>1, Offset
  <2> QED BY <1>1, <2>1, <2>2
<1>2. CASE 0 <= x /\ x < d
  <2>1. x \in 0 .. d - 1 /\ (d * 0) + x = x
    BY <1>2
  <2>2. ((d * 0) + x) % d = x
    BY <2>1, Offset
  <2> QED BY <1>2, <2>1, <2>2
<1>3. CASE d <= x
  <2>1. x - d \in 0 .. d - 1 /\ (d * 1) + (x - d) = x
    BY <1>3
  <2>2. ((d * 1) + (x - d)) % d = x - d
    BY <2>1, Offset
  <2> QED BY <1>3, <2>1, <2>2
<1> QED BY <1>1, <1>2, <1>3

LEMMA Sweep == N \in Nat /\ N >= 2 /\ N \in Nat \ {0} /\ \A b \in Beams : b \in Nat /\ b < N
BY SweepAssumption DEF Beams

\* The beam after another.
LEMMA AdjacentIs ==
  ASSUME NEW b \in Beams, NEW c, Adjacent(b, c)
  PROVE  /\ b + 1 < N => c = b + 1
         /\ b + 1 = N => c = 0
<1>1. b + 1 \in Int /\ -N <= b + 1 /\ b + 1 < 2 * N
  BY Sweep
<1>2. (b + 1) % N = IF b + 1 < 0 THEN b + 1 + N ELSE IF b + 1 < N THEN b + 1 ELSE b + 1 - N
  BY <1>1, Sweep, Turn
<1> QED BY <1>1, <1>2, Sweep DEF Adjacent

-----------------------------------------------------------------------------
(* Segments.                                                               *)

LEMMA EndsAre ==
  ASSUME NEW s \in SUBSET Beams, s # {}
  PROVE  /\ First(s) \in s /\ \A c \in s : First(s) <= c
         /\ Final(s) \in s /\ \A c \in s : c <= Final(s)
<1>1. \E b \in s : \A c \in s : b <= c
  <2>1. s \in SUBSET Nat
    BY Sweep
  <2> QED BY <2>1, LeastExists
<1>2. \E b \in s : \A c \in s : c <= b
  <2>1. s \in SUBSET (0 .. N - 1) /\ N - 1 \in Nat
    BY Sweep DEF Beams
  <2> QED BY <2>1, GreatestExists
<1> QED BY <1>1, <1>2 DEF First, Final

LEMMA OpensAre ==
  ASSUME NEW s \in SUBSET Beams
  PROVE  /\ Opens(s) \subseteq s
         /\ s # {} => First(s) \in Opens(s)
         /\ \A c \in s \ Opens(s) : c # First(s) /\ c - 1 \in s /\ Adjacent(c - 1, c)
         /\ \A c \in s : c # First(s) /\ c - 1 \in s /\ Adjacent(c - 1, c) => c \notin Opens(s)
         /\ \A b \in Opens(s) : b \in Segment(s, b) /\ Segment(s, b) \subseteq s
<1>1. s # {} => First(s) \in s
  BY EndsAre
<1>2. \A b \in Opens(s) : b \in s
  BY DEF Opens
<1>3. \A b \in Opens(s) : b \in Nat
  BY <1>2, Sweep
<1>4. \A b \in Opens(s) : b \in Segment(s, b) /\ Segment(s, b) \subseteq s
  BY <1>2, <1>3 DEF Segment
<1> QED BY <1>1, <1>4 DEF Opens

\* Every return is in one segment.
LEMMA SegmentOf ==
  ASSUME NEW s \in SUBSET Beams, NEW c \in s
  PROVE  \E b \in Opens(s) : c \in Segment(s, b)
<1> DEFINE S == {o \in Opens(s) : o <= c}
<1>1. S \in SUBSET (0 .. N - 1) /\ N - 1 \in Nat
  <2>1. \A o \in S : o \in Beams
    BY OpensAre
  <2> QED BY <2>1, Sweep DEF Beams
<1>2. First(s) \in S
  BY EndsAre, OpensAre
<1>3. PICK b \in S : \A o \in S : o <= b
  <2> HIDE DEF S
  <2> QED BY <1>1, <1>2, GreatestExists
<1>4. \A o \in Opens(s) : o \in Nat
  BY OpensAre, Sweep
<1>5. b \in Opens(s) /\ b <= c /\ c \in Nat
  BY <1>3, Sweep
<1>6. \A o \in Opens(s) : o <= b \/ c < o
  BY <1>3, <1>4, <1>5
<1> QED BY <1>5, <1>6 DEF Segment

LEMMA SegmentOnce ==
  ASSUME NEW s \in SUBSET Beams, NEW a \in Opens(s), NEW b \in Opens(s),
         NEW c \in Segment(s, a), c \in Segment(s, b)
  PROVE  a = b
<1>1. a \in Nat /\ b \in Nat /\ c \in Nat
  BY OpensAre, Sweep
<1>2. a <= c /\ b <= c /\ (b <= a \/ c < b) /\ (a <= b \/ c < a)
  BY DEF Segment
<1> QED BY <1>1, <1>2

\* A segment runs from its opening without a hole, each return adjacent to the next.
LEMMA SegmentRuns ==
  ASSUME NEW s \in SUBSET Beams, NEW b \in Opens(s), NEW c \in Segment(s, b), NEW d \in b .. c
  PROVE  /\ d \in Segment(s, b)
         /\ d > b => Adjacent(d - 1, d) /\ d - 1 \in Segment(s, b)
<1>1. /\ b \in Nat /\ \A o \in Opens(s) : o \in Nat
      /\ \A x \in Segment(s, b) : x \in Nat /\ x \in s /\ x >= b
  BY OpensAre, Sweep DEF Segment
<1>2. ASSUME NEW x \in Segment(s, b), x > b
      PROVE  Adjacent(x - 1, x) /\ x - 1 \in Segment(s, b)
  <2>1. \A o \in Opens(s) : o <= b \/ x < o
    BY DEF Segment
  <2>2. x \notin Opens(s)
    BY <1>1, <1>2, <2>1
  <2>3. x - 1 \in s /\ Adjacent(x - 1, x)
    BY <1>1, <2>2, OpensAre
  <2>4. \A o \in Opens(s) : o <= b \/ x - 1 < o
    BY <1>1, <2>1
  <2> QED BY <1>1, <1>2, <2>3, <2>4 DEF Segment
<1> DEFINE S == {x \in b .. c : x \notin Segment(s, b)}
<1>3. S = {}
  <2> SUFFICES ASSUME S # {} PROVE FALSE
    OBVIOUS
  <2>1. S \in SUBSET (0 .. N - 1) /\ N - 1 \in Nat
    <3>1. c < N /\ c \in Nat
      BY <1>1, Sweep
    <3> QED BY <1>1, <3>1, Sweep
  <2>2. PICK x \in S : \A y \in S : y <= x
    <3> HIDE DEF S
    <3> QED BY <2>1, GreatestExists
  <2>3. x # c /\ x \in Nat /\ x >= b /\ x <= c
    BY <1>1
  <2>4. x + 1 \in b .. c /\ x + 1 \notin S
    BY <1>1, <2>2, <2>3
  <2>5. x + 1 \in Segment(s, b) /\ x + 1 > b /\ (x + 1) - 1 = x
    BY <1>1, <2>3, <2>4
  <2>6. x \in Segment(s, b)
    BY <1>2, <2>5
  <2> QED BY <2>6
<1>4. d \in Segment(s, b)
  BY <1>3
<1> QED BY <1>2, <1>4

\* An adjacent return further on is in the same segment.
LEMMA SegmentGoesOn ==
  ASSUME NEW s \in SUBSET Beams, NEW b \in Opens(s), NEW c \in Segment(s, b),
         c + 1 \in s, Adjacent(c, c + 1)
  PROVE  c + 1 \in Segment(s, b)
<1>1. /\ b \in Nat /\ c \in Nat /\ c \in s /\ b <= c /\ \A o \in Opens(s) : o \in Nat
      /\ \A o \in Opens(s) : o <= b \/ c < o
  BY OpensAre, Sweep DEF Segment
<1>2. c + 1 # First(s)
  <2>1. First(s) <= c /\ First(s) \in Nat
    BY <1>1, EndsAre, Sweep
  <2> QED BY <1>1, <2>1
<1>3. c + 1 \notin Opens(s)
  <2>1. (c + 1) - 1 = c
    BY <1>1
  <2> QED BY <1>1, <1>2, <2>1, OpensAre
<1>4. \A o \in Opens(s) : o <= b \/ c + 1 < o
  BY <1>1, <1>3
<1> QED BY <1>1, <1>4 DEF Segment

-----------------------------------------------------------------------------
(* Objects.                                                                *)

\* Segments are whole or apart.
LEMMA SegmentsPart ==
  ASSUME NEW s \in SUBSET Beams
  PROVE  /\ \A c \in s : \E g \in Segments(s) : c \in g
         /\ \A g \in Segments(s) : g # {} /\ g \subseteq s
         /\ \A g, h \in Segments(s), c \in s : c \in g /\ c \in h => g = h
<1>1. \A c \in s : \E g \in Segments(s) : c \in g
  BY SegmentOf DEF Segments
<1>2. \A g \in Segments(s) : g # {} /\ g \subseteq s
  BY OpensAre DEF Segments
<1>3. ASSUME NEW g \in Segments(s), NEW h \in Segments(s), NEW c \in s, c \in g, c \in h
      PROVE  g = h
  <2>1. PICK a \in Opens(s) : g = Segment(s, a)
    BY DEF Segments
  <2>2. PICK b \in Opens(s) : h = Segment(s, b)
    BY DEF Segments
  <2> QED BY <1>3, <2>1, <2>2, SegmentOnce
<1> QED BY <1>1, <1>2, <1>3

\* The segments the splice joins.
SeamEnds(s) == {g \in Segments(s) : First(s) \in g \/ Final(s) \in g}

\* So are objects, each of them made of segments.
LEMMA ObjectsPart ==
  ASSUME NEW s \in SUBSET Beams
  PROVE  /\ \A c \in s : \E g \in Objects(s) : c \in g
         /\ \A g \in Objects(s) : g # {} /\ g \subseteq s
         /\ \A g, h \in Objects(s), c \in s : c \in g /\ c \in h => g = h
         /\ \A e \in Segments(s) : \E g \in Objects(s) : e \subseteq g
<1>1. CASE s = {}
  <2>1. Objects(s) = {} /\ Segments(s) = {}
    BY <1>1, OpensAre DEF Objects, Segments
  <2> QED BY <1>1, <2>1
<1>2. CASE s # {} /\ ~Wraps(s)
  <2>1. Objects(s) = Segments(s)
    BY <1>2 DEF Objects
  <2> QED BY <2>1, SegmentsPart
<1>3. CASE s # {} /\ Wraps(s)
  <2> DEFINE E == SeamEnds(s)
             U == UNION E
  <2>1. Objects(s) = (Segments(s) \ E) \cup {U}
    BY <1>3 DEF Objects, SeamEnds
  <2>2. E \subseteq Segments(s)
    BY DEF SeamEnds
  <2>3. U # {} /\ U \subseteq s
    <3>1. First(s) \in s
      BY <1>3, EndsAre
    <3>2. PICK g \in Segments(s) : First(s) \in g
      BY <3>1, SegmentsPart
    <3>3. g \in E
      BY <3>2 DEF SeamEnds
    <3> HIDE DEF E
    <3>4. U # {}
      BY <3>2, <3>3
    <3>5. U \subseteq s
      BY <2>2, SegmentsPart
    <3> QED BY <3>4, <3>5
  <2> HIDE DEF E
  <2>4. \A g \in Segments(s) \ E : \A c \in s : c \in g => c \notin U
    BY <2>2, SegmentsPart
  <2>5. \A c \in s : \E g \in Objects(s) : c \in g
    <3> SUFFICES ASSUME NEW c \in s PROVE \E g \in Objects(s) : c \in g
      OBVIOUS
    <3>1. PICK g \in Segments(s) : c \in g
      BY SegmentsPart
    <3>2. CASE g \in E
      <4>1. c \in U
        BY <3>1, <3>2
      <4> QED BY <2>1, <4>1
    <3>3. CASE g \notin E
      BY <2>1, <3>1, <3>3
    <3> QED BY <3>2, <3>3
  <2>6. \A e \in Segments(s) : \E g \in Objects(s) : e \subseteq g
    <3> SUFFICES ASSUME NEW e \in Segments(s) PROVE \E g \in Objects(s) : e \subseteq g
      OBVIOUS
    <3>1. CASE e \in E
      <4>1. e \subseteq U
        BY <3>1
      <4> QED BY <2>1, <4>1
    <3>2. CASE e \notin E
      BY <2>1, <3>2
    <3> QED BY <3>1, <3>2
  <2> HIDE DEF U
  <2>7. \A g \in Objects(s) : g # {} /\ g \subseteq s
    BY <2>1, <2>3, SegmentsPart
  <2>8. \A g, h \in Objects(s), c \in s : c \in g /\ c \in h => g = h
    BY <2>1, <2>4, SegmentsPart
  <2> QED BY <2>5, <2>6, <2>7, <2>8
<1> QED BY <1>1, <1>2, <1>3

\* A beam that follows on a return across the seam joins the sweep's two ends.
LEMMA SeamIs ==
  ASSUME NEW s \in SUBSET Beams, NEW x \in s, NEW y \in s, Adjacent(x, y), x + 1 = N
  PROVE  y = 0 /\ First(s) = 0 /\ Final(s) = N - 1 /\ x = N - 1
<1>1. x \in Beams /\ x \in Nat
  BY Sweep
<1>2. y = 0
  BY <1>1, AdjacentIs
<1>3. /\ First(s) \in Nat /\ First(s) <= 0
      /\ Final(s) \in Nat /\ x <= Final(s) /\ Final(s) < N
  BY <1>2, EndsAre, Sweep
<1> QED BY <1>1, <1>2, <1>3, Sweep

\* Adjacent returns are in one object, at the seam too.
LEMMA LinkStays ==
  ASSUME NEW s \in SUBSET Beams, NEW x \in s, NEW y \in s, Adjacent(x, y),
         NEW g \in Objects(s), x \in g
  PROVE  y \in g
<1>1. x \in Beams /\ x \in Nat /\ x + 1 <= N
  BY Sweep
<1>2. CASE x + 1 < N
  <2>1. y = x + 1
    BY <1>1, <1>2, AdjacentIs
  <2>2. PICK b \in Opens(s) : x \in Segment(s, b)
    BY SegmentOf
  <2>3. y \in Segment(s, b)
    BY <2>1, <2>2, SegmentGoesOn
  <2>4. PICK h \in Objects(s) : Segment(s, b) \subseteq h
    BY ObjectsPart DEF Segments
  <2> QED BY <2>2, <2>3, <2>4, ObjectsPart
<1>3. CASE x + 1 = N
  <2>1. y = First(s) /\ x = Final(s)
    BY <1>3, SeamIs
  <2>2. PICK d \in Segments(s) : x \in d
    BY SegmentsPart
  <2>3. PICK e \in Segments(s) : y \in e
    BY SegmentsPart
  <2>4. CASE Wraps(s)
    <3>1. d \in SeamEnds(s) /\ e \in SeamEnds(s)
      BY <2>1, <2>2, <2>3 DEF SeamEnds
    <3>2. x \in UNION SeamEnds(s) /\ y \in UNION SeamEnds(s)
      BY <2>2, <2>3, <3>1
    <3>3. UNION SeamEnds(s) \in Objects(s)
      <4>1. Objects(s) = (Segments(s) \ SeamEnds(s)) \cup {UNION SeamEnds(s)}
        BY <2>4 DEF Objects, SeamEnds
      <4> QED BY <4>1
    <3>4. UNION SeamEnds(s) = g
      BY <3>2, <3>3, ObjectsPart
    <3> QED BY <3>2, <3>4
  <2>5. CASE ~Wraps(s)
    <3>1. ~(Cardinality(Segments(s)) >= 2)
      BY <2>1, <2>5 DEF Wraps
    <3>2. d = e
      <4> SUFFICES ASSUME d # e PROVE FALSE
        OBVIOUS
      <4>1. IsFiniteSet(Segments(s))
        <5>1. IsFiniteSet(Beams)
          BY Sweep, FS_Interval DEF Beams
        <5>2. IsFiniteSet(SUBSET Beams)
          BY <5>1, FS_SUBSET
        <5>3. Segments(s) \subseteq SUBSET Beams
          BY SegmentsPart
        <5> QED BY <5>2, <5>3, FS_Subset
      <4>2. {d} \subseteq Segments(s) /\ IsFiniteSet({d}) /\ Cardinality({d}) = 1
        BY FS_Singleton
      <4>3. Cardinality({d} \cup {e}) = 2
        <5>1. e \notin {d}
          OBVIOUS
        <5>2. Cardinality({d} \cup {e}) = IF e \in {d} THEN Cardinality({d}) ELSE Cardinality({d}) + 1
          BY <4>2, FS_AddElement, Zenon
        <5> QED BY <4>2, <5>1, <5>2
      <4>4. {d} \cup {e} \subseteq Segments(s)
        OBVIOUS
      <4>5. /\ Cardinality({d} \cup {e}) <= Cardinality(Segments(s))
            /\ Cardinality(Segments(s)) \in Nat
        BY <4>1, <4>4, FS_Subset, FS_CardinalityType
      <4> QED BY <3>1, <4>3, <4>5
    <3>3. d \in Objects(s)
      BY <2>5, <2>2 DEF Objects
    <3>4. d = g
      BY <2>2, <3>3, ObjectsPart
    <3> QED BY <2>3, <3>2, <3>4
  <2> QED BY <2>4, <2>5
<1> QED BY <1>1, <1>2, <1>3, Sweep

\* So is a whole chain.
LEMMA ChainStays ==
  ASSUME NEW s \in SUBSET Beams, NEW b \in s, NEW k \in 0 .. N - 1, Chain(s, b, k),
         NEW g \in Objects(s), b \in g
  PROVE  (b + k) % N \in g
<1> DEFINE S == {i \in 0 .. k : (b + i) % N \notin g}
<1>1. b \in Nat /\ b < N /\ N \in Nat \ {0} /\ N \in Nat
  BY Sweep
<1>2. S = {}
  <2> SUFFICES ASSUME S # {} PROVE FALSE
    OBVIOUS
  <2>1. S \in SUBSET Nat
    OBVIOUS
  <2>2. PICK i \in S : \A j \in S : i <= j
    <3> HIDE DEF S
    <3> QED BY <2>1, LeastExists
  <2>3. i # 0
    <3>1. (b + 0) % N = b
      <4>1. -N <= b + 0 /\ b + 0 < 2 * N /\ b + 0 \in Int
        BY <1>1
      <4> QED BY <1>1, <4>1, Turn
    <3> QED BY <3>1
  <2>4. i - 1 \in 0 .. k - 1 /\ i - 1 \in 0 .. k
    BY <2>3
  <2>5. (b + (i - 1)) % N \in g
    <3>1. i - 1 \notin S
      BY <2>2, <2>4
    <3> QED BY <2>4, <3>1
  <2>6. b + (i - 1) + 1 = b + i
    BY <1>1, <2>4
  <2>7. /\ (b + (i - 1)) % N \in s /\ (b + i) % N \in s
        /\ Adjacent((b + (i - 1)) % N, (b + i) % N)
    BY <2>4, <2>6 DEF Chain
  <2>8. (b + i) % N \in g
    BY <2>5, <2>7, LinkStays
  <2> QED BY <2>8
<1>3. k \in 0 .. k
  BY <1>1
<1> QED BY <1>2, <1>3

\* Within a segment, every return is joined to the ones before it.
LEMMA SegmentJoined ==
  ASSUME NEW s \in SUBSET Beams, NEW b \in Opens(s), NEW c \in Segment(s, b),
         NEW d \in Segment(s, b), c <= d
  PROVE  SameObject(s, c, d)
<1>1. /\ b \in Nat /\ c \in Nat /\ d \in Nat /\ b <= c /\ d < N /\ N \in Nat \ {0}
      /\ \A x \in Segment(s, b) : x \in s
  BY OpensAre, Sweep DEF Segment
<1>2. d - c \in 0 .. N - 1
  BY <1>1
<1>3. \A x \in Int : 0 <= x /\ x < N => x % N = x
  BY <1>1, Turn
<1>4. ASSUME NEW i \in 0 .. (d - c) - 1
      PROVE  /\ (c + i) % N \in s /\ (c + i + 1) % N \in s
             /\ Adjacent((c + i) % N, (c + i + 1) % N)
  <2>1. /\ c + i \in b .. d /\ c + i + 1 \in b .. d /\ c + i + 1 > b
        /\ (c + i + 1) - 1 = c + i
    BY <1>1
  <2>2. (c + i) % N = c + i /\ (c + i + 1) % N = c + i + 1
    BY <1>1, <1>3, <2>1
  <2>3. /\ c + i \in Segment(s, b) /\ c + i + 1 \in Segment(s, b)
        /\ Adjacent(c + i, c + i + 1)
    BY <2>1, SegmentRuns
  <2> QED BY <1>1, <2>2, <2>3
<1>5. Chain(s, c, d - c)
  BY <1>4 DEF Chain
<1>6. (c + (d - c)) % N = d
  <2>1. c + (d - c) = d
    BY <1>1
  <2> QED BY <1>1, <1>3, <2>1
<1> QED BY <1>2, <1>5, <1>6 DEF SameObject

\* Across the seam, the last segment is joined to the first.
LEMMA SeamJoined ==
  ASSUME NEW s \in SUBSET Beams, Adjacent(Final(s), First(s)),
         NEW a \in Opens(s), NEW b \in Opens(s), a # b,
         First(s) \in Segment(s, a), Final(s) \in Segment(s, b),
         NEW d \in Segment(s, a), NEW c \in Segment(s, b)
  PROVE  SameObject(s, c, d)
<1>1. /\ a \in s /\ b \in s /\ a \in Nat /\ b \in Nat /\ c \in s /\ d \in s
      /\ c \in Nat /\ d \in Nat /\ c < N /\ d < N /\ N \in Nat \ {0}
      /\ \A x \in Segment(s, a) \cup Segment(s, b) : x \in s
      /\ First(s) \in Nat /\ Final(s) \in Nat /\ Final(s) < N
      /\ First(s) <= Final(s) /\ First(s) \in s /\ Final(s) \in s
  BY OpensAre, EndsAre, Sweep
<1>2. First(s) = 0 /\ Final(s) = N - 1
  <2>1. Final(s) + 1 < N => First(s) = Final(s) + 1
    BY <1>1, AdjacentIs
  <2>2. Final(s) + 1 = N
    BY <1>1, <2>1
  <2> QED BY <1>1, <2>2, AdjacentIs
<1>3. a = 0
  BY <1>1, <1>2 DEF Segment
<1>4. d < c
  <2>1. b <= a \/ d < b
    BY DEF Segment
  <2>2. b <= c
    BY DEF Segment
  <2> QED BY <1>1, <1>3, <2>1, <2>2
<1>5. \A x \in c .. N - 1 : x \in s /\ (x > c => Adjacent(x - 1, x))
  <2> SUFFICES ASSUME NEW x \in c .. N - 1 PROVE x \in s /\ (x > c => Adjacent(x - 1, x))
    OBVIOUS
  <2>1. x \in b .. Final(s) /\ (x > c => x > b)
    <3>1. b <= c
      BY DEF Segment
    <3> QED BY <1>1, <1>2, <3>1
  <2> QED BY <1>1, <2>1, SegmentRuns
<1>6. \A x \in 0 .. d : x \in s /\ (x > 0 => Adjacent(x - 1, x))
  <2> SUFFICES ASSUME NEW x \in 0 .. d PROVE x \in s /\ (x > 0 => Adjacent(x - 1, x))
    OBVIOUS
  <2>1. x \in a .. d
    BY <1>3
  <2> QED BY <1>1, <1>3, <2>1, SegmentRuns
<1> DEFINE k == N - c + d
<1>7. k \in 0 .. N - 1
  BY <1>1, <1>4
<1>8. \A x \in Int : /\ 0 <= x /\ x < N => x % N = x
                     /\ N <= x /\ x < 2 * N => x % N = x - N
  <2> SUFFICES ASSUME NEW x \in Int
               PROVE  /\ 0 <= x /\ x < N => x % N = x
                      /\ N <= x /\ x < 2 * N => x % N = x - N
    OBVIOUS
  <2>1. CASE 0 <= x /\ x < 2 * N
    <3>1. -N <= x
      BY <1>1, <2>1
    <3>2. x % N = IF x < 0 THEN x + N ELSE IF x < N THEN x ELSE x - N
      BY <1>1, <2>1, <3>1, Turn
    <3> QED BY <1>1, <2>1, <3>2
  <2> QED BY <1>1, <2>1
<1>9. ASSUME NEW i \in 0 .. k - 1
      PROVE  /\ (c + i) % N \in s /\ (c + i + 1) % N \in s
             /\ Adjacent((c + i) % N, (c + i + 1) % N)
  <2>1. i \in Nat /\ c + i \in Int /\ c + i + 1 \in Int /\ c + i < N + d
    BY <1>1
  <2>2. CASE c + i + 1 < N
    <3>1. (c + i) % N = c + i /\ (c + i + 1) % N = c + i + 1
      BY <1>1, <1>8, <2>1, <2>2
    <3>2. /\ c + i \in c .. N - 1 /\ c + i + 1 \in c .. N - 1 /\ c + i + 1 > c
          /\ (c + i + 1) - 1 = c + i
      BY <1>1, <2>1, <2>2
    <3> QED BY <1>5, <3>1, <3>2
  <2>3. CASE c + i + 1 = N
    <3>1. (c + i) % N = N - 1 /\ (c + i + 1) % N = 0
      BY <1>1, <1>8, <2>1, <2>3
    <3> QED BY <1>1, <1>2, <3>1
  <2>4. CASE c + i + 1 > N
    <3>1. (c + i) % N = c + i - N /\ (c + i + 1) % N = c + i + 1 - N
      BY <1>1, <1>4, <1>8, <2>1, <2>4
    <3>2. /\ c + i - N \in 0 .. d /\ c + i + 1 - N \in 0 .. d /\ c + i + 1 - N > 0
          /\ (c + i + 1 - N) - 1 = c + i - N
      BY <1>1, <2>1, <2>4
    <3> QED BY <1>6, <3>1, <3>2
  <2> QED BY <1>1, <2>1, <2>2, <2>3, <2>4
<1>10. Chain(s, c, k)
  BY <1>9 DEF Chain
<1>11. (c + k) % N = d
  <2>1. c + k = N + d /\ (N + d) - N = d
    BY <1>1
  <2> QED BY <1>1, <1>8, <2>1
<1> HIDE DEF k
<1> QED BY <1>7, <1>10, <1>11 DEF SameObject

\* Being joined has no direction.
LEMMA SameObjectBoth ==
  ASSUME NEW s, NEW c, NEW d PROVE SameObject(s, c, d) <=> SameObject(s, d, c)
BY DEF SameObject

LEMMA SegmentAllJoined ==
  ASSUME NEW s \in SUBSET Beams, NEW g \in Segments(s), NEW c \in g, NEW d \in g
  PROVE  SameObject(s, c, d)
<1>1. PICK b \in Opens(s) : g = Segment(s, b)
  BY DEF Segments
<1>2. c \in Nat /\ d \in Nat
  BY <1>1, OpensAre, Sweep
<1>3. CASE c <= d
  BY <1>1, <1>3, SegmentJoined
<1>4. CASE d <= c
  BY <1>1, <1>4, SegmentJoined, SameObjectBoth
<1> QED BY <1>2, <1>3, <1>4

\* An object is the returns joined to any one of them.
LEMMA ObjectIs ==
  ASSUME NEW s \in SUBSET Beams, NEW g \in Objects(s), NEW b \in g
  PROVE  g = {c \in s : SameObject(s, b, c)}
<1>1. b \in s /\ g \subseteq s
  BY ObjectsPart
<1>2. ASSUME NEW c \in g PROVE SameObject(s, b, c)
  <2>1. CASE g \in Segments(s)
    BY <1>2, <2>1, SegmentAllJoined
  <2>2. CASE g \notin Segments(s)
    <3>1. Wraps(s) /\ g = UNION SeamEnds(s)
      BY <2>2 DEF Objects, SeamEnds
    <3>2. Adjacent(Final(s), First(s))
      BY <3>1 DEF Wraps
    <3>3. PICK d \in SeamEnds(s) : b \in d
      BY <3>1
    <3>4. PICK e \in SeamEnds(s) : c \in e
      BY <1>2, <3>1
    <3>5. PICK x \in Opens(s) : d = Segment(s, x)
      BY DEF SeamEnds, Segments
    <3>6. PICK y \in Opens(s) : e = Segment(s, y)
      BY DEF SeamEnds, Segments
    <3>7. CASE x = y
      <4>1. d \in Segments(s) /\ c \in d
        BY <3>4, <3>5, <3>6, <3>7 DEF SeamEnds
      <4> QED BY <3>3, <4>1, SegmentAllJoined
    <3>8. CASE x # y
      <4>1. /\ First(s) \in s /\ Final(s) \in s
            /\ First(s) \in d \/ Final(s) \in d
            /\ First(s) \in e \/ Final(s) \in e
        BY <1>1, EndsAre DEF SeamEnds
      <4>2. ~(First(s) \in d /\ First(s) \in e) /\ ~(Final(s) \in d /\ Final(s) \in e)
        BY <3>5, <3>6, <3>8, SegmentOnce
      <4>3. CASE First(s) \in d /\ Final(s) \in e
        <5>1. SameObject(s, c, b)
          BY <3>2, <3>3, <3>4, <3>5, <3>6, <3>8, <4>3, SeamJoined
        <5> QED BY <5>1, SameObjectBoth
      <4>4. CASE First(s) \in e /\ Final(s) \in d
        BY <3>2, <3>3, <3>4, <3>5, <3>6, <3>8, <4>4, SeamJoined
      <4> QED BY <4>1, <4>2, <4>3, <4>4
    <3> QED BY <3>7, <3>8
  <2> QED BY <2>1, <2>2
<1>3. ASSUME NEW c \in s, SameObject(s, b, c) PROVE c \in g
  <2>1. PICK k \in 0 .. N - 1 : \/ Chain(s, b, k) /\ (b + k) % N = c
                                \/ Chain(s, c, k) /\ (c + k) % N = b
    BY <1>3 DEF SameObject
  <2>2. CASE Chain(s, b, k) /\ (b + k) % N = c
    BY <1>1, <2>2, ChainStays
  <2>3. CASE Chain(s, c, k) /\ (c + k) % N = b
    <3>1. PICK h \in Objects(s) : c \in h
      BY ObjectsPart
    <3>2. b \in h
      BY <2>3, <3>1, ChainStays
    <3> QED BY <1>1, <3>1, <3>2, ObjectsPart
  <2> QED BY <2>1, <2>2, <2>3
<1> QED BY <1>1, <1>2, <1>3

\* What the tracker is given are whole objects, and what it is not given is too small,
\* too large or beyond the limit.
LEMMA ReportsAreWhole ==
  ASSUME NEW s \in SUBSET Beams, NEW r \in Reports(s)
  PROVE  /\ r \subseteq Objects(s)
         /\ \A g \in r : g # {} /\ \A b \in g : g = {c \in s : SameObject(s, b, c)}
         /\ \A b \in s \ UNION r :
              LET k == Cardinality({c \in s : SameObject(s, b, c)})
              IN  \/ k < MinPoints
                  \/ MaxRadius > 0 /\ k - 1 > MaxRadius
                  \/ Cardinality(r) = MaxClusters /\ \A g \in r : Cardinality(g) >= k
<1>1. Kept(s) \subseteq Objects(s) /\ r \subseteq Kept(s)
  BY DEF Kept, Reports
<1>2. \A g \in r : g # {} /\ \A b \in g : g = {c \in s : SameObject(s, b, c)}
  BY <1>1, ObjectsPart, ObjectIs
<1>3. ASSUME NEW b \in s \ UNION r
      PROVE  LET k == Cardinality({c \in s : SameObject(s, b, c)})
             IN  \/ k < MinPoints
                 \/ MaxRadius > 0 /\ k - 1 > MaxRadius
                 \/ Cardinality(r) = MaxClusters /\ \A g \in r : Cardinality(g) >= k
  <2>1. PICK g \in Objects(s) : b \in g
    BY ObjectsPart
  <2>2. g = {c \in s : SameObject(s, b, c)}
    BY <2>1, ObjectIs
  <2>3. g \subseteq Beams /\ g \notin r
    BY <2>1, ObjectsPart
  <2>4. Cardinality(g) \in Nat
    <3>1. IsFiniteSet(Beams)
      BY Sweep, FS_Interval DEF Beams
    <3> QED BY <2>3, <3>1, FS_Subset, FS_CardinalityType
  <2> DEFINE k == Cardinality(g)
  <2>5. \/ k < MinPoints
        \/ MaxRadius > 0 /\ k - 1 > MaxRadius
        \/ Cardinality(r) = MaxClusters /\ \A h \in r : Cardinality(h) >= k
    <3>1. CASE g \notin Kept(s)
      BY <2>4, <3>1, ClusterAssumption DEF Kept, RadiusOf
    <3>2. CASE g \in Kept(s)
      <4>1. r # Kept(s)
        BY <2>3, <3>2
      <4>2. /\ Cardinality(r) = MaxClusters
            /\ \A x \in r, h \in Kept(s) \ r : Cardinality(x) >= Cardinality(h)
        BY <4>1 DEF Reports
      <4> QED BY <2>3, <3>2, <4>2
    <3> QED BY <3>1, <3>2
  <2> QED BY <2>2, <2>5
<1> QED BY <1>1, <1>2, <1>3

-----------------------------------------------------------------------------
(* Places.                                                                 *)

\* Distances round the circle are a metric.
LEMMA DistIs ==
  ASSUME NEW a \in Places, NEW b \in Places, NEW c \in Places
  PROVE  /\ Dist(a, b) \in Nat /\ Dist(a, b) = Dist(b, a)
         /\ Dist(a, c) <= Dist(a, b) + Dist(b, c)
<1>1. /\ a \in Int /\ b \in Int /\ c \in Int /\ N \in Int
      /\ 0 <= a /\ a < 2 * N /\ 0 <= b /\ b < 2 * N /\ 0 <= c /\ c < 2 * N
  BY Sweep DEF Places
<1> QED BY <1>1 DEF Dist

\* A cluster has a start, so its centroid is a place.
LEMMA CentroidIs ==
  ASSUME NEW g \in SUBSET Beams, g # {} PROVE Centroid(g) \in Places
<1>1. /\ N \in Nat \ {0} /\ N \in Int /\ N - 1 \in Nat
      /\ \A b \in g : b \in Nat /\ b < N /\ b \in 0 .. N - 1
  BY Sweep DEF Beams
<1>2. StartOf(g) \in Nat
  <2>1. CASE g = Beams
    BY <2>1 DEF StartOf
  <2>2. CASE g # Beams
    <3>1. \E b \in g : (b - 1) % N \notin g
      <4>1. CASE 0 \in g /\ N - 1 \notin g
        <5>1. ASSUME NEW x \in Int, x = -1 PROVE x % N = N - 1
          <6>1. -N <= x /\ x < 2 * N /\ x < 0 /\ x + N = N - 1
            BY <1>1, <5>1
          <6> QED BY <1>1, <6>1, Turn
        <5>2. 0 - 1 \in Int /\ 0 - 1 = -1
          OBVIOUS
        <5>3. (0 - 1) % N = N - 1
          BY <5>1, <5>2
        <5> QED BY <4>1, <5>3
      <4>2. CASE 0 \notin g \/ N - 1 \in g
        <5>1. PICK x \in Beams \ g : \E b \in g : x < b
          <6>1. CASE 0 \notin g
            <7>1. 0 \in Beams
              BY <1>1, Sweep DEF Beams
            <7>2. PICK b \in g : TRUE
              OBVIOUS
            <7> QED BY <1>1, <6>1, <7>1, <7>2
          <6>2. CASE N - 1 \in g
            <7>1. PICK x \in Beams : x \notin g
              BY <2>2
            <7>2. x < N - 1
              BY <1>1, <6>2, <7>1, Sweep
            <7> QED BY <6>2, <7>1, <7>2
          <6> QED BY <4>2, <6>1, <6>2
        <5> DEFINE S == {b \in g : x < b}
        <5>2. S \in SUBSET Nat /\ S # {}
          BY <1>1, <5>1
        <5>3. PICK b \in S : \A c \in S : b <= c
          <6> HIDE DEF S
          <6> QED BY <5>2, LeastExists
        <5>4. b \in g /\ x < b /\ b \in Nat /\ b < N /\ x \in Nat
          BY <1>1, <5>1, Sweep
        <5>5. b - 1 \notin g
          <6> SUFFICES ASSUME b - 1 \in g PROVE FALSE
            OBVIOUS
          <6>1. b - 1 # x
            BY <5>1
          <6>2. b - 1 \in S
            BY <5>4, <6>1
          <6> QED BY <5>3, <5>4, <6>2
        <5>6. (b - 1) % N = b - 1
          <6>1. -N <= b - 1 /\ b - 1 < 2 * N /\ ~(b - 1 < 0) /\ b - 1 < N /\ b - 1 \in Int
            BY <1>1, <5>4
          <6> QED BY <1>1, <6>1, Turn
        <5> QED BY <5>4, <5>5, <5>6
      <4> QED BY <4>1, <4>2
    <3>2. StartOf(g) \in g
      BY <2>2, <3>1 DEF StartOf
    <3> QED BY <1>1, <3>2
  <2> QED BY <2>1, <2>2
<1>3. Cardinality(g) \in Nat
  <2>1. IsFiniteSet(Beams)
    BY Sweep, FS_Interval DEF Beams
  <2> QED BY <2>1, FS_Subset, FS_CardinalityType
<1>4. 2 * StartOf(g) + Cardinality(g) - 1 \in Int /\ 2 * N \in Nat \ {0}
  BY <1>1, <1>2, <1>3
<1>5. \A x \in Int, d \in Nat \ {0} : x % d \in 0 .. d - 1
  OBVIOUS
<1> QED BY <1>4, <1>5 DEF Centroid, Places

-----------------------------------------------------------------------------
(* The tracker's invariant.                                                *)

TrackRecords ==
  [at : Places, hits : 0 .. ConfirmCount, misses : 0 .. DropCount, confirmed : BOOLEAN,
   clock : Nat, rewound : Nat, seen : Seq(BOOLEAN), earned : BOOLEAN]

TracksTypeOK ==
  /\ scan \subseteq Beams /\ clusters \in Reports(scan)
  /\ last_stamp \in Nat \cup {None} /\ (last_stamp = None => Live = {})
  /\ next_id \in Nat /\ Live \subseteq 0 .. next_id - 1 /\ Cardinality(Live) <= MaxTracks
  /\ \A t \in Live : tracks[t] \in TrackRecords

\* A track's counters count the run of hits, or of misses, that its log ends with.
Counts(t) ==
  /\ Len(t.seen) <= Window
  /\ \A k \in 1 .. ConfirmCount : t.hits >= k <=> InARow(t.seen, k, TRUE)
  /\ \A k \in 1 .. DropCount + 1 : t.misses >= k <=> InARow(t.seen, k, FALSE)
  /\ t.confirmed <=> t.earned

TrackerInv ==
  TracksTypeOK /\ ClockAheadByRewinds /\ \A t \in Live : Counts(tracks[t])

-----------------------------------------------------------------------------
(* The life of one track.                                                  *)

LEMMA WindowIs ==
  /\ Window \in Nat \ {0} /\ ConfirmCount <= Window /\ DropCount + 1 <= Window
  /\ ConfirmCount \in Nat \ {0} /\ DropCount \in Nat /\ MaxTracks \in Nat
BY TrackerAssumption DEF Window

\* A log one scan longer ends with a run of k of a kind exactly when the scan is of
\* that kind and the log before ends with a run of k - 1.
LEMMA LogIs ==
  ASSUME NEW t, t.seen \in Seq(BOOLEAN), Len(t.seen) <= Window, NEW v \in BOOLEAN
  PROVE  /\ Log(t, v) \in Seq(BOOLEAN) /\ Len(Log(t, v)) <= Window
         /\ \A k \in 1 .. Window, b \in BOOLEAN :
              InARow(Log(t, v), k, b) <=> v = b /\ InARow(t.seen, k - 1, b)
<1> DEFINE s == t.seen
           a == Append(s, v)
           L == Log(t, v)
<1>1. Window \in Nat \ {0} /\ Len(s) \in Nat /\ s \in Seq(BOOLEAN)
  BY WindowIs
<1>2. /\ a \in Seq(BOOLEAN) /\ Len(a) = Len(s) + 1 /\ a[Len(s) + 1] = v
      /\ \A i \in 1 .. Len(s) : a[i] = s[i]
  BY <1>1
<1>3. \E d \in {0, 1} :
        /\ L \in Seq(BOOLEAN) /\ Len(L) = Len(s) + 1 - d
        /\ \A i \in 1 .. Len(L) : L[i] = a[i + d]
        /\ d = 1 => Len(s) = Window
        /\ d = 0 => Len(s) + 1 <= Window
  <2>1. CASE Len(s) + 1 > Window
    <3>1. Len(s) = Window /\ Len(a) > Window /\ Len(a) - Window + 1 = 2
      BY <1>1, <1>2, <2>1
    <3>2. L = SubSeq(a, 2, Len(s) + 1)
      BY <1>2, <3>1 DEF Log
    <3>3. /\ L \in Seq(BOOLEAN) /\ Len(L) = Len(s)
          /\ \A i \in 1 .. Len(L) : L[i] = a[i + 1]
      <4> HIDE DEF s, a, L
      <4>1. 2 \in 1 .. Len(a) + 1 /\ Len(s) + 1 \in 1 - 1 .. Len(a)
        BY <1>1, <1>2, <3>1
      <4> QED BY <1>1, <1>2, <3>1, <3>2, <4>1
    <3> QED BY <1>1, <3>1, <3>3
  <2>2. CASE ~(Len(s) + 1 > Window)
    <3>1. L = a /\ Len(s) + 1 <= Window
      BY <1>1, <1>2, <2>2 DEF Log
    <3> HIDE DEF s, a, L
    <3>2. Len(L) = Len(s) + 1 - 0 /\ \A i \in 1 .. Len(L) : L[i] = a[i + 0]
      BY <1>1, <1>2, <3>1
    <3> QED BY <1>2, <3>1, <3>2
  <2> QED BY <2>1, <2>2
<1>4. PICK d \in {0, 1} :
        /\ L \in Seq(BOOLEAN) /\ Len(L) = Len(s) + 1 - d
        /\ \A i \in 1 .. Len(L) : L[i] = a[i + d]
        /\ d = 1 => Len(s) = Window
        /\ d = 0 => Len(s) + 1 <= Window
  BY <1>3
<1>5. ASSUME NEW k \in 1 .. Window, NEW b \in BOOLEAN
      PROVE  InARow(L, k, b) <=> v = b /\ InARow(s, k - 1, b)
  <2> HIDE DEF s, a, L
  <2>1. Len(L) >= k <=> Len(s) >= k - 1
    BY <1>1, <1>4
  <2>2. ASSUME InARow(L, k, b) PROVE v = b /\ InARow(s, k - 1, b)
    <3>1. Len(L) \in Len(L) - k + 1 .. Len(L) /\ Len(L) \in 1 .. Len(L)
      BY <1>1, <1>4, <2>2 DEF InARow
    <3>2. v = b
      <4>1. Len(L) + d = Len(s) + 1 /\ L[Len(L)] = b
        BY <1>1, <1>4, <2>2, <3>1 DEF InARow
      <4>2. L[Len(L)] = a[Len(L) + d]
        BY <1>4, <3>1
      <4> QED BY <1>2, <4>1, <4>2
    <3>3. ASSUME NEW i \in Len(s) - (k - 1) + 1 .. Len(s) PROVE s[i] = b
      <4>1. /\ i - d \in Len(L) - k + 1 .. Len(L) /\ i - d \in 1 .. Len(L)
            /\ (i - d) + d = i /\ i \in 1 .. Len(s)
        BY <1>1, <1>4, <2>1, <2>2, <3>3 DEF InARow
      <4> QED BY <1>2, <1>4, <2>2, <4>1 DEF InARow
    <3> QED BY <2>1, <2>2, <3>2, <3>3 DEF InARow
  <2>3. ASSUME v = b, InARow(s, k - 1, b) PROVE InARow(L, k, b)
    <3>1. ASSUME NEW i \in Len(L) - k + 1 .. Len(L) PROVE L[i] = b
      <4>1. i \in Int /\ i \in 1 .. Len(L) /\ Len(s) = Len(L) - 1 + d
        BY <1>1, <1>4, <2>1, <2>3, <3>1 DEF InARow
      <4>2. L[i] = a[i + d]
        BY <1>4, <4>1
      <4>3. CASE i = Len(L)
        <5>1. i + d = Len(s) + 1
          BY <4>1, <4>3
        <5> QED BY <1>2, <2>3, <4>2, <5>1
      <4>4. CASE i # Len(L)
        <5>1. i + d \in Len(s) - (k - 1) + 1 .. Len(s) /\ i + d \in 1 .. Len(s)
          BY <1>1, <3>1, <4>1, <4>4
        <5> QED BY <1>2, <2>3, <4>2, <5>1 DEF InARow
      <4> QED BY <4>3, <4>4
    <3> QED BY <2>1, <2>3, <3>1 DEF InARow
  <2> QED BY <2>2, <2>3
<1>6. Len(L) <= Window
  <2> HIDE DEF s, a, L
  <2> QED BY <1>1, <1>4
<1> QED BY <1>4, <1>5, <1>6

\* A run of no scans is always there.
LEMMA RunOfNone ==
  ASSUME NEW s \in Seq(BOOLEAN), NEW b PROVE InARow(s, 0, b)
BY DEF InARow

\* A hit leaves a record, at the place it is given.
LEMMA HitIs ==
  ASSUME NEW t \in TrackRecords, Counts(t), NEW p \in Places
  PROVE  /\ Hit(t, p) \in TrackRecords /\ Counts(Hit(t, p))
         /\ Hit(t, p).misses = 0
         /\ Hit(t, p).clock = t.clock /\ Hit(t, p).rewound = t.rewound
<1> DEFINE h == Hit(t, p)
<1>1. /\ t.seen \in Seq(BOOLEAN) /\ Len(t.seen) <= Window /\ t.hits \in 0 .. ConfirmCount
      /\ t.confirmed \in BOOLEAN /\ t.earned \in BOOLEAN /\ t.hits \in Int /\ t.misses \in Int
  BY WindowIs DEF Counts, TrackRecords
<1>2. /\ h.at = p /\ h.hits = Least(t.hits + 1, ConfirmCount) /\ h.misses = 0
      /\ h.confirmed = (t.confirmed \/ t.hits + 1 >= ConfirmCount)
      /\ h.seen = Log(t, TRUE)
      /\ h.earned = (t.earned \/ InARow(Log(t, TRUE), ConfirmCount, TRUE))
      /\ h.clock = t.clock /\ h.rewound = t.rewound
  BY DEF Hit, TrackRecords
<1>3. /\ Log(t, TRUE) \in Seq(BOOLEAN) /\ Len(Log(t, TRUE)) <= Window
      /\ \A k \in 1 .. Window, b \in BOOLEAN :
           InARow(Log(t, TRUE), k, b) <=> TRUE = b /\ InARow(t.seen, k - 1, b)
  BY <1>1, LogIs
<1>4. h.hits \in 0 .. ConfirmCount /\ \A k \in 1 .. ConfirmCount : h.hits >= k <=> t.hits >= k - 1
  BY <1>1, <1>2, WindowIs DEF Least
<1>5. \A k \in 1 .. ConfirmCount : t.hits >= k - 1 <=> InARow(t.seen, k - 1, TRUE)
  <2> TAKE k \in 1 .. ConfirmCount
  <2>1. CASE k = 1
    <3>1. k - 1 = 0 /\ t.hits >= 0
      BY <1>1, <2>1
    <3>2. InARow(t.seen, 0, TRUE)
      BY <1>1, RunOfNone
    <3> QED BY <3>1, <3>2
  <2>2. CASE k # 1
    <3>1. k - 1 \in 1 .. ConfirmCount
      BY <2>2, WindowIs
    <3> QED BY <3>1 DEF Counts
  <2> QED BY <2>1, <2>2
<1>6. \A k \in 1 .. ConfirmCount : k \in 1 .. Window
  BY WindowIs
<1>7. \A k \in 1 .. ConfirmCount : h.hits >= k <=> InARow(h.seen, k, TRUE)
  BY <1>2, <1>3, <1>4, <1>5, <1>6
<1>8. \A k \in 1 .. DropCount + 1 : h.misses >= k <=> InARow(h.seen, k, FALSE)
  <2> TAKE k \in 1 .. DropCount + 1
  <2>1. k \in 1 .. Window /\ ~(h.misses >= k)
    BY <1>2, WindowIs
  <2> QED BY <1>2, <1>3, <2>1
<1>9. h.confirmed <=> h.earned
  <2>1. ConfirmCount \in 1 .. ConfirmCount
    BY WindowIs
  <2>2. t.hits + 1 >= ConfirmCount <=> t.hits >= ConfirmCount - 1
    BY <1>1, WindowIs
  <2>3. t.hits + 1 >= ConfirmCount <=> InARow(Log(t, TRUE), ConfirmCount, TRUE)
    BY <1>3, <1>5, <1>6, <2>1, <2>2
  <2> QED BY <1>1, <1>2, <2>3 DEF Counts
<1>10. h \in TrackRecords
  <2>1. h.misses \in 0 .. DropCount
    BY <1>2, WindowIs
  <2>2. h.confirmed \in BOOLEAN /\ h.earned \in BOOLEAN
    BY <1>2, Zenon
  <2>3. h.clock \in Nat /\ h.rewound \in Nat /\ h.seen \in Seq(BOOLEAN)
    BY <1>2, <1>3 DEF TrackRecords
  <2> QED BY <1>2, <1>4, <2>1, <2>2, <2>3 DEF Hit, TrackRecords
<1>11. Counts(h)
  <2> HIDE DEF h
  <2> QED BY <1>2, <1>3, <1>7, <1>8, <1>9 DEF Counts
<1> QED BY <1>2, <1>10, <1>11

\* So does a miss, unless the track has missed too often.
LEMMA MissIs ==
  ASSUME NEW t \in TrackRecords, Counts(t), NEW p \in Places, ~Dies(Miss(t, p))
  PROVE  /\ Miss(t, p) \in TrackRecords /\ Counts(Miss(t, p))
         /\ Miss(t, p).misses # 0
         /\ Miss(t, p).clock = t.clock /\ Miss(t, p).rewound = t.rewound
<1> DEFINE h == Miss(t, p)
<1>1. /\ t.seen \in Seq(BOOLEAN) /\ Len(t.seen) <= Window /\ t.misses \in 0 .. DropCount
      /\ t.misses \in Int
  BY WindowIs DEF Counts, TrackRecords
<1>2. /\ h.at = p /\ h.hits = 0 /\ h.misses = t.misses + 1
      /\ h.confirmed = t.confirmed /\ h.earned = t.earned
      /\ h.seen = Log(t, FALSE)
      /\ h.clock = t.clock /\ h.rewound = t.rewound
  BY DEF Miss, HitsAfterMiss, TrackRecords
<1>3. /\ Log(t, FALSE) \in Seq(BOOLEAN) /\ Len(Log(t, FALSE)) <= Window
      /\ \A k \in 1 .. Window, b \in BOOLEAN :
           InARow(Log(t, FALSE), k, b) <=> FALSE = b /\ InARow(t.seen, k - 1, b)
  BY <1>1, LogIs
<1>4. \A k \in 1 .. DropCount + 1 : t.misses >= k - 1 <=> InARow(t.seen, k - 1, FALSE)
  <2> TAKE k \in 1 .. DropCount + 1
  <2>1. CASE k = 1
    <3>1. k - 1 = 0 /\ t.misses >= 0
      BY <1>1, <2>1
    <3>2. InARow(t.seen, 0, FALSE)
      BY <1>1, RunOfNone
    <3> QED BY <3>1, <3>2
  <2>2. CASE k # 1
    <3>1. k - 1 \in 1 .. DropCount + 1
      BY <2>2, WindowIs
    <3> QED BY <3>1 DEF Counts
  <2> QED BY <2>1, <2>2
<1>5. \A k \in 1 .. DropCount + 1 :
        k \in 1 .. Window /\ (h.misses >= k <=> t.misses >= k - 1)
  BY <1>1, <1>2, WindowIs
<1>6. \A k \in 1 .. DropCount + 1 : h.misses >= k <=> InARow(h.seen, k, FALSE)
  BY <1>2, <1>3, <1>4, <1>5
<1>7. \A k \in 1 .. ConfirmCount : h.hits >= k <=> InARow(h.seen, k, TRUE)
  <2> TAKE k \in 1 .. ConfirmCount
  <2>1. k \in 1 .. Window /\ ~(h.hits >= k)
    BY <1>2, WindowIs
  <2> QED BY <1>2, <1>3, <2>1
<1>8. h.misses \in 0 .. DropCount /\ h.misses # 0
  <2>1. ~(h.misses > DropCount)
    BY DEF Dies
  <2> HIDE DEF h
  <2> QED BY <1>1, <1>2, <2>1, WindowIs
<1>9. h \in TrackRecords
  <2>1. h.hits \in 0 .. ConfirmCount
    BY <1>2, WindowIs
  <2>2. /\ h.confirmed \in BOOLEAN /\ h.earned \in BOOLEAN
        /\ h.clock \in Nat /\ h.rewound \in Nat /\ h.seen \in Seq(BOOLEAN)
    BY <1>2, <1>3 DEF TrackRecords
  <2> QED BY <1>2, <1>8, <2>1, <2>2 DEF Miss, TrackRecords
<1>10. Counts(h)
  <2>1. h.confirmed <=> h.earned
    BY <1>2 DEF Counts
  <2> HIDE DEF h
  <2> QED BY <1>2, <1>3, <1>6, <1>7, <2>1 DEF Counts
<1> QED BY <1>2, <1>8, <1>9, <1>10

\* Time changes the clock and what was rewound, and nothing else.
LEMMA AgedIs ==
  ASSUME NEW t \in TrackRecords, Counts(t), NEW z, Elapsed(z) \in Nat, StepBack(z) \in Nat
  PROVE  /\ Aged(t, z) \in TrackRecords /\ Counts(Aged(t, z)) /\ Aged(t, z).at = t.at
         /\ Aged(t, z).clock = t.clock + Elapsed(z)
         /\ Aged(t, z).rewound = t.rewound + StepBack(z)
<1> DEFINE a == Aged(t, z)
<1>1. /\ a.at = t.at /\ a.hits = t.hits /\ a.misses = t.misses /\ a.confirmed = t.confirmed
      /\ a.seen = t.seen /\ a.earned = t.earned
      /\ a.clock = t.clock + Elapsed(z) /\ a.rewound = t.rewound + StepBack(z)
  BY DEF Aged, TrackRecords
<1>2. a.clock \in Nat /\ a.rewound \in Nat
  BY <1>1 DEF TrackRecords
<1>3. a \in TrackRecords
  BY <1>1, <1>2 DEF Aged, TrackRecords
<1>4. Counts(a)
  <2> HIDE DEF a
  <2> QED BY <1>1 DEF Counts
<1> QED BY <1>1, <1>3, <1>4

\* A track starts with one hit.
LEMMA BirthIs ==
  ASSUME NEW g \in SUBSET Beams, g # {}, NEW z \in Nat
  PROVE  /\ Birth(g, z) \in TrackRecords /\ Counts(Birth(g, z)) /\ Birth(g, z).misses = 0
         /\ Birth(g, z).clock = z /\ Birth(g, z).rewound = 0
<1> DEFINE b == Birth(g, z)
<1>1. /\ b.at = Centroid(g) /\ b.hits = 1 /\ b.misses = 0 /\ b.confirmed = (ConfirmCount = 1)
      /\ b.clock = z /\ b.rewound = 0 /\ b.seen = <<TRUE>> /\ b.earned = (ConfirmCount = 1)
  BY DEF Birth
<1>2. Centroid(g) \in Places
  BY CentroidIs
<1>3. <<TRUE>> \in Seq(BOOLEAN) /\ Len(<<TRUE>>) = 1 /\ <<TRUE>>[1] = TRUE
  OBVIOUS
<1>4. b \in TrackRecords
  <2>1. 1 \in 0 .. ConfirmCount /\ 0 \in 0 .. DropCount
    BY WindowIs
  <2> QED BY <1>2, <1>3, <2>1 DEF Birth, TrackRecords
<1>5. \A k \in Nat \ {0} : (1 >= k <=> InARow(<<TRUE>>, k, TRUE)) /\ ~InARow(<<TRUE>>, k, FALSE)
  <2> TAKE k \in Nat \ {0}
  <2> DEFINE s == <<TRUE>>
  <2>1. s \in Seq(BOOLEAN) /\ Len(s) = 1 /\ s[1] = TRUE
    BY <1>3
  <2> HIDE DEF s
  <2>2. InARow(s, k, TRUE) => 1 >= k
    BY <2>1 DEF InARow
  <2>3. 1 >= k => InARow(s, k, TRUE)
    <3> SUFFICES ASSUME 1 >= k, NEW i \in Len(s) - k + 1 .. Len(s) PROVE s[i] = TRUE
      BY <2>1 DEF InARow
    <3>1. i = 1
      BY <2>1
    <3> QED BY <2>1, <3>1
  <2>4. ~InARow(s, k, FALSE)
    <3>1. 1 \in Len(s) - k + 1 .. Len(s)
      BY <2>1
    <3> QED BY <2>1, <3>1 DEF InARow
  <2>5. (1 >= k <=> InARow(s, k, TRUE)) /\ ~InARow(s, k, FALSE)
    BY <2>2, <2>3, <2>4
  <2> QED BY <2>5 DEF s
<1>6. Counts(b)
  <2>1. Len(<<TRUE>>) <= Window
    BY <1>3, WindowIs
  <2>2. \A k \in 1 .. ConfirmCount : k \in Nat \ {0}
    BY WindowIs
  <2>3. \A k \in 1 .. DropCount + 1 : k \in Nat \ {0} /\ ~(0 >= k)
    BY WindowIs
  <2> HIDE DEF b
  <2> QED BY <1>1, <1>5, <2>1, <2>2, <2>3 DEF Counts
<1> QED BY <1>1, <1>4, <1>6

-----------------------------------------------------------------------------
(* What a scan does to the tracks.                                         *)

Outcome(p, M, pull, b, z) ==
  /\ next_id' = next_id + Len(b)
  /\ tracks' = [t \in Left(p, M, pull, z) \cup NewIds(b) |->
                  IF t \in Left(p, M, pull, z) THEN Carried(p, M, pull, z, t)
                  ELSE Birth(b[t - next_id + 1], z)]

LEMMA UpdateIs ==
  ASSUME NEW s, NEW z, Update(s, z)
  PROVE  /\ scan' = s /\ last_stamp' = z /\ clusters' \in Reports(s)
         /\ \E p \in Predictions(Elapsed(z)) : \E M \in Associations(p, clusters') :
              \E pull \in [Live -> Pulls] :
                \E b \in Births(Free(M, clusters'), Room(Left(p, M, pull, z))) :
                  Outcome(p, M, pull, b, z)
<1>1. scan' = s /\ last_stamp' = z /\ clusters' \in Reports(s)
  BY DEF Update
<1>2. \E p \in Predictions(Elapsed(z)) : \E M \in Associations(p, clusters') :
        \E pull \in [Live -> Pulls] :
          \E b \in Births(Free(M, clusters'), Room(Left(p, M, pull, z))) :
            Outcome(p, M, pull, b, z)
  BY DEF Update, Outcome
<1> QED BY <1>1, <1>2

\* The reported objects are finitely many finite sets of returns.
LEMMA ReportsAre ==
  ASSUME NEW s \in SUBSET Beams, NEW r \in Reports(s)
  PROVE  /\ IsFiniteSet(r) /\ Cardinality(r) \in Nat
         /\ \A g \in r : g \in SUBSET Beams /\ g # {}
<1>1. r \in SUBSET (SUBSET Beams) /\ \A g \in r : g # {}
  BY ReportsAreWhole, ObjectsPart
<1>2. IsFiniteSet(Beams)
  BY Sweep, FS_Interval DEF Beams
<1>3. IsFiniteSet(SUBSET Beams)
  BY <1>2, FS_SUBSET
<1>4. IsFiniteSet(r)
  BY <1>1, <1>3, FS_Subset
<1> QED BY <1>1, <1>4, FS_CardinalityType

\* The time since the last scan, and the step back to it.
LEMMA TimeIs ==
  ASSUME NEW z \in Nat, last_stamp \in Nat \cup {None}
  PROVE  /\ Elapsed(z) \in Nat /\ StepBack(z) \in Nat
         /\ last_stamp # None => last_stamp + Elapsed(z) = z + StepBack(z)
BY InputAssumption DEF Elapsed, StepBack

\* What a scan leaves of a track: matched, it lives on with no misses; unmatched, it
\* dies or lives on with some.
LEMMA CarriedIs ==
  ASSUME TrackerInv, NEW s \in SUBSET Beams, NEW z \in Nat, NEW C \in Reports(s),
         NEW p \in Predictions(Elapsed(z)), NEW M \in Associations(p, C),
         NEW pull \in [Live -> Pulls], NEW t \in Live
  PROVE  /\ Met(M, t) => t \in Left(p, M, pull, z)
         /\ t \in Left(p, M, pull, z) =>
              /\ Carried(p, M, pull, z, t) \in TrackRecords
              /\ Counts(Carried(p, M, pull, z, t))
              /\ Carried(p, M, pull, z, t).misses = 0 <=> Met(M, t)
              /\ Carried(p, M, pull, z, t).clock = tracks[t].clock + Elapsed(z)
              /\ Carried(p, M, pull, z, t).rewound = tracks[t].rewound + StepBack(z)
<1> DEFINE a == Aged(tracks[t], z)
           c == Carried(p, M, pull, z, t)
<1>1. /\ a \in TrackRecords /\ Counts(a) /\ a.clock = tracks[t].clock + Elapsed(z)
      /\ a.rewound = tracks[t].rewound + StepBack(z)
  <2>1. tracks[t] \in TrackRecords /\ Counts(tracks[t]) /\ last_stamp \in Nat \cup {None}
    BY DEF TrackerInv, TracksTypeOK
  <2> QED BY <2>1, TimeIs, AgedIs
<1>2. p[t] \in Places
  BY DEF Predictions
<1>3. CASE Met(M, t)
  <2>1. PICK q \in M : q[1] = t /\ q = (CHOOSE r \in M : r[1] = t)
    BY <1>3 DEF Met
  <2>2. q[2] \in C
    BY DEF Associations, Pairs
  <2>3. Centroid(q[2]) \in Places
    BY <2>2, ReportsAre, CentroidIs
  <2>4. (Measured(M, t) + pull[t]) % (2 * N) \in Places
    <3>1. Measured(M, t) = Centroid(q[2])
      BY <2>1 DEF Measured
    <3>2. Measured(M, t) \in Int /\ pull[t] \in Int
      <4>1. pull[t] \in Pulls /\ Pulls \subseteq Int
        BY TrackerAssumption, Zenon
      <4>2. PICK x \in Int : x = Centroid(q[2])
        BY <2>3 DEF Places
      <4> QED BY <3>1, <4>1, <4>2, Zenon
    <3>3. PICK m \in Int : m = Measured(M, t) + pull[t]
      BY <3>2
    <3>4. PICK k \in Nat \ {0} : k = 2 * N
      BY Sweep
    <3>5. m % k \in Int /\ 0 <= m % k /\ m % k < k
      BY SMTT(30)
    <3>6. (Measured(M, t) + pull[t]) % (2 * N) \in 0 .. 2 * N - 1
      BY <3>3, <3>4, <3>5
    <3> QED BY <3>6 DEF Places
  <2>5. PICK x \in Places : c = Hit(a, x)
    BY <1>3, <2>4 DEF Carried
  <2> HIDE DEF a, c
  <2>6. /\ c \in TrackRecords /\ Counts(c) /\ c.misses = 0
        /\ c.clock = a.clock /\ c.rewound = a.rewound
    BY <1>1, <2>5, HitIs
  <2>7. ~Dies(c)
    BY <2>6, WindowIs DEF Dies
  <2> QED BY <1>1, <1>3, <2>6, <2>7 DEF c, Left
<1>4. CASE ~Met(M, t)
  <2>1. c = Miss(a, p[t])
    BY <1>4 DEF Carried
  <2> HIDE DEF a, c
  <2>2. CASE ~Dies(c)
    <3>1. /\ c \in TrackRecords /\ Counts(c) /\ c.misses # 0
          /\ c.clock = a.clock /\ c.rewound = a.rewound
      BY <1>1, <1>2, <2>1, <2>2, MissIs
    <3> QED BY <1>1, <1>4, <3>1 DEF c
  <2>3. CASE Dies(c)
    BY <1>4, <2>3 DEF c, Left
  <2> QED BY <2>2, <2>3
<1> QED BY <1>3, <1>4

\* As many tracks start as there is room for, each for an object of its own.
LEMMA BirthsAre ==
  ASSUME NEW C, IsFiniteSet(C), NEW M, NEW room \in Nat, NEW b \in Births(Free(M, C), room),
         next_id \in Nat
  PROVE  /\ Len(b) \in Nat /\ Len(b) <= room
         /\ b \in [1 .. Len(b) -> Free(M, C)]
         /\ \A i, j \in 1 .. Len(b) : b[i] = b[j] => i = j
         /\ IsFiniteSet(NewIds(b)) /\ Cardinality(NewIds(b)) = Len(b)
         /\ IsFiniteSet(Free(M, C)) /\ Cardinality(Free(M, C)) \in Nat
         /\ Len(b) < room => Len(b) = Cardinality(Free(M, C))
<1> DEFINE F == Free(M, C)
           k == Least(Cardinality(F), room)
<1>1. IsFiniteSet(F) /\ Cardinality(F) \in Nat
  <2>1. F \subseteq C
    BY DEF Free
  <2> QED BY <2>1, FS_Subset, FS_CardinalityType
<1>2. k \in Nat /\ k <= room /\ (k < room => k = Cardinality(F))
  BY <1>1 DEF Least
<1>3. b \in [1 .. k -> F] /\ \A i, j \in 1 .. k : b[i] = b[j] => i = j
  BY DEF Births
<1>4. Len(b) = k
  <2> HIDE DEF F, k
  <2>1. b \in Seq(F)
    BY <1>2, <1>3, SeqDef
  <2>2. DOMAIN b = 1 .. Len(b) /\ Len(b) \in Nat /\ DOMAIN b = 1 .. k
    BY <1>3, <2>1, LenProperties
  <2>3. \A x : x \in 1 .. Len(b) <=> x \in 1 .. k
    BY <2>2, Zenon
  <2>4. PICK n \in Nat : n = Len(b)
    BY <2>2
  <2>5. \A x \in Int : 1 <= x /\ x <= n <=> 1 <= x /\ x <= k
    BY <1>2, <2>3, <2>4
  <2> QED BY <1>2, <2>4, <2>5
<1>5. IsFiniteSet(NewIds(b)) /\ Cardinality(NewIds(b)) = Len(b)
  <2> HIDE DEF F, k
  <2>1. PICK e \in Int : e = next_id + Len(b) - 1
    BY <1>2, <1>4
  <2>2. PICK f \in Int : f = next_id
    OBVIOUS
  <2>3. IsFiniteSet(f .. e) /\ Cardinality(f .. e) = IF f > e THEN 0 ELSE e - f + 1
    BY FS_Interval
  <2>4. Len(b) = IF f > e THEN 0 ELSE e - f + 1
    BY <1>2, <1>4, <2>1, <2>2
  <2> QED BY <2>1, <2>2, <2>3, <2>4 DEF NewIds
<1> QED BY <1>1, <1>2, <1>3, <1>4, <1>5

\* A scan of no returns reports nothing.
LEMMA NothingReported == {} \in Reports({})
<1>1. Kept({}) \subseteq Objects({})
  BY DEF Kept
<1>2. \A g \in Objects({}) : g # {} /\ g \subseteq {}
  BY ObjectsPart
<1>3. Kept({}) = {}
  BY <1>1, <1>2
<1>4. Cardinality({}) <= MaxClusters
  BY FS_EmptySet, ClusterAssumption
<1> QED BY <1>3, <1>4 DEF Reports

\* Who is there after a scan: the tracks it left and the new ones, no more than
\* MaxTracks in all.
LEMMA OutcomeIs ==
  ASSUME TrackerInv, NEW s \in SUBSET Beams, NEW z \in Nat, NEW C \in Reports(s),
         NEW p \in Predictions(Elapsed(z)), NEW M \in Associations(p, C),
         NEW pull \in [Live -> Pulls],
         NEW b \in Births(Free(M, C), Room(Left(p, M, pull, z))), Outcome(p, M, pull, b, z)
  PROVE  LET L == Left(p, M, pull, z) IN
         /\ Live' = L \cup NewIds(b) /\ L \cap NewIds(b) = {} /\ L \subseteq Live
         /\ next_id' = next_id + Len(b) /\ Len(b) \in Nat
         /\ IsFiniteSet(L) /\ Cardinality(L) \in Nat
         /\ IsFiniteSet(Live') /\ Cardinality(Live') = Cardinality(L) + Len(b)
         /\ Cardinality(Live') <= MaxTracks
         /\ Cardinality(Live') < MaxTracks => Len(b) = Cardinality(Free(M, C))
         /\ \A t \in L : tracks'[t] = Carried(p, M, pull, z, t)
         /\ \A t \in NewIds(b) : /\ t - next_id + 1 \in 1 .. Len(b)
                                 /\ b[t - next_id + 1] \in Free(M, C)
                                 /\ tracks'[t] = Birth(b[t - next_id + 1], z)
<1> DEFINE L == Left(p, M, pull, z)
           K == NewIds(b)
<1>1. /\ next_id \in Nat /\ Live \subseteq 0 .. next_id - 1 /\ Cardinality(Live) <= MaxTracks
      /\ MaxTracks \in Nat
  BY WindowIs DEF TrackerInv, TracksTypeOK
<1>2. /\ IsFiniteSet(Live) /\ Cardinality(Live) \in Nat /\ IsFiniteSet(L)
      /\ Cardinality(L) \in Nat /\ Cardinality(L) <= Cardinality(Live) /\ L \subseteq Live
  <2>1. IsFiniteSet(0 .. next_id - 1)
    <3>1. 0 \in Int /\ next_id - 1 \in Int
      BY <1>1
    <3> QED BY <3>1, FS_Interval
  <2>2. L \subseteq Live
    BY DEF Left
  <2>3. IsFiniteSet(Live)
    BY <1>1, <2>1, FS_Subset
  <2> HIDE DEF L
  <2> QED BY <2>2, <2>3, FS_Subset, FS_CardinalityType
<1>3. Room(L) = MaxTracks - Cardinality(L) /\ Room(L) \in Nat
  <2> HIDE DEF L
  <2> QED BY <1>1, <1>2 DEF Room, Least
<1>4. IsFiniteSet(C)
  BY ReportsAre
<1>5. /\ Len(b) \in Nat /\ Len(b) <= Room(L) /\ b \in [1 .. Len(b) -> Free(M, C)]
      /\ IsFiniteSet(K) /\ Cardinality(K) = Len(b)
      /\ Len(b) < Room(L) => Len(b) = Cardinality(Free(M, C))
  BY <1>1, <1>3, <1>4, BirthsAre
<1>6. \A t \in K : t - next_id + 1 \in 1 .. Len(b) /\ t \notin L
  <2> HIDE DEF L
  <2> QED BY <1>1, <1>2, <1>5 DEF NewIds
<1>7. L \cap K = {}
  BY <1>6, Zenon
<1>8. /\ Live' = L \cup K
      /\ \A t \in L : tracks'[t] = Carried(p, M, pull, z, t)
      /\ \A t \in K : t \notin L => tracks'[t] = Birth(b[t - next_id + 1], z)
  <2> HIDE DEF L, K
  <2>1. tracks' = [t \in L \cup K |-> IF t \in L THEN Carried(p, M, pull, z, t)
                                     ELSE Birth(b[t - next_id + 1], z)]
    BY DEF Outcome, L, K
  <2> QED BY <2>1 DEF Live
<1>9. IsFiniteSet(Live') /\ Cardinality(Live') = Cardinality(L) + Len(b)
  <2> HIDE DEF L, K
  <2>1. /\ IsFiniteSet(L \cup K)
        /\ Cardinality(L \cup K) = Cardinality(L) + Cardinality(K) - Cardinality(L \cap K)
    BY <1>2, <1>5, FS_Union
  <2>2. Cardinality(L \cap K) = 0
    BY <1>7, FS_EmptySet, Zenon
  <2>3. Cardinality(L \cup K) = Cardinality(L) + Len(b)
    BY <1>2, <1>5, <2>1, <2>2
  <2> QED BY <1>8, <2>1, <2>3, Zenon
<1>10. next_id' = next_id + Len(b)
  BY DEF Outcome
<1>11. \A t \in K : b[t - next_id + 1] \in Free(M, C)
  BY <1>5, <1>6
<1>12. /\ Cardinality(Live') <= MaxTracks
       /\ Cardinality(Live') < MaxTracks => Len(b) = Cardinality(Free(M, C))
  <2> HIDE DEF L
  <2> QED BY <1>1, <1>2, <1>3, <1>5, <1>9
<1> HIDE DEF L, K
<1>13. /\ Live' = L \cup K /\ L \cap K = {} /\ L \subseteq Live
       /\ next_id' = next_id + Len(b) /\ Len(b) \in Nat
       /\ IsFiniteSet(L) /\ Cardinality(L) \in Nat
       /\ IsFiniteSet(Live') /\ Cardinality(Live') = Cardinality(L) + Len(b)
       /\ Cardinality(Live') <= MaxTracks
       /\ Cardinality(Live') < MaxTracks => Len(b) = Cardinality(Free(M, C))
       /\ \A t \in L : tracks'[t] = Carried(p, M, pull, z, t)
       /\ \A t \in K : /\ t - next_id + 1 \in 1 .. Len(b)
                       /\ b[t - next_id + 1] \in Free(M, C)
                       /\ tracks'[t] = Birth(b[t - next_id + 1], z)
  BY <1>2, <1>5, <1>6, <1>7, <1>8, <1>9, <1>10, <1>11, <1>12
<1> QED BY <1>13 DEF L, K

-----------------------------------------------------------------------------
(* The invariant is inductive.                                             *)

LEMMA TrackerInit == Init => TrackerInv
<1> SUFFICES ASSUME Init PROVE TrackerInv
  OBVIOUS
<1>1. /\ scan = {} /\ clusters = {} /\ last_stamp = None /\ tracks = <<>> /\ next_id = 0
      /\ Live = {}
  BY DEF Init, Live
<1>2. clusters \in Reports(scan)
  BY <1>1, NothingReported
<1>3. Cardinality(Live) <= MaxTracks
  BY <1>1, FS_EmptySet, WindowIs
<1> QED BY <1>1, <1>2, <1>3 DEF TrackerInv, TracksTypeOK, ClockAheadByRewinds

LEMMA TrackerUpdate ==
  ASSUME TrackerInv, NEW s \in SUBSET Beams, NEW z \in Nat, Update(s, z)
  PROVE  TrackerInv'
<1>1. scan' = s /\ last_stamp' = z /\ clusters' \in Reports(s) /\ z # None
  BY UpdateIs, InputAssumption
<1>2. PICK p \in Predictions(Elapsed(z)) : \E M \in Associations(p, clusters') :
        \E pull \in [Live -> Pulls] :
          \E b \in Births(Free(M, clusters'), Room(Left(p, M, pull, z))) :
            Outcome(p, M, pull, b, z)
  BY UpdateIs
<1>3. PICK M \in Associations(p, clusters'), pull \in [Live -> Pulls] :
        \E b \in Births(Free(M, clusters'), Room(Left(p, M, pull, z))) :
          Outcome(p, M, pull, b, z)
  BY <1>2
<1>4. PICK b \in Births(Free(M, clusters'), Room(Left(p, M, pull, z))) :
        Outcome(p, M, pull, b, z)
  BY <1>3
<1> DEFINE L == Left(p, M, pull, z)
           K == NewIds(b)
<1>5. /\ Live' = L \cup K /\ L \subseteq Live /\ next_id' = next_id + Len(b) /\ Len(b) \in Nat
      /\ Cardinality(Live') <= MaxTracks
      /\ \A t \in L : tracks'[t] = Carried(p, M, pull, z, t)
      /\ \A t \in K : /\ t - next_id + 1 \in 1 .. Len(b)
                      /\ b[t - next_id + 1] \in Free(M, clusters')
                      /\ tracks'[t] = Birth(b[t - next_id + 1], z)
  BY <1>1, <1>4, OutcomeIs
<1>6. ASSUME NEW t \in L
      PROVE  /\ tracks'[t] \in TrackRecords /\ Counts(tracks'[t])
             /\ tracks'[t].clock = z + tracks'[t].rewound
  <2>1. /\ tracks'[t] \in TrackRecords /\ Counts(tracks'[t])
        /\ tracks'[t].clock = tracks[t].clock + Elapsed(z)
        /\ tracks'[t].rewound = tracks[t].rewound + StepBack(z)
    BY <1>1, <1>5, CarriedIs
  <2>2. t \in Live
    BY <1>5
  <2> HIDE DEF L
  <2>3. /\ last_stamp \in Nat /\ last_stamp # None
        /\ tracks[t].clock = last_stamp + tracks[t].rewound /\ tracks[t].rewound \in Nat
    BY <2>2 DEF TrackerInv, TracksTypeOK, ClockAheadByRewinds, TrackRecords
  <2>4. /\ Elapsed(z) \in Nat /\ StepBack(z) \in Nat
        /\ last_stamp + Elapsed(z) = z + StepBack(z)
    BY <2>3, TimeIs
  <2>5. PICK r \in Nat, e \in Nat, u \in Nat :
          r = tracks[t].rewound /\ e = Elapsed(z) /\ u = StepBack(z)
    BY <2>3, <2>4
  <2>6. (last_stamp + r) + e = z + (r + u)
    BY <2>3, <2>4, <2>5
  <2>7. tracks'[t].clock = (last_stamp + r) + e /\ tracks'[t].rewound = r + u
    BY <2>1, <2>3, <2>5
  <2> QED BY <2>1, <2>6, <2>7
<1>7. ASSUME NEW t \in K
      PROVE  /\ tracks'[t] \in TrackRecords /\ Counts(tracks'[t])
             /\ tracks'[t].clock = z + tracks'[t].rewound
  <2>1. PICK g \in clusters' : tracks'[t] = Birth(g, z)
    BY <1>5 DEF Free
  <2>2. g \in SUBSET Beams /\ g # {}
    BY <1>1, ReportsAre
  <2> QED BY <2>1, <2>2, BirthIs
<1>8. ASSUME NEW t \in Live'
      PROVE  /\ tracks'[t] \in TrackRecords /\ Counts(tracks'[t])
             /\ tracks'[t].clock = z + tracks'[t].rewound
  BY <1>5, <1>6, <1>7
<1>9. next_id' \in Nat /\ Live' \subseteq 0 .. next_id' - 1
  <2>1. next_id \in Nat /\ Live \subseteq 0 .. next_id - 1
    BY DEF TrackerInv, TracksTypeOK
  <2> HIDE DEF L
  <2>2. next_id' \in Nat /\ next_id' = next_id + Len(b) /\ Len(b) \in Nat
    BY <1>5, <2>1
  <2>3. ASSUME NEW t \in Live' PROVE t \in 0 .. next_id' - 1
    <3>1. t \in L \/ t \in next_id .. next_id + Len(b) - 1
      BY <1>5, <2>3 DEF NewIds
    <3>2. t \in L => t \in 0 .. next_id - 1
      BY <1>5, <2>1
    <3> HIDE DEF K
    <3> QED BY <2>1, <2>2, <3>1, <3>2
  <2> QED BY <2>2, <2>3
<1> HIDE DEF L, K
<1>10. TracksTypeOK'
  BY <1>1, <1>5, <1>8, <1>9 DEF TracksTypeOK
<1>11. ClockAheadByRewinds'
  BY <1>1, <1>8 DEF ClockAheadByRewinds
<1>12. \A t \in Live' : Counts(tracks'[t])
  BY <1>8
<1> QED BY <1>10, <1>11, <1>12 DEF TrackerInv, Counts

LEMMA ScansAre ==
  ASSUME Scan
  PROVE  \E s \in SUBSET Beams, z \in Nat : Update(s, z)
<1>1. PICK s \in (IF last_stamp = None THEN FirstScans ELSE Scans), z \in Stamps : Update(s, z)
  BY DEF Scan
<1>2. s \in SUBSET Beams /\ z \in Nat
  BY InputAssumption
<1> QED BY <1>1, <1>2

LEMMA TrackerReset == ASSUME Reset PROVE TrackerInv'
<1>1. /\ scan' = {} /\ clusters' = {} /\ last_stamp' = None /\ tracks' = <<>> /\ next_id' = 0
      /\ Live' = {}
  BY DEF Reset, Live
<1>2. clusters' \in Reports(scan')
  BY <1>1, NothingReported
<1>3. Cardinality(Live') <= MaxTracks
  BY <1>1, FS_EmptySet, WindowIs
<1>4. TracksTypeOK'
  BY <1>1, <1>2, <1>3 DEF TracksTypeOK
<1>5. ClockAheadByRewinds'
  BY <1>1 DEF ClockAheadByRewinds
<1> QED BY <1>1, <1>4, <1>5 DEF TrackerInv

LEMMA TrackerNext == TrackerInv /\ [Next]_vars => TrackerInv'
<1> SUFFICES ASSUME TrackerInv, [Next]_vars PROVE TrackerInv'
  OBVIOUS
<1>1. CASE Scan
  BY <1>1, ScansAre, TrackerUpdate
<1>2. CASE Reset
  BY <1>2, TrackerReset
<1>3. CASE UNCHANGED vars
  <2>1. /\ scan' = scan /\ clusters' = clusters /\ last_stamp' = last_stamp
        /\ tracks' = tracks /\ next_id' = next_id /\ Live' = Live
    BY <1>3 DEF vars, Live
  <2>2. TracksTypeOK'
    BY <2>1 DEF TrackerInv, TracksTypeOK
  <2>3. ClockAheadByRewinds'
    BY <2>1 DEF TrackerInv, ClockAheadByRewinds
  <2>4. \A t \in Live' : Counts(tracks'[t])
    BY <2>1 DEF TrackerInv
  <2> QED BY <2>2, <2>3, <2>4 DEF TrackerInv, Counts
<1> QED BY <1>1, <1>2, <1>3 DEF Next

LEMMA TrackerInductive == Spec => []TrackerInv
<1> QED BY TrackerInit, TrackerNext, PTL DEF Spec

-----------------------------------------------------------------------------
(* What follows of the tracker.                                            *)

\* Every track has a place, counters and a log of their types, its id has been given
\* out, there are never more than MaxTracks, and the objects are a report of the scan.
THEOREM TracksTypeCorrect == Spec => []TracksTypeOK
<1>1. TrackerInv => TracksTypeOK
  BY DEF TrackerInv
<1> QED BY <1>1, TrackerInductive, PTL

\* The clusters are whole objects, wherever the sweep starts, and only size and number
\* keep an object out.
THEOREM ClustersWhole == Spec => []ObjectsStayWhole
<1>1. TrackerInv => ObjectsStayWhole
  <2> SUFFICES ASSUME TrackerInv PROVE ObjectsStayWhole
    OBVIOUS
  <2>1. scan \in SUBSET Beams /\ clusters \in Reports(scan)
    BY DEF TrackerInv, TracksTypeOK
  <2> QED BY <2>1, ReportsAreWhole DEF ObjectsStayWhole
<1> QED BY <1>1, TrackerInductive, PTL

\* A track is confirmed exactly when ConfirmCount scans in a row have matched it, and
\* is gone once more than DropCount in a row have not.
THEOREM ConfirmationEarned == Spec => []ConfirmedWhenEarned
<1>1. TrackerInv => ConfirmedWhenEarned
  <2> SUFFICES ASSUME TrackerInv, NEW t \in Live
               PROVE  /\ tracks[t].confirmed = tracks[t].earned
                      /\ ~InARow(tracks[t].seen, DropCount + 1, FALSE)
    BY DEF ConfirmedWhenEarned
  <2>1. tracks[t] \in TrackRecords /\ Counts(tracks[t])
    BY DEF TrackerInv, TracksTypeOK
  <2>2. tracks[t].confirmed = tracks[t].earned
    BY <2>1 DEF Counts, TrackRecords
  <2>3. DropCount + 1 \in 1 .. DropCount + 1 /\ ~(tracks[t].misses >= DropCount + 1)
    BY <2>1, WindowIs DEF TrackRecords
  <2>4. ~InARow(tracks[t].seen, DropCount + 1, FALSE)
    BY <2>1, <2>3 DEF Counts
  <2> QED BY <2>2, <2>4
<1> QED BY <1>1, TrackerInductive, PTL

\* A track's clock is the last stamp and what was rewound since its birth.
THEOREM ClockKeepsRewinds == Spec => []ClockAheadByRewinds
<1>1. TrackerInv => ClockAheadByRewinds
  BY DEF TrackerInv
<1> QED BY <1>1, TrackerInductive, PTL

\* A matching names a track and an object, and neither twice.
LEMMA MatchesAre ==
  ASSUME NEW p, NEW C, NEW M \in Associations(p, C)
  PROVE  /\ \A q \in M : /\ q = <<q[1], q[2]>> /\ q[1] \in Live /\ q[2] \in C
                         /\ Dist(p[q[1]], Centroid(q[2])) <= Gate
         /\ \A q, r \in M : q[1] = r[1] \/ q[2] = r[2] => q = r
<1>1. \A q \in M : q \in Pairs(p, C)
  BY DEF Associations
<1>2. \A q \in M : /\ q = <<q[1], q[2]>> /\ q[1] \in Live /\ q[2] \in C
                   /\ Dist(p[q[1]], Centroid(q[2])) <= Gate
  BY <1>1 DEF Pairs
<1>3. \A q, r \in M : q[1] = r[1] \/ q[2] = r[2] => q = r
  BY DEF Associations, Clash
<1> QED BY <1>2, <1>3

\* The tracks with no misses after a scan go one to one to its objects, and onto them
\* when there was room for every object without a track.
LEMMA OneTrackStep ==
  ASSUME TrackerInv, NEW s \in SUBSET Beams, NEW z \in Nat, Update(s, z)
  PROVE  LET met == {t \in DOMAIN tracks' : tracks'[t].misses = 0}
         IN /\ Cardinality(met) <= Cardinality(clusters')
            /\ Cardinality(DOMAIN tracks') <= MaxTracks
            /\ Cardinality(DOMAIN tracks') < MaxTracks => Cardinality(met) = Cardinality(clusters')
<1>1. PICK C \in Reports(s) : C = clusters'
  BY UpdateIs
<1>2. PICK p \in Predictions(Elapsed(z)) : \E M \in Associations(p, C) :
        \E pull \in [Live -> Pulls] :
          \E b \in Births(Free(M, C), Room(Left(p, M, pull, z))) : Outcome(p, M, pull, b, z)
  BY <1>1, UpdateIs
<1>3. PICK M \in Associations(p, C), pull \in [Live -> Pulls] :
        \E b \in Births(Free(M, C), Room(Left(p, M, pull, z))) : Outcome(p, M, pull, b, z)
  BY <1>2
<1>4. PICK b \in Births(Free(M, C), Room(Left(p, M, pull, z))) : Outcome(p, M, pull, b, z)
  BY <1>3
<1> DEFINE L == Left(p, M, pull, z)
           K == NewIds(b)
           met == {t \in DOMAIN tracks' : tracks'[t].misses = 0}
           f == [t \in met |-> IF t \in L THEN (CHOOSE q \in M : q[1] = t)[2]
                               ELSE b[t - next_id + 1]]
<1>5. /\ Live' = L \cup K /\ L \cap K = {} /\ L \subseteq Live
      /\ Len(b) \in Nat /\ Cardinality(Live') <= MaxTracks
      /\ Cardinality(Live') < MaxTracks => Len(b) = Cardinality(Free(M, C))
      /\ \A t \in L : tracks'[t] = Carried(p, M, pull, z, t)
      /\ \A t \in K : /\ t - next_id + 1 \in 1 .. Len(b)
                      /\ b[t - next_id + 1] \in Free(M, C)
                      /\ tracks'[t] = Birth(b[t - next_id + 1], z)
  BY <1>4, OutcomeIs
<1>6. /\ IsFiniteSet(C) /\ \A g \in C : g \in SUBSET Beams /\ g # {}
  BY ReportsAre
<1>7. /\ next_id \in Nat
      /\ \A i, j \in 1 .. Len(b) : b[i] = b[j] => i = j
      /\ b \in [1 .. Len(b) -> Free(M, C)]
      /\ IsFiniteSet(Free(M, C))
  <2>1. Room(L) \in Nat /\ next_id \in Nat
    <3>1. Cardinality(L) \in Nat
      BY <1>4, OutcomeIs
    <3> HIDE DEF L
    <3> QED BY <3>1, WindowIs DEF Room, Least, TrackerInv, TracksTypeOK
  <2> QED BY <1>6, <2>1, BirthsAre
<1>8. \A t \in L : (tracks'[t].misses = 0 <=> Met(M, t))
  BY <1>5, CarriedIs
<1>9. \A t \in Live : Met(M, t) => t \in L
  BY CarriedIs
<1>10. \A t \in K : tracks'[t].misses = 0
  BY <1>5, <1>6, BirthIs DEF Free
<1> HIDE DEF L, K
<1>11. met = {t \in L : Met(M, t)} \cup K
  BY <1>5, <1>8, <1>10 DEF Live
<1>12. \A t \in met \cap L : \E q \in M : q[1] = t /\ f[t] = q[2]
  BY <1>5, <1>11 DEF Met
<1>13. \A t \in met \cap K : t \notin L /\ f[t] = b[t - next_id + 1]
  BY <1>5
<1>14. \A t \in met : t \in L \/ t \in K
  BY <1>11
<1> HIDE DEF f, met
<1>15. \A t \in met : f[t] \in C
  BY <1>5, <1>12, <1>13, <1>14, MatchesAre DEF Free
<1>16. f \in [met -> C]
  BY <1>15 DEF f
<1>17. ASSUME NEW t \in met, NEW u \in met, f[t] = f[u] PROVE t = u
  <2>1. CASE t \in L /\ u \in L
    BY <1>12, <1>17, <2>1, MatchesAre
  <2>2. CASE t \in K /\ u \in K
    <3>1. t - next_id + 1 = u - next_id + 1
      BY <1>5, <1>7, <1>13, <1>17, <2>2
    <3>2. t \in Int /\ u \in Int
      BY <1>5, <1>7, <2>2 DEF K, NewIds
    <3> QED BY <1>7, <3>1, <3>2
  <2>3. CASE (t \in L /\ u \in K) \/ (t \in K /\ u \in L)
    BY <1>5, <1>12, <1>13, <1>17, <2>3 DEF Free
  <2> QED BY <1>14, <2>1, <2>2, <2>3
<1>18. f \in Injection(met, C)
  BY <1>16, <1>17 DEF Injection, IsInjective
<1>19. Cardinality(met) <= Cardinality(C) /\ (Cardinality(met) = Cardinality(C) <=> f \in Surjection(met, C))
  BY <1>6, <1>18, FS_Injection
<1>20. ASSUME Cardinality(Live') < MaxTracks PROVE f \in Surjection(met, C)
  <2>1. Len(b) = Cardinality(Free(M, C))
    BY <1>5, <1>20
  <2>2. b \in Injection(1 .. Len(b), Free(M, C))
    BY <1>7 DEF Injection, IsInjective
  <2>3. Cardinality(1 .. Len(b)) = Len(b)
    <3>1. PICK n \in Nat : n = Len(b)
      BY <1>5
    <3>2. Cardinality(1 .. n) = IF 1 > n THEN 0 ELSE n - 1 + 1
      BY FS_Interval
    <3>3. Cardinality(1 .. n) = n
      BY <3>2
    <3> QED BY <3>1, <3>3
  <2>4. b \in Surjection(1 .. Len(b), Free(M, C))
    BY <1>7, <2>1, <2>2, <2>3, FS_Injection
  <2>5. ASSUME NEW g \in C PROVE \E t \in met : f[t] = g
    <3>1. CASE g \in Free(M, C)
      <4>1. PICK i \in 1 .. Len(b) : b[i] = g
        BY <2>4, <3>1 DEF Surjection
      <4>2. PICK t \in Int : t = next_id + i - 1
        BY <1>7, <4>1
      <4>3. t \in K /\ t - next_id + 1 = i
        BY <1>5, <1>7, <4>2 DEF K, NewIds
      <4> QED BY <1>11, <1>13, <4>1, <4>3
    <3>2. CASE g \notin Free(M, C)
      <4>1. PICK q \in M : q[2] = g
        BY <3>2 DEF Free
      <4>2. q[1] \in Live /\ Met(M, q[1])
        BY MatchesAre DEF Met
      <4>3. q[1] \in met \cap L
        BY <1>9, <1>11, <4>2
      <4>4. PICK r \in M : r[1] = q[1] /\ f[q[1]] = r[2]
        BY <1>12, <4>3
      <4>5. r = q
        BY <4>4, MatchesAre
      <4> QED BY <4>1, <4>3, <4>4, <4>5
    <3> QED BY <3>1, <3>2
  <2> QED BY <1>16, <2>5 DEF Surjection
<1>21. /\ Cardinality(met) <= Cardinality(clusters')
       /\ Cardinality(DOMAIN tracks') <= MaxTracks
       /\ Cardinality(DOMAIN tracks') < MaxTracks => Cardinality(met) = Cardinality(clusters')
  BY <1>1, <1>5, <1>19, <1>20 DEF Live
<1> QED BY <1>21 DEF met

\* Every scan matches or starts at most one track for each object, and one for every
\* object while there is room; there are never more than MaxTracks.
THEOREM ObjectsGetOneTrack == Spec => OneTrackPerObject
<1>1. TrackerInv /\ [Next]_vars =>
        [LET met == {t \in DOMAIN tracks' : tracks'[t].misses = 0}
         IN /\ Cardinality(met) <= Cardinality(clusters')
            /\ Cardinality(DOMAIN tracks') <= MaxTracks
            /\ Cardinality(DOMAIN tracks') < MaxTracks =>
                 Cardinality(met) = Cardinality(clusters')]_vars
  <2> SUFFICES ASSUME TrackerInv, Scan \/ Reset
               PROVE  LET met == {t \in DOMAIN tracks' : tracks'[t].misses = 0}
                      IN /\ Cardinality(met) <= Cardinality(clusters')
                         /\ Cardinality(DOMAIN tracks') <= MaxTracks
                         /\ Cardinality(DOMAIN tracks') < MaxTracks =>
                              Cardinality(met) = Cardinality(clusters')
    BY DEF Next
  <2>1. CASE Scan
    BY <2>1, ScansAre, OneTrackStep
  <2>2. CASE Reset
    <3>1. clusters' = {} /\ DOMAIN tracks' = {}
      BY <2>2 DEF Reset
    <3>2. {t \in DOMAIN tracks' : tracks'[t].misses = 0} = {}
      BY <3>1
    <3>3. Cardinality({}) = 0 /\ 0 <= MaxTracks
      BY FS_EmptySet, WindowIs
    <3> QED BY <3>1, <3>2, <3>3
  <2> QED BY <2>1, <2>2
<1> QED BY <1>1, TrackerInductive, PTL DEF Spec, OneTrackPerObject

\* Within Wobble of a track, a prediction is a gate at most from an object that the
\* track is a gate less Wobble from, and beyond the gate of one further off than both.
LEMMA PredictionIs ==
  ASSUME TrackerInv, NEW z \in Nat, NEW p \in Predictions(Elapsed(z)), NEW t \in Live,
         NEW c \in Places
  PROVE  /\ p[t] \in Places
         /\ Dist(tracks[t].at, c) + Wobble <= Gate => Dist(p[t], c) <= Gate
         /\ Dist(tracks[t].at, c) > Gate + Wobble => Dist(p[t], c) > Gate
<1>1. /\ p[t] \in Places /\ tracks[t].at \in Places /\ Wobble \in Nat /\ Gate \in Nat
      /\ Elapsed(z) \in Nat
  BY TrackerAssumption, TimeIs DEF TrackerInv, TracksTypeOK, TrackRecords, Predictions
<1>2. Dist(p[t], tracks[t].at) <= Wobble
  <2>1. Dist(p[t], tracks[t].at) <= IF Elapsed(z) > 0 THEN Wobble ELSE 0
    BY DEF Predictions
  <2>2. Dist(p[t], tracks[t].at) \in Nat
    BY <1>1, DistIs
  <2> QED BY <1>1, <2>1, <2>2
<1>3. PICK a \in Places, m \in Places : a = tracks[t].at /\ m = p[t]
  BY <1>1
<1>4. /\ Dist(m, a) \in Nat /\ Dist(a, c) \in Nat /\ Dist(m, c) \in Nat /\ Dist(m, a) = Dist(a, m)
      /\ Dist(m, c) <= Dist(m, a) + Dist(a, c)
      /\ Dist(a, c) <= Dist(a, m) + Dist(m, c)
  BY DistIs
<1>5. Dist(m, a) <= Wobble
  BY <1>2, <1>3
<1>6. /\ Dist(a, c) + Wobble <= Gate => Dist(m, c) <= Gate
      /\ Dist(a, c) > Gate + Wobble => Dist(m, c) > Gate
  BY <1>1, <1>4, <1>5
<1> QED BY <1>1, <1>3, <1>6

\* A track and an object with no other neighbour are matched.
LEMMA KeepsStep ==
  ASSUME TrackerInv, NEW s \in SUBSET Beams, NEW z \in Nat, Update(s, z),
         NEW t \in Live, NEW g \in clusters',
         Dist(tracks[t].at, Centroid(g)) + Wobble <= Gate,
         \A h \in clusters' \ {g} : Beyond(t, h),
         \A u \in Live \ {t} : Beyond(u, g)
  PROVE  t \in DOMAIN tracks' /\ tracks'[t].misses = 0
<1>1. PICK C \in Reports(s) : C = clusters'
  BY UpdateIs
<1>2. PICK p \in Predictions(Elapsed(z)) : \E M \in Associations(p, C) :
        \E pull \in [Live -> Pulls] :
          \E b \in Births(Free(M, C), Room(Left(p, M, pull, z))) : Outcome(p, M, pull, b, z)
  BY <1>1, UpdateIs
<1>3. PICK M \in Associations(p, C), pull \in [Live -> Pulls] :
        \E b \in Births(Free(M, C), Room(Left(p, M, pull, z))) : Outcome(p, M, pull, b, z)
  BY <1>2
<1>4. PICK b \in Births(Free(M, C), Room(Left(p, M, pull, z))) : Outcome(p, M, pull, b, z)
  BY <1>3
<1>5. \A h \in C : Centroid(h) \in Places
  BY ReportsAre, CentroidIs
<1>6. g \in C /\ Dist(p[t], Centroid(g)) <= Gate
  BY <1>1, <1>5, PredictionIs
<1>7. ASSUME NEW q \in M, q[1] = t \/ q[2] = g PROVE q[1] = t /\ q[2] = g
  <2>1. /\ q[1] \in Live /\ q[2] \in C /\ Dist(p[q[1]], Centroid(q[2])) <= Gate
        /\ Centroid(q[2]) \in Places
    BY <1>5, MatchesAre
  <2>2. Dist(p[q[1]], Centroid(q[2])) \in Nat /\ Gate \in Nat
    <3>1. p[q[1]] \in Places
      BY <2>1 DEF Predictions
    <3> QED BY <2>1, <3>1, DistIs, TrackerAssumption
  <2>3. ~(Dist(tracks[q[1]].at, Centroid(q[2])) > Gate + Wobble)
    BY <2>1, <2>2, PredictionIs
  <2>4. ~Beyond(q[1], q[2])
    BY <2>3 DEF Beyond
  <2>5. q[1] = t => q[2] = g
    BY <1>1, <2>1, <2>4
  <2>6. q[2] = g => q[1] = t
    BY <2>1, <2>4
  <2> QED BY <1>7, <2>5, <2>6
<1>8. \E q \in M : q[1] = t /\ q[2] = g
  <2>1. CASE <<t, g>> \in M
    BY <2>1
  <2>2. CASE <<t, g>> \notin M
    <3>1. <<t, g>> \in Pairs(p, C) \ M
      BY <1>6, <2>2 DEF Pairs
    <3>2. PICK r \in M : Clash(<<t, g>>, r)
      BY <3>1 DEF Associations
    <3>3. r[1] = t \/ r[2] = g
      BY <3>2 DEF Clash
    <3> QED BY <1>7, <3>3
  <2> QED BY <2>1, <2>2
<1>9. Met(M, t) /\ \A q \in M : q[1] = t => q[2] = g
  BY <1>7, <1>8 DEF Met
<1>10. t \in Left(p, M, pull, z)
  BY <1>9, CarriedIs
<1>11. t \in Live' /\ tracks'[t] = Carried(p, M, pull, z, t) /\ tracks'[t].misses = 0
  BY <1>4, <1>9, <1>10, CarriedIs, OutcomeIs
<1> QED BY <1>11 DEF Live

\* A track and an object that are each other's only neighbours stay together.
THEOREM NeighboursStay == Spec => KeepsItsTrack
<1>1. TrackerInv /\ [Next]_vars =>
        [\A t \in Live, g \in clusters' :
           /\ Dist(tracks[t].at, Centroid(g)) + Wobble <= Gate
           /\ \A h \in clusters' \ {g} : Beyond(t, h)
           /\ \A u \in Live \ {t} : Beyond(u, g)
           => t \in DOMAIN tracks' /\ tracks'[t].misses = 0]_vars
  <2> SUFFICES ASSUME TrackerInv, Scan \/ Reset, NEW t \in Live, NEW g \in clusters',
                      Dist(tracks[t].at, Centroid(g)) + Wobble <= Gate,
                      \A h \in clusters' \ {g} : Beyond(t, h),
                      \A u \in Live \ {t} : Beyond(u, g)
               PROVE  t \in DOMAIN tracks' /\ tracks'[t].misses = 0
    BY DEF Next
  <2>1. CASE Scan
    BY <2>1, ScansAre, KeepsStep
  <2>2. CASE Reset
    BY <2>2 DEF Reset
  <2> QED BY <2>1, <2>2
<1> QED BY <1>1, TrackerInductive, PTL DEF Spec, KeepsItsTrack
=============================================================================
