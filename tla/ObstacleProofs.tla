--------------------------- MODULE ObstacleProofs ---------------------------
(***************************************************************************)
(* Proofs about the obstacles' way into the QP.  ObstacleFeed: for any     *)
(* slots, timings and queue depth, nothing a controller held when it was   *)
(* deactivated is acted on after that, and no cycle yields to another      *)
(* task's predictions.                                                     *)
(* ObstacleSlots: for any costmap, distance, horizon and slots, a slot     *)
(* carries one obstacle, every sighting of one is written, the slots go to *)
(* the earliest encounters, and no node's read is left with an occupied    *)
(* cell nobody stands for.                                                 *)
(***************************************************************************)
EXTENDS ObstacleFeed, ObstacleSlots, TLAPS, SequenceTheorems, FiniteSetTheorems

-----------------------------------------------------------------------------
(* Perception from the callback to the cycle.                              *)

\* No message is one held at a deactivation, and the queue is in the order of
\* publication: what was queued at a deactivation comes before what was published
\* since, the delivered message included.
QueueInv ==
  /\ \A i \in DOMAIN queue : queue[i].past # "held"
  /\ \A i, j \in DOMAIN queue :
       i < j /\ queue[i].past = "new" => queue[j].past = "new"
  /\ latest.past = "new" => \A i \in DOMAIN queue : queue[i].past = "new"

\* Predictions belong to the running task as long as it runs, and there are none
\* between tasks.
PerceptionInv ==
  /\ QueueInv
  /\ latest.past # "held" /\ snapshot.past # "held"
  /\ predicted.own
  /\ ~task => predicted.n = 0
  /\ cycle # "idle" => task

FeedInv == TypeOK /\ PerceptionInv

\* Ageing keeps a message a message, the absent one absent, and its tag.
LEMMA AgedMessage ==
  ASSUME NEW message \in Messages \cup {Nothing}
  PROVE  /\ Aged(message) \in Messages \cup {Nothing}
         /\ message \in Messages => Aged(message) \in Messages
         /\ Aged(message).past = message.past
<1>1. Old \in Nat /\ Ahead \in Nat
  BY TimeAssumption DEF Old
<1>2. CASE message \in Messages
  BY <1>1, <1>2 DEF Aged, Messages
<1>3. CASE message = Nothing
  <2>1. Nothing.age = Old
    BY DEF Nothing
  <2>2. Aged(message) = Nothing
    BY <1>3, <2>1 DEF Aged
  <2> QED BY <1>3, <2>2 DEF Nothing, Messages
<1> QED BY <1>2, <1>3

\* The fill never selects more tracks than it has slots for or may spend.
LEMMA SelectedInRange ==
  ASSUME NEW movers \in Nat
  PROVE  Selected(movers) \in 0..K /\ (MaxDynamic >= 0 => Selected(movers) <= MaxDynamic)
  BY SlotAssumption DEF Selected, Minimum

\* A message of a queue that is not full, or that dropped its oldest, is kept.
LEMMA PublishKeeps == FeedInv /\ Publish => FeedInv'
<1> SUFFICES ASSUME FeedInv, Publish PROVE FeedInv'
  OBVIOUS
<1>1. PICK age \in (-Ahead)..Delay, movers \in 0..MaxMovers :
        queue' = Append(IF Len(queue) = Depth THEN Tail(queue) ELSE queue,
                        [age |-> age, movers |-> movers, past |-> "new"])
  BY DEF Publish
<1> DEFINE message == [age |-> age, movers |-> movers, past |-> "new"]
           kept == IF Len(queue) = Depth THEN Tail(queue) ELSE queue
<1>2. message \in Messages
  BY TimeAssumption DEF Messages, Pasts, Old
<1>3. queue \in Seq(Messages) /\ Len(queue) <= Depth
  BY DEF FeedInv, TypeOK
<1>4. /\ kept \in Seq(Messages) /\ Len(kept) < Depth
      /\ \A i \in 1..Len(kept) : kept[i].past # "held"
      /\ \A i, j \in 1..Len(kept) : i < j /\ kept[i].past = "new" => kept[j].past = "new"
      /\ latest.past = "new" => \A i \in 1..Len(kept) : kept[i].past = "new"
  <2>1. CASE Len(queue) = Depth
    <3>1. queue # <<>>
      BY <1>3, <2>1, DepthAssumption
    <3>2. /\ Tail(queue) \in Seq(Messages) /\ Len(Tail(queue)) = Len(queue) - 1
          /\ \A i \in 1..Len(Tail(queue)) : Tail(queue)[i] = queue[i + 1]
      BY <1>3, <3>1, HeadTailProperties
    <3>3. /\ \A i \in 1..Len(Tail(queue)) : Tail(queue)[i].past # "held"
          /\ \A i, j \in 1..Len(Tail(queue)) :
               i < j /\ Tail(queue)[i].past = "new" => Tail(queue)[j].past = "new"
          /\ latest.past = "new" =>
               \A i \in 1..Len(Tail(queue)) : Tail(queue)[i].past = "new"
      BY <1>3, <3>2 DEF FeedInv, PerceptionInv, QueueInv
    <3> QED BY <2>1, <3>2, <3>3, DepthAssumption
  <2>2. CASE Len(queue) # Depth
    BY <1>3, <2>2, DepthAssumption DEF FeedInv, PerceptionInv, QueueInv
  <2> QED BY <2>1, <2>2
<1> HIDE DEF kept
<1>5. /\ Append(kept, message) \in Seq(Messages)
      /\ Len(Append(kept, message)) = Len(kept) + 1
      /\ \A i \in 1..Len(kept) : Append(kept, message)[i] = kept[i]
      /\ Append(kept, message)[Len(kept) + 1] = message
  BY <1>2, <1>4, AppendProperties
<1>6. queue' = Append(kept, message)
  BY <1>1 DEF kept
<1>7. queue' \in Seq(Messages) /\ Len(queue') <= Depth
  BY <1>4, <1>5, <1>6, DepthAssumption
<1>8. QueueInv'
  <2>1. DOMAIN queue' = 1..(Len(kept) + 1) /\ Len(kept) \in Nat
    BY <1>4, <1>5, <1>6
  <2>2. \A i \in DOMAIN queue' : i \in 1..Len(kept) \/ i = Len(kept) + 1
    BY <2>1
  <2>3. /\ \A i \in 1..Len(kept) : queue'[i] = kept[i]
        /\ queue'[Len(kept) + 1] = message
    BY <1>5, <1>6
  <2>4. message.past = "new" /\ latest' = latest
    BY DEF Publish
  <2> HIDE DEF message
  <2>5. \A i \in DOMAIN queue' : queue'[i].past # "held"
    BY <1>4, <2>2, <2>3, <2>4
  <2>6. \A i, j \in DOMAIN queue' :
          i < j /\ queue'[i].past = "new" => queue'[j].past = "new"
    BY <1>4, <2>1, <2>2, <2>3, <2>4
  <2>7. latest'.past = "new" => \A i \in DOMAIN queue' : queue'[i].past = "new"
    BY <1>4, <2>2, <2>3, <2>4
  <2> QED BY <2>5, <2>6, <2>7 DEF QueueInv
<1>9. UNCHANGED <<lifecycle, predict, latest, task, cycle, elapsed, snapshot, predicted, filled>>
  BY DEF Publish, control
<1> QED BY <1>7, <1>8, <1>9 DEF FeedInv, TypeOK, PerceptionInv

\* Delivering the head of the queue keeps the rest of it.
LEMMA CallbackKeeps == FeedInv /\ ObstacleCallback => FeedInv'
<1> SUFFICES ASSUME FeedInv, ObstacleCallback PROVE FeedInv'
  OBVIOUS
<1>1. queue \in Seq(Messages) /\ queue # <<>> /\ Len(queue) <= Depth
  BY DEF FeedInv, TypeOK, ObstacleCallback
<1>2. latest' = Head(queue) /\ queue' = Tail(queue)
  BY DEF ObstacleCallback
<1>3. /\ Tail(queue) \in Seq(Messages) /\ Len(Tail(queue)) = Len(queue) - 1
      /\ \A i \in 1..Len(Tail(queue)) : Tail(queue)[i] = queue[i + 1]
      /\ Head(queue) \in Messages
  BY <1>1, HeadTailProperties
<1>4. 1 \in DOMAIN queue /\ Head(queue) = queue[1]
  BY <1>1
<1>5. QueueInv'
  <2>1. DOMAIN queue = 1..Len(queue) /\ Len(queue) \in Nat
    BY <1>1
  <2>2. \A i \in DOMAIN queue' :
          i + 1 \in DOMAIN queue /\ queue'[i] = queue[i + 1] /\ 1 < i + 1 /\ i \in Int
    BY <1>2, <1>3, <2>1
  <2>3. latest' = queue[1]
    BY <1>2, <1>4
  <2>4. QueueInv
    BY DEF FeedInv, PerceptionInv
  <2> QED BY <1>4, <2>2, <2>3, <2>4 DEF QueueInv
<1>6. latest'.past # "held"
  BY <1>2, <1>4 DEF FeedInv, PerceptionInv, QueueInv
<1>7. UNCHANGED <<lifecycle, predict, task, cycle, elapsed, snapshot, predicted, filled>>
  BY DEF ObstacleCallback, control
<1> QED BY <1>1, <1>2, <1>3, <1>5, <1>6, <1>7, DepthAssumption
        DEF FeedInv, TypeOK, PerceptionInv

\* A deactivation tags what is queued, and leaves nothing else to tag.
LEMMA DeactivateKeeps == FeedInv /\ Deactivate => FeedInv'
<1> SUFFICES ASSUME FeedInv, Deactivate PROVE FeedInv'
  OBVIOUS
<1>1. /\ Nothing \in Messages \cup {Nothing} /\ Nothing.past = "none"
      /\ None \in [n : 0..K, own : BOOLEAN] /\ None.own /\ None.n = 0
  BY SlotAssumption DEF Nothing, None
<1>2. /\ queue' = [i \in DOMAIN queue |-> Past(queue[i], "queued")]
      /\ latest' = Nothing /\ lifecycle' = "inactive" /\ task' = FALSE
      /\ predicted' = None /\ cycle = "idle"
      /\ UNCHANGED <<predict, cycle, elapsed, snapshot, filled>>
  BY DEF Deactivate, Past, Remaining
<1>3. queue \in Seq(Messages) /\ Len(queue) <= Depth
  BY DEF FeedInv, TypeOK
<1>4. /\ \A i \in 1..Len(queue) : queue[i] \in Messages
      /\ DOMAIN queue = 1..Len(queue) /\ Len(queue) \in Nat
  BY <1>3
<1>5. ASSUME NEW message \in Messages
      PROVE  Past(message, "queued") \in Messages /\ Past(message, "queued").past = "queued"
  <2>1. message.movers \in Nat /\ Nothing.movers = -1
    BY <1>5, SlotAssumption DEF Messages, Nothing
  <2>2. message # Nothing
    BY <2>1
  <2> QED BY <1>5, <2>2 DEF Past, Messages, Pasts
<1>6. \A i \in 1..Len(queue) :
        Past(queue[i], "queued") \in Messages /\ Past(queue[i], "queued").past = "queued"
  BY <1>4, <1>5
<1>7. queue' = [i \in 1..Len(queue) |-> Past(queue[i], "queued")]
  BY <1>2, <1>4
<1>8. queue' \in Seq(Messages) /\ Len(queue') = Len(queue)
  BY <1>4, <1>6, <1>7
<1>9. \A i \in DOMAIN queue' : queue'[i].past = "queued"
  BY <1>6, <1>7
<1>10. QueueInv'
  BY <1>1, <1>2, <1>9 DEF QueueInv
<1> QED BY <1>1, <1>2, <1>3, <1>8, <1>10 DEF FeedInv, TypeOK, PerceptionInv

\* Time passing tags nothing.
LEMMA TickKeeps == FeedInv /\ Tick => FeedInv'
<1> SUFFICES ASSUME FeedInv, Tick PROVE FeedInv'
  OBVIOUS
<1>1. /\ queue' = [i \in DOMAIN queue |-> Aged(queue[i])]
      /\ latest' = Aged(latest) /\ snapshot' = Aged(snapshot)
      /\ elapsed' = Minimum(MaxElapsed, elapsed + 1)
      /\ UNCHANGED <<lifecycle, predict, task, cycle, predicted, filled>>
  BY DEF Tick
<1>2. queue \in Seq(Messages) /\ Len(queue) <= Depth
  BY DEF FeedInv, TypeOK
<1>3. \A i \in 1..Len(queue) : queue[i] \in Messages
  BY <1>2
<1>4. DOMAIN queue = 1..Len(queue) /\ Len(queue) \in Nat
  BY <1>2
<1>5. queue' = [i \in 1..Len(queue) |-> Aged(queue[i])]
  BY <1>1, <1>4
<1>6. \A i \in 1..Len(queue) :
        Aged(queue[i]) \in Messages /\ Aged(queue[i]).past = queue[i].past
  BY <1>3, <1>4, AgedMessage
<1>7. queue' \in Seq(Messages) /\ Len(queue') = Len(queue)
  BY <1>4, <1>5, <1>6
<1>8. QueueInv'
  <2>1. latest'.past = latest.past
    BY <1>1, AgedMessage DEF FeedInv, TypeOK
  <2>2. \A i \in DOMAIN queue' : i \in DOMAIN queue /\ queue'[i].past = queue[i].past
    BY <1>4, <1>5, <1>6
  <2> QED BY <2>1, <2>2 DEF FeedInv, PerceptionInv, QueueInv
<1>9. /\ {latest', snapshot'} \subseteq Messages \cup {Nothing}
      /\ latest'.past # "held" /\ snapshot'.past # "held"
  BY <1>1, AgedMessage DEF FeedInv, TypeOK, PerceptionInv
<1>10. elapsed' \in 0..MaxElapsed
  BY <1>1, TimeAssumption DEF FeedInv, TypeOK, Minimum
<1> QED BY <1>1, <1>2, <1>7, <1>8, <1>9, <1>10 DEF FeedInv, TypeOK, PerceptionInv

\* The control thread keeps the invariant at every step of its cycle.
LEMMA CycleKeeps == FeedInv /\ Cycle => FeedInv'
<1> SUFFICES ASSUME FeedInv, Cycle PROVE FeedInv'
  OBVIOUS
<1> USE DEF FeedInv
<1>1. /\ Nothing \in Messages \cup {Nothing} /\ Nothing.past = "none"
      /\ 0 \in 0..MaxElapsed /\ None \in [n : 0..K, own : BOOLEAN] /\ None.own
      /\ None.n = 0
  BY SlotAssumption, TimeAssumption DEF Nothing, None
<1>2. CASE BeginCycle
  BY <1>1, <1>2 DEF BeginCycle, executor, TypeOK, PerceptionInv,
     QueueInv
<1>3. CASE EarlyExit \/ ClearPredictions
  BY <1>1, <1>3 DEF EarlyExit, ClearPredictions, executor, TypeOK, PerceptionInv,
     QueueInv
<1>4. CASE TakeSnapshot
  BY <1>1, <1>4 DEF TakeSnapshot, executor, TypeOK, PerceptionInv,
     QueueInv
<1>5. CASE FillPredictive
  <2>1. snapshot \in Messages
    BY <1>5 DEF FillPredictive, Usable, TypeOK
  <2>2. snapshot.movers \in Nat
    BY <2>1, SlotAssumption DEF Messages
  <2>3. /\ predicted' \in [n : 0..K, own : BOOLEAN] /\ predicted'.own
        /\ MaxDynamic >= 0 => predicted'.n <= MaxDynamic
    BY <1>5, <2>2, SelectedInRange DEF FillPredictive
  <2> QED BY <1>5, <2>3 DEF FillPredictive, executor, TypeOK, PerceptionInv,
     QueueInv
<1>6. CASE FillWithoutTransform \/ FillCostmap
  BY <1>6 DEF FillWithoutTransform, FillCostmap, executor, TypeOK, PerceptionInv,
     QueueInv
<1>7. CASE EndCycle
  BY <1>1, <1>7 DEF EndCycle, executor, TypeOK, PerceptionInv,
     QueueInv
<1> QED BY <1>2, <1>3, <1>4, <1>5, <1>6, <1>7 DEF Cycle

\* The invariant holds initially and every step keeps it.
LEMMA FeedInductive ==
  /\ Init => FeedInv
  /\ FeedInv /\ [Next]_vars => FeedInv'
<1>1. /\ Nothing \in Messages \cup {Nothing} /\ Nothing.past = "none"
      /\ None \in [n : 0..K, own : BOOLEAN] /\ None.own /\ None.n = 0
      /\ 0 \in 0..MaxElapsed /\ 0 <= Depth
  BY SlotAssumption, TimeAssumption, DepthAssumption DEF Nothing, None
<1>2. <<>> \in Seq(Messages) /\ Len(<<>>) = 0 /\ DOMAIN <<>> = {}
  OBVIOUS
<1>3. Init => FeedInv
  BY <1>1, <1>2 DEF Init, FeedInv, TypeOK, PerceptionInv, QueueInv
<1>4. ASSUME FeedInv, [Next]_vars PROVE FeedInv'
  <2> USE <1>4 DEF FeedInv
  <2>1. CASE Publish
    BY <2>1, PublishKeeps
  <2>2. CASE ObstacleCallback
    BY <2>2, CallbackKeeps
  <2>3. CASE Configure \/ Activate
    BY <2>3 DEF Configure, Activate, control, TypeOK, PerceptionInv, QueueInv
  <2>4. CASE Deactivate
    BY <2>4, DeactivateKeeps
  <2>5. CASE Cleanup
    BY <1>1, <1>2, <2>5 DEF Cleanup, TypeOK, PerceptionInv, QueueInv
  <2>6. CASE StartTask
    BY <2>6 DEF StartTask, executor, TypeOK, PerceptionInv,
     QueueInv
  <2>7. CASE EndTask
    BY <1>1, <2>7 DEF EndTask, ForgetPredictions, executor, TypeOK, PerceptionInv,
     QueueInv
  <2>8. CASE Cycle
    BY <2>8, CycleKeeps
  <2>9. CASE Tick
    BY <2>9, TickKeeps
  <2>10. CASE UNCHANGED vars
    BY <2>10 DEF vars, executor, control, TypeOK, PerceptionInv, QueueInv
  <2> QED BY <2>1, <2>2, <2>3, <2>4, <2>5, <2>6, <2>7, <2>8, <2>9, <2>10 DEF Next
<1> QED BY <1>3, <1>4

\* deactivate(), reset() and fillObstacles(), whatever the callback interleaves:
\* what the controller holds is dropped at deactivation, and predictions do not outlive
\* a task.
THEOREM PerceptionCorrect == Spec => []CurrentPerception
<1>1. FeedInv => CurrentPerception
  BY DEF FeedInv, PerceptionInv, QueueInv, CurrentPerception
<1> QED BY <1>1, FeedInductive, PTL DEF Spec

\* The queue, the predictions and the slots they take stay within their limits.
THEOREM FeedTypeCorrect == Spec => []TypeOK
<1>1. FeedInv => TypeOK
  BY DEF FeedInv
<1> QED BY <1>1, FeedInductive, PTL DEF Spec

-----------------------------------------------------------------------------
(* One fill of the matrix.                                                 *)

ObjectRecords == [at : Cells, best : Nat, first : Nodes, last : Nodes]

\* Types, and where the fill stands in each phase.
FillTypeOK ==
  /\ phase \in {"idle", "scan", "bind", "done"}
  /\ occupied \subseteq Cells /\ nominal \in Trajectories
  /\ tracks \subseteq TrackSet
  /\ chosen \in Seq(TrackSet) /\ Len(chosen) <= K
  /\ node \in 0 .. Np
  /\ candidates \subseteq Cells /\ picked \in Seq(Cells)
  /\ objects \in Seq(ObjectRecords)
  /\ hits \subseteq [node : Nodes, object : DOMAIN objects, at : Cells]
  /\ phase = "bind" => node \in Nodes
  /\ phase = "idle" => node = 0 /\ objects = <<>> /\ hits = {}

\* What a node's read found, and its representatives: nearer than all that is left.
BindInv ==
  phase = "bind" =>
    /\ candidates = IF Centre \in Cells
                    THEN {c \in occupied : D[c][Centre] <= Reach /\ ~Excluded(c)}
                    ELSE {}
    /\ \A i \in DOMAIN picked, d \in Uncovered : D[picked[i]][Centre] <= D[d][Centre]

\* An object is the sequence of its sightings, whose first and last it remembers.
SpanInv ==
  \A h \in hits : /\ objects[h.object].first <= h.node
                   /\ h.node <= objects[h.object].last
                   /\ h.node <= node /\ (phase = "scan" => h.node < node)

\* It is seen once per node at most, and less than a cluster radius from where it was
\* seen at the node before.
StepInv ==
  /\ \A h, g \in hits : h.object = g.object /\ h.node = g.node => h = g
  /\ \A h, g \in hits : h.object = g.object /\ h.node = g.node + 1 => D[h.at][g.at] < Radius

EndsInv ==
  \A o \in DOMAIN objects :
    /\ \E h \in hits : h.object = o /\ h.node = objects[o].first
    /\ \E h \in hits : h.object = o /\ h.node = objects[o].last /\ h.at = objects[o].at

SightInv == SpanInv /\ StepInv /\ EndsInv

\* A row is its track's until the slots are written, then a sighting's if it has one.
RowsInv ==
  /\ phase \in {"scan", "bind"} => rows = TrackRows(chosen)
  /\ phase = "done" => \A k \in Nodes, j \in Slots :
       \/ HitsIn(k, j) = {} /\ rows[k][j] = TrackRows(chosen)[k][j]
       \/ \E h \in HitsIn(k, j) : rows[k][j] = [owner |-> <<"object", h.object>>, at |-> h.at]

FillInv == FillTypeOK /\ BindInv /\ SightInv /\ RowsInv

\* The first numbers, counted.
LEMMA Count ==
  ASSUME NEW n \in Nat
  PROVE  /\ IsFiniteSet(1 .. n) /\ Cardinality(1 .. n) = n
         /\ IsFiniteSet(0 .. n - 1) /\ Cardinality(0 .. n - 1) = n
<1>1. /\ IsFiniteSet(1 .. n)
      /\ Cardinality(1 .. n) = IF 1 > n THEN 0 ELSE n - 1 + 1
  BY FS_Interval
<1>2. /\ IsFiniteSet(0 .. n - 1)
      /\ Cardinality(0 .. n - 1) = IF 0 > n - 1 THEN 0 ELSE (n - 1) - 0 + 1
  BY FS_Interval
<1> QED BY <1>1, <1>2

\* The lesser of two numbers.
LEMMA LeastOfTwo ==
  ASSUME NEW a \in Int, NEW b \in Int
  PROVE  Least({a, b}) = IF a <= b THEN a ELSE b
BY DEF Least

\* Distances are naturals, also those from a predicted centre.
LEMMA Geometry ==
  ASSUME FillTypeOK
  PROVE  /\ Cells \subseteq Places /\ Centre \in Places
         /\ \A p, q \in Places : D[p][q] \in Nat
         /\ \A c \in Cells : D[c][Centre] \in Nat
<1>1. nominal \in [0 .. Np -> Places] /\ Cells \subseteq Places /\ Np \in Nat \ {0}
  BY TrackAssumption, PlaceAssumption, SizeAssumption DEF FillTypeOK
<1>2. \A p, q \in Places : D[p][q] \in Nat
  BY DistanceAssumption
<1>3. Least({node + 2, Np}) \in 0 .. Np
  <2>1. node \in Nat /\ node + 2 \in Int /\ Np \in Int
    BY <1>1 DEF FillTypeOK
  <2>2. Least({node + 2, Np}) = IF node + 2 <= Np THEN node + 2 ELSE Np
    BY <2>1, LeastOfTwo, Zenon
  <2> QED BY <1>1, <2>1, <2>2
<1> QED BY <1>1, <1>2, <1>3 DEF Centre

-----------------------------------------------------------------------------
(* Ranks.                                                                  *)

\* The encounter order is a strict total order of the objects.
LEMMA BeforeOrders ==
  ASSUME FillTypeOK
  PROVE  /\ \A o \in DOMAIN objects : ~Before(o, o)
         /\ \A o, p \in DOMAIN objects : o # p => Before(o, p) \/ Before(p, o)
         /\ \A o, p, q \in DOMAIN objects : Before(o, p) /\ Before(p, q) => Before(o, q)
<1>1. \A o \in DOMAIN objects :
        o \in Int /\ objects[o].first \in Int /\ objects[o].best \in Int
  <2>1. \A o \in DOMAIN objects : o \in Int /\ objects[o] \in ObjectRecords
    BY DEF FillTypeOK
  <2> QED BY <2>1, SizeAssumption DEF ObjectRecords, Nodes
<1> QED BY <1>1 DEF Before

\* An object that comes before another has a smaller rank.
LEMMA RankGrows ==
  ASSUME FillTypeOK, NEW o \in DOMAIN objects, NEW p \in DOMAIN objects
  PROVE  /\ RankOf(o) \in 0 .. Len(objects) - 1
         /\ Before(o, p) => RankOf(o) < RankOf(p)
         /\ RankOf(o) = RankOf(p) => o = p
<1> DEFINE Earlier(q) == {r \in DOMAIN objects : Before(r, q)}
<1>1. Len(objects) \in Nat /\ DOMAIN objects = 1 .. Len(objects)
  BY DEF FillTypeOK
<1>2. IsFiniteSet(DOMAIN objects) /\ Cardinality(DOMAIN objects) = Len(objects)
  BY <1>1, Count
<1>3. ASSUME NEW q \in DOMAIN objects
      PROVE  /\ IsFiniteSet(Earlier(q)) /\ Cardinality(Earlier(q)) \in Nat
             /\ Cardinality(Earlier(q)) < Len(objects)
  <2>1. Earlier(q) \subseteq DOMAIN objects /\ q \notin Earlier(q)
    BY BeforeOrders
  <2>2. /\ IsFiniteSet(Earlier(q)) /\ Cardinality(Earlier(q)) <= Len(objects)
        /\ Cardinality(DOMAIN objects) = Cardinality(Earlier(q)) => DOMAIN objects = Earlier(q)
    BY <1>2, <2>1, FS_Subset
  <2>3. Cardinality(Earlier(q)) \in Nat
    BY <2>2, FS_CardinalityType
  <2> QED BY <1>1, <1>2, <2>1, <2>2, <2>3
<1>4. ASSUME NEW q \in DOMAIN objects, NEW s \in DOMAIN objects, Before(q, s)
      PROVE  Cardinality(Earlier(q)) < Cardinality(Earlier(s))
  <2>1. Earlier(q) \subseteq Earlier(s) /\ q \in Earlier(s) /\ q \notin Earlier(q)
    BY <1>4, BeforeOrders
  <2>2. /\ Cardinality(Earlier(q)) <= Cardinality(Earlier(s))
        /\ Cardinality(Earlier(s)) = Cardinality(Earlier(q)) => Earlier(s) = Earlier(q)
    BY <1>3, <2>1, FS_Subset
  <2>3. Cardinality(Earlier(s)) # Cardinality(Earlier(q))
    BY <2>1, <2>2
  <2>4. Cardinality(Earlier(s)) \in Nat /\ Cardinality(Earlier(q)) \in Nat
    BY <1>3
  <2> QED BY <2>2, <2>3, <2>4
<1>5. RankOf(o) = Cardinality(Earlier(o)) /\ RankOf(p) = Cardinality(Earlier(p))
  BY DEF RankOf
<1> HIDE DEF Earlier
<1>6. ASSUME o # p PROVE RankOf(o) # RankOf(p)
  <2>1. Before(o, p) \/ Before(p, o)
    BY <1>6, BeforeOrders
  <2>2. \/ Cardinality(Earlier(o)) < Cardinality(Earlier(p))
        \/ Cardinality(Earlier(p)) < Cardinality(Earlier(o))
    BY <1>4, <2>1
  <2>3. Cardinality(Earlier(o)) \in Nat /\ Cardinality(Earlier(p)) \in Nat
    BY <1>3
  <2> QED BY <1>5, <2>2, <2>3
<1> QED BY <1>1, <1>3, <1>4, <1>5, <1>6

\* Every rank is some object's.
LEMMA RankReached ==
  ASSUME FillTypeOK, NEW r \in 0 .. Len(objects) - 1
  PROVE  \E o \in DOMAIN objects : RankOf(o) = r
<1> DEFINE n == Len(objects)
           rank == [o \in 1 .. n |-> RankOf(o)]
<1>1. n \in Nat /\ DOMAIN objects = 1 .. n
  BY DEF FillTypeOK
<1>2. IsFiniteSet(1 .. n) /\ Cardinality(1 .. n) = n
  BY <1>1, Count
<1>3. IsFiniteSet(0 .. n - 1) /\ Cardinality(0 .. n - 1) = n
  BY <1>1, Count
<1>4. rank \in Injection(1 .. n, 0 .. n - 1)
  <2>1. \A o \in 1 .. n : RankOf(o) \in 0 .. n - 1
    BY <1>1, RankGrows
  <2>2. \A o, p \in 1 .. n : RankOf(o) = RankOf(p) => o = p
    BY <1>1, RankGrows
  <2> QED BY <2>1, <2>2 DEF Injection, IsInjective
<1> HIDE DEF n
<1>5. rank \in Surjection(1 .. n, 0 .. n - 1)
  <2> HIDE DEF rank
  <2> QED BY <1>2, <1>3, <1>4, FS_Injection
<1>6. r \in 0 .. n - 1
  BY DEF n
<1>7. PICK o \in 1 .. n : rank[o] = r
  <2> HIDE DEF rank
  <2> QED BY <1>5, <1>6 DEF Surjection
<1> QED BY <1>1, <1>7

\* No two sightings compete for a row, and a sighting's row is a static slot's.
LEMMA OneHitPerRow ==
  ASSUME FillTypeOK, SightInv, NEW k, NEW j
  PROVE  /\ \A h, g \in HitsIn(k, j) : h = g
         /\ HitsIn(k, j) # {} => j >= Len(chosen)
<1>1. \A h \in hits : h.object \in DOMAIN objects
  BY DEF FillTypeOK
<1>2. \A h \in HitsIn(k, j) : /\ h \in hits /\ h.node = k
                              /\ Len(chosen) + RankOf(h.object) = j
  BY DEF HitsIn, SlotOf
<1>3. Len(chosen) \in Nat /\ \A h \in HitsIn(k, j) : RankOf(h.object) \in Nat
  BY <1>1, <1>2, RankGrows DEF FillTypeOK
<1>4. ASSUME NEW h \in HitsIn(k, j), NEW g \in HitsIn(k, j) PROVE h = g
  <2>1. RankOf(h.object) = RankOf(g.object)
    BY <1>2, <1>3
  <2>2. h.object = g.object
    BY <1>1, <1>2, <2>1, RankGrows
  <2>3. \A x, y \in hits : x.object = y.object /\ x.node = y.node => x = y
    BY DEF SightInv, StepInv
  <2> QED BY <1>2, <2>2, <2>3
<1> QED BY <1>2, <1>3, <1>4

-----------------------------------------------------------------------------
(* The invariant.                                                          *)

\* The fill starts with a matrix of sentinels and nothing seen.
LEMMA FillInitInv == FillInit => FillInv
<1> SUFFICES ASSUME FillInit PROVE FillInv
  OBVIOUS
<1>1. /\ DOMAIN <<>> = {} /\ Len(<<>>) = 0
      /\ <<>> \in Seq(TrackSet) /\ <<>> \in Seq(Cells)
      /\ <<>> \in Seq(ObjectRecords)
  OBVIOUS
<1>2. FillTypeOK
  BY <1>1, SlotAssumption, SizeAssumption DEF FillInit, FillTypeOK
<1> QED BY <1>1, <1>2 DEF FillInit, FillInv, BindInv, SightInv, SpanInv, StepInv, EndsInv, RowsInv

\* The tracks that may be given slots are tracks, no more than there are slots.
LEMMA SelectionsFit ==
  ASSUME NEW ts \in SUBSET TrackSet, IsFiniteSet(ts), NEW s \in Selections(ts)
  PROVE  s \in Seq(TrackSet) /\ Len(s) <= K
<1>1. Cardinality(ts) \in Nat
  BY FS_CardinalityType
<1>2. Selected(Cardinality(ts)) \in 0 .. K
  BY <1>1, SelectedInRange
<1>3. s \in [1 .. Selected(Cardinality(ts)) -> ts]
  BY DEF Selections
<1> DEFINE n == Selected(Cardinality(ts))
<1>4. n \in Nat /\ n <= K /\ s \in [1 .. n -> TrackSet]
  BY <1>2, <1>3, SlotAssumption
<1> HIDE DEF n
<1>5. s \in Seq(TrackSet) /\ Len(s) = n
  BY <1>4
<1> QED BY <1>4, <1>5

\* The chosen tracks' rows are written over an empty matrix.
LEMMA BeginKeeps == FillInv /\ Begin => FillInv'
<1> SUFFICES ASSUME FillInv, Begin PROVE FillInv'
  OBVIOUS
<1> USE DEF FillInv
<1>1. PICK ts \in SUBSET TrackSet : 
        /\ IsFiniteSet(ts)
        /\ \E s \in Selections(ts) :
             /\ tracks' = ts /\ chosen' = s /\ rows' = TrackRows(s)
             /\ phase' = IF Len(s) < K THEN "scan" ELSE "done"
  BY DEF Begin
<1>2. PICK s \in Selections(ts) :
        /\ tracks' = ts /\ chosen' = s /\ rows' = TrackRows(s)
        /\ phase' = IF Len(s) < K THEN "scan" ELSE "done"
  BY <1>1
<1>3. s \in Seq(TrackSet) /\ Len(s) <= K
  BY <1>1, SelectionsFit
<1>4. /\ phase = "idle" /\ node = 0 /\ objects = <<>> /\ hits = {}
      /\ UNCHANGED <<occupied, nominal, node, candidates, picked, objects, hits>>
  BY DEF Begin, FillTypeOK, scanning
<1>5. FillTypeOK'
  BY <1>1, <1>2, <1>3, <1>4 DEF FillTypeOK
<1>6. BindInv' /\ SightInv'
  BY <1>2, <1>4 DEF BindInv, SightInv, SpanInv, StepInv, EndsInv
<1>7. RowsInv'
  <2>1. phase' = "done" => \A k, j : HitsIn(k, j)' = {}
    BY <1>4 DEF HitsIn
  <2> QED BY <1>2, <2>1 DEF RowsInv
<1> QED BY <1>5, <1>6, <1>7

\* The costmap's thread changes cells between reads only.
LEMMA CostmapKeeps == FillInv /\ UpdateCostmap => FillInv'
<1> SUFFICES ASSUME FillInv, UpdateCostmap PROVE FillInv'
  OBVIOUS
<1> USE DEF FillInv
<1>1. /\ phase = "scan" /\ occupied' \subseteq Cells
      /\ UNCHANGED <<phase, nominal, tracks, chosen, node, candidates, picked, objects,
                     hits, rows>>
  BY DEF UpdateCostmap, FillTypeOK, scanning
<1>2. FillTypeOK'
  BY <1>1 DEF FillTypeOK
<1>3. BindInv' /\ SightInv' /\ RowsInv'
  BY <1>1 DEF BindInv, SightInv, SpanInv, StepInv, EndsInv, RowsInv
<1> QED BY <1>2, <1>3

\* A read finds the node's candidates, with no representative yet.
LEMMA ScanKeeps == FillInv /\ ScanNode => FillInv'
<1> SUFFICES ASSUME FillInv, ScanNode PROVE FillInv'
  OBVIOUS
<1> USE DEF FillInv
<1>1. /\ phase = "scan" /\ node < Np /\ phase' = "bind" /\ picked' = <<>>
      /\ UNCHANGED <<occupied, nominal, tracks, chosen, node, objects, hits, rows>>
  BY DEF ScanNode
<1>2. candidates' = IF Centre \in Cells
                    THEN {c \in occupied : D[c][Centre] <= Reach /\ ~Excluded(c)}
                    ELSE {}
  BY DEF ScanNode
<1>3. /\ Centre' = Centre /\ \A c : Excluded(c)' = Excluded(c)
      /\ DOMAIN picked' = {} /\ picked' \in Seq(Cells)
  BY <1>1 DEF Centre, Excluded
<1>4. node \in Nodes
  BY <1>1, SizeAssumption DEF FillTypeOK, Nodes
<1>5. candidates' \subseteq Cells
  BY <1>2 DEF FillTypeOK
<1>6. FillTypeOK'
  BY <1>1, <1>3, <1>4, <1>5 DEF FillTypeOK
<1>7. BindInv'
  BY <1>1, <1>2, <1>3 DEF BindInv
<1>8. SightInv' /\ RowsInv'
  BY <1>1 DEF SightInv, SpanInv, StepInv, EndsInv, RowsInv
<1> QED BY <1>6, <1>7, <1>8

\* At the next node nothing has been sighted yet.
LEMMA NextNodeKeeps == FillInv /\ NextNode => FillInv'
<1> SUFFICES ASSUME FillInv, NextNode PROVE FillInv'
  OBVIOUS
<1> USE DEF FillInv
<1>1. /\ phase = "bind" /\ phase' = "scan" /\ node' = node + 1
      /\ candidates' = {} /\ picked' = <<>>
      /\ UNCHANGED <<occupied, nominal, tracks, chosen, objects, hits, rows>>
  BY DEF NextNode, NodeBound
<1>2. node \in Nat /\ node' \in 0 .. Np
  BY <1>1, SizeAssumption DEF FillTypeOK, Nodes
<1>3. FillTypeOK'
  <2>1. picked' \in Seq(Cells)
    BY <1>1
  <2> QED BY <1>1, <1>2, <2>1 DEF FillTypeOK
<1>4. SightInv'
  <2>1. \A h \in hits : h.node \in Nat
    BY DEF FillTypeOK, Nodes
  <2>2. SpanInv'
    BY <1>1, <1>2, <2>1 DEF SightInv, SpanInv
  <2>3. StepInv' /\ EndsInv'
    BY <1>1 DEF SightInv, StepInv, EndsInv
  <2> QED BY <2>2, <2>3 DEF SightInv
<1>5. BindInv' /\ RowsInv'
  BY <1>1 DEF BindInv, RowsInv
<1> QED BY <1>3, <1>4, <1>5

\* The slots are written over the tracks' rows where an object was seen.
LEMMA WriteKeeps == FillInv /\ WriteSlots => FillInv'
<1> SUFFICES ASSUME FillInv, WriteSlots PROVE FillInv'
  OBVIOUS
<1> USE DEF FillInv
<1>1. /\ phase = "scan" /\ phase' = "done"
      /\ UNCHANGED <<occupied, nominal, tracks, chosen, node, candidates, picked,
                     objects, hits>>
  BY DEF WriteSlots, scanning
<1>2. rows = TrackRows(chosen)
  BY <1>1 DEF RowsInv
<1>3. /\ FillTypeOK' /\ BindInv' /\ SightInv'
  BY <1>1 DEF FillTypeOK, BindInv, SightInv, SpanInv, StepInv, EndsInv
<1>4. \A k, j : HitsIn(k, j)' = HitsIn(k, j)
  BY <1>1 DEF HitsIn, Slotted, SlotOf, RankOf, Before, Budget
<1>5. ASSUME NEW k \in Nodes, NEW j \in Slots
      PROVE  \/ HitsIn(k, j) = {} /\ rows'[k][j] = rows[k][j]
             \/ \E h \in HitsIn(k, j) :
                  rows'[k][j] = [owner |-> <<"object", h.object>>, at |-> h.at]
  BY DEF WriteSlots
<1>6. RowsInv'
  BY <1>1, <1>2, <1>4, <1>5 DEF RowsInv
<1> QED BY <1>3, <1>6

\* The next cycle forgets the fill.
LEMMA NextCycleKeeps == FillInv /\ NextCycle => FillInv'
<1> SUFFICES ASSUME FillInv, NextCycle PROVE FillInv'
  OBVIOUS
<1>1. /\ DOMAIN <<>> = {} /\ Len(<<>>) = 0
      /\ <<>> \in Seq(TrackSet) /\ <<>> \in Seq(Cells) /\ <<>> \in Seq(ObjectRecords)
  OBVIOUS
<1>2. FillTypeOK'
  BY <1>1, SlotAssumption, SizeAssumption DEF NextCycle, FillInv, FillTypeOK
<1> QED BY <1>1, <1>2 DEF NextCycle, FillInv, BindInv, SightInv, SpanInv, StepInv, EndsInv, RowsInv

-----------------------------------------------------------------------------
(* Binding a representative to an object.                                  *)

\* A nonempty set of naturals has a least element.
LEMMA LeastExists ==
  ASSUME NEW S \in SUBSET Nat, S # {} PROVE \E x \in S : \A y \in S : x <= y
<1> DEFINE R == OpToRel(<, Nat)
<1>1. \A x, y \in Nat : <<x, y>> \in R <=> x < y
  BY DEF OpToRel
<1>2. IsWellFoundedOn(R, Nat)
  BY NatLessThanWellFounded
<1> HIDE DEF R
<1>3. PICK x \in S : \A y \in S : ~(<<y, x>> \in R)
  BY <1>2, WFMin
<1>4. ASSUME NEW y \in S PROVE x <= y
  <2>1. x \in Nat /\ y \in Nat
    OBVIOUS
  <2>2. ~(y < x)
    BY <1>1, <1>3, <2>1
  <2> QED BY <2>1, <2>2
<1> QED BY <1>4

\* A representative continues an object it may continue, or is a new one.
LEMMA MatchIs ==
  ASSUME FillTypeOK, NEW c \in Cells
  PROVE  \/ Match(c) = Len(objects) + 1
         \/ Match(c) \in Continues(c)
<1> SUFFICES ASSUME Continues(c) # {} PROVE Match(c) \in Continues(c)
  BY DEF Match
<1> DEFINE far(o) == D[c][objects[o].at]
           nearest(o) == \A p \in Continues(c) :
                            far(o) < far(p) \/ (far(o) = far(p) /\ o <= p)
<1>1. ASSUME NEW o \in Continues(c) PROVE o \in Nat /\ far(o) \in Nat
  <2>1. o \in DOMAIN objects
    BY DEF Continues
  <2>2. o \in Nat /\ objects[o] \in ObjectRecords
    BY <2>1 DEF FillTypeOK
  <2>3. objects[o].at \in Cells
    BY <2>2 DEF ObjectRecords
  <2>4. D[c][objects[o].at] \in Nat
    BY <2>3, Geometry
  <2> QED BY <2>2, <2>4
<1> HIDE DEF far
<1>2. PICK m \in {far(o) : o \in Continues(c)} : \A d \in {far(o) : o \in Continues(c)} : m <= d
  <2>1. {far(o) : o \in Continues(c)} \subseteq Nat /\ {far(o) : o \in Continues(c)} # {}
    BY <1>1
  <2> QED BY <2>1, LeastExists
<1>3. PICK o \in {p \in Continues(c) : far(p) = m} : \A p \in {q \in Continues(c) : far(q) = m} : o <= p
  <2>1. {p \in Continues(c) : far(p) = m} \subseteq Nat /\ {p \in Continues(c) : far(p) = m} # {}
    BY <1>1
  <2> QED BY <2>1, LeastExists
<1>4. o \in Continues(c) /\ nearest(o)
  <2>1. ASSUME NEW p \in Continues(c) PROVE far(o) < far(p) \/ (far(o) = far(p) /\ o <= p)
    <3>1. m <= far(p) /\ far(o) = m /\ far(p) \in Nat /\ m \in Nat
      BY <1>1, <1>2
    <3>2. far(p) = m => o <= p
      BY <1>3
    <3> QED BY <3>1, <3>2
  <2> QED BY <2>1
<1>5. Match(c) = CHOOSE p \in Continues(c) : nearest(p)
  BY DEF Match, far
<1> HIDE DEF nearest
<1> QED BY <1>4, <1>5

\* What a sighting changes: the object it is bound to, new or last seen at an earlier
\* node less than a cluster radius away.
LEMMA SightedIs ==
  ASSUME FillTypeOK, phase = "bind", NEW c \in Cells, objects' = Sighted(Match(c), c)
  PROVE  LET o == Match(c) IN
         /\ objects' \in Seq(ObjectRecords)
         /\ DOMAIN objects' = DOMAIN objects \cup {o}
         /\ \A p \in DOMAIN objects : p # o => objects'[p] = objects[p]
         /\ objects'[o].at = c /\ objects'[o].last = node
         /\ IF o \in DOMAIN objects
            THEN /\ objects'[o].first = objects[o].first
                 /\ objects[o].last # node /\ D[c][objects[o].at] < Radius
            ELSE objects'[o].first = node
<1> DEFINE o == Match(c)
           n == Len(objects)
           fresh == [at |-> c, best |-> D[c][Centre], first |-> node, last |-> node]
<1>1. /\ objects \in Seq(ObjectRecords) /\ n \in Nat /\ DOMAIN objects = 1 .. n
      /\ node \in Nodes /\ D[c][Centre] \in Nat
  BY Geometry DEF FillTypeOK
<1>2. CASE o = n + 1
  <2>1. fresh \in ObjectRecords
    BY <1>1 DEF ObjectRecords
  <2>2. objects' = Append(objects, fresh)
    BY <1>1, <1>2 DEF Sighted
  <2>3. /\ objects' \in Seq(ObjectRecords) /\ Len(objects') = n + 1
        /\ \A p \in 1 .. n : objects'[p] = objects[p]
        /\ objects'[n + 1] = fresh
    <3> HIDE DEF fresh
    <3> QED BY <1>1, <2>1, <2>2, AppendProperties
  <2>4. DOMAIN objects' = DOMAIN objects \cup {o} /\ o \notin DOMAIN objects
    <3>1. DOMAIN objects' = 1 .. n + 1
      BY <2>3
    <3> HIDE DEF o, n
    <3> QED BY <1>1, <1>2, <3>1
  <2> QED BY <1>1, <1>2, <2>3, <2>4
<1>3. CASE o \in Continues(c)
  <2>1. o \in DOMAIN objects /\ objects[o].last # node /\ D[c][objects[o].at] < Radius
    BY <1>3 DEF Continues
  <2> DEFINE seen == [objects[o] EXCEPT !.at = c, !.last = node,
                                        !.best = Least({objects[o].best, D[c][Centre]})]
  <2>2. objects[o] \in ObjectRecords
    BY <1>1, <2>1
  <2>3. Least({objects[o].best, D[c][Centre]}) \in Nat
    <3>1. /\ objects[o].best \in Nat /\ objects[o].best \in Int
          /\ D[c][Centre] \in Int
      BY <1>1, <2>2 DEF ObjectRecords
    <3>2. Least({objects[o].best, D[c][Centre]})
            = IF objects[o].best <= D[c][Centre] THEN objects[o].best ELSE D[c][Centre]
      BY <3>1, LeastOfTwo, Zenon
    <3> QED BY <1>1, <3>1, <3>2
  <2>4. /\ seen \in ObjectRecords /\ seen.at = c /\ seen.last = node
        /\ seen.first = objects[o].first
    BY <1>1, <2>2, <2>3 DEF ObjectRecords
  <2>5. objects' = [objects EXCEPT ![o] = seen]
    <3>1. ~(o > Len(objects))
      BY <1>1, <2>1
    <3>2. objects' = [objects EXCEPT ![o].at = c, ![o].last = node,
                                     ![o].best = Least({@, D[c][Centre]})]
      BY <3>1 DEF Sighted
    <3> QED BY <1>1, <2>1, <3>2
  <2>6. /\ objects' \in Seq(ObjectRecords) /\ Len(objects') = n
        /\ objects'[o] = seen /\ \A p \in 1 .. n : p # o => objects'[p] = objects[p]
    <3> HIDE DEF seen
    <3> QED BY <1>1, <2>1, <2>4, <2>5, ExceptSeq
  <2>7. DOMAIN objects' = DOMAIN objects /\ DOMAIN objects = DOMAIN objects \cup {o}
    BY <1>1, <2>1, <2>6
  <2> HIDE DEF seen, n, fresh
  <2> QED BY <1>1, <2>1, <2>4, <2>6, <2>7
<1> QED BY <1>2, <1>3, MatchIs

\* A representative is the nearest that was left, and its sighting the last of its
\* object.
LEMMA RepresentKeeps ==
  ASSUME FillInv, NEW c \in Cells, Represent(c) PROVE FillInv'
<1> USE DEF FillInv
<1> DEFINE o == Match(c)
           new == [node |-> node, object |-> o, at |-> c]
<1>1. /\ phase = "bind" /\ c \in Uncovered /\ \A d \in Uncovered : D[c][Centre] <= D[d][Centre]
      /\ picked' = Append(picked, c) /\ objects' = Sighted(o, c) /\ hits' = hits \cup {new}
      /\ UNCHANGED <<phase, occupied, nominal, tracks, chosen, node, candidates, rows>>
  BY DEF Represent
<1>2. /\ objects' \in Seq(ObjectRecords)
      /\ DOMAIN objects' = DOMAIN objects \cup {o}
      /\ \A p \in DOMAIN objects : p # o => objects'[p] = objects[p]
      /\ objects'[o].at = c /\ objects'[o].last = node
      /\ o \in DOMAIN objects => /\ objects'[o].first = objects[o].first
                                 /\ objects[o].last # node /\ D[c][objects[o].at] < Radius
      /\ o \notin DOMAIN objects => objects'[o].first = node
  BY <1>1, SightedIs
<1> HIDE DEF o
<1>3. /\ new.node = node /\ new.object = o /\ new.at = c /\ node \in Nodes /\ node \in Nat
      /\ \A h \in hits : h.node \in Nat /\ h.object \in DOMAIN objects /\ h.node <= node
      /\ new \in [node : Nodes, object : DOMAIN objects', at : Cells]
  BY <1>1, <1>2, SizeAssumption DEF FillTypeOK, Nodes, SightInv, SpanInv
<1>4. picked' \in Seq(Cells)
  BY <1>1, AppendProperties DEF FillTypeOK
<1>5. FillTypeOK'
  <2>1. hits' \subseteq [node : Nodes, object : DOMAIN objects', at : Cells]
    <3>1. hits \subseteq [node : Nodes, object : DOMAIN objects', at : Cells]
      BY <1>2 DEF FillTypeOK
    <3> HIDE DEF new
    <3> QED BY <1>1, <1>3, <3>1
  <2> QED BY <1>1, <1>2, <1>4, <2>1 DEF FillTypeOK
<1>6. BindInv'
  <2>1. Centre' = Centre /\ \A d : Excluded(d)' = Excluded(d)
    BY <1>1 DEF Centre, Excluded
  <2>2. /\ Len(picked) \in Nat /\ DOMAIN picked' = 1 .. Len(picked) + 1
        /\ \A i \in DOMAIN picked : picked'[i] = picked[i]
        /\ picked'[Len(picked) + 1] = c /\ DOMAIN picked = 1 .. Len(picked)
    BY <1>1, AppendProperties DEF FillTypeOK
  <2>3. Uncovered' \subseteq Uncovered
    BY <1>1, <2>2 DEF Uncovered
  <2>4. \A i \in DOMAIN picked', d \in Uncovered' : D[picked'[i]][Centre] <= D[d][Centre]
    BY <1>1, <2>2, <2>3 DEF BindInv
  <2> QED BY <1>1, <2>1, <2>4 DEF BindInv
<1> HIDE DEF new
<1>7. \A h \in hits' : h \in hits \/ h = new
  BY <1>1
<1>8. \A h \in hits : h.object = o =>
        /\ o \in DOMAIN objects /\ h.node < node
        /\ h.node + 1 = node => D[c][h.at] < Radius
  <2> SUFFICES ASSUME NEW h \in hits, h.object = o
               PROVE  /\ o \in DOMAIN objects /\ h.node < node
                      /\ h.node + 1 = node => D[c][h.at] < Radius
    OBVIOUS
  <2>1. o \in DOMAIN objects /\ h.node <= objects[o].last
    BY <1>3 DEF SightInv, SpanInv
  <2>2. PICK g \in hits : g.object = o /\ g.node = objects[o].last /\ g.at = objects[o].at
    BY <2>1 DEF SightInv, EndsInv
  <2>3. g.node < node
    BY <1>2, <1>3, <2>1, <2>2
  <2>4. h.node <= g.node /\ h.node < node
    BY <1>3, <2>1, <2>2, <2>3
  <2>5. ASSUME h.node + 1 = node PROVE D[c][h.at] < Radius
    <3>1. h.node = g.node
      BY <1>3, <2>3, <2>4, <2>5
    <3>2. h = g
      BY <2>2, <3>1 DEF SightInv, StepInv
    <3> QED BY <1>2, <2>1, <2>2, <3>2
  <2> QED BY <2>1, <2>4, <2>5
<1>9. SpanInv'
  <2> SUFFICES ASSUME NEW h \in hits'
               PROVE  /\ objects'[h.object].first <= h.node
                      /\ h.node <= objects'[h.object].last
                      /\ h.node <= node
    BY <1>1 DEF SpanInv
  <2>1. CASE h = new
    <3>1. o \in DOMAIN objects => objects[o].first <= node
      <4> SUFFICES ASSUME o \in DOMAIN objects PROVE objects[o].first <= node
        OBVIOUS
      <4>1. PICK g \in hits : g.object = o /\ g.node = objects[o].first
        BY DEF SightInv, EndsInv
      <4> QED BY <1>3, <4>1
    <3> QED BY <1>2, <1>3, <2>1, <3>1
  <2>2. CASE h \in hits /\ h.object = o
    BY <1>2, <1>3, <1>8, <2>2 DEF SightInv, SpanInv
  <2>3. CASE h \in hits /\ h.object # o
    BY <1>2, <1>3, <2>3 DEF SightInv, SpanInv
  <2> QED BY <1>7, <2>1, <2>2, <2>3
<1>10. StepInv'
  <2>1. ASSUME NEW h \in hits', NEW g \in hits', h.object = g.object, h.node = g.node
        PROVE  h = g
    <3>1. CASE h \in hits /\ g \in hits
      BY <2>1, <3>1 DEF SightInv, StepInv
    <3>2. CASE h = new \/ g = new
      BY <1>3, <1>7, <1>8, <2>1, <3>2
    <3> QED BY <1>7, <3>1, <3>2
  <2>2. ASSUME NEW h \in hits', NEW g \in hits', h.object = g.object, h.node = g.node + 1
        PROVE  D[h.at][g.at] < Radius
    <3>1. CASE h \in hits /\ g \in hits
      BY <2>2, <3>1 DEF SightInv, StepInv
    <3>2. CASE h = new /\ g \in hits
      BY <1>3, <1>8, <2>2, <3>2
    <3>3. CASE g = new
      BY <1>3, <1>7, <1>8, <2>2, <3>3
    <3> QED BY <1>7, <3>1, <3>2, <3>3
  <2> QED BY <2>1, <2>2 DEF StepInv
<1>11. EndsInv'
  <2> SUFFICES ASSUME NEW p \in DOMAIN objects'
               PROVE  /\ \E h \in hits' : h.object = p /\ h.node = objects'[p].first
                      /\ \E h \in hits' : /\ h.object = p /\ h.node = objects'[p].last
                                          /\ h.at = objects'[p].at
    BY DEF EndsInv
  <2>1. new \in hits' /\ hits \subseteq hits'
    BY <1>1
  <2>2. CASE p # o
    BY <1>2, <2>1, <2>2 DEF SightInv, EndsInv
  <2>3. CASE p = o /\ o \in DOMAIN objects
    BY <1>2, <1>3, <2>1, <2>3 DEF SightInv, EndsInv
  <2>4. CASE p = o /\ o \notin DOMAIN objects
    BY <1>2, <1>3, <2>1, <2>4
  <2> QED BY <2>2, <2>3, <2>4
<1>12. RowsInv'
  BY <1>1 DEF RowsInv
<1> QED BY <1>5, <1>6, <1>9, <1>10, <1>11, <1>12 DEF SightInv

\* The invariant holds initially and every step keeps it.
LEMMA FillInductive ==
  /\ FillInit => FillInv
  /\ FillInv /\ [FillNext]_fill_vars => FillInv'
<1>1. ASSUME FillInv, [FillNext]_fill_vars PROVE FillInv'
  <2>1. CASE UNCHANGED fill_vars
    <3>1. UNCHANGED <<phase, occupied, nominal, tracks, chosen, node, candidates, picked,
                      objects, hits, rows>>
      BY <2>1 DEF fill_vars, scanning
    <3>2. FillTypeOK' /\ BindInv' /\ SightInv'
      BY <1>1, <3>1 DEF FillInv, FillTypeOK, BindInv, Uncovered, Centre, Excluded,
                        SightInv, SpanInv, StepInv, EndsInv
    <3>3. RowsInv'
      <4>1. \A k, j : HitsIn(k, j)' = HitsIn(k, j)
        BY <3>1 DEF HitsIn, Slotted, SlotOf, RankOf, Before, Budget
      <4> QED BY <1>1, <3>1, <4>1 DEF FillInv, RowsInv
    <3> QED BY <3>2, <3>3 DEF FillInv
  <2> QED BY <1>1, <2>1, CostmapKeeps, BeginKeeps, ScanKeeps, RepresentKeeps,
             NextNodeKeeps, WriteKeeps, NextCycleKeeps DEF FillNext
<1> QED BY <1>1, FillInitInv

-----------------------------------------------------------------------------
(* What the solver gets.                                                   *)

\* The slot of an object that has one is a static slot.
LEMMA SlotIs ==
  ASSUME FillTypeOK, NEW o \in DOMAIN objects, Slotted(o)
  PROVE  SlotOf(o) \in Slots /\ SlotOf(o) >= Len(chosen)
<1>1. RankOf(o) \in Nat /\ Len(chosen) \in Nat /\ Len(chosen) <= K
  BY RankGrows DEF FillTypeOK
<1> QED BY <1>1, SlotAssumption DEF Slotted, SlotOf, Budget, Slots

\* A row of the finished matrix: a track's or a sighting's, by its slot.
LEMMA RowIs ==
  ASSUME FillInv, phase = "done", NEW k \in Nodes, NEW j \in Slots
  PROVE  /\ j < Len(chosen) => rows[k][j].owner = <<"track", j>>
         /\ j >= Len(chosen) /\ rows[k][j].at # Far =>
              \E h \in HitsIn(k, j) : rows[k][j] = [owner |-> <<"object", h.object>>, at |-> h.at]
<1>1. \/ HitsIn(k, j) = {} /\ rows[k][j] = TrackRows(chosen)[k][j]
      \/ \E h \in HitsIn(k, j) : rows[k][j] = [owner |-> <<"object", h.object>>, at |-> h.at]
  BY DEF FillInv, RowsInv
<1>2. HitsIn(k, j) # {} => j >= Len(chosen)
  BY OneHitPerRow DEF FillInv
<1>3. TrackRows(chosen)[k][j] =
        IF j < Len(chosen) THEN [owner |-> <<"track", j>>, at |-> chosen[j + 1].ray[k]]
        ELSE [owner |-> <<"none", 0>>, at |-> Far]
  BY DEF TrackRows, Unfilled
<1>4. j \in Int /\ Len(chosen) \in Int
  BY SlotAssumption DEF Slots, FillInv, FillTypeOK
<1>5. CASE j < Len(chosen)
  <2>1. HitsIn(k, j) = {} /\ ~(j >= Len(chosen))
    BY <1>2, <1>4, <1>5
  <2>2. rows[k][j] = [owner |-> <<"track", j>>, at |-> chosen[j + 1].ray[k]]
    BY <1>1, <1>3, <1>5, <2>1
  <2> QED BY <2>1, <2>2
<1>6. CASE ~(j < Len(chosen))
  <2>1. ASSUME HitsIn(k, j) = {} PROVE rows[k][j].at = Far
    BY <1>1, <1>3, <1>6, <2>1
  <2> QED BY <1>1, <1>6, <2>1
<1> QED BY <1>5, <1>6

\* fillStaticObstacles() and setC(): the two rows the solver couples are one track's,
\* or two sightings of one object less than a cluster radius apart.
THEOREM SlotsCarryOneObject == FillSpec => []SlotCarriesOneObject
<1>1. ASSUME FillInv PROVE SlotCarriesOneObject
  <2> SUFFICES ASSUME phase = "done", NEW k \in 1 .. Np - 1, NEW j \in Slots, Coupled(k, j)
               PROVE  /\ rows[k][j].owner = rows[k - 1][j].owner
                      /\ rows[k][j].owner[1] = "object" =>
                           D[rows[k][j].at][rows[k - 1][j].at] < Radius
    BY DEF SlotCarriesOneObject
  <2>1. k \in Nodes /\ k - 1 \in Nodes /\ k \in Int /\ j \in Int /\ Len(chosen) \in Int
    BY <1>1, SizeAssumption, SlotAssumption DEF Nodes, Slots, FillInv, FillTypeOK
  <2>2. CASE j < Len(chosen)
    <3>1. rows[k][j].owner = <<"track", j>> /\ rows[k - 1][j].owner = <<"track", j>>
      BY <1>1, <2>1, <2>2, RowIs
    <3> QED BY <3>1
  <2>3. CASE j >= Len(chosen)
    <3>1. PICK h \in HitsIn(k, j) : rows[k][j] = [owner |-> <<"object", h.object>>, at |-> h.at]
      BY <1>1, <2>1, <2>3, RowIs DEF Coupled
    <3>2. PICK g \in HitsIn(k - 1, j) :
            rows[k - 1][j] = [owner |-> <<"object", g.object>>, at |-> g.at]
      BY <1>1, <2>1, <2>3, RowIs DEF Coupled
    <3>3. /\ h \in hits /\ g \in hits /\ h.node = k /\ g.node = k - 1
          /\ Len(chosen) + RankOf(h.object) = j /\ Len(chosen) + RankOf(g.object) = j
      BY <3>1, <3>2 DEF HitsIn, SlotOf
    <3>4. h.object \in DOMAIN objects /\ g.object \in DOMAIN objects
      BY <1>1, <3>3 DEF FillInv, FillTypeOK
    <3>5. RankOf(h.object) \in Int /\ RankOf(g.object) \in Int
      BY <1>1, <3>4, RankGrows DEF FillInv
    <3>6. RankOf(h.object) = RankOf(g.object)
      BY <2>1, <3>3, <3>5
    <3>7. h.object = g.object
      BY <1>1, <3>4, <3>6, RankGrows DEF FillInv
    <3>8. h.node = g.node + 1
      BY <2>1, <3>3
    <3>9. D[h.at][g.at] < Radius
      BY <1>1, <3>3, <3>7, <3>8 DEF FillInv, SightInv, StepInv
    <3> QED BY <3>1, <3>2, <3>7, <3>9
  <2> QED BY <2>1, <2>2, <2>3
<1> QED BY <1>1, FillInductive, PTL DEF FillSpec

\* fillStaticObstacles(): the ranks of the encounter order give every object a slot of
\* its own, so that no sighting is overwritten.
THEOREM SightingsWritten == FillSpec => []EverySightingWritten
<1>1. ASSUME FillInv PROVE EverySightingWritten
  <2> SUFFICES ASSUME phase = "done", NEW h \in hits, Slotted(h.object)
               PROVE  rows[h.node][SlotOf(h.object)]
                        = [owner |-> <<"object", h.object>>, at |-> h.at]
    BY DEF EverySightingWritten
  <2> DEFINE j == SlotOf(h.object)
  <2>1. h.object \in DOMAIN objects /\ h.node \in Nodes
    BY <1>1 DEF FillInv, FillTypeOK
  <2>2. j \in Slots
    BY <1>1, <2>1, SlotIs DEF FillInv
  <2>3. h \in HitsIn(h.node, j)
    BY DEF HitsIn
  <2> HIDE DEF j
  <2>4. PICK g \in HitsIn(h.node, j) :
          rows[h.node][j] = [owner |-> <<"object", g.object>>, at |-> g.at]
    BY <1>1, <2>1, <2>2, <2>3 DEF FillInv, RowsInv
  <2>5. g = h
    BY <1>1, <2>3, OneHitPerRow DEF FillInv
  <2> QED BY <2>4, <2>5 DEF j
<1> QED BY <1>1, FillInductive, PTL DEF FillSpec

\* fillStaticObstacles(): a slot is denied only for objects met no later, one in each
\* static slot.
THEOREM EncountersInOrder == FillSpec => []EarliestEncounterFirst
<1>1. ASSUME FillInv PROVE EarliestEncounterFirst
  <2> SUFFICES ASSUME phase = "done", NEW h \in hits, ~Slotted(h.object),
                      NEW j \in Len(chosen) .. K - 1
               PROVE  \E k \in 0 .. h.node : rows[k][j].at # Far
    BY DEF EarliestEncounterFirst
  <2> DEFINE o == h.object
             r == j - Len(chosen)
  <2>1. /\ o \in DOMAIN objects /\ h.node \in Nodes /\ objects[o].first <= h.node
        /\ Len(chosen) \in Nat /\ Len(objects) \in Nat /\ FillTypeOK
    BY <1>1 DEF FillInv, FillTypeOK, SightInv, SpanInv
  <2>2. RankOf(o) \in 0 .. Len(objects) - 1
    BY <2>1, RankGrows
  <2>3. r \in 0 .. Len(objects) - 1 /\ r < RankOf(o) /\ r < Budget
    BY <2>1, <2>2, SlotAssumption DEF Slotted, Budget
  <2>4. PICK p \in DOMAIN objects : RankOf(p) = r
    <3> HIDE DEF r
    <3> QED BY <2>1, <2>3, RankReached
  <2>5. Before(p, o)
    <3>1. o # p /\ ~(RankOf(o) < RankOf(p))
      BY <2>2, <2>3, <2>4
    <3>2. ~Before(o, p)
      BY <2>1, <3>1, RankGrows
    <3> QED BY <2>1, <3>1, <3>2, BeforeOrders
  <2>6. objects[p].first <= objects[o].first
    <3>1. objects[p] \in ObjectRecords /\ objects[o] \in ObjectRecords
      BY <2>1 DEF FillTypeOK
    <3>2. objects[p].first \in Int /\ objects[o].first \in Int
      BY <3>1, SizeAssumption DEF ObjectRecords, Nodes
    <3> QED BY <2>5, <3>2 DEF Before
  <2>7. PICK g \in hits : g.object = p /\ g.node = objects[p].first
    BY <1>1 DEF FillInv, SightInv, EndsInv
  <2>8. g.node \in Nodes /\ g.at \in Cells
    BY <1>1, <2>7 DEF FillInv, FillTypeOK
  <2>9. g.node \in 0 .. h.node
    <3>1. objects[o] \in ObjectRecords
      BY <2>1 DEF FillTypeOK
    <3> HIDE DEF o
    <3>2. objects[o].first \in Int /\ h.node \in Int /\ g.node \in Nat
      BY <2>1, <2>8, <3>1, SizeAssumption DEF ObjectRecords, Nodes
    <3> QED BY <2>1, <2>6, <2>7, <3>2
  <2>10. Slotted(g.object) /\ SlotOf(g.object) = j
    BY <2>1, <2>3, <2>4, <2>7 DEF Slotted, SlotOf
  <2>11. j \in Slots
    BY <2>1 DEF Slots
  <2>12. rows[g.node][j] = [owner |-> <<"object", g.object>>, at |-> g.at]
    <3>1. g \in HitsIn(g.node, j)
      BY <2>7, <2>10 DEF HitsIn
    <3>2. PICK f \in HitsIn(g.node, j) :
            rows[g.node][j] = [owner |-> <<"object", f.object>>, at |-> f.at]
      BY <1>1, <2>8, <2>11, <3>1 DEF FillInv, RowsInv
    <3>3. f = g
      BY <1>1, <3>1, OneHitPerRow DEF FillInv
    <3> QED BY <3>2, <3>3
  <2>13. rows[g.node][j].at # Far
    BY <2>8, <2>12, PlaceAssumption
  <2> QED BY <2>9, <2>13
<1> QED BY <1>1, FillInductive, PTL DEF FillSpec

\* fillStaticObstacles(): an occupied cell within reach is dropped only for a track
\* whose row stands for it, a representative beside it, or a full set of nearer ones.
THEOREM ReadsAccountedFor == FillSpec => []NothingOverlooked
<1>1. ASSUME FillInv PROVE NothingOverlooked
  <2> SUFFICES ASSUME NodeBound, Centre \in Cells, NEW c \in occupied, D[c][Centre] <= Reach
               PROVE  \/ \E i \in DOMAIN picked : D[c][picked[i]] < Radius
                      \/ \E j \in Slots : /\ rows[node][j].owner = <<"track", j>>
                                         /\ D[c][chosen[j + 1].now] < chosen[j + 1].reach
                      \/ /\ Len(picked) = Budget
                         /\ \A i \in DOMAIN picked : D[picked[i]][Centre] <= D[c][Centre]
    BY DEF NothingOverlooked
  <2>1. phase = "bind" /\ (Uncovered = {} \/ Len(picked) = Budget)
    BY DEF NodeBound
  <2>2. /\ candidates = {d \in occupied : D[d][Centre] <= Reach /\ ~Excluded(d)}
        /\ \A i \in DOMAIN picked, d \in Uncovered : D[picked[i]][Centre] <= D[d][Centre]
    BY <1>1, <2>1 DEF FillInv, BindInv
  <2>3. CASE Excluded(c)
    <3>1. PICK i \in DOMAIN chosen : D[c][chosen[i].now] < chosen[i].reach
      BY <2>3 DEF Excluded
    <3>2. /\ i \in Nat /\ i >= 1 /\ i <= Len(chosen) /\ Len(chosen) \in Nat /\ Len(chosen) <= K
          /\ node \in Nodes
      BY <1>1, <2>1 DEF FillInv, FillTypeOK
    <3>3. i - 1 \in Slots /\ i - 1 < Len(chosen) /\ i - 1 + 1 = i
      BY <3>2, SlotAssumption DEF Slots
    <3>4. rows[node][i - 1] = [owner |-> <<"track", i - 1>>, at |-> chosen[i - 1 + 1].ray[node]]
      BY <1>1, <2>1, <3>2, <3>3 DEF FillInv, RowsInv, TrackRows
    <3> QED BY <3>1, <3>3, <3>4
  <2>4. CASE ~Excluded(c) /\ c \in Uncovered
    BY <2>1, <2>2, <2>4
  <2>5. CASE ~Excluded(c) /\ c \notin Uncovered
    <3>1. c \in candidates
      BY <2>2, <2>5
    <3>2. PICK i \in DOMAIN picked : ~(D[c][picked[i]] >= Radius)
      BY <2>5, <3>1 DEF Uncovered
    <3>3. D[c][picked[i]] \in Nat /\ Radius \in Nat
      <4>1. picked[i] \in Cells /\ c \in Cells
        BY <1>1 DEF FillInv, FillTypeOK
      <4> QED BY <1>1, <4>1, Geometry, DistanceAssumption DEF FillInv
    <3> QED BY <3>2, <3>3
  <2> QED BY <2>3, <2>4, <2>5
<1> QED BY <1>1, FillInductive, PTL DEF FillSpec

\* The chosen tracks fit the slots, the nodes the horizon, and every sighting is of an
\* object there is.
THEOREM FillTypeCorrect == FillSpec => []FillTypeOK
<1>1. FillInv => FillTypeOK
  BY DEF FillInv
<1> QED BY <1>1, FillInductive, PTL DEF FillSpec
=============================================================================
