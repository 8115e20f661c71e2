-------------------------- MODULE SpeedLimitExchange --------------------------
(***************************************************************************)
(* The speed limit's way from setSpeedLimit(), on the node's executor      *)
(* thread, to the model's bounds, on the action server's thread: two       *)
(* relaxed atomics and a release/acquire flag, no lock.                    *)
(*                                                                         *)
(* Each atomic access is a step.  The two relaxed stores may become        *)
(* visible in either order, the two relaxed loads may be made in either    *)
(* order; the release store comes after the first, the acquire exchange    *)
(* before the second.                                                      *)
(***************************************************************************)
EXTENDS Integers

CONSTANTS
  VMin, VMax,   \* the model's declared range of the speed control
  Requests      \* arguments setSpeedLimit() may be called with

ASSUME RangeAssumption == VMin \in Int /\ VMax \in Nat /\ VMin <= 0
ASSUME RequestAssumption == Requests \subseteq [speed : Int, percent : BOOLEAN]

NoLimit == [speed |-> 0, percent |-> FALSE]
Fields  == {"speed", "percent"}

VARIABLES
  cell,         \* speed_limit_ and speed_limit_is_percentage_
  pending,      \* speed_limit_pending_
  latest,       \* the executor's latest request
  setting,      \* setSpeedLimit() is running
  to_store,     \* fields of the request it has not stored yet
  configured,
  cycle,        \* control thread: idle, loading the pair, or past the top
  to_load,      \* fields of the pair it has not loaded yet
  regs,         \* the pair as loaded
  box,          \* the model's bounds of the speed control
  max_linear_vel

executor == <<latest, setting, to_store>>
control  == <<cycle, to_load, regs>>
bounds   == <<box, max_linear_vel>>
vars     == <<cell, pending, configured, executor, control, bounds>>

Clamp(v, low, upp) == IF v < low THEN low ELSE IF v > upp THEN upp ELSE v

\* applySpeedLimit(): the speed the request stands for, inside 0..VMax.
Resolved(request) ==
  LET v_lim == IF request.speed <= 0 THEN VMax
               ELSE IF request.percent THEN (request.speed * VMax) \div 100
               ELSE request.speed
  IN Clamp(v_lim, 0, VMax)

\* Mutant: the requested limit replaces the model's reverse bound.
Box_Symmetric(v_lim) == [low |-> -v_lim, upp |-> v_lim]

\* The limit intersected with the declared range.
Box(v_lim) == [low |-> IF -v_lim > VMin THEN -v_lim ELSE VMin, upp |-> v_lim]

Apply(request) ==
  /\ max_linear_vel' = Resolved(request)
  /\ box' = Box(Resolved(request))

Init ==
  /\ cell = NoLimit /\ pending = FALSE
  /\ latest = NoLimit /\ setting = FALSE /\ to_store = {}
  /\ configured = FALSE
  /\ cycle = "idle" /\ to_load = {} /\ regs = NoLimit
  /\ max_linear_vel = VMax /\ box = Box(VMax)

-----------------------------------------------------------------------------
(* Executor thread. *)

ExecutorIdle == ~setting /\ to_store = {}

SetSpeedLimit(request) ==
  /\ ExecutorIdle
  /\ setting' = TRUE /\ latest' = request /\ to_store' = Fields
  /\ UNCHANGED <<cell, pending, configured, control, bounds>>

StoreField(f) ==
  /\ f \in to_store
  /\ cell' = [cell EXCEPT ![f] = latest[f]]
  /\ to_store' = to_store \ {f}
  /\ UNCHANGED <<pending, latest, setting, configured, control, bounds>>

\* Mutant: the flag may be raised as soon as the speed is stored.
Published_Early == "speed" \notin to_store

\* Every field is stored before the flag is.
Published == to_store = {}

\* The release store ends the call.
RaiseFlag ==
  /\ setting /\ Published
  /\ pending' = TRUE /\ setting' = FALSE
  /\ UNCHANGED <<cell, latest, to_store, configured, control, bounds>>

\* configure() loads the model afresh and applies a pending limit in place; it
\* shares the executor thread with setSpeedLimit().  A limit that an earlier
\* configuration already took is not remembered.
Configure ==
  /\ ~configured /\ ExecutorIdle
  /\ configured' = TRUE /\ pending' = FALSE
  /\ IF pending THEN Apply(cell) /\ UNCHANGED latest
                ELSE Apply(NoLimit) /\ latest' = NoLimit
  /\ UNCHANGED <<cell, setting, to_store, control>>

Cleanup ==
  /\ configured /\ ExecutorIdle /\ cycle = "idle"
  /\ configured' = FALSE
  /\ UNCHANGED <<cell, pending, executor, control, bounds>>

-----------------------------------------------------------------------------
(* Control thread: the top of computeVelocityCommands(). *)

\* The acquire exchange; with no request the cycle goes on to solve.
Exchange ==
  /\ configured /\ cycle = "idle"
  /\ pending' = FALSE
  /\ IF pending THEN cycle' = "loading" /\ to_load' = Fields
                ELSE cycle' = "solving" /\ UNCHANGED to_load
  /\ UNCHANGED <<cell, configured, executor, regs, bounds>>

LoadField(f) ==
  /\ f \in to_load
  /\ regs' = [regs EXCEPT ![f] = cell[f]]
  /\ to_load' = to_load \ {f}
  /\ UNCHANGED <<cell, pending, configured, executor, cycle, bounds>>

\* Mutant: the flag is lowered once the limit is applied.
KeepFlag_Lowered == pending' = FALSE

\* A request raised while the pair was being loaded stays pending.
KeepFlag == UNCHANGED pending

ApplyLoaded ==
  /\ cycle = "loading" /\ to_load = {}
  /\ Apply(regs) /\ KeepFlag
  /\ cycle' = "solving"
  /\ UNCHANGED <<cell, configured, executor, to_load, regs>>

EndCycle ==
  /\ cycle = "solving"
  /\ cycle' = "idle"
  /\ UNCHANGED <<cell, pending, configured, executor, to_load, regs, bounds>>

Executor ==
  \/ \E request \in Requests : SetSpeedLimit(request)
  \/ \E f \in Fields : StoreField(f)
  \/ RaiseFlag \/ Configure \/ Cleanup
Control ==
  \/ \E f \in Fields : LoadField(f)
  \/ Exchange \/ ApplyLoaded \/ EndCycle

Next == Executor \/ Control

Spec == Init /\ [][Next]_vars

\* A call of setSpeedLimit() returns; the server keeps cycling the plugin.
Fairness ==
  /\ WF_vars(RaiseFlag \/ \E f \in Fields : StoreField(f))
  /\ WF_vars(Control)
FairSpec == Spec /\ Fairness

-----------------------------------------------------------------------------
(* Properties. *)

Requested == [speed : Int, percent : BOOLEAN]

\* The bounds stay inside the model's declared range and agree with the limit
\* the reference speed is clamped by.
TypeOK ==
  /\ cell \in Requested /\ latest \in Requested /\ regs \in Requested
  /\ pending \in BOOLEAN /\ setting \in BOOLEAN /\ configured \in BOOLEAN
  /\ to_store \subseteq Fields /\ to_load \subseteq Fields
  /\ cycle \in {"idle", "loading", "solving"}
  /\ max_linear_vel \in 0..VMax
  /\ box.low \in VMin..0 /\ box.upp = max_linear_vel

\* No request is lost: with no call in progress and no request pending, the
\* bounds a cycle solves under are the latest request's, however the accesses
\* of earlier calls and cycles interleaved.
LatestLimitInForce ==
  configured /\ ExecutorIdle /\ ~pending /\ cycle # "loading" =>
    max_linear_vel = Resolved(latest)

\* A request nothing supersedes is eventually the limit in force, for good, as
\* long as the plugin stays configured.
LatestLimitTakesEffect ==
  \A request \in Requests :
    <>[](configured /\ latest = request) =>
      <>[](max_linear_vel = Resolved(request))

\* prox_mpc_controller.hpp: "The release/acquire pair on speed_limit_pending_
\* publishes the value and the flag together."  A limit in force would then be
\* one the server asked for.
LimitWasRequested ==
  max_linear_vel \in {Resolved(request) : request \in Requests \cup {NoLimit}}
=============================================================================
