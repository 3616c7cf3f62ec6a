--------------------------- MODULE HorizonRequests ---------------------------
(***************************************************************************)
(* What a multi-horizon batch accepts: validate_request for each child and *)
(* validate_multi_horizon_request for the batch.  A request is             *)
(*   [target, asOf, children], a child [target, horizon, candles], and a   *)
(* candle [stamp, at, sound]: the timestamp as written, the instant it     *)
(* parses to (Unparsable when it does not) and whether its prices are      *)
(* consistent.                                                             *)
(***************************************************************************)
EXTENDS Integers, Sequences, FiniteSets, Functions

CONSTANTS
  Duration,   \* interval_to_millis of every horizon name, in minutes: 0 for a
              \* name that is not a canonical interval
  BlankTarget \* a target that is empty or not stripped

ASSUME DurationAssumption == Duration \in [DOMAIN Duration -> Nat]

Unparsable == -1
MinimumHorizons == 2
MaximumHorizons == 8

Strictly(times) == \A i, j \in DOMAIN times : i < j => times[i] < times[j]
Instants(child) == [i \in DOMAIN child.candles |-> child.candles[i].at]
LatestOf(child) == Instants(child)[Len(child.candles)]

(* validate_request: timestamps are compared as they are written.          *)
ValidChild(child) ==
  /\ child.target # BlankTarget
  /\ child.candles # << >>
  /\ IsInjective([i \in DOMAIN child.candles |-> child.candles[i].stamp])
  /\ \A i \in DOMAIN child.candles : child.candles[i].sound

(* Candles the batch can place in time: ascending instants, the newest     *)
(* neither after the batch's instant nor a whole period older.             *)
CandlesAligned(child, asOf) ==
  /\ \A i \in DOMAIN child.candles : child.candles[i].at # Unparsable
  /\ Strictly(Instants(child))
  /\ LatestOf(child) <= asOf
  /\ asOf - LatestOf(child) <= Duration[child.horizon]

ChildAccepted(child, request) ==
  /\ ValidChild(child)
  /\ child.target = request.target
  /\ Duration[child.horizon] > 0
  /\ CandlesAligned(child, request.asOf)

OrderOf(request) == [i \in DOMAIN request.children |-> request.children[i].horizon]
DurationsOf(request) ==
  [i \in DOMAIN request.children |-> Duration[request.children[i].horizon]]

RequestAcceptedInAnyOrder(request) ==
  /\ request.target # BlankTarget
  /\ request.asOf >= 0
  /\ Len(request.children) \in MinimumHorizons..MaximumHorizons
  /\ \A i \in DOMAIN request.children : ChildAccepted(request.children[i], request)
  /\ IsInjective(OrderOf(request))

RequestAccepted(request) ==
  /\ request.target # BlankTarget
  /\ request.asOf >= 0
  /\ Len(request.children) \in MinimumHorizons..MaximumHorizons
  /\ \A i \in DOMAIN request.children : ChildAccepted(request.children[i], request)
  /\ IsInjective(OrderOf(request))
  /\ Strictly(DurationsOf(request))
=============================================================================
