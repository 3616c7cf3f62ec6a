---------------------------- MODULE MCNodeExecution ----------------------------
(* Small instances of NodeExecution: a router before honest, misrouted and *)
(* foreign executors, and one executor without a router.                   *)
EXTENDS NodeExecution

Binding(service, runtime) == [service |-> service, runtime |-> runtime, formula |-> Formula]
Home == Binding("home", "python_local")
Spare == Binding("spare", "python_local")
Remote == Binding("remote", "rust_service")

\* Both local services have a route, the remote one is found by its runtime.
Routed ==
  [ladder |-> <<Remote, Home, Spare>>, stateful |-> {}, routed |-> TRUE, sole |-> Foreign,
   services |-> [s \in {"home"} |-> Local(s)],
   runtimes |-> [r \in {"rust_service"} |-> Foreign],
   manifest |-> Formula, fits |-> TRUE,
   cell |-> {"result", "alien", "raises"},
   foreign |-> {"raises", "result", "alien", "fails"},
   claims |-> {"asked", "sibling", "nobody", "other run"}, late |-> TRUE]

\* The route of a service leads to the executor of another one.
Misrouted ==
  [Routed EXCEPT !.ladder = <<Spare, Remote, Home>>, !.stateful = {Remote},
                 !.foreign = {"raises", "junk", "result", "replay"}, !.claims = {"asked"},
                 !.runtimes = [r \in Runtimes |-> IF r = "python_local" THEN Local("home")
                                                  ELSE Foreign]]
\* The registry has moved to another formula, or other inputs, since the plan.
Drifted == [Routed EXCEPT !.ladder = <<Remote, Home>>, !.manifest = "newer"]
Unfit   == [Routed EXCEPT !.ladder = <<Home, Remote>>, !.fits = FALSE]
\* No router.
OnlyLocal   == [Routed EXCEPT !.ladder = <<Home, Remote>>, !.routed = FALSE,
                              !.sole = Local("home")]
OnlyForeign == [Routed EXCEPT !.ladder = <<Remote, Home>>, !.routed = FALSE,
                              !.foreign = {"raises", "result", "fails", "replay", "prior"},
                              !.claims = {"asked", "sibling", "nobody"}]

Configurations == {Routed, Misrouted, Drifted, Unfit, OnlyLocal, OnlyForeign}
=============================================================================
