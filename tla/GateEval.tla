------------------------------- MODULE GateEval -------------------------------
(****************************************************************************)
(* EvaluateStep (cpu/eval.cc): the values of the inputs are propagated      *)
(* through a network by a queue of terminals, and every gate keeps its      *)
(* value from one call to the next, which is what makes a loop of gates     *)
(* remember.  A caller sees the values when the call returns.               *)
(*                                                                          *)
(* The code visits the users of a terminal in the order in which they were  *)
(* registered.  The passes change that order, so it is left open here.      *)
(****************************************************************************)
EXTENDS GateValues

CONSTANTS
  Networks,      \* the networks that are evaluated
  InputOrder,    \* the input bits in the order of their declaration
  MayFollow(_, _)  \* which inputs a caller may hand in after which

ASSUME EvalAssumption ==
  /\ Networks # {}
  /\ \A n \in Networks : WellFormed(n) /\ WellShaped(n)
  /\ InputOrder \in Seq(Inputs)
  /\ {InputOrder[i] : i \in DOMAIN InputOrder} = Inputs

VARIABLES
  net,      \* the network
  state,    \* the caller's map of values
  seen,     \* the terminals that have been given a value in this call
  queue,    \* the terminals whose users are to be visited
  users,    \* the users of the terminal taken last that are still to be visited
  running,  \* whether a call is in progress
  shown     \* what the caller saw last: the inputs and the outputs

vars == <<net, state, seen, queue, users, running, shown>>

InputValues == [Inputs -> {"low", "high"}]

Nothing == [t \in Terminals |-> "none"]

Outputs(n, st) == [o \in 1 .. n.outs |-> st[n.ins[Sink][o]]]

Init ==
  /\ net \in Networks
  /\ state = Nothing
  /\ seen = {} /\ queue = << >> /\ users = {}
  /\ running = FALSE
  /\ shown = [inputs |-> [i \in Inputs |-> "none"], outputs |-> Outputs(net, Nothing)]

----------------------------------------------------------------------------
EvaluateStep(inputs) ==
  /\ ~ running
  /\ MayFollow(shown.inputs, inputs)
  /\ state' = [t \in Terminals |-> CASE t \in Inputs -> inputs[t]
                                     [] t = Low      -> "low"
                                     [] t = High     -> "high"
                                     [] t \in Gates  -> state[t]]
  /\ seen' = Inputs
  /\ queue' = InputOrder
  /\ running' = TRUE
  /\ UNCHANGED <<net, users, shown>>

\* Faulty: the terminal stays in the queue.
TakeKeeps(q) == q

Take(q) == Tail(q)

\* The fake gate that holds the outputs is dead, and has no value of its own.
NextTerminal ==
  /\ running /\ users = {} /\ queue # << >>
  /\ users' = {u \in net.uses[Head(queue)] : u[1] # Sink}
  /\ queue' = Take(queue)
  /\ UNCHANGED <<net, state, seen, running, shown>>

\* Faulty: a gate gets a value once.
ChangesOnce(g, val) == val # "none" /\ g \notin seen

\* A value that is not decided leaves the one the gate has.
Changes(g, val) == val # "none" /\ (g \in seen => state[g] # val)

\* Faulty: a gate is enqueued once, when it gets its first value.
VisitEnqueuesOnce(u) ==
  LET g   == u[1]
      val == ComputeValue(net, state, g)
  IN  /\ users' = users \ {u}
      /\ IF Changes(g, val)
         THEN /\ state' = [state EXCEPT ![g] = val]
              /\ seen' = seen \cup {g}
              /\ queue' = IF g \in seen THEN queue ELSE Append(queue, g)
         ELSE UNCHANGED <<state, seen, queue>>
      /\ UNCHANGED <<net, running, shown>>

VisitUser(u) ==
  LET g   == u[1]
      val == ComputeValue(net, state, g)
  IN  /\ users' = users \ {u}
      /\ IF Changes(g, val)
         THEN /\ state' = [state EXCEPT ![g] = val]
              /\ seen' = seen \cup {g}
              /\ queue' = Append(queue, g)
         ELSE UNCHANGED <<state, seen, queue>>
      /\ UNCHANGED <<net, running, shown>>

Return ==
  /\ running /\ users = {} /\ queue = << >>
  /\ running' = FALSE
  /\ seen' = {}
  /\ shown' = [inputs |-> [i \in Inputs |-> state[i]], outputs |-> Outputs(net, state)]
  /\ UNCHANGED <<net, state, queue, users>>

Evaluate == NextTerminal \/ (\E u \in users : VisitUser(u)) \/ Return

Next == (\E inputs \in InputValues : EvaluateStep(inputs)) \/ Evaluate

\* The thread that has called EvaluateStep keeps running.
Spec == Init /\ [][Next]_vars /\ WF_vars(Evaluate)

----------------------------------------------------------------------------
\* What a call leaves behind is stable: every gate that has a value has the one
\* its inputs give it (the assertion under DEBUG_EVAL, eval.cc:543).
Settled == \A g \in Live(net) :
  ~ running /\ state[g] # "none" => ComputeValue(net, state, g) = state[g]

\* A gate that reads a value, not counting those of the constants.
Told(g) == \E i \in DOMAIN net.ins[g] :
  net.ins[g][i] \notin {Low, High} /\ state[net.ins[g][i]] # "none"

\* No change is lost between two visits: when a call returns, a gate that has been told
\* a value has the value its inputs decide, if they decide one.  Unlike Settled this
\* holds of every network, one with gates that read constants only or that are left
\* without a value included.
UpToDate == \A g \in Live(net) :
  ~ running /\ Told(g) /\ ComputeValue(net, state, g) # "none" =>
    state[g] = ComputeValue(net, state, g)

\* A call returns: no network that is checked makes its gates chase each other, so
\* the error that was commented out (eval.cc:516) is not missed.
Converges == running ~> ~ running

\* Once the caller has reset the network, no gate is left without a value (the
\* question of eval.cc:555).
Determined ==
  ~ running /\ shown.inputs \in InputValues => \A g \in Live(net) : state[g] # "none"

=============================================================================
