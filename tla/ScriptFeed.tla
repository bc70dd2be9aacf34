----------------------------- MODULE ScriptFeed -----------------------------
(***************************************************************************)
(* What a ScriptedLLM promises to callers that share it: every call takes  *)
(* effect at one instant between its invocation and its return, on all the *)
(* fields it touches together.  There is no lock here, and no step in      *)
(* which a turn is read but the cursor not yet moved.                      *)
(*                                                                         *)
(* A constructor call takes no steps either: its model has the             *)
(* configuration the options amount to.  At which address a new model is   *)
(* allocated is not said.                                                  *)
(***************************************************************************)
EXTENDS ScriptedData

VARIABLES
    made,    \* the models allocated so far
    conf,    \* the fields of each model
    cursor,  \* its position in its script
    phase,   \* of each caller's call
    call,    \* the call
    seen,    \* what a served call found
    got      \* what the caller's finished calls returned

vars == <<made, conf, cursor, phase, call, seen, got>>

Init ==
    /\ made = {}
    /\ conf = [m \in Model |-> DefaultConfig]
    /\ cursor = [m \in Model |-> 0]
    /\ phase = [g \in Goroutine |-> "idle"]
    /\ call = [g \in Goroutine |-> NoCall]
    /\ seen = [g \in Goroutine |-> NoFields]
    /\ got = [g \in Goroutine |-> <<>>]

\* A caller asks; what it asks for is in call'.
Ask(g) ==
    /\ phase[g] = "idle"
    /\ call'[g] \in Call
    /\ call'[g].recv \in made \union {NoModel}
    /\ call' = [call EXCEPT ![g] = call'[g]]
    /\ phase' = [phase EXCEPT ![g] = "asked"]
    /\ UNCHANGED <<made, conf, cursor, seen, got>>

\* The instant at which a method call takes effect.
Serve(g) ==
    LET m == call[g].recv IN
      /\ phase[g] = "asked"
      /\ m \in made
      /\ seen' = [seen EXCEPT ![g] = [conf |-> conf[m], cursor |-> cursor[m]]]
      /\ cursor' = IF call[g].fn \in Consuming
                     THEN [cursor EXCEPT ![m] = @ + 1] ELSE cursor
      /\ phase' = [phase EXCEPT ![g] = "served"]
      /\ UNCHANGED <<made, conf, call, got>>

Reply(g, at, res) ==
    /\ got' = [got EXCEPT ![g] = Append(@, [call |-> call[g], at |-> at, res |-> res])]
    /\ phase' = [phase EXCEPT ![g] = "idle"]
    /\ seen' = [seen EXCEPT ![g] = NoFields]
    /\ UNCHANGED call

ReplyAnswer(g) ==
    /\ phase[g] = "served"
    /\ call[g].fn \notin Deriving
    /\ Reply(g, seen[g].cursor, Answer(call[g], seen[g]))
    /\ UNCHANGED <<made, conf, cursor>>

\* A new model has the fields c and starts its script at k.
Publish(n, c, k) ==
    /\ n \in Model \ made
    /\ made' = made \union {n}
    /\ conf' = [conf EXCEPT ![n] = c]
    /\ cursor' = [cursor EXCEPT ![n] = k]

ReplyDerived(g) ==
    /\ phase[g] = "served"
    /\ call[g].fn \in Deriving
    /\ \E n \in Model :
         /\ Publish(n, DerivedConfig(call[g], seen[g]), seen[g].cursor)
         /\ Reply(g, seen[g].cursor, n)

ReplyNew(g) ==
    /\ phase[g] = "asked"
    /\ call[g].fn = "New"
    /\ \E n \in Model : Publish(n, Composed(call[g].arg), 0) /\ Reply(g, 0, n)

Next == \E g \in Goroutine :
          Ask(g) \/ Serve(g) \/ ReplyAnswer(g) \/ ReplyDerived(g) \/ ReplyNew(g)

Spec == Init /\ [][Next]_vars
=============================================================================
