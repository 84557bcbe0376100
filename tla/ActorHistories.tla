---------------------------- MODULE ActorHistories ----------------------------
(***************************************************************************)
(* What the TAL-PA emitter promises (packages/audit-log/src/emit.ts,       *)
(* halt.ts): every actor has one history, in which each emission appears   *)
(* once at most and which only ever grows at its end, and an operation is  *)
(* performed only when its emission is in its actor's history.             *)
(***************************************************************************)
EXTENDS Sequences, Naturals

CONSTANTS Actors, Events, ActorOf

VARIABLES
  history,   \* per actor, the emissions recorded, oldest first
  performed  \* emissions whose operation was performed

RecordedFor(a) == {history[a][i] : i \in 1..Len(history[a])}

Init == history = [a \in Actors |-> << >>] /\ performed = {}

Record(e) ==
  /\ e \notin RecordedFor(ActorOf[e])
  /\ history' = [history EXCEPT ![ActorOf[e]] = Append(@, e)]
  /\ UNCHANGED performed

Perform(e) ==
  /\ e \in RecordedFor(ActorOf[e])
  /\ performed' = performed \union {e}
  /\ UNCHANGED history

Next == \E e \in Events : Record(e) \/ Perform(e)

Spec == Init /\ [][Next]_<<history, performed>>
=============================================================================
