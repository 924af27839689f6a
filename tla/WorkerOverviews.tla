-------------------------- MODULE WorkerOverviews --------------------------
(***************************************************************************)
(* hooks/useWorkerOverviews.ts: the page of workers asks for the overview  *)
(* of each, a few at a time.  Every roster starts a queue of its own; the  *)
(* calls of an older one are aborted, and what they bring is not looked at. *)
(***************************************************************************)
EXTENDS WebPage

CONSTANTS Workers, Lanes

\* The rosters of the page, in a fixed order of their members.
Rosters == {<<>>} \cup UNION {{s \in [1..n -> Workers] : \A i, j \in 1..n : s[i] = s[j] => i = j} :
                              n \in 1..Cardinality(Workers)}
Smaller(a, b) == IF a < b THEN a ELSE b

\* view: the queue (its number, roster and cursor) and what is shown of each
\* worker: whether its overview is being checked, and the last outcome.
Init ==
  /\ server = <<>> /\ shown = <<>> /\ dialog = Closed /\ apart = {}
  /\ asked = {} /\ sent = 0
  /\ view = [generation |-> 0, workers |-> <<>>, cursor |-> 0,
             checking |-> {}, state |-> [w \in Workers |-> Gone]]

Members == {view.workers[i] : i \in DOMAIN view.workers}
Call(w, generation) == Request("overview", "none", w, generation, Gone)

-----------------------------------------------------------------------------
\* A new roster: what is known of a worker that stays is kept, and as many
\* lanes start as there are workers for.
Roster(workers) ==
  /\ sent < MaxSent /\ sent' = sent + 1
  /\ LET lanes == Smaller(Lanes, Len(workers))
         members == {workers[i] : i \in DOMAIN workers}
     IN /\ asked' = asked \cup {Call(workers[i], view.generation + 1) : i \in 1..lanes}
        /\ view' = [generation |-> view.generation + 1, workers |-> workers, cursor |-> lanes,
                    checking |-> members,
                    state |-> [w \in Workers |-> IF w \in members THEN view.state[w] ELSE Gone]]
  /\ UNCHANGED <<server, shown, dialog, apart>>

Obsolete(r) == r.to # view.generation

\* A lane takes over what came, good or bad, and the next worker of the queue.
TakeNext(others) ==
  IF view.cursor < Len(view.workers)
  THEN others \cup {Call(view.workers[view.cursor + 1], view.generation)} ELSE others

\* Mistake: a call that fails ends its lane.
ConsumeUntilRefused ==
  /\ \E r \in asked :
       /\ r.state # "asked" /\ ~Obsolete(r)
       /\ asked' = IF r.state = "done" THEN TakeNext(asked \ {r}) ELSE asked \ {r}
       /\ view' = [view EXCEPT !.checking = @ \ {r.on}, !.state[r.on] = r.state,
                               !.cursor = IF r.state = "done" THEN Smaller(@ + 1, Len(view.workers)) ELSE @]
  /\ UNCHANGED <<server, shown, dialog, apart, sent>>

Consume ==
  /\ \E r \in asked :
       /\ r.state # "asked" /\ ~Obsolete(r)
       /\ asked' = TakeNext(asked \ {r})
       /\ view' = [view EXCEPT !.checking = @ \ {r.on}, !.state[r.on] = r.state,
                               !.cursor = Smaller(@ + 1, Len(view.workers))]
  /\ UNCHANGED <<server, shown, dialog, apart, sent>>

LaneEnds ==
  /\ \E r \in asked : r.state # "asked" /\ Obsolete(r) /\ asked' = asked \ {r}
  /\ UNCHANGED <<server, shown, dialog, view, apart, sent>>

Effect(r) == server
Accepts(r) == TRUE

Next ==
  \/ \E workers \in Rosters : Roster(workers)
  \/ Consume \/ LaneEnds
  \/ Serve(Effect, Accepts)

-----------------------------------------------------------------------------
TypeOK ==
  /\ view.generation \in Nat /\ view.workers \in Rosters /\ view.cursor \in 0..Len(view.workers)
  /\ view.checking \subseteq Members /\ view.state \in [Workers -> {Gone, "done", "refused"}]

\* A worker that is being checked has a call of the current queue, or waits for
\* a lane that is still there.
SpinnersHaveRequests ==
  \A w \in view.checking :
    \/ \E r \in asked : r.on = w /\ r.to = view.generation
    \/ /\ \E i \in (view.cursor + 1)..Len(view.workers) : view.workers[i] = w
       /\ \E r \in asked : r.to = view.generation

=============================================================================
