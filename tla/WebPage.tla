------------------------------ MODULE WebPage ------------------------------
(***************************************************************************)
(* What every page of the web client is made of: the lists it shows of     *)
(* what the backend holds, the requests it has sent through lib/api.ts,    *)
(* the dialogs that stand open, and the rest of its React state.  A page   *)
(* module gives the handlers; this one gives the life of a request.        *)
(*                                                                         *)
(* A request carries the copy of its list that its handler closed over     *)
(* when it was sent; an answer that brings a list carries the list as the  *)
(* backend held it when it served the request ("saw").  request() never    *)
(* throws: an answer is "done" or "refused", and a timeout is a refusal of *)
(* something the backend may still have done.  Requests that agree in      *)
(* everything count as one.                                                *)
(***************************************************************************)
EXTENDS Naturals, Sequences, FiniteSets

CONSTANTS MaxAsked,  \* requests one page has under way at once, at most
          MaxSent,   \* requests it sends after the one it mounts with, at most
          Gone       \* the state of what the backend does not hold

VARIABLES server,    \* the backend's lists
          shown,     \* the page's copies of them
          asked,     \* the requests under way
          dialog,    \* the open dialogs, the last one on top
          view,      \* spinners, forms and filters
          sent,      \* history: the requests sent since the page was mounted
          apart      \* history: the lists that may differ with nothing under way

pageVars == <<server, shown, asked, dialog, view, apart, sent>>

ASSUME MaxAskedAssumption == MaxAsked \in Nat \ {0} /\ MaxSent \in Nat

-----------------------------------------------------------------------------
Closed == <<>>

Waiting(op) == \E r \in asked : r.op = op

Top == IF dialog = Closed THEN [is |-> "none"] ELSE dialog[Len(dialog)]
Over(d) == Append(dialog, d)
Dialog(is, on) == [is |-> is, on |-> on]
CloseTop == SubSeq(dialog, 1, Len(dialog) - 1)

\* What a sequence has at some of its places, in the order it has there.
Only(s, places) ==
  [n \in 1..Cardinality(places) |->
     s[CHOOSE i \in places : Cardinality({j \in places : j < i}) = n - 1]]
Without(kinds) == Only(dialog, {i \in DOMAIN dialog : dialog[i].is \notin kinds})

Request(op, list, on, to, saw) ==
  [op |-> op, list |-> list, on |-> on, to |-> to, state |-> "asked", alone |-> TRUE,
   heard |-> TRUE, saw |-> saw]

\* A page mounts: its lists are empty and the first of them is asked for.
Mounted(list) ==
  /\ asked = {Request("load", list, Gone, Gone, Gone)}
  /\ dialog = Closed
  /\ apart = DOMAIN shown
  /\ sent = 0

\* Copies and backend part when requests overlap: a handler that patches the
\* list it closed over undoes what another one patched in between.
Add(others, r) == {[q EXCEPT !.alone = FALSE] : q \in others} \cup {[r EXCEPT !.alone = others = {}]}
AskSeeing(op, list, on, to, saw) ==
  /\ Cardinality(asked) < MaxAsked /\ sent < MaxSent
  /\ asked' = Add(asked, Request(op, list, on, to, saw))
  /\ sent' = sent + 1
  /\ apart' = IF asked = {} THEN apart ELSE DOMAIN shown
Ask(op, list, on, to) == AskSeeing(op, list, on, to, Gone)
AskPatching(op, list, on, to) == AskSeeing(op, list, on, to, shown[list])

\* The backend reaches a request: it does it, refuses it (as it must when a
\* row is not there, or there already), or does it while the page gives up on
\* the answer.
Present(r) == server[r.list][r.on] # Gone
Brings == {"load", "metadata", "reorder", "preference", "setting"}
Answer(r) == [r EXCEPT !.state = "done", !.saw = IF r.op \in Brings THEN server'[r.list] ELSE @]
Refusal(r) == [r EXCEPT !.state = "refused", !.saw = Gone]
Serve(Effect(_), Accepts(_)) ==
  /\ \E r \in asked :
       /\ r.state = "asked"
       /\ \/ /\ Accepts(r)
             /\ server' = Effect(r)
             /\ asked' = (asked \ {r}) \cup {Answer(r)}
             /\ UNCHANGED apart
          \/ /\ asked' = (asked \ {r}) \cup {Refusal(r)}
             /\ UNCHANGED <<server, apart>>
          \/ /\ Accepts(r)
             /\ server' = Effect(r)
             /\ server' # server
             /\ asked' = (asked \ {r}) \cup {Refusal(r)}
             /\ apart' = DOMAIN shown
  /\ UNCHANGED <<shown, dialog, view, sent>>

\* The answers to requests of a kind that wait for their handler.
Answers(op, state) == {r \in asked : r.op = op /\ r.state = state /\ r.heard}

\* What asked for them may be unmounted: the backend still serves the
\* requests, and nobody hears of it.
Unheard == {[r EXCEPT !.heard = FALSE] : r \in asked}

\* A handler takes its answer.  A list that was loaded with nothing else
\* under way agrees with the backend again.
Land(r) ==
  /\ asked' = asked \ {r}
  /\ UNCHANGED sent
  /\ apart' = IF r.op = "load" /\ r.state = "done" /\ r.alone THEN apart \ {r.list} ELSE apart

\* A list is asked for, behind a spinner, and taken over if the answer is good.
Load(list, spinner) ==
  /\ Ask("load", list, Gone, Gone)
  /\ view' = [view EXCEPT ![spinner] = TRUE]
  /\ UNCHANGED <<server, shown, dialog>>

\* Mistake: whatever came is taken over.
LoadedBlind(list, spinner) ==
  /\ \E r \in Answers("load", "done") \cup Answers("load", "refused") :
       /\ r.list = list
       /\ shown' = [shown EXCEPT ![list] = r.saw]
       /\ Land(r)
  /\ view' = [view EXCEPT ![spinner] = FALSE]
  /\ UNCHANGED <<server, dialog>>

Loaded(list, spinner) ==
  /\ \E r \in Answers("load", "done") \cup Answers("load", "refused") :
       /\ r.list = list
       /\ shown' = IF r.state = "done" THEN [shown EXCEPT ![list] = r.saw] ELSE shown
       /\ Land(r)
  /\ view' = [view EXCEPT ![spinner] = FALSE]
  /\ UNCHANGED <<server, dialog>>

\* Most handlers meet a refusal with a toast and leave everything as it is.
Refused(ops) ==
  /\ \E r \in asked : r.op \in ops /\ r.state = "refused" /\ r.heard /\ Land(r)
  /\ UNCHANGED <<server, shown, dialog, view>>

NobodyHears(ops) ==
  /\ \E r \in asked : r.op \in ops /\ ~r.heard /\ r.state # "asked" /\ Land(r)
  /\ UNCHANGED <<server, shown, dialog, view>>

-----------------------------------------------------------------------------
\* What the properties of the pages are made of.
RequestsOK ==
  \A r \in asked : /\ r.state \in {"asked", "done", "refused"}
                   /\ r.alone \in BOOLEAN /\ r.heard \in BOOLEAN
PageOK ==
  /\ RequestsOK
  /\ apart \subseteq DOMAIN shown /\ sent \in 0..MaxSent
  /\ \A i \in DOMAIN dialog : "is" \in DOMAIN dialog[i]

\* With nothing under way, a list agrees with the backend unless requests that
\* overlapped, or an answer that was given up, have set them apart.
ShowsServer(lists) == asked = {} => \A list \in lists \ apart : shown[list] = server[list]

\* A refused request is taken note of, and the user's work is still there.
LoadOps == {"load", "setting", "categories", "workers"}
Keeps(work, workAfter) ==
  (asked' \subseteq asked /\ \E r \in asked \ asked' : r.state = "refused" /\ r.op \notin LoadOps)
    => workAfter = work

=============================================================================
