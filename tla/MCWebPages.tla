----------------------------- MODULE MCWebPages -----------------------------
(***************************************************************************)
(* Lists of a handful of rows for the pages of the web client.             *)
(***************************************************************************)
EXTENDS WebClient, TLC

CONSTANTS ann, root, l1,                 \* accounts and a magic link
          hd, HD,                        \* tags that differ in case
          c1, c2, w1, w2, w3,            \* categories and workers
          t1, t2, t3, s1, s2, s3,        \* torrents, statuses and schedules
          h1, h2, f1, f2, u1, u2, p1,    \* hashes, files, trackers and a peer
          r1, r2                         \* releases

SomeSends ==
  [users |-> 2, tags |-> 2, categories |-> 3, workers |-> 3, torrents |-> 2, session |-> 1, form |-> 2,
   tabs |-> 2, editing |-> 2, limits |-> 2, worker |-> 2, overviews |-> 2, settings |-> 1, profile |-> 2]
TwoHosted == {<<w1, h1>>, <<w2, h2>>}
SomeGuesses == (r1 :> c1) @@ (r2 :> Nothing)
OnePreference == c1 :> w1
PlainColors == [c \in {c1, c2} |-> "plain"]

\* Two workers that host the same torrent.
Twins == INSTANCE TorrentsPage WITH MaxSent <- 1, Torrents <- {<<w1, h1>>, <<w2, h1>>}

EditingSpec == page = "editing" /\ Editing!Init /\ [][Editing!Next /\ UNCHANGED page]_vars
TwinsSpec == page = "torrents" /\ Twins!Init /\ [][Twins!Next /\ UNCHANGED page]_vars

\* AutoSaveField.tsx:14 has a failed save signalled and the draft kept unsaved:
\* a field that says "saved" shows what the backend stores.
SavedIsStored == Editing!SavedIsStored

\* Torrents.tsx:302: "Hashes are unique only inside a worker.  Match both
\* values": a deletion reaches the torrents the user pointed at, on no other
\* worker.
DeletesWhatWasMeant == Twins!DeletesWhatWasMeant

=============================================================================
