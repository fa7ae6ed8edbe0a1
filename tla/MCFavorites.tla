------------------------------ MODULE MCFavorites ------------------------------
(***************************************************************************)
(* Favorites with a history variable for TLC: since the last load that     *)
(* started with nothing else in flight, has anything happened that the     *)
(* store cannot know of, or have two requests been in flight at once?      *)
(***************************************************************************)
EXTENDS Favorites, TLC

VARIABLE disturbed

Symmetry == Permutations(Products) \cup Permutations(Loads)

FavoritesTypeOK ==
  /\ session \in BOOLEAN /\ loggedIn \in BOOLEAN
  /\ mode \in {"guest", "user"}
  /\ favorites \subseteq Products /\ storage \subseteq Products /\ account \subseteq Products
  /\ initPromise \in Loads \cup {NoLoad}
  /\ load \in [Loads -> [step: LoadSteps, answer: {"none", "list", "failed"},
                         ids: SUBSET Products]]
  /\ toggle \in [Toggles -> [step: ToggleSteps, product: Products, was: BOOLEAN]]

Quiet ==
  /\ \A l \in Loads : load[l].step = "idle"
  /\ \A t \in Toggles : toggle[t].step = "idle"

LoadStarts == \E l \in Loads : load[l].step = "idle" /\ load'[l].step = "load"
ToggleStarts == \E t \in Toggles : toggle[t].step = "idle" /\ toggle'[t].step = "sent"

\* An answer is lost that the store needed: a list, or what a request did.
AnswerLost ==
  \/ \E l \in Loads :
       /\ load[l].step = "load" \/ load[l].answer = "list"
       /\ load[l].answer # "failed" /\ load'[l].answer = "failed"
  \/ \E t \in Toggles :
       toggle[t].step \in {"on", "off"} /\ toggle'[t].step = "failed"

Disturbs ==
  IF Quiet /\ LoadStarts THEN session # loggedIn'
  ELSE disturbed \/ AnswerLost \/ session' # session
       \/ (~Quiet /\ (LoadStarts \/ ToggleStarts))

MCInit == Init /\ disturbed = TRUE
MCNext == Next /\ disturbed' = Disturbs
MCSpec == MCInit /\ [][MCNext]_<<favoriteVars, disturbed>>

-----------------------------------------------------------------------------
(* Properties.                                                             *)

\* A signed-in customer whose list was loaded with nothing else in flight, who
\* waits for each click to be answered and loses no answer, is shown exactly
\* the products the account holds once nothing is in flight: the optimistic
\* updates, the reverts of requests that never reached the server and the merge
\* of the guest's copy add up to the server's rows (use-favorites.ts).
CalmViewIsAccount ==
  Quiet /\ ~disturbed /\ mode = "user" => favorites = account

\* init waits for nothing that is over: while initPromise is set, the run of
\* doInit it stands for is in flight, so that no lost or refused answer, and no
\* older run that returns late, keeps later visits from loading the favourites
\* (use-favorites.ts: init returns early while initPromise is set).
PromiseIsLive == initPromise # NoLoad => load[initPromise].step # "idle"

=============================================================================
