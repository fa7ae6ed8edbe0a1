------------------------------- MODULE Favorites -------------------------------
(***************************************************************************)
(* The favourites of a customer: the set the shop's pages show, the        *)
(* guest's copy in the browser's storage and the account's rows.           *)
(*                                                                         *)
(* One store outlives the pages.  Every page mounts the provider anew, so  *)
(* init is called at every visit; a partial reload keeps the page and      *)
(* changes only its props.  Requests are unaborted fetches whose answers   *)
(* are handled whoever is signed in by then, in any order; any of them may *)
(* be lost, before or after the server has acted on it.                    *)
(***************************************************************************)
EXTENDS FiniteSets

CONSTANTS
  Products,
  Loads,     \* bound: the runs of doInit for an account in flight at once
  Toggles,   \* bound: the toggle requests in flight at once
  NoLoad

ASSUME NoLoad \notin Loads

VARIABLES
  session,      \* server: the browser's session belongs to the customer
  loggedIn,     \* the auth prop of the page shown
  mode,         \* guest or user
  favorites,    \* the set shown
  initPromise,  \* the run of doInit it stands for, or NoLoad
  storage,      \* localStorage: dombi.favorites.guest
  account,      \* server: the customer's rows of favorites
  load,         \* [Loads -> run of doInit(true)]
  toggle        \* [Toggles -> toggle request]

favoriteVars ==
  <<session, loggedIn, mode, favorites, initPromise, storage, account, load, toggle>>

IdleLoad == [step |-> "idle", answer |-> "none", ids |-> {}]
IdleToggle(p) == [step |-> "idle", product |-> p, was |-> FALSE]

LoadSteps == {"idle", "load", "merge"}
ToggleSteps == {"idle", "sent", "found", "missing", "on", "off", "failed"}

Init ==
  /\ session \in BOOLEAN
  /\ loggedIn = session
  /\ mode = "guest"
  /\ favorites = {}
  /\ initPromise = NoLoad
  /\ storage \in SUBSET Products
  /\ account \in SUBSET Products
  /\ load = [l \in Loads |-> IdleLoad]
  /\ \E p \in Products : toggle = [t \in Toggles |-> IdleToggle(p)]

-----------------------------------------------------------------------------
(* The store on its own.                                                   *)

\* init and the synchronous part of doInit, in the store's state after any
\* logout: promise, m and shown are what initPromise, mode and favorites hold.
\* For a guest the promise is settled before anything else runs.
init(target, promise, m, shown) ==
  LET wanted == IF target THEN "user" ELSE "guest"
      skipped == promise # NoLoad \/ (m = wanted /\ shown # {})
  IN \/ /\ skipped
        /\ initPromise' = promise /\ mode' = m /\ favorites' = shown
        /\ UNCHANGED load
     \/ /\ ~skipped /\ ~target
        /\ initPromise' = NoLoad /\ mode' = "guest" /\ favorites' = storage
        /\ UNCHANGED load
     \/ /\ ~skipped /\ target
        /\ mode' = "user" /\ favorites' = shown
        /\ \E l \in Loads :
             /\ load[l].step = "idle"
             /\ load' = [load EXCEPT ![l] = [IdleLoad EXCEPT !.step = "load"]]
             /\ initPromise' = l

\* A visit: the page is mounted with the session's props, and with it the
\* provider, which has seen no earlier props.
Mount ==
  /\ loggedIn' = session
  /\ init(session, initPromise, mode, favorites)
  /\ UNCHANGED <<session, storage, account, toggle>>

\* A partial reload: the provider stays and sees the props change.
PropsChange ==
  /\ loggedIn # session
  /\ loggedIn' = session
  /\ IF loggedIn THEN init(FALSE, NoLoad, "guest", storage)
                 ELSE init(TRUE, initPromise, mode, favorites)
  /\ UNCHANGED <<session, storage, account, toggle>>

toggleLocal(p) ==
  /\ mode = "guest"
  /\ favorites' = IF p \in favorites THEN favorites \ {p} ELSE favorites \cup {p}
  /\ storage' = favorites'
  /\ UNCHANGED <<session, loggedIn, mode, initPromise, account, load, toggle>>

toggleServer(t, p) ==
  /\ mode = "user" /\ toggle[t].step = "idle"
  /\ favorites' = IF p \in favorites THEN favorites \ {p} ELSE favorites \cup {p}
  /\ toggle' = [toggle EXCEPT
                  ![t] = [step |-> "sent", product |-> p, was |-> p \in favorites]]
  /\ UNCHANGED <<session, loggedIn, mode, initPromise, storage, account, load>>

-----------------------------------------------------------------------------
(* FavoriteController.                                                     *)

\* Signing in or out, here or in another tab.
SessionChange ==
  /\ session' = ~session
  /\ UNCHANGED <<loggedIn, mode, favorites, initPromise, storage, account, load, toggle>>

\* index answers a guest with an empty list.
index(l) ==
  /\ load[l].step = "load" /\ load[l].answer = "none"
  /\ load' = [load EXCEPT ![l].answer = "list",
                          ![l].ids = IF session THEN account ELSE {}]
  /\ UNCHANGED <<session, loggedIn, mode, favorites, initPromise, storage, account, toggle>>

\* merge: the ids sent are in the request, the list answered replaces them.
merge(l) ==
  /\ load[l].step = "merge" /\ load[l].answer = "none"
  /\ IF session
     THEN /\ account' = account \cup load[l].ids
          /\ load' = [load EXCEPT ![l].answer = "list", ![l].ids = account']
     ELSE /\ load' = [load EXCEPT ![l].answer = "failed"]
          /\ UNCHANGED account
  /\ UNCHANGED <<session, loggedIn, mode, favorites, initPromise, storage, toggle>>

\* toggle looks for the row, then deletes it or creates it; two requests for
\* one product may both look before either acts.
findFavorite(t) ==
  /\ toggle[t].step = "sent"
  /\ toggle' = [toggle EXCEPT ![t].step =
                  IF ~session THEN "failed"
                  ELSE IF toggle[t].product \in account THEN "found" ELSE "missing"]
  /\ UNCHANGED <<session, loggedIn, mode, favorites, initPromise, storage, account, load>>

deleteFavorite(t) ==
  /\ toggle[t].step = "found"
  /\ account' = account \ {toggle[t].product}
  /\ toggle' = [toggle EXCEPT ![t].step = "off"]
  /\ UNCHANGED <<session, loggedIn, mode, favorites, initPromise, storage, load>>

\* The unique index on customer and product refuses a second row.
createFavorite(t) ==
  /\ toggle[t].step = "missing"
  /\ account' = account \cup {toggle[t].product}
  /\ toggle' = [toggle EXCEPT ![t].step =
                  IF toggle[t].product \in account THEN "failed" ELSE "on"]
  /\ UNCHANGED <<session, loggedIn, mode, favorites, initPromise, storage, load>>

\* The network fails, before the server sees the request or after it acted.
LoseLoad(l) ==
  /\ load[l].step # "idle" /\ load[l].answer # "failed"
  /\ load' = [load EXCEPT ![l].answer = "failed"]
  /\ UNCHANGED <<session, loggedIn, mode, favorites, initPromise, storage, account, toggle>>

LoseToggle(t) ==
  /\ toggle[t].step \in {"sent", "on", "off"}
  /\ toggle' = [toggle EXCEPT ![t].step = "failed"]
  /\ UNCHANGED <<session, loggedIn, mode, favorites, initPromise, storage, account, load>>

-----------------------------------------------------------------------------
(* The answers, in the store as it is by then.                             *)

\* Mutant: only a run that succeeds clears initPromise.
ReturnWhenLoaded(l) ==
  /\ load' = [load EXCEPT ![l] = IdleLoad]
  /\ initPromise' = IF load[l].answer = "list" THEN NoLoad ELSE initPromise

\* doInit returns; its finally clears initPromise, whichever run that holds.
Return(l) ==
  /\ load' = [load EXCEPT ![l] = IdleLoad]
  /\ initPromise' = NoLoad

\* loadFromServer, then the guest's favourites, as the storage holds them now.
LoadAnswered(l) ==
  /\ load[l].step = "load" /\ load[l].answer = "list"
  /\ favorites' = load[l].ids
  /\ IF storage = {} THEN Return(l)
     ELSE /\ load' = [load EXCEPT ![l] = [step |-> "merge", answer |-> "none", ids |-> storage]]
          /\ UNCHANGED initPromise
  /\ UNCHANGED <<session, loggedIn, mode, storage, account, toggle>>

LoadFailed(l) ==
  /\ load[l].step = "load" /\ load[l].answer = "failed"
  /\ Return(l)
  /\ UNCHANGED <<session, loggedIn, mode, favorites, storage, account, toggle>>

\* Mutant: the merged list is not shown.
MergeUnseen(l) ==
  /\ load[l].step = "merge" /\ load[l].answer # "none"
  /\ storage' = {}
  /\ Return(l)
  /\ UNCHANGED <<session, loggedIn, mode, favorites, account, toggle>>

\* The guest's copy is cleared whether or not the merge succeeded.
MergeAnswered(l) ==
  /\ load[l].step = "merge" /\ load[l].answer # "none"
  /\ favorites' = IF load[l].answer = "list" THEN load[l].ids ELSE favorites
  /\ storage' = {}
  /\ Return(l)
  /\ UNCHANGED <<session, loggedIn, mode, account, toggle>>

\* Reconciled with the answer, or reverted to what was shown at the click.
ToggleAnswered(t) ==
  /\ toggle[t].step \in {"on", "off", "failed"}
  /\ LET on == \/ toggle[t].step = "on"
               \/ toggle[t].step = "failed" /\ toggle[t].was
         p == toggle[t].product
     IN favorites' = IF on THEN favorites \cup {p} ELSE favorites \ {p}
  /\ toggle' = [toggle EXCEPT ![t] = IdleToggle(toggle[t].product)]
  /\ UNCHANGED <<session, loggedIn, mode, initPromise, storage, account, load>>

-----------------------------------------------------------------------------
Requests ==
  \/ \E l \in Loads : index(l) \/ merge(l) \/ LoseLoad(l)
  \/ \E t \in Toggles :
       findFavorite(t) \/ deleteFavorite(t) \/ createFavorite(t) \/ LoseToggle(t)

Handled ==
  \/ \E l \in Loads : LoadAnswered(l) \/ LoadFailed(l) \/ MergeAnswered(l)
  \/ \E t \in Toggles : ToggleAnswered(t)

Clicks ==
  \E p \in Products : toggleLocal(p) \/ \E t \in Toggles : toggleServer(t, p)

Next == Mount \/ PropsChange \/ SessionChange \/ Clicks \/ Requests \/ Handled

Spec == Init /\ [][Next]_favoriteVars

=============================================================================
