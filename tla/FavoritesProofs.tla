---------------------------- MODULE FavoritesProofs ----------------------------
(***************************************************************************)
(* Proofs about the favourites, for every set of products and any number   *)
(* of requests in flight.                                                  *)
(***************************************************************************)
EXTENDS MCFavorites, TLAPS

LoadRows == [step: LoadSteps, answer: {"none", "list", "failed"}, ids: SUBSET Products]
ToggleRows == [step: ToggleSteps, product: Products, was: BOOLEAN]

-----------------------------------------------------------------------------
(* Kinds, and the run that initPromise stands for.                          *)

\* initPromise is cleared whenever the run it stands for returns; that the
\* kinds hold is needed to know which run that is.
PromiseInv == FavoritesTypeOK /\ PromiseIsLive

\* A run that starts or goes on is of its kind.
LEMMA LoadWritten ==
  ASSUME load \in [Loads -> LoadRows], NEW l \in Loads, NEW row \in LoadRows,
         load' = [load EXCEPT ![l] = row]
  PROVE  load' \in [Loads -> LoadRows] /\ load'[l] = row
         /\ \A m \in Loads \ {l} : load'[m] = load[m]
  OBVIOUS

\* The row of a run that starts.
LEMMA LoadStarted ==
  /\ [IdleLoad EXCEPT !.step = "load"] = [step |-> "load", answer |-> "none", ids |-> {}]
  /\ [IdleLoad EXCEPT !.step = "load"] \in LoadRows
  BY DEF IdleLoad, LoadRows, LoadSteps

\* init keeps both, whatever mode and set its caller found.
LEMMA InitKeepsPromise ==
  ASSUME PromiseInv, NEW target \in BOOLEAN, NEW promise \in {initPromise, NoLoad},
         NEW m \in {"guest", "user"}, NEW shown \in SUBSET Products,
         init(target, promise, m, shown),
         loggedIn' \in BOOLEAN, UNCHANGED <<session, storage, account, toggle>>
  PROVE  PromiseInv'
<1> USE DEF PromiseInv, FavoritesTypeOK, PromiseIsLive
<1>1. CASE UNCHANGED load
  BY <1>1 DEF init
<1>2. CASE \E l \in Loads :
             /\ load' = [load EXCEPT ![l] = [IdleLoad EXCEPT !.step = "load"]]
             /\ initPromise' = l /\ mode' = "user" /\ favorites' = shown
  <2>1. PICK l \in Loads : /\ load' = [load EXCEPT ![l] = [IdleLoad EXCEPT !.step = "load"]]
                           /\ initPromise' = l /\ mode' = "user" /\ favorites' = shown
    BY <1>2
  <2>4. load' \in [Loads -> LoadRows] /\ load'[l].step = "load"
    BY <2>1, LoadStarted DEF LoadRows
  <2> QED
    BY <2>1, <2>4 DEF LoadRows
<1> QED
  BY <1>1, <1>2 DEF init

\* A run returns, and with it whatever initPromise stands for.
LEMMA ReturnKeepsPromise ==
  ASSUME PromiseInv, NEW l \in Loads, Return(l), favorites' \in SUBSET Products,
         storage' \in SUBSET Products, UNCHANGED <<session, loggedIn, mode, account, toggle>>
  PROVE  PromiseInv'
<1>1. IdleLoad \in LoadRows
  BY DEF IdleLoad, LoadRows, LoadSteps
<1>2. load' \in [Loads -> LoadRows]
  BY <1>1 DEF Return, PromiseInv, FavoritesTypeOK, LoadRows
<1> QED
  BY <1>2 DEF Return, PromiseInv, FavoritesTypeOK, PromiseIsLive, LoadRows

\* A run goes on with another row.
LEMMA LoadGoesOn ==
  ASSUME PromiseInv, NEW l \in Loads, NEW row \in LoadRows, load' = [load EXCEPT ![l] = row],
         row.step # "idle", account' \in SUBSET Products, favorites' \in SUBSET Products,
         UNCHANGED <<session, loggedIn, mode, initPromise, storage, toggle>>
  PROVE  PromiseInv'
<1>1. load' \in [Loads -> LoadRows]
  BY LoadWritten DEF PromiseInv, FavoritesTypeOK, LoadRows
<1>2. \A m \in Loads : load[m].step # "idle" => load'[m].step # "idle"
  BY DEF PromiseInv, FavoritesTypeOK
<1> QED
  BY <1>1, <1>2 DEF PromiseInv, FavoritesTypeOK, PromiseIsLive, LoadRows

\* A toggle request goes on or ends.
LEMMA ToggleGoesOn ==
  ASSUME PromiseInv, NEW t \in Toggles, NEW row \in ToggleRows,
         toggle' = [toggle EXCEPT ![t] = row],
         account' \in SUBSET Products, favorites' \in SUBSET Products,
         UNCHANGED <<session, loggedIn, mode, initPromise, storage, load>>
  PROVE  PromiseInv'
<1>1. toggle' \in [Toggles -> ToggleRows]
  BY DEF PromiseInv, FavoritesTypeOK, ToggleRows
<1> QED
  BY <1>1 DEF PromiseInv, FavoritesTypeOK, PromiseIsLive, ToggleRows

\* The step of a toggle request is one of its fields.
LEMMA ToggleStepWritten ==
  ASSUME FavoritesTypeOK, NEW t \in Toggles, NEW s \in ToggleSteps
  PROVE  /\ [toggle EXCEPT ![t].step = s] = [toggle EXCEPT ![t] = [toggle[t] EXCEPT !.step = s]]
         /\ [toggle[t] EXCEPT !.step = s] \in ToggleRows
  BY DEF FavoritesTypeOK, ToggleRows

\* So are the answer and the ids of a run.
LEMMA LoadAnswerWritten ==
  ASSUME FavoritesTypeOK, NEW l \in Loads, NEW a \in {"none", "list", "failed"},
         NEW ids \in SUBSET Products
  PROVE  /\ [load EXCEPT ![l].answer = a]
              = [load EXCEPT ![l] = [load[l] EXCEPT !.answer = a]]
         /\ [load EXCEPT ![l].answer = a, ![l].ids = ids]
              = [load EXCEPT ![l] = [load[l] EXCEPT !.answer = a, !.ids = ids]]
         /\ [load[l] EXCEPT !.answer = a] \in LoadRows
         /\ [load[l] EXCEPT !.answer = a, !.ids = ids] \in LoadRows
         /\ [load[l] EXCEPT !.answer = a].step = load[l].step
         /\ [load[l] EXCEPT !.answer = a, !.ids = ids].step = load[l].step
  BY DEF FavoritesTypeOK, LoadRows

\* Every step of the server and the network.
LEMMA RequestsKeepPromise ==
  ASSUME PromiseInv, Requests
  PROVE  PromiseInv'
<1> USE DEF PromiseInv
<1>k. /\ account \in SUBSET Products /\ favorites \in SUBSET Products /\ session \in BOOLEAN
      /\ \A l \in Loads : load[l].ids \in SUBSET Products
      /\ \A t \in Toggles : toggle[t].product \in Products
  BY DEF FavoritesTypeOK
<1>1. ASSUME NEW l \in Loads, index(l)
      PROVE  PromiseInv'
  <2> DEFINE ids == IF session THEN account ELSE {}
  <2>1. ids \in SUBSET Products
    BY <1>k
  <2>2. load' = [load EXCEPT ![l] = [load[l] EXCEPT !.answer = "list", !.ids = ids]]
    BY <1>1, <2>1, LoadAnswerWritten DEF index
  <2> DEFINE row == [load[l] EXCEPT !.answer = "list", !.ids = ids]
  <2>3. row \in LoadRows /\ row.step # "idle"
    BY <1>1, <2>1, LoadAnswerWritten DEF index
  <2>4. /\ account' \in SUBSET Products /\ favorites' \in SUBSET Products
        /\ UNCHANGED <<session, loggedIn, mode, initPromise, storage, toggle>>
    BY <1>1, <1>k DEF index
  <2>5. load' = [load EXCEPT ![l] = row]
    BY <2>2
  <2> HIDE DEF row
  <2> QED
    BY <2>3, <2>4, <2>5, LoadGoesOn
<1>2. ASSUME NEW l \in Loads, merge(l)
      PROVE  PromiseInv'
  <2>1. CASE session
    <3>1. account' \in SUBSET Products
      BY <1>2, <1>k, <2>1 DEF merge
    <3>2. load' = [load EXCEPT ![l] = [load[l] EXCEPT !.answer = "list", !.ids = account']]
      BY <1>2, <2>1, <3>1, LoadAnswerWritten DEF merge
    <3> DEFINE row == [load[l] EXCEPT !.answer = "list", !.ids = account']
    <3>3. row \in LoadRows /\ row.step # "idle"
      BY <1>2, <3>1, LoadAnswerWritten DEF merge
    <3>4. /\ favorites' \in SUBSET Products
          /\ UNCHANGED <<session, loggedIn, mode, initPromise, storage, toggle>>
      BY <1>2, <1>k DEF merge
    <3>5. load' = [load EXCEPT ![l] = row]
      BY <3>2
    <3> HIDE DEF row
    <3> QED
      BY <3>1, <3>3, <3>4, <3>5, LoadGoesOn
  <2>2. CASE ~session
    BY <1>2, <1>k, <2>2, LoadAnswerWritten, LoadGoesOn DEF merge
  <2> QED
    BY <2>1, <2>2
<1>3. ASSUME NEW l \in Loads, LoseLoad(l)
      PROVE  PromiseInv'
  BY <1>3, <1>k, LoadAnswerWritten, LoadGoesOn DEF LoseLoad
<1>4. ASSUME NEW t \in Toggles, NEW s \in ToggleSteps, toggle' = [toggle EXCEPT ![t].step = s],
             account' \in SUBSET Products,
             UNCHANGED <<session, loggedIn, mode, favorites, initPromise, storage, load>>
      PROVE  PromiseInv'
  BY <1>4, <1>k, ToggleStepWritten, ToggleGoesOn
<1>5. ASSUME NEW t \in Toggles, findFavorite(t)
      PROVE  PromiseInv'
  <2> DEFINE s == IF ~session THEN "failed"
                  ELSE IF toggle[t].product \in account THEN "found" ELSE "missing"
  <2>1. s \in ToggleSteps /\ toggle' = [toggle EXCEPT ![t].step = s]
    BY <1>5 DEF findFavorite, ToggleSteps
  <2> QED
    BY <1>4, <1>5, <1>k, <2>1 DEF findFavorite
<1>6. ASSUME NEW t \in Toggles, deleteFavorite(t)
      PROVE  PromiseInv'
  BY <1>4, <1>6, <1>k DEF deleteFavorite, ToggleSteps
<1>7. ASSUME NEW t \in Toggles, createFavorite(t)
      PROVE  PromiseInv'
  <2> DEFINE s == IF toggle[t].product \in account THEN "failed" ELSE "on"
  <2>1. s \in ToggleSteps /\ toggle' = [toggle EXCEPT ![t].step = s]
    BY <1>7 DEF createFavorite, ToggleSteps
  <2> QED
    BY <1>4, <1>7, <1>k, <2>1 DEF createFavorite
<1>8. ASSUME NEW t \in Toggles, LoseToggle(t)
      PROVE  PromiseInv'
  BY <1>4, <1>8, <1>k DEF LoseToggle, ToggleSteps
<1> QED
  BY <1>1, <1>2, <1>3, <1>5, <1>6, <1>7, <1>8 DEF Requests

\* Every answer that the store handles.
LEMMA HandledKeepsPromise ==
  ASSUME PromiseInv, Handled
  PROVE  PromiseInv'
<1> USE DEF PromiseInv
<1>k. /\ storage \in SUBSET Products /\ favorites \in SUBSET Products /\ account \in SUBSET Products
      /\ \A l \in Loads : load[l].ids \in SUBSET Products
      /\ \A t \in Toggles : toggle[t].product \in Products
  BY DEF FavoritesTypeOK
<1>1. ASSUME NEW l \in Loads, LoadAnswered(l)
      PROVE  PromiseInv'
  <2>1. CASE storage = {}
    BY <1>1, <1>k, <2>1, ReturnKeepsPromise DEF LoadAnswered
  <2>2. CASE storage # {}
    <3>1. [step |-> "merge", answer |-> "none", ids |-> storage] \in LoadRows
      BY <1>k DEF LoadRows, LoadSteps
    <3> QED
      BY <1>1, <1>k, <2>2, <3>1, LoadGoesOn DEF LoadAnswered
  <2> QED
    BY <2>1, <2>2
<1>2. ASSUME NEW l \in Loads, LoadFailed(l)
      PROVE  PromiseInv'
  BY <1>2, <1>k, ReturnKeepsPromise DEF LoadFailed
<1>3. ASSUME NEW l \in Loads, MergeAnswered(l)
      PROVE  PromiseInv'
  BY <1>3, <1>k, ReturnKeepsPromise DEF MergeAnswered
<1>4. ASSUME NEW t \in Toggles, ToggleAnswered(t)
      PROVE  PromiseInv'
  <2>1. IdleToggle(toggle[t].product) \in ToggleRows
    BY <1>k DEF IdleToggle, ToggleRows, ToggleSteps
  <2>2. favorites' \in SUBSET Products
    BY <1>4, <1>k DEF ToggleAnswered
  <2> QED
    BY <1>4, <1>k, <2>1, <2>2, ToggleGoesOn DEF ToggleAnswered
<1> QED
  BY <1>1, <1>2, <1>3, <1>4 DEF Handled

\* Every step of the customer and the pages.
LEMMA NextKeepsPromise ==
  ASSUME PromiseInv, Next
  PROVE  PromiseInv'
<1> USE DEF PromiseInv
<1>k. /\ storage \in SUBSET Products /\ favorites \in SUBSET Products /\ account \in SUBSET Products
      /\ session \in BOOLEAN /\ mode \in {"guest", "user"}
  BY DEF FavoritesTypeOK
<1>1. CASE Mount
  BY <1>1, <1>k, InitKeepsPromise DEF Mount
<1>2. CASE PropsChange
  BY <1>2, <1>k, InitKeepsPromise DEF PropsChange
<1>3. CASE SessionChange
  BY <1>3, <1>k DEF SessionChange, FavoritesTypeOK, PromiseIsLive
<1>4. ASSUME NEW p \in Products, toggleLocal(p)
      PROVE  PromiseInv'
  BY <1>4, <1>k DEF toggleLocal, FavoritesTypeOK, PromiseIsLive
<1>5. ASSUME NEW p \in Products, NEW t \in Toggles, toggleServer(t, p)
      PROVE  PromiseInv'
  <2>1. [step |-> "sent", product |-> p, was |-> p \in favorites] \in ToggleRows
    BY DEF ToggleRows, ToggleSteps
  <2>2. favorites' \in SUBSET Products
    BY <1>5, <1>k DEF toggleServer
  <2> QED
    BY <1>5, <1>k, <2>1, <2>2, ToggleGoesOn DEF toggleServer
<1> QED
  BY <1>1, <1>2, <1>3, <1>4, <1>5, RequestsKeepPromise, HandledKeepsPromise DEF Next, Clicks

\* PromiseInv is inductive.
LEMMA PromiseInvHolds == Spec => []PromiseInv
<1>1. Init => PromiseInv
  <2> SUFFICES ASSUME Init PROVE PromiseInv
    OBVIOUS
  <2>1. IdleLoad \in LoadRows /\ \A p \in Products : IdleToggle(p) \in ToggleRows
    BY DEF IdleLoad, IdleToggle, LoadRows, ToggleRows, LoadSteps, ToggleSteps
  <2>2. load \in [Loads -> LoadRows] /\ toggle \in [Toggles -> ToggleRows]
    BY <2>1 DEF Init
  <2> QED
    BY <2>2 DEF Init, PromiseInv, FavoritesTypeOK, PromiseIsLive, LoadRows, ToggleRows
<1>2. PromiseInv /\ [Next]_favoriteVars => PromiseInv'
  <2>1. ASSUME PromiseInv, UNCHANGED favoriteVars
        PROVE  PromiseInv'
    BY <2>1 DEF favoriteVars, PromiseInv, FavoritesTypeOK, PromiseIsLive
  <2> QED
    BY <2>1, NextKeepsPromise
<1> QED
  BY <1>1, <1>2, PTL DEF Spec

\* Every field of the store, the server and the requests is of its kind.
THEOREM FavoritesTypeOKHolds == Spec => []FavoritesTypeOK
<1>1. PromiseInv => FavoritesTypeOK
  BY DEF PromiseInv
<1> QED
  BY <1>1, PromiseInvHolds, PTL

\* init never waits for a run that is over, however many runs are in flight and
\* in whatever order they return or are lost.
THEOREM PromiseIsLiveHolds == Spec => []PromiseIsLive
<1>1. PromiseInv => PromiseIsLive
  BY DEF PromiseInv
<1> QED
  BY <1>1, PromiseInvHolds, PTL

-----------------------------------------------------------------------------
(* The favourites shown are the account's.                                 *)

Busy(r) == r.step # "idle"

\* A list that came is the account's; one that was awaited calmly did not fail;
\* while the guest's copy is on its way the list before it is shown.
LoadStory(l) ==
  Busy(load[l]) =>
  /\ load[l].answer = "list" => load[l].ids = account
  /\ load[l].step = "load" => load[l].answer # "failed"
  /\ load[l].step = "merge" /\ load[l].answer # "list" => favorites = account

\* What is shown differs from the account by the product clicked at most, and
\* the step tells what the account holds of that one.
ToggleStory(t) ==
  LET p == toggle[t].product
      s == toggle[t].step
  IN Busy(toggle[t]) =>
     /\ favorites \ {p} = account \ {p}
     /\ s \in {"found", "on"} => p \in account
     /\ s \in {"missing", "off"} => p \notin account
     /\ s \in {"sent", "failed"} => (toggle[t].was <=> p \in account)

\* At most one request is in flight.
OneRequest ==
  /\ \A l, m \in Loads : Busy(load[l]) /\ Busy(load[m]) => l = m
  /\ \A t, u \in Toggles : Busy(toggle[t]) /\ Busy(toggle[u]) => t = u
  /\ \A l \in Loads, t \in Toggles : ~(Busy(load[l]) /\ Busy(toggle[t]))

Calm ==
  /\ session /\ loggedIn /\ mode = "user"
  /\ OneRequest
  /\ \A l \in Loads : LoadStory(l)
  /\ \A t \in Toggles : ToggleStory(t)
  /\ Quiet => favorites = account

CalmInv == ~disturbed => Calm

\* The one request in flight is a run of doInit: calm after a step of its own
\* depends on its row only.
LEMMA LoadAlone ==
  ASSUME PromiseInv, NEW l \in Loads, NEW row \in LoadRows,
         load' = [load EXCEPT ![l] = row], UNCHANGED toggle,
         \A m \in Loads \ {l} : ~Busy(load[m]), \A t \in Toggles : ~Busy(toggle[t]),
         session', loggedIn', mode' = "user",
         Busy(row) => /\ row.answer = "list" => row.ids = account'
                      /\ row.step = "load" => row.answer # "failed"
                      /\ row.step = "merge" /\ row.answer # "list" => favorites' = account',
         ~Busy(row) => favorites' = account'
  PROVE  Calm'
<1>1. /\ load'[l] = row
      /\ \A m \in Loads \ {l} : ~Busy(load'[m])
      /\ \A t \in Toggles : ~Busy(toggle'[t])
  BY LoadWritten DEF PromiseInv, FavoritesTypeOK, LoadRows
<1>2. OneRequest'
  BY <1>1 DEF OneRequest
<1>3. \A m \in Loads : LoadStory(m)'
  BY <1>1 DEF LoadStory
<1>4. \A t \in Toggles : ToggleStory(t)'
  BY <1>1 DEF ToggleStory
<1>5. (Quiet => favorites = account)'
  BY <1>1 DEF Quiet, Busy
<1> QED
  BY <1>2, <1>3, <1>4, <1>5 DEF Calm

\* So it is for a toggle request.
LEMMA ToggleAlone ==
  ASSUME PromiseInv, NEW t \in Toggles, NEW row \in ToggleRows,
         toggle' = [toggle EXCEPT ![t] = row], UNCHANGED load,
         \A u \in Toggles \ {t} : ~Busy(toggle[u]), \A l \in Loads : ~Busy(load[l]),
         session', loggedIn', mode' = "user",
         Busy(row) => /\ favorites' \ {row.product} = account' \ {row.product}
                      /\ row.step \in {"found", "on"} => row.product \in account'
                      /\ row.step \in {"missing", "off"} => row.product \notin account'
                      /\ row.step \in {"sent", "failed"} => (row.was <=> row.product \in account'),
         ~Busy(row) => favorites' = account'
  PROVE  Calm'
<1>1. /\ toggle'[t] = row
      /\ \A u \in Toggles \ {t} : ~Busy(toggle'[u])
      /\ \A l \in Loads : ~Busy(load'[l])
  BY DEF PromiseInv, FavoritesTypeOK
<1>2. OneRequest'
  BY <1>1 DEF OneRequest
<1>3. \A l \in Loads : LoadStory(l)'
  BY <1>1 DEF LoadStory
<1>4. \A u \in Toggles : ToggleStory(u)'
  BY <1>1 DEF ToggleStory
<1>5. (Quiet => favorites = account)'
  BY <1>1 DEF Quiet, Busy
<1> QED
  BY <1>2, <1>3, <1>4, <1>5 DEF Calm

\* A load that starts with nothing else in flight, for the session's own
\* customer, makes what follows calm.
LEMMA LoadStartsCalm ==
  ASSUME PromiseInv, Next, Quiet, LoadStarts, session = loggedIn'
  PROVE  Calm'
<1>1. /\ session \in BOOLEAN
      /\ \A l \in Loads : ~Busy(load[l])
      /\ \A t \in Toggles : ~Busy(toggle[t])
  BY DEF PromiseInv, FavoritesTypeOK, Quiet, Busy
<1>2. PICK m \in Loads : load[m].step = "idle" /\ load'[m].step = "load"
  BY DEF LoadStarts
<1>3. ~UNCHANGED load
  BY <1>2
<1>4. ~Requests /\ ~Handled
  BY <1>1, <1>3 DEF Requests, Handled, Busy, index, merge, LoseLoad, findFavorite,
     deleteFavorite, createFavorite, LoseToggle, LoadAnswered, LoadFailed, MergeAnswered,
     ToggleAnswered
<1>5. ~SessionChange /\ ~Clicks
  BY <1>3 DEF SessionChange, Clicks, toggleLocal, toggleServer
<1>6. ASSUME NEW promise, NEW mo, NEW shown, NEW target \in BOOLEAN,
             init(target, promise, mo, shown), loggedIn' = session, UNCHANGED <<session, toggle>>,
             target = session
      PROVE  Calm'
  <2>1. /\ target /\ mode' = "user"
        /\ \E l \in Loads : load' = [load EXCEPT ![l] = [IdleLoad EXCEPT !.step = "load"]]
    BY <1>3, <1>6 DEF init
  <2>2. PICK l \in Loads : load' = [load EXCEPT ![l] = [IdleLoad EXCEPT !.step = "load"]]
    BY <2>1
  <2> DEFINE row == [IdleLoad EXCEPT !.step = "load"]
  <2>3. row \in LoadRows /\ row.step = "load" /\ row.answer = "none"
    BY LoadStarted
  <2>4. load' = [load EXCEPT ![l] = row]
    BY <2>2
  <2>5. UNCHANGED toggle /\ session' /\ loggedIn' /\ mode' = "user"
    BY <1>6, <2>1
  <2>6. Busy(row)
    BY <2>3 DEF Busy
  <2> HIDE DEF row
  <2> QED
    BY <1>1, <2>3, <2>4, <2>5, <2>6, LoadAlone
<1>7. CASE Mount
  BY <1>1, <1>6, <1>7 DEF Mount
<1>8. CASE PropsChange
  <2>1. CASE loggedIn
    BY <1>1, <1>3, <1>8, <2>1 DEF PropsChange, init
  <2>2. CASE ~loggedIn
    <3>1. loggedIn \in BOOLEAN
      BY DEF PromiseInv, FavoritesTypeOK
    <3> QED
      BY <1>1, <1>6, <1>8, <2>2, <3>1 DEF PropsChange
  <2> QED
    BY <2>1, <2>2
<1> QED
  BY <1>4, <1>5, <1>7, <1>8 DEF Next

\* A step that starts no load, loses no answer that was needed, leaves the
\* session and sends a toggle only when nothing is in flight keeps the calm.
CalmStep ==
  /\ ~LoadStarts /\ ~AnswerLost
  /\ UNCHANGED session
  /\ ToggleStarts => Quiet

\* While the calm lasts nothing changes that it depends on but by a request.
LEMMA StillCalm ==
  ASSUME Calm, UNCHANGED <<session, loggedIn, mode, favorites, account, load, toggle>>
  PROVE  Calm'
  BY DEF Calm, OneRequest, LoadStory, ToggleStory, Quiet, Busy

\* The one request in flight is alone.
LEMMA AloneInFlight ==
  ASSUME Calm
  PROVE  /\ \A l \in Loads : Busy(load[l]) =>
              /\ \A m \in Loads \ {l} : ~Busy(load[m])
              /\ \A t \in Toggles : ~Busy(toggle[t])
         /\ \A t \in Toggles : Busy(toggle[t]) =>
              /\ \A u \in Toggles \ {t} : ~Busy(toggle[u])
              /\ \A l \in Loads : ~Busy(load[l])
  BY DEF Calm, OneRequest

\* The pages and the customer.
LEMMA ClicksKeepCalm ==
  ASSUME PromiseInv, Calm, CalmStep, Mount \/ PropsChange \/ SessionChange \/ Clicks
  PROVE  Calm'
<1>k. /\ session = TRUE /\ loggedIn = TRUE /\ mode = "user"
      /\ load \in [Loads -> LoadRows] /\ favorites \in SUBSET Products
  BY DEF PromiseInv, FavoritesTypeOK, Calm, LoadRows
<1>1. CASE Mount
  <2>1. ASSUME NEW l \in Loads, load[l].step = "idle",
               load' = [load EXCEPT ![l] = [IdleLoad EXCEPT !.step = "load"]]
        PROVE  FALSE
    <3>1. load'[l].step = "load"
      BY <1>k, <2>1, LoadStarted
    <3> QED
      BY <2>1, <3>1 DEF CalmStep, LoadStarts
  <2>2. UNCHANGED <<mode, favorites, load>>
    BY <1>1, <1>k, <2>1 DEF Mount, init
  <2> QED
    BY <1>1, <1>k, <2>2, StillCalm DEF Mount
<1>2. CASE PropsChange
  BY <1>2, <1>k DEF PropsChange
<1>3. CASE SessionChange
  BY <1>3, <1>k DEF SessionChange, CalmStep
<1>4. ASSUME NEW p \in Products, toggleLocal(p)
      PROVE  Calm'
  BY <1>4, <1>k DEF toggleLocal
<1>5. ASSUME NEW t \in Toggles, NEW p \in Products, toggleServer(t, p)
      PROVE  Calm'
  <2> DEFINE row == [step |-> "sent", product |-> p, was |-> p \in favorites]
  <2>1. row \in ToggleRows /\ row.step = "sent" /\ row.product = p /\ row.was = (p \in favorites)
    BY DEF ToggleRows, ToggleSteps
  <2>2. toggle' = [toggle EXCEPT ![t] = row]
    BY <1>5 DEF toggleServer
  <2> HIDE DEF row
  <2>3. toggle'[t] = row
    BY <2>1, <2>2 DEF PromiseInv, FavoritesTypeOK
  <2>4. ToggleStarts
    BY <1>5, <2>1, <2>3 DEF toggleServer, ToggleStarts
  <2>5. /\ \A u \in Toggles \ {t} : ~Busy(toggle[u])
        /\ \A l \in Loads : ~Busy(load[l])
        /\ favorites = account
    BY <2>4 DEF CalmStep, Quiet, Calm, Busy
  <2>6. /\ UNCHANGED <<load, account>> /\ session' /\ loggedIn' /\ mode' = "user"
        /\ favorites' \ {p} = favorites \ {p}
    BY <1>5, <1>k DEF toggleServer
  <2>7. /\ Busy(row)
        /\ favorites' \ {row.product} = account' \ {row.product}
        /\ row.was <=> row.product \in account'
    BY <2>1, <2>5, <2>6 DEF Busy
  <2> QED
    BY <2>1, <2>2, <2>5, <2>6, <2>7, ToggleAlone
<1> QED
  BY <1>1, <1>2, <1>3, <1>4, <1>5 DEF Clicks

\* The server and the network, for a run of doInit.
LEMMA LoadRequestsKeepCalm ==
  ASSUME PromiseInv, Calm, CalmStep, NEW l \in Loads, index(l) \/ merge(l) \/ LoseLoad(l)
  PROVE  Calm'
<1>k. /\ session = TRUE /\ loggedIn = TRUE /\ mode = "user"
      /\ load \in [Loads -> LoadRows] /\ account \in SUBSET Products
      /\ load[l].ids \in SUBSET Products
  BY DEF PromiseInv, FavoritesTypeOK, Calm, LoadRows
<1>a. /\ Busy(load[l])
      /\ UNCHANGED <<session, loggedIn, mode, favorites, toggle>>
  BY DEF index, merge, LoseLoad, Busy
<1>b. /\ \A m \in Loads \ {l} : ~Busy(load[m])
      /\ \A t \in Toggles : ~Busy(toggle[t])
      /\ session' /\ loggedIn' /\ mode' = "user"
  BY <1>a, <1>k, AloneInFlight
<1>c. LoadStory(l)
  BY DEF Calm
<1>1. ASSUME NEW ids \in SUBSET Products, ids = account',
             load' = [load EXCEPT ![l].answer = "list", ![l].ids = ids]
      PROVE  Calm'
  <2> DEFINE row == [load[l] EXCEPT !.answer = "list", !.ids = ids]
  <2>1. row \in LoadRows /\ row.answer = "list" /\ row.ids = ids
    BY <1>k, LoadAnswerWritten DEF LoadRows, PromiseInv
  <2>2. load' = [load EXCEPT ![l] = row]
    BY <1>1, LoadAnswerWritten DEF PromiseInv
  <2>3. row.step = load[l].step
    BY LoadAnswerWritten DEF PromiseInv
  <2>4. Busy(row) /\ UNCHANGED toggle
    BY <1>a, <2>3 DEF Busy
  <2> HIDE DEF row
  <2> QED
    BY <1>1, <1>b, <2>1, <2>2, <2>4, LoadAlone
<1>2. CASE index(l)
  BY <1>1, <1>2, <1>k DEF index
<1>3. CASE merge(l)
  <2>1. /\ account' = account \cup load[l].ids
        /\ load' = [load EXCEPT ![l].answer = "list", ![l].ids = account']
    BY <1>3, <1>k DEF merge
  <2>2. account' \in SUBSET Products
    BY <1>k, <2>1
  <2> QED
    BY <1>1, <2>1, <2>2
<1>4. CASE LoseLoad(l)
  <2> DEFINE row == [load[l] EXCEPT !.answer = "failed"]
  <2>1. row \in LoadRows /\ row.answer = "failed" /\ row.step = load[l].step
    BY <1>k, LoadAnswerWritten DEF LoadRows, PromiseInv
  <2>2. load' = [load EXCEPT ![l] = row]
    BY <1>4, LoadAnswerWritten DEF PromiseInv, LoseLoad
  <2>3. UNCHANGED <<toggle, account, favorites>>
    BY <1>4 DEF LoseLoad
  <2> HIDE DEF row
  <2>4. load'[l] = row
    BY <1>k, <2>1, <2>2
  <2>5. load[l].step # "load" /\ load[l].answer # "list"
    BY <1>4, <2>1, <2>4 DEF LoseLoad, CalmStep, AnswerLost
  <2>6. Busy(row)
    BY <1>a, <2>1 DEF Busy
  <2>7. load[l].step = "merge" /\ favorites = account
    BY <1>a, <1>c, <1>k, <2>5 DEF LoadStory, Busy, LoadRows, LoadSteps
  <2> QED
    BY <1>b, <2>1, <2>2, <2>3, <2>5, <2>6, <2>7, LoadAlone
<1> QED
  BY <1>2, <1>3, <1>4

\* The server and the network, for a toggle request.
LEMMA ToggleRequestsKeepCalm ==
  ASSUME PromiseInv, Calm, CalmStep, NEW t \in Toggles,
         findFavorite(t) \/ deleteFavorite(t) \/ createFavorite(t) \/ LoseToggle(t)
  PROVE  Calm'
<1> DEFINE p == toggle[t].product
<1>k. /\ session = TRUE /\ loggedIn = TRUE /\ mode = "user"
      /\ toggle \in [Toggles -> ToggleRows] /\ account \in SUBSET Products
  BY DEF PromiseInv, FavoritesTypeOK, Calm, ToggleRows
<1>a. /\ Busy(toggle[t])
      /\ UNCHANGED <<session, loggedIn, mode, favorites, load>>
  BY DEF findFavorite, deleteFavorite, createFavorite, LoseToggle, Busy
<1>b. /\ \A u \in Toggles \ {t} : ~Busy(toggle[u])
      /\ \A l \in Loads : ~Busy(load[l])
      /\ session' /\ loggedIn' /\ mode' = "user"
  BY <1>a, <1>k, AloneInFlight
<1>c. /\ favorites \ {p} = account \ {p}
      /\ toggle[t].step \in {"found", "on"} => p \in account
      /\ toggle[t].step \in {"missing", "off"} => p \notin account
      /\ toggle[t].step \in {"sent", "failed"} => (toggle[t].was <=> p \in account)
  BY <1>a DEF Calm, ToggleStory
<1>1. ASSUME NEW s \in ToggleSteps, toggle' = [toggle EXCEPT ![t].step = s], s # "idle",
             account' \ {p} = account \ {p},
             s \in {"found", "on"} => p \in account',
             s \in {"missing", "off"} => p \notin account',
             s \in {"sent", "failed"} => (toggle[t].was <=> p \in account')
      PROVE  Calm'
  <2> DEFINE row == [toggle[t] EXCEPT !.step = s]
  <2>1. row \in ToggleRows /\ row.step = s /\ row.product = p /\ row.was = toggle[t].was
    BY <1>k, ToggleStepWritten DEF ToggleRows
  <2>2. toggle' = [toggle EXCEPT ![t] = row]
    BY <1>1, ToggleStepWritten DEF PromiseInv
  <2>3. Busy(row) /\ UNCHANGED load /\ favorites' = favorites
    BY <1>1, <1>a, <2>1 DEF Busy
  <2> HIDE DEF row, p
  <2> QED
    BY <1>1, <1>b, <1>c, <2>1, <2>2, <2>3, ToggleAlone
<1>2. CASE findFavorite(t)
  <2>1. UNCHANGED account
    BY <1>2 DEF findFavorite
  <2>2. CASE p \in account
    BY <1>1, <1>2, <1>k, <2>1, <2>2 DEF findFavorite, ToggleSteps
  <2>3. CASE p \notin account
    BY <1>1, <1>2, <1>k, <2>1, <2>3 DEF findFavorite, ToggleSteps
  <2> QED
    BY <2>2, <2>3
<1>3. CASE deleteFavorite(t)
  <2>1. account' = account \ {p} /\ toggle' = [toggle EXCEPT ![t].step = "off"]
    BY <1>3 DEF deleteFavorite
  <2> HIDE DEF p
  <2> QED
    BY <1>1, <2>1 DEF ToggleSteps
<1>4. CASE createFavorite(t)
  <2>1. /\ account' = account \cup {p} /\ toggle[t].step = "missing"
        /\ toggle' = [toggle EXCEPT ![t].step = IF p \in account THEN "failed" ELSE "on"]
    BY <1>4 DEF createFavorite
  <2>2. p \notin account /\ toggle' = [toggle EXCEPT ![t].step = "on"]
    BY <1>c, <2>1
  <2> HIDE DEF p
  <2> QED
    BY <1>1, <2>1, <2>2 DEF ToggleSteps
<1>5. CASE LoseToggle(t)
  <2>1. toggle' = [toggle EXCEPT ![t].step = "failed"] /\ UNCHANGED account
    BY <1>5 DEF LoseToggle
  <2>2. toggle'[t].step = "failed"
    BY <1>k, <2>1 DEF ToggleRows
  <2>3. toggle[t].step = "sent"
    BY <1>5, <2>2 DEF LoseToggle, CalmStep, AnswerLost
  <2> QED
    BY <1>1, <1>c, <2>1, <2>3 DEF ToggleSteps
<1> QED
  BY <1>2, <1>3, <1>4, <1>5

\* The answers, in the store.
LEMMA HandledKeepsCalm ==
  ASSUME PromiseInv, Calm, Handled
  PROVE  Calm'
<1>k. /\ session = TRUE /\ loggedIn = TRUE /\ mode = "user"
      /\ load \in [Loads -> LoadRows] /\ toggle \in [Toggles -> ToggleRows]
      /\ storage \in SUBSET Products
  BY DEF PromiseInv, FavoritesTypeOK, Calm, LoadRows, ToggleRows
<1>i. IdleLoad \in LoadRows /\ ~Busy(IdleLoad)
  BY DEF IdleLoad, LoadRows, LoadSteps, Busy
<1>1. ASSUME NEW l \in Loads, Busy(load[l]), Return(l), favorites' = account',
             UNCHANGED <<session, loggedIn, mode, toggle>>
      PROVE  Calm'
  <2>1. load' = [load EXCEPT ![l] = IdleLoad] /\ session' /\ loggedIn' /\ mode' = "user"
    BY <1>1, <1>k DEF Return
  <2>2. /\ \A m \in Loads \ {l} : ~Busy(load[m])
        /\ \A t \in Toggles : ~Busy(toggle[t])
    BY <1>1, AloneInFlight
  <2> QED
    BY <1>1, <1>i, <2>1, <2>2, LoadAlone
<1>2. ASSUME NEW l \in Loads, LoadAnswered(l)
      PROVE  Calm'
  <2>1. /\ Busy(load[l]) /\ load[l].ids = account /\ favorites' = account'
        /\ UNCHANGED <<session, loggedIn, mode, toggle>>
    BY <1>2 DEF LoadAnswered, Busy, Calm, LoadStory
  <2>2. CASE storage = {}
    BY <1>1, <1>2, <2>1, <2>2 DEF LoadAnswered
  <2>3. CASE storage # {}
    <3> DEFINE row == [step |-> "merge", answer |-> "none", ids |-> storage]
    <3>1. row \in LoadRows /\ row.answer = "none"
      BY <1>k DEF LoadRows, LoadSteps
    <3>2. load' = [load EXCEPT ![l] = row]
      BY <1>2, <2>3 DEF LoadAnswered
    <3>3. Busy(row)
      BY DEF Busy
    <3> HIDE DEF row
    <3>4. /\ \A m \in Loads \ {l} : ~Busy(load[m])
          /\ \A t \in Toggles : ~Busy(toggle[t])
          /\ session' /\ loggedIn' /\ mode' = "user"
      BY <1>k, <2>1, AloneInFlight
    <3> QED
      BY <2>1, <3>1, <3>2, <3>3, <3>4, LoadAlone
  <2> QED
    BY <2>2, <2>3
<1>3. ASSUME NEW l \in Loads, LoadFailed(l)
      PROVE  Calm'
  BY <1>3 DEF LoadFailed, Calm, LoadStory, Busy
<1>4. ASSUME NEW l \in Loads, MergeAnswered(l)
      PROVE  Calm'
  <2>1. /\ Busy(load[l]) /\ favorites' = account'
        /\ UNCHANGED <<session, loggedIn, mode, toggle>>
    BY <1>4 DEF MergeAnswered, Busy, Calm, LoadStory
  <2> QED
    BY <1>1, <1>4, <2>1 DEF MergeAnswered
<1>5. ASSUME NEW t \in Toggles, ToggleAnswered(t)
      PROVE  Calm'
  <2> DEFINE p == toggle[t].product
  <2>1. p \in Products /\ IdleToggle(p) \in ToggleRows /\ ~Busy(IdleToggle(p))
    BY <1>k DEF IdleToggle, ToggleRows, ToggleSteps, Busy
  <2>2. /\ Busy(toggle[t])
        /\ toggle' = [toggle EXCEPT ![t] = IdleToggle(p)]
        /\ UNCHANGED <<session, loggedIn, mode, account, load>>
    BY <1>5 DEF ToggleAnswered, Busy
  <2>3. /\ \A u \in Toggles \ {t} : ~Busy(toggle[u])
        /\ \A l \in Loads : ~Busy(load[l])
        /\ session' /\ loggedIn' /\ mode' = "user"
    BY <1>k, <2>2, AloneInFlight
  <2>4. /\ favorites \ {p} = account \ {p}
        /\ toggle[t].step = "on" => p \in account
        /\ toggle[t].step = "off" => p \notin account
        /\ toggle[t].step = "failed" => (toggle[t].was <=> p \in account)
    BY <2>2 DEF Calm, ToggleStory
  <2> DEFINE on == toggle[t].step = "on" \/ (toggle[t].step = "failed" /\ toggle[t].was)
  <2>5. /\ favorites' = IF on THEN favorites \cup {p} ELSE favorites \ {p}
        /\ toggle[t].step \in {"on", "off", "failed"}
    BY <1>5 DEF ToggleAnswered
  <2>6. on <=> p \in account
    BY <2>4, <2>5
  <2> HIDE DEF p, on
  <2>7. favorites' = account'
    BY <2>2, <2>4, <2>5, <2>6
  <2> QED
    BY <2>1, <2>2, <2>3, <2>7, ToggleAlone
<1> QED
  BY <1>2, <1>3, <1>4, <1>5 DEF Handled

\* CalmInv is inductive, given the kinds of PromiseInv.
LEMMA NextKeepsCalm ==
  ASSUME PromiseInv, CalmInv, MCNext
  PROVE  CalmInv'
<1> SUFFICES ASSUME ~disturbed'
             PROVE  Calm'
  BY DEF CalmInv
<1>1. Next /\ ~Disturbs
  BY DEF MCNext
<1>2. CASE Quiet /\ LoadStarts
  BY <1>1, <1>2, LoadStartsCalm DEF Disturbs
<1>3. CASE ~(Quiet /\ LoadStarts)
  <2>1. Calm /\ CalmStep
    BY <1>1, <1>3 DEF Disturbs, CalmInv, CalmStep
  <2> QED
    BY <1>1, <2>1, ClicksKeepCalm, LoadRequestsKeepCalm, ToggleRequestsKeepCalm,
       HandledKeepsCalm DEF Next, Requests
<1> QED
  BY <1>2, <1>3

\* The history variable only watches.
LEMMA HistoryWatches == MCSpec => Spec
<1>1. MCInit => Init
  BY DEF MCInit
<1>2. [MCNext]_<<favoriteVars, disturbed>> => [Next]_favoriteVars
  BY DEF MCNext
<1> QED
  BY <1>1, <1>2, PTL DEF MCSpec, Spec

\* A signed-in customer whose list was loaded with nothing else in flight, who
\* waits for each click to be answered and loses no answer, is shown exactly
\* the products the account holds once nothing is in flight.
THEOREM CalmViewIsAccountHolds == MCSpec => []CalmViewIsAccount
<1>1. MCInit => CalmInv
  BY DEF MCInit, CalmInv
<1>2. PromiseInv /\ CalmInv /\ [MCNext]_<<favoriteVars, disturbed>> => CalmInv'
  <2>1. ASSUME CalmInv, UNCHANGED <<favoriteVars, disturbed>>
        PROVE  CalmInv'
    BY <2>1, StillCalm DEF CalmInv, favoriteVars
  <2> QED
    BY <2>1, NextKeepsCalm
<1>3. CalmInv => CalmViewIsAccount
  BY DEF CalmInv, Calm, CalmViewIsAccount
<1> QED
  BY <1>1, <1>2, <1>3, HistoryWatches, PromiseInvHolds, PTL DEF MCSpec
=============================================================================
