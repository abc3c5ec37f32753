----------------------------- MODULE DayScreen -----------------------------
(***************************************************************************)
(* The cash desk's screen on one device (frontend: cash/use-cash-day.ts,   *)
(* cash/use-auto-refresh.ts, cash/CashDayScreen.tsx,                       *)
(* cash/use-order-actions.ts, pages/CashierPage.tsx): it loads a day,      *)
(* reloads it by the timer, by the button and after each change made on    *)
(* it, and other devices change the same day meanwhile.                    *)
(*                                                                         *)
(* A load is several requests answered apart and put together: each of its *)
(* lists is of some moment between its start and its end, and two lists    *)
(* may be of different ones. Of the server's data only the moments are     *)
(* kept, one more at each change, with the night that was on.              *)
(***************************************************************************)
EXTENDS DeskState

CONSTANTS
    Lists,          \* the requests of one load: orders, expenses, ...
    PickedDates,    \* dates the user may pick; None is "today"
    MaxMoments,     \* bound: moments of the server's data
    MaxOvertakes    \* bound: reloads begun while one is still out, per date picked

ASSUME ScreenAssumption ==
    /\ PickedDates \subseteq Dates \cup {None}
    /\ None \notin Nat
    /\ MaxMoments \in Nat
    /\ MaxOvertakes \in Nat

VARIABLES
    date,        \* the date picked, or None: the server's tonight
    shown,       \* what the screen shows of each list; None: still loading
    error,       \* whether it shows that a load failed
    loads,       \* loads not answered yet
    paused,      \* the tab is hidden or a dialog is open
    act,         \* the change the user is making on an order
    own,         \* the moment the server took that change; 0: none
    moments,     \* the night that was on at each moment of the server's data
    lastReload,  \* what the last reload showed (only the properties read it)
    overtakes    \* reloads begun while one was still out (only a bound)

screenVars ==
    <<date, shown, error, loads, paused, act, own, moments, lastReload, overtakes>>

Seen == [night : Nat, at : Nat]

Load ==
    [kind : {"first", "reload"}, latest : BOOLEAN, date : PickedDates \cup {None}, began : Nat]

(***************************************************************************)
(* The type of the screen's state and of its loads.                        *)
(***************************************************************************)
ScreenTypeOK ==
    /\ date \in PickedDates \cup {None}
    /\ shown \in [Lists -> Seen] \cup {None}
    /\ error \in BOOLEAN
    /\ \A x \in loads : x \in Load
    /\ paused \in BOOLEAN
    /\ act \in {"none", "sent", "done", "stale"}
    /\ own \in Nat
    /\ moments \in Seq(Nat)
    /\ lastReload \in [Lists -> Seen] \cup {None}
    /\ overtakes \in Nat

Moment == Len(moments)

\* loadCashDay over createCashApi(api, d), begun now
NewLoad(kind, d) ==
    [kind |-> kind, latest |-> kind = "reload", date |-> d, began |-> Moment]

\* what a load for date d shows of a list answered at a moment
SeenAt(d, at) == [night |-> IF d = None THEN moments[at] ELSE d, at |-> at]

ScreenInit ==
    /\ date = None
    /\ shown = None
    /\ error = FALSE
    /\ loads = {[kind |-> "first", latest |-> FALSE, date |-> None, began |-> 1]}
    /\ paused = FALSE
    /\ act = "none"
    /\ own = 0
    /\ moments = <<CurrentNight>>
    /\ lastReload = None
    /\ overtakes = 0

-----------------------------------------------------------------------------
\* the latest reload is still out
ReloadOut == \E x \in loads : x.latest

\* reload: the request counter goes up, so no earlier reload is the latest
Reloads ==
    /\ ReloadOut => overtakes < MaxOvertakes
    /\ overtakes' = IF ReloadOut THEN overtakes + 1 ELSE overtakes
    /\ loads' = {[x EXCEPT !.latest = FALSE] : x \in loads} \cup {NewLoad("reload", date)}

\* Plausible bug, for a mutant: a screen that could not load has no timer.
RefreshesLoaded == date = None /\ ~paused /\ shown # None

\* tonight's screen refreshes by itself, also while the first load is out or failed
RefreshesItself == date = None /\ ~paused

\* useAutoRefresh: the timer
AutoRefresh ==
    /\ RefreshesItself
    /\ Reloads
    /\ UNCHANGED <<date, shown, error, paused, act, own, moments, lastReload>>

\* the header's refresh button
PressRefresh ==
    /\ shown # None
    /\ Reloads
    /\ UNCHANGED <<date, shown, error, paused, act, own, moments, lastReload>>

\* Plausible bug, for a mutant: the request counter is not compared.
AlwaysCounts(x) == TRUE

\* the first load always counts; a reload, when it is the latest
Counts(x) == x.kind = "first" \/ x.latest

\* loadCashDay comes back: only a reload clears the error
Arrives(x) ==
    /\ loads' = loads \ {x}
    /\ \E at \in [Lists -> x.began .. Moment] :
          LET read == [l \in Lists |-> SeenAt(x.date, at[l])] IN
          /\ shown' = IF Counts(x) THEN read ELSE shown
          /\ lastReload' = IF Counts(x) /\ x.kind = "reload" THEN read ELSE lastReload
    /\ error' = IF Counts(x) /\ x.kind = "reload" THEN FALSE ELSE error
    /\ UNCHANGED <<date, paused, act, own, moments, overtakes>>

\* one of its requests fails
Fails(x) ==
    /\ loads' = loads \ {x}
    /\ error' = IF Counts(x) THEN TRUE ELSE error
    /\ UNCHANGED <<date, shown, paused, act, own, moments, lastReload, overtakes>>

\* Plausible bug, for a mutant: without the key the screen stays mounted, and
\* only the first load of the date before is dropped.
KeptLoads == {x \in loads : x.kind = "reload"}

\* a screen mounted anew hears nothing of the loads of the one before
LoadsLeft == {}

\* CashierPage: another date mounts the screen anew. Nothing can be picked
\* while it loads; when the load failed, only the way back to today.
PickDate(d) ==
    /\ d # date
    /\ shown # None \/ (error /\ date # None /\ d = None)
    /\ date' = d
    /\ shown' = None
    /\ error' = FALSE
    /\ loads' = LoadsLeft \cup {NewLoad("first", d)}
    /\ act' = "none"
    /\ own' = 0
    /\ lastReload' = None
    /\ overtakes' = 0
    /\ UNCHANGED <<paused, moments>>

\* useOrderActions.run: the order is busy until its change is answered
Tap ==
    /\ shown # None
    /\ act = "none"
    /\ act' = "sent"
    /\ UNCHANGED <<date, shown, error, loads, paused, own, moments, lastReload, overtakes>>

\* the day's data change
ServerMoves ==
    /\ Moment < MaxMoments
    /\ moments' = Append(moments, CurrentNight)

ServerTakes ==
    /\ act = "sent"
    /\ act' = "done"
    /\ ServerMoves
    /\ own' = Moment + 1
    /\ UNCHANGED <<date, shown, error, loads, paused, lastReload, overtakes>>

\* refused: 409 when the list was old, or anything else, only told to the user
ServerRefuses ==
    /\ act = "sent"
    /\ act' \in {"stale", "none"}
    /\ UNCHANGED <<date, shown, error, loads, paused, own, moments, lastReload, overtakes>>

\* Plausible bug, for a mutant: only a refused change reloads the day.
ReloadsAfterStale ==
    IF act = "stale" THEN Reloads ELSE UNCHANGED <<loads, overtakes>>

\* onChanged
ReloadsAfterAct == Reloads

ActAnswered ==
    /\ act \in {"done", "stale"}
    /\ act' = "none"
    /\ ReloadsAfterAct
    /\ UNCHANGED <<date, shown, error, paused, own, moments, lastReload>>

\* another device changes the day
OthersChange ==
    /\ ServerMoves
    /\ UNCHANGED <<date, shown, error, loads, paused, act, own, lastReload, overtakes>>

\* isRefreshPaused: the tab hidden or shown, a dialog opened or closed
TogglePause ==
    /\ paused' = ~paused
    /\ UNCHANGED <<date, shown, error, loads, act, own, moments, lastReload, overtakes>>

\* "today" may have become another night
NightPasses ==
    /\ moments' = Append(moments, CurrentNight')
    /\ UNCHANGED <<date, shown, error, loads, paused, act, own, lastReload, overtakes>>

ScreenStep ==
    \/ AutoRefresh \/ PressRefresh
    \/ \E x \in loads : Arrives(x) \/ Fails(x)
    \/ \E d \in PickedDates : PickDate(d)
    \/ Tap \/ ServerTakes \/ ServerRefuses \/ ActAnswered
    \/ OthersChange \/ TogglePause

-----------------------------------------------------------------------------
(***************************************************************************)
(* "Only the latest call's result counts; slow answers that come after a   *)
(* newer reload are dropped" (cash/use-cash-day.ts): of no list do the     *)
(* reloads take the screen back to an earlier moment.                      *)
(***************************************************************************)
ReloadsNeverGoBackStep ==
    lastReload # None /\ lastReload' # None =>
        \A l \in Lists : lastReload'[l].at >= lastReload[l].at

ReloadsNeverGoBack == [][ReloadsNeverGoBackStep]_screenVars

(***************************************************************************)
(* A screen on a picked date never shows another day's lists, whatever     *)
(* loads were out when the date was picked (pages/CashierPage.tsx).        *)
(***************************************************************************)
ShowsPickedNight ==
    date # None /\ shown # None => \A l \in Lists : shown[l].night = date

(***************************************************************************)
(* Tonight's screen, left visible and without a dialog, comes to show what *)
(* the server has and stays with it, whatever loads were lost or late      *)
(* (cash/use-auto-refresh.ts).                                             *)
(***************************************************************************)
ShowsCurrent == shown # None /\ \A l \in Lists : shown[l] = SeenAt(date, Moment)

ScreenCatchesUp ==
    <>[](date = None /\ ~paused) => <>[]ShowsCurrent

(***************************************************************************)
(* A change the user made comes to be shown once it is answered, on any    *)
(* date, unless the screen says that loading failed or the user left for   *)
(* another date (cash/use-order-actions.ts). A past date has no timer: the *)
(* reload after the answer is all there is.                                *)
(***************************************************************************)
Shows(m) == shown # None /\ \A l \in Lists : shown[l].at >= m

OwnChangesShow ==
    \A m \in 2 .. MaxMoments :
        (act = "done" /\ own = m) ~> (Shows(m) \/ error \/ own # m)

=============================================================================
