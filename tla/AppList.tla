-------------------------------- MODULE AppList --------------------------------
(***************************************************************************)
(* The app list of a host (NvComputer::updateAppList(), sortAppList()) and *)
(* the rows an app page shows of it (gui/appmodel.cpp, AppView.qml).       *)
(*                                                                         *)
(* A polling thread replaces the host's list, the user's choices live in   *)
(* it, and the page changes its rows one by one, removals and updates      *)
(* first, so that the view can follow.                                     *)
(***************************************************************************)
EXTENDS Sequences, FiniteSetsExt

CONSTANTS
  Apps,   \* the ids, which sort as the names do
  Renamed \* the apps that go by any app's name, the others by their own

ASSUME AppsSort == Apps \subseteq Nat /\ IsFiniteSet(Apps)

VARIABLES
  lost,      \* NvComputer::state is CS_OFFLINE or pairState is PS_NOT_PAIRED
  hostList,  \* NvComputer::appList
  announced, \* a computerStateChanged is queued for the main thread
  page       \* AppModel: m_ShowHiddenGames, m_AllApps, m_VisibleApps

listVars == <<lost, hostList, announced, page>>

\* A page before any list is shown on it.
Page(open, showHidden) == [open |-> open, showHidden |-> showHidden, all |-> <<>>, rows |-> <<>>]
NoPage == Page(FALSE, FALSE)

ListInit == lost = FALSE /\ hostList = <<>> /\ announced = FALSE /\ page = NoPage

\* The entry with an id, the first if there are more.
Has(list, id) == \E i \in DOMAIN list : list[i].id = id
Entry(list, id) == list[Min({i \in DOMAIN list : list[i].id = id})]

-----------------------------------------------------------------------------
(* The host's list *)

\* std::stable_sort() by name: apps of one name stay in their order.
Before(list, i, j) == list[i].name < list[j].name \/ (list[i].name = list[j].name /\ i < j)
sortAppList(list) ==
  {[i \in DOMAIN list |-> list[from[i]]] :
     from \in {f \in [DOMAIN list -> DOMAIN list] :
                 \A i, j \in DOMAIN list : i < j => Before(list, f[i], f[j])}}

\* The client-side attributes of apps that are listed again.  A variant takes
\* the host's list as it is.
HostsOwn(list) == list
Propagated(list) ==
  [i \in DOMAIN list |->
     IF Has(hostList, list[i].id)
     THEN [list[i] EXCEPT !.hidden = Entry(hostList, list[i].id).hidden,
                          !.direct = Entry(hostList, list[i].id).direct]
     ELSE list[i]]

\* A change is announced.  A variant looks at the length only.
OfOtherLength(list) == Len(list) # Len(hostList)
Changed(list) == list # hostList

\* What a host can answer: an empty answer is a failure.
Named(ids, names) ==
  [i \in DOMAIN ids |->
     [id |-> ids[i], name |-> names[ids[i]], hidden |-> FALSE, direct |-> FALSE]]
Orders == UNION {{ids \in [1..n -> Apps] : IsInjective(ids)} : n \in 1..Cardinality(Apps)}
Namings == {names \in [Apps -> Apps] : \A id \in Apps \ Renamed : names[id] = id}
Answers == {Named(ids, names) : ids \in Orders, names \in Namings}

\* The polling thread asks a host that is online and paired.
updateAppList ==
  /\ ~lost
  /\ \E list \in Answers :
       /\ list # hostList
       /\ hostList' \in sortAppList(Propagated(list))
       /\ announced' = (announced \/ Changed(list))
  /\ UNCHANGED <<lost, page>>

\* A round finds that the host went or came back.
HostLostOrFound == lost' = ~lost /\ announced' = TRUE /\ UNCHANGED <<hostList, page>>

-----------------------------------------------------------------------------
(* The page's rows *)

\* The entries of a list that are in a set, in their order.
Filtered(list, entries) ==
  LET kept[n \in 0..Len(list)] ==
        IF n = 0 THEN <<>>
        ELSE IF list[n] \in entries THEN Append(kept[n - 1], list[n]) ELSE kept[n - 1]
  IN kept[Len(list)]

\* A hidden app stays visible as long as its row is there.
IsVisible(app, p) == p.showHidden \/ ~app.hidden \/ Has(p.rows, app.id)
getVisibleApps(list, p) == Filtered(list, {app \in Range(list) : IsVisible(app, p)})

\* Removals and updates: a row stays in its place.  A variant leaves its data.
Untouched(rows, new) == Filtered(rows, {row \in Range(rows) : Has(new, row.id)})
Updated(rows, new) ==
  LET kept == Untouched(rows, new)
  IN [i \in DOMAIN kept |-> Entry(new, kept[i].id)]

\* Additions: the rows are searched up to the first with a greater name.
Inserted(rows, k, app) ==
  [i \in 1..(Len(rows) + 1) |-> IF i < k THEN rows[i] ELSE IF i = k THEN app ELSE rows[i - 1]]
Added(rows, app) ==
  LET stops == {i \in DOMAIN rows : rows[i].id = app.id \/ rows[i].name > app.name}
  IN IF stops = {} THEN Append(rows, app)
     ELSE IF rows[Min(stops)].id = app.id THEN rows
     ELSE Inserted(rows, Min(stops), app)
AddedAll(rows, new) ==
  LET added[n \in 0..Len(new)] == IF n = 0 THEN rows ELSE Added(added[n - 1], new[n])
  IN added[Len(new)]

Shown(list, p) ==
  LET new == getVisibleApps(list, p)
  IN [p EXCEPT !.all = list, !.rows = AddedAll(Updated(p.rows, new), new)]

OpenPage ==
  /\ ~page.open
  /\ \E showHidden \in BOOLEAN : page' = Shown(hostList, Page(TRUE, showHidden))
  /\ UNCHANGED <<lost, hostList, announced>>

\* The user goes back.
ClosePage == page.open /\ page' = NoPage /\ UNCHANGED <<lost, hostList, announced>>

\* The page of a lost host closes if it is on top (computerLost), and is left as
\* it is beneath another.
SignalTaken == announced /\ announced' = FALSE

handleComputerStateChanged ==
  /\ SignalTaken
  /\ \/ lost /\ page' \in {page, NoPage}
     \/ ~lost /\ page' = IF page.open /\ hostList # page.all THEN Shown(hostList, page) ELSE page
  /\ UNCHANGED <<lost, hostList>>

-----------------------------------------------------------------------------
(* The menu of a row of the page on top; clientSideAttributeUpdated() calls *)
(* the handler at once                                                      *)

Chosen(list) == /\ hostList' = list
                /\ page' = IF lost THEN NoPage
                           ELSE IF list # page.all THEN Shown(list, page) ELSE page
                /\ UNCHANGED <<lost, announced>>

\* A variant lets the user hide the app that is launched directly.
Always(row) == TRUE
MayHide(row) == row.hidden \/ ~row.direct

setAppHidden ==
  \E i \in DOMAIN page.rows :
    LET row == page.rows[i]
    IN /\ MayHide(row)
       /\ Chosen([j \in DOMAIN hostList |->
                    IF hostList[j].id = row.id
                    THEN [hostList[j] EXCEPT !.hidden = ~row.hidden] ELSE hostList[j]])

\* Setting it clears it from all others.
setAppDirectLaunch ==
  \E i \in DOMAIN page.rows :
    LET row == page.rows[i]
    IN /\ ~row.hidden
       /\ Chosen([j \in DOMAIN hostList |->
                    IF ~row.direct \/ hostList[j].id = row.id
                    THEN [hostList[j] EXCEPT !.direct = ~row.direct /\ hostList[j].id = row.id]
                    ELSE hostList[j]])

-----------------------------------------------------------------------------
PageStep == OpenPage \/ ClosePage \/ setAppHidden \/ setAppDirectLaunch
ListNext == updateAppList \/ HostLostOrFound \/ handleComputerStateChanged \/ PageStep

ListSpec == ListInit /\ [][ListNext]_listVars

\* The event loop goes on.  (No other step takes a signal.)
FairListSpec == ListSpec /\ WF_announced(SignalTaken)

-----------------------------------------------------------------------------
(* Safety *)

\* Lists have entries with the fields of NvApp, and no app twice.
ListTypeOK ==
  /\ \A list \in {hostList, page.all, page.rows} :
       /\ list \in Seq([id : Apps, name : Apps, hidden : BOOLEAN, direct : BOOLEAN])
       /\ \A i, j \in DOMAIN list : list[i].id = list[j].id => i = j
  /\ lost \in BOOLEAN /\ announced \in BOOLEAN
  /\ page.open \in BOOLEAN /\ page.showHidden \in BOOLEAN

\* At most one app is launched directly, and that one is not hidden, whatever
\* rows and lists the choices were made from.
OneDirectLaunch ==
  \A i, j \in DOMAIN hostList :
    hostList[i].direct => ~hostList[i].hidden /\ (hostList[j].direct => i = j)

\* The host's list is well formed and its choices agree with one another,
\* whatever lists arrive between the user's clicks (appmodel.cpp:208-251).
ListsAgree == ListTypeOK /\ OneDirectLaunch

\* As long as apps keep names of their own (Renamed = {}), the rows that were
\* changed one by one are the visible apps of the list, in its order, as asserted
\* at the end of AppModel::updateAppList().  It does not hold for other apps.
RowsFollowList ==
  [][page' # page /\ page'.open
       => page'.rows = getVisibleApps(page'.all, [page EXCEPT !.showHidden = page'.showHidden])]_listVars

\* An open page comes to show the last list of a host that is not lost
\* (AppModel::handleComputerStateChanged()).
PageCatchesUp == []<>(~page.open \/ lost \/ page.all = hostList)

\* The user's choices survive any list that still has the app.  (A choice of the
\* user's own changes the page, and a lost host sends no list.)
ChoicesKept ==
  [][\A i \in DOMAIN hostList, j \in DOMAIN hostList' :
       hostList[i].id = hostList'[j].id /\ page' = page /\ ~lost
         => hostList[i].hidden = hostList'[j].hidden /\ hostList[i].direct = hostList'[j].direct]_listVars

\* An app does not vanish from an open page while the host has it.
NoneVanishes ==
  [][page.open /\ page'.open
       => \A i \in DOMAIN page.rows :
            Has(page'.all, page.rows[i].id) => Has(page'.rows, page.rows[i].id)]_listVars

\* A choice stands until it is taken back or a list leaves its app out, and its
\* row stays so that it can be (comment in getVisibleApps()).
ChoicesStand == ChoicesKept /\ NoneVanishes
=============================================================================
