------------------------------- MODULE AppProofs -------------------------------
(***************************************************************************)
(* Proofs about AppQuit.tla, for any number of polling threads and quit    *)
(* tasks, and about AppList.tla, for any finite set of apps.               *)
(*                                                                         *)
(* AppQuit: whoever waits without a timeout for an app to end can still be *)
(* told, whatever old answers are applied and whichever tasks fail.        *)
(* Consistent is inductive as it stands: a waiter appears together with    *)
(* pendingQuit, a task that gives pendingQuit up queues its failure first, *)
(* and the main thread answers in the step that clears either.             *)
(*                                                                         *)
(* AppList: the lists stay sorted, the rows of a page are the visible apps *)
(* of its list, and the user's choices stand.  ListInv says more than the  *)
(* properties: the page's rows are entries of its list, and what they say  *)
(* of the host's entries may be out of date in one direction only.         *)
(***************************************************************************)
EXTENDS AppQuit, AppList, FiniteSetTheorems, WellFoundedInduction, TLAPS

-----------------------------------------------------------------------------
(* AppQuit *)

Hosts == [online : BOOLEAN, game : BOOLEAN, apps : BOOLEAN, pendingQuit : BOOLEAN]

ThreadsTyped ==
  /\ thread \in [Threads -> [at : {"none", "loop", "idle", "busy"}, interrupted : BOOLEAN]]
  /\ \A t \in Threads : thread[t].at = "none" => ~thread[t].interrupted

LEMMA InitHolds == Init => Consistent
<1>. SUFFICES ASSUME Init PROVE Consistent
  OBVIOUS
<1>1. host \in Hosts
  BY DEF Init, Hosts
<1>2. ThreadsTyped
  BY DEF Init, ThreadsTyped, NoThread
<1>. QED BY <1>1, <1>2 DEF Init, Consistent, TypeOK, CanBeAnswered, Hosts, ThreadsTyped

-----------------------------------------------------------------------------
(* Polling *)

\* A thread that starts, stops, asks or ends.
LEMMA ThreadsKeep ==
  ASSUME Consistent, NEW t \in Threads,
         \/ StartPolling \/ StopPolling \/ ThreadEnds(t) \/ Ask(t)
  PROVE  Consistent'
<1>1. UNCHANGED <<host, signalled, task, failed, waiter, game>>
  BY DEF StartPolling, StopPolling, ThreadEnds, Ask
<1>2. ThreadsTyped'
  <2>1. CASE StartPolling
    <3>1. PICK u \in Threads : thread' = [thread EXCEPT ![u].at = "loop"]
      BY <2>1 DEF StartPolling
    <3>. QED BY <3>1 DEF Consistent, TypeOK, ThreadsTyped
  <2>2. CASE StopPolling
    BY <2>2 DEF StopPolling, Running, Consistent, TypeOK, ThreadsTyped
  <2>3. CASE ThreadEnds(t)
    BY <2>3 DEF ThreadEnds, NoThread, Consistent, TypeOK, ThreadsTyped
  <2>4. CASE Ask(t)
    <3>1. thread' = [thread EXCEPT ![t].at = Answer] /\ Answer \in {"busy", "idle"}
      BY <2>4 DEF Ask, Answer
    <3>. QED BY <2>4, <3>1 DEF Ask, Consistent, TypeOK, ThreadsTyped
  <2>. QED BY <2>1, <2>2, <2>3, <2>4
<1>. QED BY <1>1, <1>2 DEF Consistent, TypeOK, CanBeAnswered, ThreadsTyped

\* An answer, new or old, or none: pendingQuit is not the host's to change.
LEMMA AnswersKeep ==
  ASSUME Consistent, NEW t \in Threads, Apply(t) \/ PollFails(t)
  PROVE  Consistent'
<1>1. UNCHANGED <<task, failed, waiter, game>> /\ thread[t].at # "none"
  BY DEF Apply, PollFails
<1>2. ThreadsTyped'
  BY DEF Apply, PollFails, Consistent, TypeOK, ThreadsTyped
<1>3. host' \in Hosts /\ host'.pendingQuit = host.pendingQuit /\ signalled' \in BOOLEAN
  <2>1. CASE Apply(t)
    <3>1. PICK apps \in {host.apps, TRUE} :
            /\ host' = [host EXCEPT !.online = TRUE, !.game = GameTold(t), !.apps = apps]
            /\ signalled' = (signalled \/ Announced(host'))
      BY <2>1 DEF Apply
    <3>2. GameTold(t) \in BOOLEAN /\ Announced(host') \in BOOLEAN
      BY DEF GameTold, Announced
    <3>. QED BY <3>1, <3>2 DEF Consistent, TypeOK, Hosts
  <2>2. CASE PollFails(t)
    BY <2>2 DEF PollFails, Consistent, TypeOK, Hosts
  <2>. QED BY <2>1, <2>2
<1>. QED BY <1>1, <1>2, <1>3 DEF Consistent, TypeOK, CanBeAnswered, Hosts, ThreadsTyped

-----------------------------------------------------------------------------
(* Quitting *)

\* quitRunningApp() marks the host before anybody waits.
LEMMA QuitRunningAppMarks ==
  ASSUME TypeOK, QuitRunningApp(host)
  PROVE  /\ host' \in Hosts /\ host'.pendingQuit
         /\ task' \in [Tasks -> {"none", "queued", "asking"}]
  BY DEF QuitRunningApp, Free, TypeOK, Hosts

LEMMA LauncherKeeps ==
  ASSUME TypeOK, NEW w \in {"seekApp", "quitApp"}, LauncherUpdated(w)
  PROVE  /\ host' \in Hosts
         /\ task' \in [Tasks -> {"none", "queued", "asking"}]
         /\ waiter' \in {"none", "seekApp", "quitApp"}
<1>1. CASE LauncherUpdated(w) /\ waiter' \in {w, "none"} /\ UNCHANGED <<host, task>>
  BY <1>1 DEF TypeOK, Hosts
<1>2. CASE waiter' = "quitApp" /\ QuitRunningApp(host)
  BY <1>2, QuitRunningAppMarks
<1>. QED BY <1>1, <1>2 DEF LauncherUpdated

LEMMA CallersKeep ==
  ASSUME Consistent, PageQuits \/ CommandQuits \/ StreamFindsHost
  PROVE  Consistent'
<1>1. UNCHANGED <<thread, signalled, failed, game>>
  BY DEF PageQuits, CommandQuits, StreamFindsHost
<1>2. CASE PageQuits \/ CommandQuits
  <2>1. QuitRunningApp(host) /\ waiter' \in {"page", "quit"}
    BY <1>2 DEF PageQuits, CommandQuits
  <2>. QED BY <1>1, <2>1, QuitRunningAppMarks DEF Consistent, TypeOK, CanBeAnswered, Hosts
<1>3. CASE StreamFindsHost
  <2>1. LauncherUpdated("seekApp")
    BY <1>3 DEF StreamFindsHost
  <2>. QED BY <1>1, <2>1, LauncherKeeps DEF Consistent, TypeOK, CanBeAnswered, Hosts
<1>. QED BY <1>2, <1>3

\* PendingQuitTask: its failure is queued in the step that gives up.
LEMMA TasksKeep ==
  ASSUME Consistent, NEW q \in Tasks, TaskStep(q)
  PROVE  Consistent'
<1>1. UNCHANGED <<thread, signalled, waiter>>
  BY DEF TaskStep, TaskAsks, TaskSucceeds, TaskFails
<1>2. task' \in [Tasks -> {"none", "queued", "asking"}]
  BY DEF TaskStep, TaskAsks, TaskSucceeds, TaskFails, Consistent, TypeOK
<1>3. game' \in BOOLEAN
  BY DEF TaskStep, TaskAsks, TaskSucceeds, TaskFails, Consistent, TypeOK
<1>4. host' \in Hosts /\ failed' \in BOOLEAN
      /\ (failed' \/ (host' = host /\ failed' = failed))
  BY DEF TaskStep, TaskAsks, TaskSucceeds, TaskFails, Told, Consistent, TypeOK, Hosts
<1>. QED BY <1>1, <1>2, <1>3, <1>4 DEF Consistent, TypeOK, CanBeAnswered, Hosts

-----------------------------------------------------------------------------
(* The main thread *)

LEMMA SignalsKeep ==
  ASSUME Consistent, HandleComputerStateChanged
  PROVE  Consistent'
<1>1. UNCHANGED <<thread, failed, game>> /\ signalled' \in BOOLEAN
  BY DEF HandleComputerStateChanged
<1>2. CASE UNCHANGED <<host, task, waiter>>
  BY <1>1, <1>2 DEF Consistent, TypeOK, CanBeAnswered
<1>3. CASE Listening /\ LauncherUpdated(waiter)
  <2>1. waiter \in {"seekApp", "quitApp"}
    BY <1>3 DEF Listening
  <2>. QED BY <1>1, <1>3, <2>1, LauncherKeeps DEF Consistent, TypeOK, CanBeAnswered, Hosts
<1>4. CASE /\ host' = [host EXCEPT !.pendingQuit = FALSE]
           /\ waiter' = IF \/ Listening /\ host.apps
                           \/ waiter \in {"page", "quit"} /\ host.pendingQuit
                        THEN "none" ELSE waiter
           /\ UNCHANGED task
  <2>1. host' \in Hosts /\ waiter' \in {"none", waiter}
    BY <1>4 DEF Consistent, TypeOK, Hosts
  <2>2. waiter' \in {"page", "quit"} => failed
    BY <1>4 DEF Consistent, TypeOK, CanBeAnswered
  <2>. QED BY <1>1, <1>4, <2>1, <2>2 DEF Consistent, TypeOK, CanBeAnswered, Hosts
<1>. QED BY <1>2, <1>3, <1>4 DEF HandleComputerStateChanged

LEMMA EndsKeep ==
  ASSUME Consistent, HandleQuitFailed \/ AppSeekTimeout \/ GameChanges
  PROVE  Consistent'
<1>1. UNCHANGED <<host, thread, signalled, task>> /\ waiter' \in {waiter, "none"}
  BY DEF HandleQuitFailed, AppSeekTimeout, GameChanges
<1>2. game' \in BOOLEAN /\ failed' \in BOOLEAN
  BY DEF HandleQuitFailed, AppSeekTimeout, GameChanges, Consistent, TypeOK
<1>3. failed' = failed \/ waiter' = "none"
  BY DEF HandleQuitFailed, AppSeekTimeout, GameChanges
<1>. QED BY <1>1, <1>2, <1>3 DEF Consistent, TypeOK, CanBeAnswered

LEMMA NextKeeps == Consistent /\ [Next]_vars => Consistent'
<1>. SUFFICES ASSUME Consistent, [Next]_vars PROVE Consistent'
  OBVIOUS
<1>1. CASE UNCHANGED vars
  BY <1>1 DEF vars, Consistent, TypeOK, CanBeAnswered
<1>2. CASE \E t \in Threads : ThreadStep(t) \/ PollFails(t)
  BY <1>2, ThreadsKeep, AnswersKeep DEF ThreadStep
<1>3. CASE StartPolling \/ StopPolling
  <2>1. PICK t \in Threads : TRUE
    BY <1>3 DEF StartPolling, StopPolling, Polled
  <2>. QED BY <1>3, <2>1, ThreadsKeep
<1>4. CASE \E q \in Tasks : TaskStep(q)
  BY <1>4, TasksKeep
<1>5. CASE PageQuits \/ CommandQuits \/ StreamFindsHost
  BY <1>5, CallersKeep
<1>6. CASE HandleComputerStateChanged
  BY <1>6, SignalsKeep
<1>7. CASE HandleQuitFailed \/ AppSeekTimeout \/ GameChanges
  BY <1>7, EndsKeep
<1>. QED BY <1>1, <1>2, <1>3, <1>4, <1>5, <1>6, <1>7 DEF Next, UserStep

\* Whoever waits without a timeout can still be told (QuitSegue.qml,
\* cli/quitstream.cpp, PendingQuitTask, handleComputerStateChanged()), for any
\* number of threads and tasks.
THEOREM WaitersCanBeAnswered == Spec => []Consistent
  BY InitHolds, NextKeeps, PTL DEF Spec

-----------------------------------------------------------------------------
(* Induction and recursion over 0..n *)

\* A set of naturals has a least element: what induction is done with here.
LEMMA LeastOf ==
  ASSUME NEW T \in SUBSET Nat, T # {}
  PROVE  \E m \in T : \A k \in T : m <= k
<1>. DEFINE R == {ss \in Nat \X Nat : ss[1] < ss[2]}
<1>1. IsWellFoundedOn(R, Nat)
  BY NatLessThanWellFounded DEF OpToRel
<1>2. \E x \in T : \A y \in T : ~ (<<y, x>> \in R)
  <2>. HIDE DEF R
  <2>. QED BY <1>1, WFMin
<1>3. PICK x \in T : \A y \in T : ~ (<<y, x>> \in R)
  BY <1>2
<1>4. ASSUME NEW y \in T PROVE x <= y
  <2>1. ~ (<<y, x>> \in R) /\ <<y, x>>[1] = y /\ <<y, x>>[2] = x /\ <<y, x>> \in Nat \X Nat
    BY <1>3
  <2>2. ~ (y < x)
    BY <2>1, Zenon
  <2>. QED BY <2>2
<1>. QED BY <1>4

\* What holds of 0 and of k whenever it holds of k - 1 holds up to any n.
LEMMA Counting ==
  ASSUME NEW n \in Nat, NEW T, 0 \in T, \A k \in 1..n : k - 1 \in T => k \in T
  PROVE  0..n \subseteq T
<1>. DEFINE M == {k \in 0..n : k \notin T}
<1>. SUFFICES ASSUME M # {} PROVE FALSE
  OBVIOUS
<1>1. PICK m \in M : \A k \in M : m <= k
  <2>1. M \in SUBSET Nat
    OBVIOUS
  <2>. HIDE DEF M
  <2>. QED BY <2>1, LeastOf
<1>2. m \in 1..n /\ m - 1 \in 0..n /\ m - 1 \in T
  BY <1>1
<1>. QED BY <1>2

\* There is a function that does one step after the other.
LEMMA Iteration ==
  ASSUME NEW S, NEW x \in S, NEW n \in Nat, NEW step \in [1..n -> [S -> S]]
  PROVE  \E f \in [0..n -> S] : f[0] = x /\ \A i \in 1..n : f[i] = step[i][f[i - 1]]
<1>. DEFINE Upto(k, f) == f[0] = x /\ \A i \in 1..k : f[i] = step[i][f[i - 1]]
            T == {k \in 0..n : \E f \in [0..k -> S] : Upto(k, f)}
<1>1. 0 \in T
  <2>. DEFINE f == [i \in 0..0 |-> x]
  <2>1. f \in [0..0 -> S] /\ Upto(0, f)
    OBVIOUS
  <2>. HIDE DEF f
  <2>. QED BY <2>1
<1>2. ASSUME NEW k \in 1..n, k - 1 \in T PROVE k \in T
  <2>1. PICK f \in [0..(k - 1) -> S] : Upto(k - 1, f)
    BY <1>2
  <2>. DEFINE y == step[k][f[k - 1]]
              g == [i \in 0..k |-> IF i = k THEN y ELSE f[i]]
  <2>2. y \in S
    OBVIOUS
  <2>3. g \in [0..k -> S] /\ g[k] = y /\ \A i \in 0..(k - 1) : g[i] = f[i]
    BY <2>2
  <2>4. Upto(k, g)
    <3>. HIDE DEF g
    <3>1. g[0] = x
      BY <2>1, <2>3
    <3>2. ASSUME NEW i \in 1..k PROVE g[i] = step[i][g[i - 1]]
      BY <2>1, <2>3
    <3>. QED BY <3>1, <3>2
  <2>. HIDE DEF g
  <2>. QED BY <2>3, <2>4
<1>3. 0..n \subseteq T
  <2>. HIDE DEF T
  <2>. QED BY <1>1, <1>2, Counting
<1>. QED BY <1>3

-----------------------------------------------------------------------------
(* AppList: the inductive invariant *)

NvApp == [id : Apps, name : Apps, hidden : BOOLEAN, direct : BOOLEAN]
Row == {app \in NvApp : app.name = app.id}

\* Lists are sorted, and so no app is in one of them twice.
Sorted(list) == \A i, j \in DOMAIN list : i < j => list[i].id < list[j].id
Good(list) == list \in Seq(Row) /\ Sorted(list)

PageGood ==
  /\ page \in [open : BOOLEAN, showHidden : BOOLEAN, all : Seq(Row), rows : Seq(Row)]
  /\ Good(page.all) /\ Good(page.rows)
  /\ ~page.open => page = NoPage
  /\ Range(page.rows) \subseteq Range(page.all)

\* What a list that arrived since lets a row still say of the host's entry: a
\* choice can be gone with its app, but none is new.
NoNewChoice(row, app) == (app.direct => row.direct) /\ (app.hidden => row.hidden)
RowsNotAhead ==
  \A i \in DOMAIN page.rows, j \in DOMAIN hostList :
    page.rows[i].id = hostList[j].id => NoNewChoice(page.rows[i], hostList[j])

ListInv ==
  /\ Good(hostList) /\ PageGood /\ RowsNotAhead /\ OneDirectLaunch
  /\ announced \in BOOLEAN /\ lost \in BOOLEAN

\* What is shown is of apps that keep names of their own.
OwnNames == Renamed = {}

-----------------------------------------------------------------------------
(* AppList: sorted lists *)

LEMMA AppsAreNumbers == \A app \in Row : app.id \in Nat /\ app.name = app.id /\ app \in NvApp
  BY AppsSort DEF Row, NvApp

\* An id is in a sorted list once.
LEMMA OneOfAnId ==
  ASSUME NEW list, Good(list), NEW i \in DOMAIN list, NEW j \in DOMAIN list,
         list[i].id = list[j].id
  PROVE  i = j
<1>1. list[i].id \in Nat /\ list[j].id \in Nat /\ i \in Nat /\ j \in Nat
  BY AppsAreNumbers DEF Good
<1>. QED BY <1>1 DEF Good, Sorted

\* Entry() finds it.
LEMMA EntryIs ==
  ASSUME NEW list, Good(list), NEW k \in DOMAIN list
  PROVE  Entry(list, list[k].id) = list[k]
<1>. DEFINE M == {i \in DOMAIN list : list[i].id = list[k].id}
<1>1. M = {k}
  BY OneOfAnId
<1>2. k \in Nat
  BY DEF Good
<1>3. Min(M) = k
  BY <1>1, <1>2 DEF Min
<1>. QED BY <1>3 DEF Entry

\* Two sorted lists with the same entries are the same.
LEMMA SameEntries ==
  ASSUME NEW a, NEW b, Good(a), Good(b), Range(a) = Range(b)
  PROVE  a = b
<1>. DEFINE n == Len(a)
            T == {k \in 0..n : k <= Len(b) /\ \A i \in 1..k : a[i] = b[i]}
<1>1. /\ n \in Nat /\ Len(b) \in Nat /\ DOMAIN a = 1..n /\ DOMAIN b = 1..Len(b)
      /\ \A i \in 1..n : a[i].id \in Nat
      /\ \A i \in 1..Len(b) : b[i].id \in Nat
  BY AppsAreNumbers DEF Good
<1>2. /\ \A i \in 1..n : \E j \in 1..Len(b) : a[i] = b[j]
      /\ \A i \in 1..Len(b) : \E j \in 1..n : b[i] = a[j]
  BY <1>1 DEF Range
<1>3. /\ \A i, j \in 1..n : i < j => a[i].id < a[j].id
      /\ \A i, j \in 1..Len(b) : i < j => b[i].id < b[j].id
  BY <1>1 DEF Good, Sorted
<1>4. ASSUME NEW k \in 1..n, k - 1 \in T PROVE k \in T
  <2>1. k \in Nat /\ k - 1 <= Len(b) /\ \A i \in 1..(k - 1) : a[i] = b[i]
    BY <1>1, <1>4
  <2>2. PICK j \in 1..Len(b) : a[k] = b[j]
    BY <1>2
  <2>3. j >= k
    <3>. SUFFICES ASSUME j < k PROVE FALSE
      BY <2>1, <1>1
    <3>1. j \in 1..n /\ a[j] = b[j]
      BY <2>1, <1>1
    <3>. QED BY <3>1, <2>2, <1>1, <1>3
  <2>4. k \in 1..Len(b)
    BY <2>1, <2>3, <1>1
  <2>5. PICK l \in 1..n : b[k] = a[l]
    BY <1>2, <2>4
  <2>6. l >= k
    <3>. SUFFICES ASSUME l < k PROVE FALSE
      BY <2>1, <1>1
    <3>1. l \in 1..Len(b) /\ a[l] = b[l]
      BY <2>1, <2>4, <1>1
    <3>. QED BY <3>1, <2>4, <2>5, <1>1, <1>3
  <2>7. a[k].id <= a[l].id
    <3>1. l = k \/ l > k
      BY <2>6, <1>1
    <3>2. a[k].id \in Nat /\ a[l].id \in Nat
      BY <1>1
    <3>3. l > k => a[k].id < a[l].id
      BY <1>3
    <3>4. l > k => a[k].id <= a[l].id
      BY <3>2, <3>3
    <3>5. l = k => a[k].id <= a[l].id
      BY <3>2
    <3>. QED BY <3>1, <3>4, <3>5
  <2>8. j = k
    <3>. SUFFICES ASSUME k < j PROVE FALSE
      BY <2>3, <2>4, <1>1
    <3>1. b[k].id < b[j].id
      BY <2>4, <1>3
    <3>. QED BY <3>1, <2>2, <2>4, <2>5, <2>7, <1>1
  <2>9. \A i \in 1..k : i \in 1..(k - 1) \/ i = k
    BY <2>1
  <2>. QED BY <2>1, <2>2, <2>4, <2>8, <2>9
<1>5. 0..n \subseteq T
  <2>1. 0 \in T
    BY <1>1
  <2>. HIDE DEF T, n
  <2>. QED BY <1>1, <1>4, <2>1, Counting
<1>6. n <= Len(b) /\ \A i \in 1..n : a[i] = b[i]
  <2>1. n \in 0..n
    BY <1>1
  <2>2. n \in T
    BY <1>5, <2>1
  <2>. QED BY <2>2
<1>7. n = Len(b)
  <2>. SUFFICES ASSUME n < Len(b) PROVE FALSE
    <3>1. n <= Len(b) /\ n \in Nat /\ Len(b) \in Nat
      BY <1>1, <1>6
    <3>. HIDE DEF n
    <3>. QED BY <3>1
  <2>1. n + 1 \in 1..Len(b)
    BY <1>1
  <2>2. PICK l \in 1..n : b[n + 1] = a[l]
    BY <1>2, <2>1
  <2>3. l \in 1..Len(b) /\ l < n + 1 /\ a[l] = b[l]
    BY <1>1, <1>6
  <2>. QED BY <2>1, <2>2, <2>3, <1>1, <1>3
<1>. QED BY <1>6, <1>7, <1>1 DEF Good

\* An entry that goes to the end or between two others.
LEMMA AppendedGood ==
  ASSUME NEW w, Good(w), NEW app \in Row, \A i \in DOMAIN w : w[i].id < app.id
  PROVE  Good(Append(w, app)) /\ Range(Append(w, app)) = Range(w) \cup {app}
<1>. DEFINE v == Append(w, app)
            n == Len(w)
<1>1. /\ n \in Nat /\ DOMAIN w = 1..n /\ v \in Seq(Row) /\ DOMAIN v = 1..(n + 1)
      /\ v[n + 1] = app /\ \A i \in 1..n : v[i] = w[i]
  BY DEF Good
<1>. HIDE DEF v, n
<1>2. \A i \in 1..(n + 1) : i \in 1..n \/ i = n + 1
  BY <1>1
<1>3. Sorted(v)
  BY <1>1, <1>2 DEF Sorted, Good
<1>4. Range(v) = Range(w) \cup {app}
  <2>1. n + 1 \in 1..(n + 1) /\ \A i \in 1..n : i \in 1..(n + 1)
    BY <1>1
  <2>. QED BY <1>1, <1>2, <2>1 DEF Range
<1>. QED BY <1>1, <1>3, <1>4 DEF Good, v

LEMMA InsertedGood ==
  ASSUME NEW w, Good(w), NEW app \in Row, NEW k \in DOMAIN w,
         \A i \in DOMAIN w : i < k => w[i].id < app.id, app.id < w[k].id
  PROVE  Good(Inserted(w, k, app)) /\ Range(Inserted(w, k, app)) = Range(w) \cup {app}
<1>. DEFINE v == Inserted(w, k, app)
            n == Len(w)
<1>1. n \in Nat /\ DOMAIN w = 1..n /\ k \in 1..n /\ \A i \in 1..n : w[i] \in Row
  BY DEF Good
<1>2. /\ DOMAIN v = 1..(n + 1) /\ v[k] = app
      /\ \A i \in 1..n : i < k => v[i] = w[i]
      /\ \A i \in 1..n : i >= k => v[i + 1] = w[i]
  BY <1>1 DEF Inserted
<1>3. v \in Seq(Row)
  <2>1. \A i \in 1..(n + 1) : i > k => i - 1 \in 1..n
    BY <1>1
  <2>2. \A i \in 1..(n + 1) : i < k => i \in 1..n
    BY <1>1
  <2>3. v \in [1..(n + 1) -> Row]
    BY <1>1, <2>1, <2>2 DEF Inserted
  <2>4. n + 1 \in Nat
    BY <1>1
  <2>. QED BY <2>3, <2>4
<1>. HIDE DEF v, n
<1>4. \A i \in 1..(n + 1) :
        \/ i = k
        \/ i < k /\ i \in 1..n
        \/ i > k /\ i - 1 \in 1..n /\ i - 1 >= k
  BY <1>1
<1>5. \A i \in 1..(n + 1) :
        \/ i = k /\ v[i] = app
        \/ i < k /\ i \in 1..n /\ v[i] = w[i]
        \/ i > k /\ i - 1 \in 1..n /\ i - 1 >= k /\ v[i] = w[i - 1]
  <2>1. ASSUME NEW i \in 1..(n + 1), i > k, i - 1 \in 1..n, i - 1 >= k PROVE v[i] = w[i - 1]
    <3>1. i = (i - 1) + 1
      BY <1>1
    <3>. QED BY <1>2, <2>1, <3>1
  <2>. QED BY <1>2, <1>4, <2>1
<1>6. \A i, j \in 1..n : i < j => w[i].id < w[j].id
  BY <1>1 DEF Good, Sorted
<1>7. \A i \in 1..n : i >= k => app.id < w[i].id
  <2>1. \A i \in 1..n : w[i].id \in Nat
    BY <1>1, AppsAreNumbers
  <2>2. app.id \in Nat
    BY AppsAreNumbers
  <2>3. \A i \in 1..n : i > k => w[k].id < w[i].id
    BY <1>1, <1>6
  <2>4. \A i \in 1..n : i >= k => i > k \/ i = k
    BY <1>1
  <2>. QED BY <1>1, <2>1, <2>2, <2>3, <2>4
<1>8. Sorted(v)
  <2>. SUFFICES ASSUME NEW i \in 1..(n + 1), NEW j \in 1..(n + 1), i < j
                PROVE  v[i].id < v[j].id
    BY <1>2 DEF Sorted
  <2>0. \A l \in 1..n : w[l].id \in Nat
    BY <1>1, AppsAreNumbers
  <2>1. CASE i = k
    BY <1>1, <1>5, <1>7, <2>1
  <2>2. CASE i < k /\ j < k
    BY <1>1, <1>5, <1>6, <2>2
  <2>3. CASE i < k /\ j = k
    BY <1>1, <1>5, <2>3
  <2>4. CASE i < k /\ j > k
    <3>1. v[i].id < app.id /\ app.id < v[j].id
      BY <1>1, <1>5, <1>7, <2>4
    <3>2. v[i] = w[i] /\ v[j] = w[j - 1] /\ i \in 1..n /\ j - 1 \in 1..n
      BY <1>1, <1>5, <2>4
    <3>. QED BY <3>1, <3>2, <2>0, AppsAreNumbers
  <2>5. CASE i > k /\ j > k
    <3>1. v[i] = w[i - 1] /\ v[j] = w[j - 1] /\ i - 1 \in 1..n /\ j - 1 \in 1..n /\ i - 1 < j - 1
      BY <1>1, <1>5, <2>5
    <3>. QED BY <3>1, <1>6
  <2>. QED BY <1>1, <2>1, <2>2, <2>3, <2>4, <2>5
<1>9. Range(v) = Range(w) \cup {app}
  <2>1. ASSUME NEW i \in 1..(n + 1) PROVE v[i] \in Range(w) \cup {app}
    BY <1>1, <1>5 DEF Range
  <2>2. ASSUME NEW i \in 1..n PROVE w[i] \in Range(v)
    <3>1. i \in 1..(n + 1) /\ i + 1 \in 1..(n + 1) /\ (i < k \/ i >= k)
      BY <1>1
    <3>2. w[i] = v[i] \/ w[i] = v[i + 1]
      BY <1>2, <3>1
    <3>. QED BY <1>2, <3>1, <3>2 DEF Range
  <2>3. app \in Range(v)
    <3>1. k \in 1..(n + 1)
      BY <1>1
    <3>. QED BY <1>2, <3>1 DEF Range
  <2>. QED BY <1>1, <1>2, <2>1, <2>2, <2>3 DEF Range
<1>. QED BY <1>3, <1>8, <1>9 DEF Good, v
-----------------------------------------------------------------------------
(* AppList: the operators of the page's rows *)

\* Filtered() is computed entry by entry: what it has kept after each.
Computes(u, list, entries) ==
  /\ u \in [0..Len(list) -> Seq(Row)]
  /\ u[0] = <<>> /\ Filtered(list, entries) = u[Len(list)]
  /\ \A i \in 1..Len(list) :
       u[i] = IF list[i] \in entries THEN Append(u[i - 1], list[i]) ELSE u[i - 1]

LEMMA FilteredSteps ==
  ASSUME NEW list, NEW entries
  PROVE  list \in Seq(Row) => \E u : Computes(u, list, entries)
<1>. DEFINE n == Len(list)
            S == Seq(Row)
            step == [i \in 1..n |-> [w \in S |-> IF list[i] \in entries
                                                  THEN Append(w, list[i]) ELSE w]]
            Follows(g) == g = [i \in 0..n |-> IF i = 0 THEN <<>>
                              ELSE IF list[i] \in entries
                                   THEN Append(g[i - 1], list[i]) ELSE g[i - 1]]
            Q == list \in S
            u == CHOOSE g : Follows(g)
<1>1. Q => /\ n \in Nat /\ <<>> \in S /\ \A i \in 1..n : list[i] \in Row
           /\ \A w \in S, i \in 1..n : Append(w, list[i]) \in S
           /\ \A i \in 1..n : i \in 0..n /\ i - 1 \in 0..n /\ i # 0
  OBVIOUS
<1>2. Filtered(list, entries) = u[n]
  BY DEF Filtered
<1>. SUFFICES ASSUME Q
              PROVE  \E f : /\ f \in [0..n -> S]
                            /\ f[0] = <<>> /\ Filtered(list, entries) = f[n]
                            /\ \A i \in 1..n : f[i] = IF list[i] \in entries
                                                     THEN Append(f[i - 1], list[i]) ELSE f[i - 1]
  BY DEF Computes
<1>. HIDE DEF Q, n, S
<1>3. PICK f \in [0..n -> S] : f[0] = <<>> /\ \A i \in 1..n : f[i] = step[i][f[i - 1]]
  <2>1. step \in [1..n -> [S -> S]] /\ n \in Nat /\ <<>> \in S
    BY <1>1
  <2>. HIDE DEF step
  <2>. QED BY <2>1, Iteration
<1>4. \A i \in 1..n : f[i] = IF list[i] \in entries THEN Append(f[i - 1], list[i]) ELSE f[i - 1]
  BY <1>1, <1>3
<1>5. Follows(f)
  <2>1. f = [i \in 0..n |-> f[i]]
    BY <1>3
  <2>2. ASSUME NEW i \in 0..n
        PROVE  f[i] = IF i = 0 THEN <<>>
                      ELSE IF list[i] \in entries THEN Append(f[i - 1], list[i]) ELSE f[i - 1]
    <3>1. i = 0 \/ i \in 1..n
      BY <1>1
    <3>. QED BY <1>1, <1>3, <1>4, <3>1
  <2>. QED BY <2>1, <2>2
<1>6. ASSUME NEW g, Follows(g) PROVE g = f
  <2>. DEFINE T == {i \in 0..n : g[i] = f[i]}
  <2>1. g[0] = <<>> /\ \A i \in 1..n :
          g[i] = IF list[i] \in entries THEN Append(g[i - 1], list[i]) ELSE g[i - 1]
    <3>1. 0 \in 0..n
      BY <1>1
    <3>2. ASSUME NEW i \in 0..n
          PROVE  g[i] = IF i = 0 THEN <<>>
                        ELSE IF list[i] \in entries THEN Append(g[i - 1], list[i]) ELSE g[i - 1]
      BY <1>6
    <3>. HIDE DEF Follows
    <3>. QED BY <1>1, <3>1, <3>2
  <2>2. 0 \in T /\ \A k \in 1..n : k - 1 \in T => k \in T
    BY <1>1, <1>3, <1>4, <2>1
  <2>3. n \in Nat
    BY <1>1
  <2>4. 0..n \subseteq T
    <3>. HIDE DEF T, Follows
    <3>. QED BY <2>2, <2>3, Counting
  <2>5. g = [i \in 0..n |-> g[i]]
    <3>. DEFINE h == [i \in 0..n |-> IF i = 0 THEN <<>>
                       ELSE IF list[i] \in entries THEN Append(g[i - 1], list[i]) ELSE g[i - 1]]
    <3>1. g = h /\ h = [i \in 0..n |-> h[i]]
      BY <1>6
    <3>. HIDE DEF h
    <3>. QED BY <3>1
  <2>6. f = [i \in 0..n |-> f[i]]
    BY <1>3
  <2>. HIDE DEF Follows
  <2>. QED BY <2>4, <2>5, <2>6
<1>7. u = f
  <2>. HIDE DEF Follows
  <2>. QED BY <1>5, <1>6
<1>. HIDE DEF u
<1>. QED BY <1>2, <1>3, <1>4, <1>7

\* What is left of a sorted list is sorted, and is what it should be.
LEMMA FilteredGood ==
  ASSUME NEW list, NEW entries, Good(list)
  PROVE  /\ Good(Filtered(list, entries))
         /\ Range(Filtered(list, entries)) = Range(list) \cap entries
<1>. DEFINE n == Len(list)
            Upto(k) == {list[i] : i \in 1..k}
<1>1. /\ n \in Nat /\ DOMAIN list = 1..n
      /\ \A i \in 1..n : list[i] \in Row /\ list[i].id \in Nat
      /\ \A i, j \in 1..n : i < j => list[i].id < list[j].id
  BY AppsAreNumbers DEF Good, Sorted
<1>2. PICK u : Computes(u, list, entries)
  <2>1. list \in Seq(Row)
    BY DEF Good
  <2>. QED BY <2>1, FilteredSteps, Zenon
<1>3. /\ u \in [0..n -> Seq(Row)] /\ u[0] = <<>> /\ Filtered(list, entries) = u[n]
      /\ \A i \in 1..n :
           u[i] = IF list[i] \in entries THEN Append(u[i - 1], list[i]) ELSE u[i - 1]
  BY <1>2 DEF Computes
<1>. DEFINE T == {k \in 0..n : Good(u[k]) /\ Range(u[k]) = Upto(k) \cap entries}
<1>4. 0 \in T
  <2>1. Good(<<>>) /\ Range(<<>>) = {}
    BY DEF Good, Sorted, Range
  <2>2. Upto(0) = {} /\ 0 \in 0..n
    BY <1>1
  <2>. QED BY <1>3, <2>1, <2>2
<1>5. ASSUME NEW k \in 1..n, k - 1 \in T PROVE k \in T
  <2>1. Good(u[k - 1]) /\ Range(u[k - 1]) = Upto(k - 1) \cap entries /\ k \in 0..n
    BY <1>5
  <2>2. Upto(k) = Upto(k - 1) \cup {list[k]}
    <3>1. \A i : i \in 1..k <=> i \in 1..(k - 1) \/ i = k
      BY <1>1
    <3>. QED BY <3>1
  <2>3. CASE list[k] \in entries
    <3>1. \A r \in Upto(k - 1) : r.id < list[k].id
      BY <1>1
    <3>. HIDE DEF Upto
    <3>2. \A i \in DOMAIN u[k - 1] : u[k - 1][i].id < list[k].id
      BY <2>1, <3>1 DEF Range
    <3>3. list[k] \in Row /\ u[k] = Append(u[k - 1], list[k])
      BY <1>1, <1>3, <2>3
    <3>4. Good(u[k]) /\ Range(u[k]) = Range(u[k - 1]) \cup {list[k]}
      BY <2>1, <3>2, <3>3, AppendedGood
    <3>. QED BY <2>1, <2>2, <2>3, <3>4
  <2>4. CASE list[k] \notin entries
    <3>1. u[k] = u[k - 1]
      BY <1>3, <2>4
    <3>. HIDE DEF Upto
    <3>. QED BY <2>1, <2>2, <2>4, <3>1
  <2>. QED BY <2>3, <2>4
<1>6. 0..n \subseteq T
  <2>. HIDE DEF T, n
  <2>. QED BY <1>1, <1>4, <1>5, Counting
<1>7. n \in T
  BY <1>1, <1>6
<1>8. Upto(n) = Range(list)
  BY <1>1 DEF Range
<1>. HIDE DEF Upto
<1>. QED BY <1>3, <1>7, <1>8

\* Rows that stay get the entries of the new list.
LEMMA UpdatedGood ==
  ASSUME NEW rows, NEW new, Good(rows), Good(new)
  PROVE  Good(Updated(rows, new)) /\ Range(Updated(rows, new)) \subseteq Range(new)
<1>. DEFINE kept == Untouched(rows, new)
            v == Updated(rows, new)
<1>1. Good(kept) /\ Range(kept) = Range(rows) \cap {row \in Range(rows) : Has(new, row.id)}
  BY FilteredGood DEF Untouched
<1>2. v = [i \in DOMAIN kept |-> Entry(new, kept[i].id)]
  BY DEF Updated
<1>. HIDE DEF kept, v
<1>3. ASSUME NEW i \in DOMAIN kept
      PROVE  v[i] \in Row /\ v[i] \in Range(new) /\ v[i].id = kept[i].id
  <2>1. Has(new, kept[i].id)
    BY <1>1 DEF Range
  <2>2. PICK k \in DOMAIN new : new[k].id = kept[i].id
    BY <2>1 DEF Has
  <2>3. v[i] = new[k]
    BY <1>2, <2>2, EntryIs
  <2>. QED BY <2>2, <2>3 DEF Range, Good
<1>4. /\ DOMAIN v = DOMAIN kept /\ DOMAIN kept = 1..Len(kept) /\ Len(kept) \in Nat
      /\ v = [i \in DOMAIN kept |-> v[i]]
  BY <1>1, <1>2 DEF Good
<1>5. v \in Seq(Row)
  BY <1>3, <1>4
<1>6. Sorted(v)
  BY <1>1, <1>3, <1>4 DEF Good, Sorted
<1>7. Range(v) \subseteq Range(new)
  BY <1>3, <1>4 DEF Range
<1>. QED BY <1>5, <1>6, <1>7 DEF Good, v

\* One entry more: where the search stops, the rest is greater.
LEMMA AddedGood ==
  ASSUME NEW rows, NEW new, Good(rows), Good(new), Range(rows) \subseteq Range(new),
         NEW app \in Range(new)
  PROVE  Good(Added(rows, app)) /\ Range(Added(rows, app)) = Range(rows) \cup {app}
<1>. DEFINE stops == {i \in DOMAIN rows : rows[i].id = app.id \/ rows[i].name > app.name}
            m == Min(stops)
<1>1. /\ app \in Row /\ app.id \in Nat /\ app.name = app.id
      /\ \A i \in DOMAIN rows : rows[i].id \in Nat /\ rows[i].name = rows[i].id
      /\ DOMAIN rows \subseteq Nat
  BY AppsAreNumbers DEF Good, Range
<1>2. Added(rows, app) = IF stops = {} THEN Append(rows, app)
                         ELSE IF rows[m].id = app.id THEN rows ELSE Inserted(rows, m, app)
  BY DEF Added
<1>3. CASE stops = {}
  <2>1. \A i \in DOMAIN rows : rows[i].id < app.id
    BY <1>1, <1>3
  <2>. QED BY <1>1, <1>2, <1>3, <2>1, AppendedGood
<1>4. CASE stops # {}
  <2>1. m \in stops /\ \A i \in stops : m <= i
    <3>1. stops \in SUBSET Nat
      BY <1>1
    <3>. HIDE DEF stops
    <3>2. \E k \in stops : \A i \in stops : k <= i
      BY <1>4, <3>1, LeastOf
    <3>. QED BY <3>2 DEF Min
  <2>. HIDE DEF m
  <2>2. m \in DOMAIN rows /\ (rows[m].id = app.id \/ rows[m].id > app.id)
    BY <1>1, <2>1
  <2>3. ASSUME NEW i \in DOMAIN rows, i < m PROVE rows[i].id < app.id
    <3>1. i \notin stops
      BY <1>1, <2>1, <2>2, <2>3
    <3>. QED BY <1>1, <3>1
  <2>4. CASE rows[m].id = app.id
    <3>1. rows[m] = app
      <4>1. PICK i \in DOMAIN new, j \in DOMAIN new : rows[m] = new[i] /\ app = new[j]
        BY <2>2 DEF Range
      <4>. QED BY <2>4, <4>1, OneOfAnId
    <3>2. app \in Range(rows)
      BY <2>2, <3>1 DEF Range
    <3>. QED BY <1>2, <1>4, <2>4, <3>2
  <2>5. CASE rows[m].id # app.id
    <3>1. Added(rows, app) = Inserted(rows, m, app)
      BY <1>2, <1>4, <2>5
    <3>2. app.id < rows[m].id
      BY <1>1, <2>2, <2>5
    <3>. QED BY <1>1, <2>2, <2>3, <3>1, <3>2, InsertedGood
  <2>. QED BY <2>4, <2>5
<1>. QED BY <1>3, <1>4

\* All of them: the rows become the new list.
LEMMA AddedAllSteps ==
  ASSUME NEW rows, NEW new, Good(rows), Good(new), Range(rows) \subseteq Range(new)
  PROVE  LET S == {w \in Seq(Row) : Good(w) /\ Range(w) \subseteq Range(new)}
         IN  \E u \in [0..Len(new) -> S] :
               /\ u[0] = rows /\ AddedAll(rows, new) = u[Len(new)]
               /\ \A i \in 1..Len(new) : u[i] = Added(u[i - 1], new[i])
<1>. DEFINE n == Len(new)
            S == {w \in Seq(Row) : Good(w) /\ Range(w) \subseteq Range(new)}
            step == [i \in 1..n |-> [w \in S |-> Added(w, new[i])]]
            Follows(g) == g = [i \in 0..n |-> IF i = 0 THEN rows ELSE Added(g[i - 1], new[i])]
            u == CHOOSE g : Follows(g)
<1>1. /\ n \in Nat /\ rows \in S /\ \A i \in 1..n : new[i] \in Range(new)
      /\ \A i \in 1..n : i \in 0..n /\ i - 1 \in 0..n /\ i # 0
  <2>1. n \in Nat /\ DOMAIN new = 1..n /\ rows \in Seq(Row)
    BY DEF Good
  <2>2. \A i \in 1..n : new[i] \in Range(new)
    BY <2>1 DEF Range
  <2>3. \A i \in 1..n : i \in 0..n /\ i - 1 \in 0..n /\ i # 0
    BY <2>1
  <2>. QED BY <2>1, <2>2, <2>3
<1>2. AddedAll(rows, new) = u[n]
  BY DEF AddedAll
<1>3. ASSUME NEW w \in S, NEW i \in 1..n PROVE Added(w, new[i]) \in S
  <2>1. Good(w) /\ Range(w) \subseteq Range(new) /\ new[i] \in Range(new)
    BY <1>1
  <2>2. /\ Good(Added(w, new[i]))
        /\ Range(Added(w, new[i])) = Range(w) \cup {new[i]}
    BY <2>1, AddedGood
  <2>. QED BY <2>1, <2>2 DEF Good
<1>. HIDE DEF n, S
<1>4. PICK f \in [0..n -> S] : f[0] = rows /\ \A i \in 1..n : f[i] = step[i][f[i - 1]]
  <2>1. step \in [1..n -> [S -> S]]
    BY <1>3
  <2>2. n \in Nat /\ rows \in S
    BY <1>1
  <2>. HIDE DEF step
  <2>. QED BY <2>1, <2>2, Iteration
<1>5. \A i \in 1..n : f[i] = Added(f[i - 1], new[i])
  BY <1>1, <1>4
<1>6. Follows(f)
  <2>1. f = [i \in 0..n |-> f[i]]
    BY <1>4
  <2>2. ASSUME NEW i \in 0..n PROVE f[i] = IF i = 0 THEN rows ELSE Added(f[i - 1], new[i])
    <3>1. i = 0 \/ i \in 1..n
      BY <1>1
    <3>. QED BY <1>1, <1>4, <1>5, <3>1
  <2>. QED BY <2>1, <2>2
<1>7. ASSUME NEW g, Follows(g) PROVE g = f
  <2>. DEFINE T == {i \in 0..n : g[i] = f[i]}
              h == [i \in 0..n |-> IF i = 0 THEN rows ELSE Added(g[i - 1], new[i])]
  <2>1. g = h /\ h = [i \in 0..n |-> h[i]]
    BY <1>7
  <2>2. g[0] = rows /\ \A i \in 1..n : g[i] = Added(g[i - 1], new[i])
    <3>1. 0 \in 0..n
      BY <1>1
    <3>2. ASSUME NEW i \in 0..n PROVE g[i] = IF i = 0 THEN rows ELSE Added(g[i - 1], new[i])
      BY <1>7
    <3>. HIDE DEF Follows
    <3>. QED BY <1>1, <3>1, <3>2
  <2>3. 0 \in T /\ \A k \in 1..n : k - 1 \in T => k \in T
    BY <1>1, <1>4, <1>5, <2>2
  <2>4. n \in Nat
    BY <1>1
  <2>5. 0..n \subseteq T
    <3>. HIDE DEF T, Follows
    <3>. QED BY <2>3, <2>4, Counting
  <2>6. g = [i \in 0..n |-> g[i]]
    <3>. HIDE DEF h
    <3>. QED BY <2>1
  <2>7. f = [i \in 0..n |-> f[i]]
    BY <1>4
  <2>. HIDE DEF Follows
  <2>. QED BY <2>5, <2>6, <2>7
<1>8. u = f
  <2>. HIDE DEF Follows
  <2>. QED BY <1>6, <1>7
<1>. HIDE DEF u
<1>9. f \in [0..n -> S] /\ f[0] = rows /\ AddedAll(rows, new) = f[n]
  BY <1>2, <1>4, <1>8
<1>. QED BY <1>5, <1>9 DEF n, S

LEMMA AddedAllIs ==
  ASSUME NEW rows, NEW new, Good(rows), Good(new), Range(rows) \subseteq Range(new)
  PROVE  AddedAll(rows, new) = new
<1>. DEFINE n == Len(new)
            S == {w \in Seq(Row) : Good(w) /\ Range(w) \subseteq Range(new)}
<1>1. n \in Nat /\ DOMAIN new = 1..n /\ \A i \in 1..n : i - 1 \in 0..n /\ new[i] \in Range(new)
  BY DEF Good, Range
<1>2. PICK u \in [0..n -> S] :
        /\ u[0] = rows /\ AddedAll(rows, new) = u[n]
        /\ \A i \in 1..n : u[i] = Added(u[i - 1], new[i])
  BY AddedAllSteps
<1>. DEFINE T == {k \in 0..n : \A i \in 1..k : new[i] \in Range(u[k])}
<1>3. 0 \in T
  BY <1>1
<1>4. ASSUME NEW k \in 1..n, k - 1 \in T PROVE k \in T
  <2>1. u[k - 1] \in S /\ \A i \in 1..(k - 1) : new[i] \in Range(u[k - 1])
    BY <1>1, <1>2, <1>4
  <2>2. Range(u[k]) = Range(u[k - 1]) \cup {new[k]}
    BY <1>1, <1>2, <2>1, AddedGood
  <2>3. k \in 0..n /\ \A i \in 1..k : i \in 1..(k - 1) \/ i = k
    BY <1>1
  <2>. QED BY <2>1, <2>2, <2>3
<1>5. 0..n \subseteq T
  <2>. HIDE DEF T, n
  <2>. QED BY <1>1, <1>3, <1>4, Counting
<1>6. n \in 0..n
  BY <1>1
<1>7. n \in T /\ u[n] \in S
  BY <1>2, <1>5, <1>6
<1>8. Good(u[n]) /\ Range(u[n]) = Range(new)
  <2>1. Good(u[n]) /\ Range(u[n]) \subseteq Range(new) /\ \A i \in 1..n : new[i] \in Range(u[n])
    BY <1>7
  <2>. QED BY <1>1, <2>1 DEF Range
<1>. QED BY <1>2, <1>8, SameEntries

-----------------------------------------------------------------------------
(* AppList: what a page shows *)

Pages == [open : BOOLEAN, showHidden : BOOLEAN, all : Seq(Row), rows : Seq(Row)]

LEMMA VisibleGood ==
  ASSUME NEW list, NEW p, Good(list)
  PROVE  /\ Good(getVisibleApps(list, p))
         /\ Range(getVisibleApps(list, p)) = {app \in Range(list) : IsVisible(app, p)}
<1>. DEFINE E == {app \in Range(list) : IsVisible(app, p)}
<1>1. E \subseteq Range(list)
  OBVIOUS
<1>2. getVisibleApps(list, p) = Filtered(list, E)
  BY DEF getVisibleApps
<1>. HIDE DEF E
<1>3. Good(Filtered(list, E)) /\ Range(Filtered(list, E)) = E
  BY <1>1, FilteredGood
<1>. QED BY <1>2, <1>3 DEF E

\* The rows that are changed one by one become the visible apps of the list.
LEMMA ShownIs ==
  ASSUME NEW list, NEW p \in Pages, Good(list), Good(p.rows)
  PROVE  LET q == Shown(list, p)
         IN  /\ q \in Pages /\ q.open = p.open /\ q.showHidden = p.showHidden
             /\ q.all = list /\ q.rows = getVisibleApps(list, p)
             /\ Good(q.rows) /\ Range(q.rows) \subseteq Range(q.all)
<1>. DEFINE new == getVisibleApps(list, p)
            q == Shown(list, p)
<1>1. Good(new) /\ Range(new) \subseteq Range(list)
  BY VisibleGood
<1>. HIDE DEF new
<1>2. AddedAll(Updated(p.rows, new), new) = new
  BY <1>1, UpdatedGood, AddedAllIs
<1>3. q = [p EXCEPT !.all = list, !.rows = new]
  BY <1>2 DEF Shown, new
<1>4. list \in Seq(Row) /\ new \in Seq(Row)
  BY <1>1 DEF Good
<1>. HIDE DEF q
<1>5. /\ q \in Pages /\ q.open = p.open /\ q.showHidden = p.showHidden
      /\ q.all = list /\ q.rows = new
  <2>. DEFINE S == Seq(Row)
  <2>. HIDE DEF S
  <2>1. p \in [open : BOOLEAN, showHidden : BOOLEAN, all : S, rows : S]
    BY DEF Pages, S
  <2>2. list \in S /\ new \in S
    BY <1>4 DEF S
  <2>3. /\ q \in [open : BOOLEAN, showHidden : BOOLEAN, all : S, rows : S]
        /\ q.open = p.open /\ q.showHidden = p.showHidden /\ q.all = list /\ q.rows = new
    BY <1>3, <2>1, <2>2
  <2>. QED BY <2>3 DEF Pages, S
<1>6. Good(q.rows) /\ Range(q.rows) \subseteq Range(q.all)
  BY <1>1, <1>5
<1>. QED BY <1>5, <1>6 DEF new, q

\* A row that was taken from the list is its entry.
LEMMA TakenFrom ==
  ASSUME NEW rows, NEW list, Good(list), Range(rows) \subseteq Range(list),
         NEW i \in DOMAIN rows, NEW j \in DOMAIN list, rows[i].id = list[j].id
  PROVE  rows[i] = list[j]
<1>1. PICK k \in DOMAIN list : rows[i] = list[k]
  BY DEF Range
<1>. QED BY <1>1, OneOfAnId

-----------------------------------------------------------------------------
(* AppList: the steps keep the invariant *)

LEMMA EmptyGood == Good(<<>>) /\ Range(<<>>) = {} /\ DOMAIN <<>> = {} /\ <<>> \in Seq(Row)
  BY DEF Good, Sorted, Range

LEMMA PagesAreBlank ==
  ASSUME NEW b \in BOOLEAN, NEW c \in BOOLEAN
  PROVE  LET p == Page(b, c)
         IN  /\ p \in Pages /\ p.open = b /\ p.showHidden = c
             /\ p.all = <<>> /\ p.rows = <<>>
<1>. DEFINE e == <<>>
            S == Seq(Row)
            p == Page(b, c)
<1>1. p = [open |-> b, showHidden |-> c, all |-> e, rows |-> e] /\ e \in S
  BY EmptyGood DEF Page
<1>. HIDE DEF e, p, S
<1>2. /\ p \in [open : BOOLEAN, showHidden : BOOLEAN, all : S, rows : S]
      /\ p.open = b /\ p.showHidden = c /\ p.all = e /\ p.rows = e
  BY <1>1
<1>. QED BY <1>2 DEF Pages, S, e, p

LEMMA NoPageGood ==
  ASSUME page' = NoPage
  PROVE  PageGood' /\ page'.rows = <<>>
<1>1. page' \in Pages /\ page'.all = <<>> /\ page'.rows = <<>>
  BY PagesAreBlank DEF NoPage
<1>. QED BY <1>1, EmptyGood DEF PageGood, Pages

LEMMA ListInitHolds == ListInit => ListInv
<1>. SUFFICES ASSUME ListInit PROVE ListInv
  OBVIOUS
<1>1. hostList = <<>> /\ page = NoPage /\ announced = FALSE /\ lost = FALSE
  BY DEF ListInit
<1>2. page \in Pages /\ page.all = <<>> /\ page.rows = <<>>
  BY <1>1, PagesAreBlank DEF NoPage
<1>3. PageGood
  BY <1>1, <1>2, EmptyGood DEF PageGood, Pages
<1>4. RowsNotAhead /\ OneDirectLaunch
  BY <1>1, EmptyGood DEF RowsNotAhead, OneDirectLaunch
<1>. QED BY <1>1, <1>3, <1>4, EmptyGood DEF ListInv

\* A list from the host: choices of apps that are listed again stay as they are,
\* and an app that was not listed has none.
LEMMA ListArrives ==
  ASSUME OwnNames, ListInv, updateAppList
  PROVE  /\ Good(hostList')
         /\ \A j \in DOMAIN hostList' :
              \/ \E i \in DOMAIN hostList :
                   /\ hostList[i].id = hostList'[j].id
                   /\ hostList'[j].hidden = hostList[i].hidden
                   /\ hostList'[j].direct = hostList[i].direct
              \/ /\ \A i \in DOMAIN hostList : hostList[i].id # hostList'[j].id
                 /\ ~hostList'[j].hidden /\ ~hostList'[j].direct
<1>1. PICK list \in Answers : hostList' \in sortAppList(Propagated(list))
  BY DEF updateAppList
<1>2. PICK ids \in Orders, names \in Namings : list = Named(ids, names)
  BY <1>1 DEF Answers
<1>3. PICK n \in Nat : ids \in [1..n -> Apps] /\ IsInjective(ids)
  BY <1>2, AppsSort, FS_CardinalityType DEF Orders
<1>4. /\ list = [i \in 1..n |-> [id |-> ids[i], name |-> ids[i],
                                 hidden |-> FALSE, direct |-> FALSE]]
      /\ DOMAIN list = 1..n
  <2>1. \A i \in 1..n : names[ids[i]] = ids[i]
    BY <1>2, <1>3 DEF Namings, OwnNames
  <2>. QED BY <1>2, <1>3, <2>1 DEF Named
<1>. DEFINE new == Propagated(list)
            Kept(app) == \E i \in DOMAIN hostList :
                           /\ hostList[i].id = app.id /\ app.hidden = hostList[i].hidden
                           /\ app.direct = hostList[i].direct
            Fresh(app) == /\ \A i \in DOMAIN hostList : hostList[i].id # app.id
                          /\ ~app.hidden /\ ~app.direct
<1>5. /\ DOMAIN new = 1..n
      /\ \A i \in 1..n : new[i] \in Row /\ new[i].id = ids[i]
      /\ \A i \in 1..n : Kept(new[i]) \/ Fresh(new[i])
  <2>1. DOMAIN new = 1..n
    BY <1>4 DEF Propagated
  <2>2. ASSUME NEW i \in 1..n
        PROVE  new[i] \in Row /\ new[i].id = ids[i] /\ (Kept(new[i]) \/ Fresh(new[i]))
    <3>. DEFINE id == ids[i]
                app == [id |-> id, name |-> id, hidden |-> FALSE, direct |-> FALSE]
    <3>1. id \in Apps /\ list[i] = app
      BY <1>3, <1>4
    <3>2. CASE Has(hostList, id)
      <4>1. PICK k \in DOMAIN hostList : hostList[k].id = id
        BY <3>2 DEF Has
      <4>2. Entry(hostList, id) = hostList[k] /\ hostList[k] \in Row
        BY <4>1, EntryIs DEF ListInv, Good
      <4>3. new[i] = [app EXCEPT !.hidden = hostList[k].hidden, !.direct = hostList[k].direct]
        BY <1>4, <3>1, <3>2, <4>2 DEF Propagated
      <4>4. new[i] = [id |-> id, name |-> id, hidden |-> hostList[k].hidden,
                      direct |-> hostList[k].direct]
        BY <4>3
      <4>5. hostList[k].hidden \in BOOLEAN /\ hostList[k].direct \in BOOLEAN
        BY <4>2 DEF Row, NvApp
      <4>6. new[i] \in Row
        BY <3>1, <4>4, <4>5 DEF Row, NvApp
      <4>. QED BY <4>1, <4>4, <4>6
    <3>3. CASE ~Has(hostList, id)
      <4>1. new[i] = app
        BY <1>4, <3>1, <3>3 DEF Propagated
      <4>2. new[i] \in Row
        BY <3>1, <4>1 DEF Row, NvApp
      <4>3. app.id = id /\ ~app.hidden /\ ~app.direct
        OBVIOUS
      <4>4. \A k \in DOMAIN hostList : hostList[k].id # id
        BY <3>3 DEF Has
      <4>. HIDE DEF app
      <4>5. Fresh(new[i])
        BY <4>1, <4>3, <4>4
      <4>6. new[i].id = id
        BY <4>1, <4>3
      <4>. QED BY <4>2, <4>5, <4>6
    <3>. QED BY <3>2, <3>3
  <2>. QED BY <2>1, <2>2
<1>. HIDE DEF new, Kept, Fresh
<1>6. PICK from \in [1..n -> 1..n] :
        /\ hostList' = [i \in 1..n |-> new[from[i]]]
        /\ \A i, j \in 1..n : i < j => Before(new, from[i], from[j])
  BY <1>1, <1>5 DEF sortAppList, new
<1>7. \A j \in 1..n : hostList'[j] \in Row /\ (Kept(hostList'[j]) \/ Fresh(hostList'[j]))
  <2>1. \A j \in 1..n : from[j] \in 1..n /\ hostList'[j] = new[from[j]]
    BY <1>6
  <2>. QED BY <1>5, <2>1
<1>8. hostList' \in Seq(Row)
  BY <1>6, <1>7
<1>9. Sorted(hostList')
  <2>. SUFFICES ASSUME NEW i \in 1..n, NEW j \in 1..n, i < j
                PROVE  hostList'[i].id < hostList'[j].id
    BY <1>6 DEF Sorted
  <2>. DEFINE k == from[i]
              l == from[j]
  <2>1. k \in 1..n /\ l \in 1..n /\ hostList'[i] = new[k] /\ hostList'[j] = new[l]
    BY <1>6
  <2>2. Before(new, k, l)
    BY <1>6
  <2>. HIDE DEF k, l
  <2>3. new[k].name = new[k].id /\ new[l].name = new[l].id
    BY <1>5, <2>1, AppsAreNumbers
  <2>4. CASE new[k].name < new[l].name
    BY <2>1, <2>3, <2>4
  <2>5. CASE new[k].name = new[l].name /\ k < l
    <3>1. ids[k] = ids[l]
      BY <1>5, <2>1, <2>3, <2>5
    <3>2. k = l
      BY <1>3, <2>1, <3>1 DEF IsInjective
    <3>. QED BY <2>1, <2>5, <3>2
  <2>. QED BY <2>2, <2>4, <2>5 DEF Before
<1>. QED BY <1>6, <1>7, <1>8, <1>9 DEF Good, Kept, Fresh

LEMMA ListArrivesKeeps ==
  ASSUME OwnNames, ListInv, updateAppList
  PROVE  ListInv'
<1>1. page' = page /\ lost' = lost /\ announced' \in BOOLEAN
  <2>1. PICK list : announced' = (announced \/ Changed(list)) /\ page' = page /\ lost' = lost
    BY DEF updateAppList
  <2>2. (announced \/ Changed(list)) \in BOOLEAN
    OBVIOUS
  <2>. QED BY <2>1, <2>2
<1>2. PageGood'
  BY <1>1 DEF ListInv, PageGood
<1>3. RowsNotAhead'
  BY <1>1, ListArrives DEF ListInv, RowsNotAhead, NoNewChoice
<1>4. OneDirectLaunch'
  <2>. SUFFICES ASSUME NEW i \in DOMAIN hostList', NEW j \in DOMAIN hostList',
                       hostList'[i].direct
                PROVE  ~hostList'[i].hidden /\ (hostList'[j].direct => i = j)
    BY DEF OneDirectLaunch
  <2>1. PICK k \in DOMAIN hostList : /\ hostList[k].id = hostList'[i].id
                                     /\ hostList'[i].hidden = hostList[k].hidden
                                     /\ hostList[k].direct
    BY ListArrives
  <2>2. ~hostList'[i].hidden
    BY <2>1 DEF ListInv, OneDirectLaunch
  <2>3. ASSUME hostList'[j].direct PROVE i = j
    <3>1. PICK l \in DOMAIN hostList : hostList[l].id = hostList'[j].id /\ hostList[l].direct
      BY <2>3, ListArrives
    <3>2. k = l
      BY <2>1, <3>1 DEF ListInv, OneDirectLaunch
    <3>3. hostList'[i].id = hostList'[j].id
      BY <2>1, <3>1, <3>2
    <3>. QED BY <3>3, ListArrives, OneOfAnId
  <2>. QED BY <2>2, <2>3
<1>. QED BY <1>1, <1>2, <1>3, <1>4, ListArrives DEF ListInv

\* A page that shows the host's list is ahead of nothing.
LEMMA ShownNotAhead ==
  ASSUME Good(hostList'), Range(page'.rows) \subseteq Range(hostList')
  PROVE  RowsNotAhead'
<1>. SUFFICES ASSUME NEW i \in DOMAIN page'.rows, NEW j \in DOMAIN hostList',
                     page'.rows[i].id = hostList'[j].id
              PROVE  NoNewChoice(page'.rows[i], hostList'[j])
  BY DEF RowsNotAhead
<1>1. page'.rows[i] = hostList'[j]
  BY TakenFrom
<1>. QED BY <1>1 DEF NoNewChoice

\* The page is shown anew, or stays.
LEMMA ShownKeeps ==
  ASSUME ListInv, NEW list, Good(list), hostList' = list,
         page' = IF list # page.all THEN Shown(list, page) ELSE page,
         page.open
  PROVE  PageGood' /\ RowsNotAhead'
<1>1. PageGood /\ page \in Pages
  BY DEF ListInv, PageGood, Pages
<1>2. /\ page' \in Pages /\ page'.open /\ page'.all = list
      /\ Good(page'.rows) /\ Range(page'.rows) \subseteq Range(page'.all)
  <2>1. CASE list # page.all
    BY <1>1, <2>1, ShownIs DEF PageGood
  <2>2. CASE list = page.all
    BY <1>1, <2>2 DEF PageGood
  <2>. QED BY <2>1, <2>2
<1>3. PageGood'
  BY <1>2 DEF PageGood, Pages
<1>4. RowsNotAhead'
  BY <1>2, ShownNotAhead
<1>. QED BY <1>3, <1>4

LEMMA OpensKeeps ==
  ASSUME ListInv, OpenPage
  PROVE  ListInv'
<1>1. PICK b \in BOOLEAN : page' = Shown(hostList, Page(TRUE, b))
  BY DEF OpenPage
<1>2. UNCHANGED <<lost, hostList, announced>>
  BY DEF OpenPage
<1>. DEFINE p == Page(TRUE, b)
<1>3. p \in Pages /\ p.open /\ p.rows = <<>>
  BY PagesAreBlank
<1>. HIDE DEF p
<1>4. Good(hostList) /\ Good(p.rows)
  BY <1>3, EmptyGood DEF ListInv
<1>5. /\ page' \in Pages /\ page'.open /\ page'.all = hostList
      /\ Good(page'.rows) /\ Range(page'.rows) \subseteq Range(page'.all)
  <2>1. page' = Shown(hostList, p)
    BY <1>1 DEF p
  <2>. QED BY <1>3, <1>4, <2>1, ShownIs
<1>6. PageGood'
  BY <1>4, <1>5 DEF PageGood, Pages
<1>7. RowsNotAhead'
  BY <1>2, <1>4, <1>5, ShownNotAhead
<1>8. OneDirectLaunch'
  BY <1>2 DEF ListInv, OneDirectLaunch
<1>. QED BY <1>2, <1>4, <1>6, <1>7, <1>8 DEF ListInv

LEMMA ClosesKeeps ==
  ASSUME ListInv, ClosePage
  PROVE  ListInv'
<1>1. page' = NoPage /\ UNCHANGED <<lost, hostList, announced>>
  BY DEF ClosePage
<1>2. PageGood' /\ RowsNotAhead'
  BY <1>1, NoPageGood, EmptyGood DEF RowsNotAhead
<1>. QED BY <1>1, <1>2 DEF ListInv, OneDirectLaunch

LEMMA LostKeeps ==
  ASSUME ListInv, HostLostOrFound
  PROVE  ListInv'
  BY DEF HostLostOrFound, ListInv, PageGood, RowsNotAhead, OneDirectLaunch

LEMMA SignalKeeps ==
  ASSUME ListInv, handleComputerStateChanged
  PROVE  ListInv'
<1>1. hostList' = hostList /\ announced' = FALSE /\ lost' = lost
  BY DEF handleComputerStateChanged, SignalTaken
<1>2. PageGood' /\ RowsNotAhead'
  <2>1. CASE ~lost /\ page.open
    <3>1. page' = IF hostList # page.all THEN Shown(hostList, page) ELSE page
      BY <2>1 DEF handleComputerStateChanged
    <3>. QED BY <1>1, <2>1, <3>1, ShownKeeps DEF ListInv
  <2>2. CASE page' = page
    BY <1>1, <2>2 DEF ListInv, PageGood, RowsNotAhead
  <2>3. CASE page' = NoPage
    BY <2>3, NoPageGood, EmptyGood DEF RowsNotAhead
  <2>. QED BY <2>1, <2>2, <2>3 DEF handleComputerStateChanged
<1>. QED BY <1>1, <1>2 DEF ListInv, OneDirectLaunch

\* A choice is made for a row, and what the row says of the host's entry may be
\* out of date.
LEMMA RowIs ==
  ASSUME ListInv, NEW i \in DOMAIN page.rows
  PROVE  /\ page.open /\ page.rows[i] \in Row
         /\ \A j \in DOMAIN hostList :
              hostList[j].id = page.rows[i].id => NoNewChoice(page.rows[i], hostList[j])
<1>1. page.open
  <2>. SUFFICES ASSUME ~page.open PROVE FALSE
    OBVIOUS
  <2>1. page.rows = <<>>
    BY PagesAreBlank DEF ListInv, PageGood, NoPage
  <2>. QED BY <2>1, EmptyGood
<1>2. page.rows[i] \in Row
  BY DEF ListInv, PageGood, Good
<1>. QED BY <1>1, <1>2 DEF ListInv, RowsNotAhead

\* A choice shows the list anew, or the page of a lost host closes.
LEMMA ChosenKeeps ==
  ASSUME ListInv, NEW list, Good(list), Chosen(list), page.open
  PROVE  PageGood' /\ RowsNotAhead' /\ announced' \in BOOLEAN /\ lost' \in BOOLEAN
<1>1. hostList' = list /\ announced' \in BOOLEAN /\ lost' \in BOOLEAN
  BY DEF Chosen, ListInv
<1>2. CASE lost
  <2>1. page' = NoPage
    BY <1>2 DEF Chosen
  <2>. QED BY <1>1, <2>1, NoPageGood, EmptyGood DEF RowsNotAhead
<1>3. CASE ~lost
  <2>1. page' = IF list # page.all THEN Shown(list, page) ELSE page
    BY <1>3 DEF Chosen
  <2>. QED BY <1>1, <2>1, ShownKeeps
<1>. QED BY <1>2, <1>3

\* New flags for some entries leave the list sorted.
LEMMA FlagsGood ==
  ASSUME NEW list, Good(list), NEW new, DOMAIN new = DOMAIN list,
         new = [i \in DOMAIN list |-> new[i]],
         \A i \in DOMAIN list : new[i] \in Row /\ new[i].id = list[i].id
  PROVE  Good(new)
<1>1. Len(list) \in Nat /\ DOMAIN list = 1..Len(list)
  BY DEF Good
<1>2. new \in Seq(Row)
  BY <1>1
<1>. QED BY <1>2 DEF Good, Sorted

LEMMA HidingKeeps ==
  ASSUME ListInv, setAppHidden
  PROVE  ListInv'
<1>1. PICK i \in DOMAIN page.rows :
        /\ MayHide(page.rows[i])
        /\ Chosen([j \in DOMAIN hostList |->
                     IF hostList[j].id = page.rows[i].id
                     THEN [hostList[j] EXCEPT !.hidden = ~page.rows[i].hidden] ELSE hostList[j]])
  BY DEF setAppHidden
<1>. DEFINE row == page.rows[i]
            list == [j \in DOMAIN hostList |->
                       IF hostList[j].id = row.id
                       THEN [hostList[j] EXCEPT !.hidden = ~row.hidden] ELSE hostList[j]]
<1>2. DOMAIN list = DOMAIN hostList /\ list = [j \in DOMAIN hostList |-> list[j]]
  OBVIOUS
<1>3. ASSUME NEW j \in DOMAIN hostList
      PROVE  /\ list[j] \in Row /\ list[j].id = hostList[j].id
             /\ list[j].direct = hostList[j].direct
             /\ list[j].hidden = IF hostList[j].id = row.id THEN ~row.hidden
                                 ELSE hostList[j].hidden
  <2>1. hostList[j] \in Row
    BY DEF ListInv, Good
  <2>2. CASE hostList[j].id = row.id
    <3>1. list[j] = [hostList[j] EXCEPT !.hidden = ~row.hidden]
      BY <2>2
    <3>. HIDE DEF list
    <3>. QED BY <2>1, <2>2, <3>1 DEF Row, NvApp
  <2>3. CASE hostList[j].id # row.id
    BY <2>1, <2>3
  <2>. QED BY <2>2, <2>3
<1>. HIDE DEF list
<1>4. Good(list)
  BY <1>2, <1>3, FlagsGood DEF ListInv
<1>5. hostList' = list /\ Chosen(list)
  BY <1>1 DEF Chosen, list
<1>6. PageGood' /\ RowsNotAhead' /\ announced' \in BOOLEAN /\ lost' \in BOOLEAN
  BY <1>4, <1>5, RowIs, ChosenKeeps
<1>7. OneDirectLaunch'
  <2>. SUFFICES ASSUME NEW j \in DOMAIN hostList, NEW k \in DOMAIN hostList, list[j].direct
                PROVE  ~list[j].hidden /\ (list[k].direct => j = k)
    BY <1>2, <1>5 DEF OneDirectLaunch
  <2>1. hostList[j].direct /\ ~hostList[j].hidden /\ (hostList[k].direct => j = k)
    BY <1>3 DEF ListInv, OneDirectLaunch
  <2>2. hostList[j].id = row.id => row.direct
    BY <2>1, RowIs DEF NoNewChoice
  <2>3. hostList[j].id = row.id => row.hidden
    BY <1>1, <2>2 DEF MayHide
  <2>. QED BY <1>3, <2>1, <2>3
<1>. QED BY <1>4, <1>5, <1>6, <1>7 DEF ListInv

LEMMA LaunchingKeeps ==
  ASSUME ListInv, setAppDirectLaunch
  PROVE  ListInv'
<1>1. PICK i \in DOMAIN page.rows :
        /\ ~page.rows[i].hidden
        /\ Chosen([j \in DOMAIN hostList |->
                     IF ~page.rows[i].direct \/ hostList[j].id = page.rows[i].id
                     THEN [hostList[j] EXCEPT !.direct = ~page.rows[i].direct
                                                         /\ hostList[j].id = page.rows[i].id]
                     ELSE hostList[j]])
  BY DEF setAppDirectLaunch
<1>. DEFINE row == page.rows[i]
            list == [j \in DOMAIN hostList |->
                       IF ~row.direct \/ hostList[j].id = row.id
                       THEN [hostList[j] EXCEPT !.direct = ~row.direct /\ hostList[j].id = row.id]
                       ELSE hostList[j]]
<1>2. DOMAIN list = DOMAIN hostList /\ list = [j \in DOMAIN hostList |-> list[j]]
  OBVIOUS
<1>3. ASSUME NEW j \in DOMAIN hostList
      PROVE  /\ list[j] \in Row /\ list[j].id = hostList[j].id
             /\ list[j].hidden = hostList[j].hidden
             /\ list[j].direct = IF ~row.direct \/ hostList[j].id = row.id
                                 THEN ~row.direct /\ hostList[j].id = row.id
                                 ELSE hostList[j].direct
  <2>1. hostList[j] \in Row
    BY DEF ListInv, Good
  <2>2. CASE ~row.direct \/ hostList[j].id = row.id
    <3>. DEFINE d == ~row.direct /\ hostList[j].id = row.id
    <3>1. list[j] = [hostList[j] EXCEPT !.direct = d] /\ d \in BOOLEAN
      BY <2>2
    <3>. HIDE DEF list, d
    <3>2. /\ list[j] \in Row /\ list[j].id = hostList[j].id
          /\ list[j].hidden = hostList[j].hidden /\ list[j].direct = d
      BY <2>1, <3>1 DEF Row, NvApp
    <3>. QED BY <2>2, <3>2 DEF d
  <2>3. CASE ~(~row.direct \/ hostList[j].id = row.id)
    BY <2>1, <2>3
  <2>. QED BY <2>2, <2>3
<1>. HIDE DEF list
<1>4. Good(list)
  BY <1>2, <1>3, FlagsGood DEF ListInv
<1>5. hostList' = list /\ Chosen(list)
  BY <1>1 DEF Chosen, list
<1>6. PageGood' /\ RowsNotAhead' /\ announced' \in BOOLEAN /\ lost' \in BOOLEAN
  BY <1>4, <1>5, RowIs, ChosenKeeps
<1>7. OneDirectLaunch'
  <2>. SUFFICES ASSUME NEW j \in DOMAIN hostList, NEW k \in DOMAIN hostList, list[j].direct
                PROVE  ~list[j].hidden /\ (list[k].direct => j = k)
    BY <1>2, <1>5 DEF OneDirectLaunch
  <2>1. CASE ~row.direct
    <3>1. hostList[j].id = row.id /\ (list[k].direct => hostList[k].id = row.id)
      BY <1>3, <2>1
    <3>2. ~hostList[j].hidden
      BY <1>1, <3>1, RowIs DEF NoNewChoice
    <3>3. list[k].direct => j = k
      BY <3>1, OneOfAnId DEF ListInv
    <3>. QED BY <1>3, <3>2, <3>3
  <2>2. CASE row.direct
    <3>1. hostList[j].direct /\ (list[k].direct => hostList[k].direct)
      BY <1>3, <2>2
    <3>2. ~hostList[j].hidden /\ (hostList[k].direct => j = k)
      BY <3>1 DEF ListInv, OneDirectLaunch
    <3>. QED BY <1>3, <3>1, <3>2
  <2>. QED BY <2>1, <2>2
<1>. QED BY <1>4, <1>5, <1>6, <1>7 DEF ListInv

LEMMA ListInductive == OwnNames /\ ListInv /\ [ListNext]_listVars => ListInv'
<1>. SUFFICES ASSUME OwnNames, ListInv, [ListNext]_listVars PROVE ListInv'
  OBVIOUS
<1>1. CASE UNCHANGED listVars
  BY <1>1 DEF listVars, ListInv, PageGood, RowsNotAhead, OneDirectLaunch
<1>2. CASE ListNext
  BY <1>2, ListArrivesKeeps, LostKeeps, SignalKeeps, OpensKeeps, ClosesKeeps, HidingKeeps, LaunchingKeeps
     DEF ListNext, PageStep
<1>. QED BY <1>1, <1>2

-----------------------------------------------------------------------------
(* AppList: the properties *)

LEMMA GoodIsTyped ==
  ASSUME NEW list, Good(list)
  PROVE  /\ list \in Seq(NvApp)
         /\ \A i, j \in DOMAIN list : list[i].id = list[j].id => i = j
<1>1. Row \subseteq NvApp
  BY DEF Row
<1>2. list \in Seq(NvApp)
  BY <1>1 DEF Good
<1>3. \A i, j \in DOMAIN list : list[i].id = list[j].id => i = j
  BY OneOfAnId
<1>. QED BY <1>2, <1>3

LEMMA ListInvImplies == ListInv => ListsAgree
<1>. SUFFICES ASSUME ListInv PROVE ListTypeOK
  BY DEF ListsAgree, ListInv
<1>1. Good(hostList) /\ Good(page.all) /\ Good(page.rows)
  BY DEF ListInv, PageGood
<1>2. lost \in BOOLEAN /\ announced \in BOOLEAN /\ page.open \in BOOLEAN /\ page.showHidden \in BOOLEAN
  BY DEF ListInv, PageGood
<1>3. ASSUME NEW list \in {hostList, page.all, page.rows} PROVE Good(list)
  BY <1>1, <1>3
<1>4. \A list \in {hostList, page.all, page.rows} :
        /\ list \in Seq(NvApp)
        /\ \A i, j \in DOMAIN list : list[i].id = list[j].id => i = j
  BY <1>3, GoodIsTyped
<1>. QED BY <1>2, <1>4 DEF ListTypeOK, NvApp

\* The rows of an open page after a step that changes it, and what of a page
\* decides which apps are visible.
LEMMA VisibleDependsOn ==
  ASSUME NEW list, NEW p, NEW q, p.showHidden = q.showHidden, p.rows = q.rows
  PROVE  getVisibleApps(list, p) = getVisibleApps(list, q)
  BY DEF getVisibleApps, IsVisible

LEMMA PageSteps ==
  ASSUME OwnNames, ListInv, [ListNext]_listVars, page' # page, page'.open
  PROVE  /\ page'.rows = getVisibleApps(page'.all, [page EXCEPT !.showHidden = page'.showHidden])
         /\ page.open => page'.rows = getVisibleApps(page'.all, page)
<1>1. page \in Pages /\ Good(page.rows) /\ Good(hostList)
  BY DEF ListInv, PageGood, Pages
<1>. DEFINE p(b) == [page EXCEPT !.showHidden = b]
<1>2. \A b : p(b).showHidden = b /\ p(b).rows = page.rows
  BY <1>1 DEF Pages
<1>. HIDE DEF p
<1>. SUFFICES /\ page'.rows = getVisibleApps(page'.all, p(page'.showHidden))
              /\ page.open => page'.rows = getVisibleApps(page'.all, page)
  BY DEF p
<1>3. ASSUME NEW list, Good(list), page' = Shown(list, page)
      PROVE  /\ page'.rows = getVisibleApps(page'.all, p(page'.showHidden))
             /\ page'.rows = getVisibleApps(page'.all, page)
  <2>1. /\ page'.showHidden = page.showHidden
        /\ page'.all = list /\ page'.rows = getVisibleApps(list, page)
    BY <1>1, <1>3, ShownIs
  <2>2. getVisibleApps(list, page) = getVisibleApps(list, p(page'.showHidden))
    BY <1>2, <2>1, VisibleDependsOn
  <2>. QED BY <2>1, <2>2
<1>4. CASE OpenPage
  <2>1. PICK b \in BOOLEAN : page' = Shown(hostList, Page(TRUE, b))
    BY <1>4 DEF OpenPage
  <2>. DEFINE q == Page(TRUE, b)
  <2>2. q \in Pages /\ q.showHidden = b /\ q.rows = <<>>
    BY PagesAreBlank
  <2>3. ~page.open /\ page.rows = <<>>
    BY <1>4, PagesAreBlank DEF OpenPage, ListInv, PageGood, NoPage
  <2>4. page' = Shown(hostList, q)
    BY <2>1
  <2>. HIDE DEF q
  <2>5. /\ page'.showHidden = b /\ page'.all = hostList
        /\ page'.rows = getVisibleApps(hostList, q)
    BY <1>1, <2>2, <2>4, EmptyGood, ShownIs
  <2>6. getVisibleApps(hostList, q) = getVisibleApps(hostList, p(b))
    BY <1>2, <2>2, <2>3, VisibleDependsOn
  <2>. QED BY <2>3, <2>5, <2>6
<1>5. CASE ClosePage
  BY <1>5, PagesAreBlank DEF ClosePage, NoPage
<1>6. CASE handleComputerStateChanged
  <2>0. page' # NoPage
    BY PagesAreBlank DEF NoPage
  <2>1. page' = Shown(hostList, page)
    BY <1>6, <2>0 DEF handleComputerStateChanged
  <2>. QED BY <1>1, <1>3, <2>1
<1>7. CASE setAppHidden \/ setAppDirectLaunch
  <2>1. PICK list : Chosen(list)
    BY <1>7 DEF setAppHidden, setAppDirectLaunch
  <2>0. page' # NoPage
    BY PagesAreBlank DEF NoPage
  <2>2. hostList' = list /\ page' = Shown(list, page)
    BY <2>0, <2>1 DEF Chosen
  <2>3. ListInv'
    BY ListInductive
  <2>4. Good(list)
    BY <2>2, <2>3 DEF ListInv
  <2>. QED BY <1>3, <2>2, <2>4
<1>8. CASE updateAppList \/ HostLostOrFound \/ UNCHANGED listVars
  BY <1>8 DEF updateAppList, HostLostOrFound, listVars
<1>. QED BY <1>4, <1>5, <1>6, <1>7, <1>8 DEF ListNext, PageStep

\* An entry of a list that is shown stays an entry of the page.
LEMMA NoneVanishesStep ==
  ASSUME OwnNames, ListInv, [ListNext]_listVars, page.open, page'.open,
         NEW i \in DOMAIN page.rows, Has(page'.all, page.rows[i].id)
  PROVE  Has(page'.rows, page.rows[i].id)
<1>1. CASE page' = page
  BY <1>1 DEF Has
<1>2. CASE page' # page
  <2>1. page'.rows = getVisibleApps(page'.all, page)
    BY <1>2, PageSteps
  <2>2. Good(page'.all)
    BY ListInductive DEF ListInv, PageGood
  <2>3. PICK k \in DOMAIN page'.all : page'.all[k].id = page.rows[i].id
    BY DEF Has
  <2>4. IsVisible(page'.all[k], page) /\ page'.all[k] \in Range(page'.all)
    BY <2>3 DEF IsVisible, Has, Range
  <2>5. page'.all[k] \in Range(page'.rows)
    BY <2>1, <2>2, <2>4, VisibleGood
  <2>. QED BY <2>3, <2>5 DEF Range, Has
<1>. QED BY <1>1, <1>2

\* A choice always shows the list anew: its row is an entry of the list that is
\* shown, and the choice changes it.
LEMMA ChoicesShow ==
  ASSUME OwnNames, ListInv, ~lost, setAppHidden \/ setAppDirectLaunch
  PROVE  page' # page
<1>1. \E list : Chosen(list) /\ \E i \in DOMAIN page.rows :
                                 \A j \in DOMAIN list : list[j] # page.rows[i]
  <2>1. CASE setAppHidden
    <3>1. PICK i \in DOMAIN page.rows :
            Chosen([j \in DOMAIN hostList |->
                      IF hostList[j].id = page.rows[i].id
                      THEN [hostList[j] EXCEPT !.hidden = ~page.rows[i].hidden]
                      ELSE hostList[j]])
      BY <2>1 DEF setAppHidden
    <3>. DEFINE row == page.rows[i]
                list == [j \in DOMAIN hostList |->
                           IF hostList[j].id = row.id
                           THEN [hostList[j] EXCEPT !.hidden = ~row.hidden] ELSE hostList[j]]
    <3>2. ASSUME NEW j \in DOMAIN list PROVE list[j] # row
      <4>1. hostList[j] \in Row /\ row \in Row
        BY RowIs DEF ListInv, Good
      <4>2. CASE hostList[j].id = row.id
        <5>1. list[j] = [hostList[j] EXCEPT !.hidden = ~row.hidden]
          BY <4>2
        <5>. HIDE DEF list, row
        <5>2. list[j].hidden = ~row.hidden /\ row.hidden \in BOOLEAN
          BY <4>1, <5>1 DEF Row, NvApp
        <5>. QED BY <5>2
      <4>3. CASE hostList[j].id # row.id
        BY <4>3
      <4>. QED BY <4>2, <4>3
    <3>3. Chosen(list)
      BY <3>1
    <3>. HIDE DEF list
    <3>. QED BY <3>2, <3>3
  <2>2. CASE setAppDirectLaunch
    <3>1. PICK i \in DOMAIN page.rows :
            Chosen([j \in DOMAIN hostList |->
                     IF ~page.rows[i].direct \/ hostList[j].id = page.rows[i].id
                     THEN [hostList[j] EXCEPT !.direct = ~page.rows[i].direct
                                                         /\ hostList[j].id = page.rows[i].id]
                     ELSE hostList[j]])
      BY <2>2 DEF setAppDirectLaunch
    <3>. DEFINE row == page.rows[i]
                list == [j \in DOMAIN hostList |->
                           IF ~row.direct \/ hostList[j].id = row.id
                           THEN [hostList[j] EXCEPT !.direct = ~row.direct
                                                               /\ hostList[j].id = row.id]
                           ELSE hostList[j]]
    <3>2. ASSUME NEW j \in DOMAIN list PROVE list[j] # row
      <4>1. hostList[j] \in Row /\ row \in Row
        BY RowIs DEF ListInv, Good
      <4>2. CASE hostList[j].id = row.id
        <5>. DEFINE d == ~row.direct /\ hostList[j].id = row.id
        <5>1. list[j] = [hostList[j] EXCEPT !.direct = d]
          BY <4>2
        <5>2. d = ~row.direct
          BY <4>2
        <5>. HIDE DEF list, row, d
        <5>3. list[j].direct = d /\ row.direct \in BOOLEAN
          BY <4>1, <5>1 DEF Row, NvApp
        <5>. QED BY <5>2, <5>3
      <4>3. CASE hostList[j].id # row.id
        <5>. DEFINE d == ~row.direct /\ hostList[j].id = row.id
        <5>1. list[j] \in {hostList[j], [hostList[j] EXCEPT !.direct = d]}
          OBVIOUS
        <5>. HIDE DEF list, row, d
        <5>2. list[j].id = hostList[j].id
          BY <4>1, <5>1 DEF Row, NvApp
        <5>. QED BY <4>3, <5>2
      <4>. QED BY <4>2, <4>3
    <3>3. Chosen(list)
      BY <3>1
    <3>. HIDE DEF list
    <3>. QED BY <3>2, <3>3
  <2>. QED BY <2>1, <2>2
<1>2. PICK list : Chosen(list) /\ \E i \in DOMAIN page.rows :
                                   \A j \in DOMAIN list : list[j] # page.rows[i]
  BY <1>1
<1>3. list # page.all
  <2>1. PICK i \in DOMAIN page.rows : \A j \in DOMAIN list : list[j] # page.rows[i]
    BY <1>2
  <2>2. page.rows[i] \in Range(page.all)
    BY DEF ListInv, PageGood, Range
  <2>. QED BY <2>1, <2>2 DEF Range
<1>4. page' = Shown(list, page) /\ hostList' = list
  BY <1>2, <1>3 DEF Chosen
<1>5. page \in Pages /\ Good(page.rows) /\ Good(list)
  BY <1>4, ListInductive DEF ListInv, PageGood, Pages, ListNext, PageStep
<1>6. page'.all = list
  BY <1>4, <1>5, ShownIs
<1>. QED BY <1>3, <1>6

LEMMA ChoicesKeptStep ==
  ASSUME OwnNames, ListInv, [ListNext]_listVars,
         NEW i \in DOMAIN hostList, NEW j \in DOMAIN hostList',
         hostList[i].id = hostList'[j].id, page' = page, ~lost
  PROVE  hostList[i].hidden = hostList'[j].hidden /\ hostList[i].direct = hostList'[j].direct
<1>1. CASE updateAppList
  <2>1. PICK k \in DOMAIN hostList :
          /\ hostList[k].id = hostList'[j].id
          /\ hostList'[j].hidden = hostList[k].hidden
          /\ hostList'[j].direct = hostList[k].direct
    BY <1>1, ListArrives
  <2>2. k = i
    BY <2>1, OneOfAnId DEF ListInv
  <2>. QED BY <2>1, <2>2
<1>2. CASE hostList' = hostList
  <2>1. i = j
    BY <1>2, OneOfAnId DEF ListInv
  <2>. QED BY <1>2, <2>1
<1>3. CASE setAppHidden \/ setAppDirectLaunch
  BY <1>3, ChoicesShow
<1>. QED BY <1>1, <1>2, <1>3
     DEF ListNext, PageStep, HostLostOrFound, OpenPage, ClosePage,
         handleComputerStateChanged, listVars

LEMMA ListIsInvariant ==
  ASSUME OwnNames
  PROVE  ListSpec => []ListInv
<1>1. ListInv /\ [ListNext]_listVars => ListInv'
  BY ListInductive
<1>. QED BY ListInitHolds, <1>1, PTL DEF ListSpec

\* Whatever lists arrive between the user's clicks, the host's list keeps each app
\* once, and at most one of them is launched directly and is not hidden
\* (NvComputer::updateAppList(), AppModel::setAppHidden() and
\* setAppDirectLaunch()), for any set of apps that keep names of their own.
THEOREM ListChoicesAgree ==
  ASSUME Renamed = {}
  PROVE  ListSpec => []ListsAgree
<1>1. ListSpec => []ListInv
  BY ListIsInvariant DEF OwnNames
<1>. QED BY <1>1, ListInvImplies, PTL

\* As long as apps keep names of their own, the rows that were removed, updated
\* and added one by one are the visible apps, in their order, for lists of any
\* length (AppModel::updateAppList()).  Its assertion says so of any list, which
\* is not so when an app is renamed.
THEOREM RowsAreTheVisibleApps ==
  ASSUME Renamed = {}
  PROVE  ListSpec => RowsFollowList
<1>1. ListInv /\ [ListNext]_listVars =>
        [page' # page /\ page'.open
           => page'.rows = getVisibleApps(page'.all,
                             [page EXCEPT !.showHidden = page'.showHidden])]_listVars
  BY PageSteps DEF OwnNames
<1>2. ListSpec => []ListInv
  BY ListIsInvariant DEF OwnNames
<1>. QED BY <1>1, <1>2, PTL DEF ListSpec, RowsFollowList

\* A choice stands until the user takes it back or a list leaves its app out, and
\* its row stays on the page so that it can be (NvComputer::updateAppList(),
\* AppModel::getVisibleApps()), as long as apps keep names of their own.
THEOREM ChoicesAreKept ==
  ASSUME Renamed = {}
  PROVE  ListSpec => ChoicesStand
<1>1. ListInv /\ [ListNext]_listVars =>
        [\A i \in DOMAIN hostList, j \in DOMAIN hostList' :
           hostList[i].id = hostList'[j].id /\ page' = page /\ ~lost
             => hostList[i].hidden = hostList'[j].hidden
                /\ hostList[i].direct = hostList'[j].direct]_listVars
  BY ChoicesKeptStep DEF OwnNames
<1>2. ListInv /\ [ListNext]_listVars =>
        [page.open /\ page'.open
           => \A i \in DOMAIN page.rows :
                Has(page'.all, page.rows[i].id) => Has(page'.rows, page.rows[i].id)]_listVars
  BY NoneVanishesStep DEF OwnNames
<1>3. ListSpec => []ListInv
  BY ListIsInvariant DEF OwnNames
<1>. QED BY <1>1, <1>2, <1>3, PTL DEF ListSpec, ChoicesStand, ChoicesKept, NoneVanishes
=============================================================================
