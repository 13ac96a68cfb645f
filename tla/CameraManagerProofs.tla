--------------------------- MODULE CameraManagerProofs ---------------------------
(***************************************************************************)
(* Proofs about CameraManager and about the CameraService it makes for     *)
(* every camera, for all values of their constants: no capture is left     *)
(* without an entry, a new camera has a name of its own, and rows and      *)
(* captures agree where requests did not overlap; the buffer of a service  *)
(* holds the newest frames in order, and, if its attempts are not limited, *)
(* a service that is not running has nothing left running.  The two        *)
(* modules share no variable, and no theorem here is about both.           *)
(***************************************************************************)
EXTENDS CameraManager, CameraService, SequenceTheorems, TLAPS

-----------------------------------------------------------------------------
(* Types.                                                                  *)

\* What a request carries is complete where it is used.
JobOK(j) ==
    /\ j \in JobOf
    /\ j.op = "create" => j.name \in Names /\ j.url \in Urls /\ j.enabled \in BOOLEAN
    /\ j.at = "add" \/ (j.op # "update" /\ j.at # "read") => j.url \in Urls
    /\ j.op = "create" => j.at \in {"read", "write", "add"}

JobsOK == \A t \in Tasks : jobs[t] = Idle \/ JobOK(jobs[t])

TypeInv == TypeOK /\ JobsOK

LEMMA JobIsNotIdle == ASSUME NEW j \in JobOf PROVE j # Idle /\ j.op # "idle"
<1>1. j.op \in Ops
  BY DEF JobOf
<1>2. Idle.op = "idle"
  BY DEF Idle
<1> QED BY <1>1, <1>2 DEF Ops

LEMMA BusyJob ==
    ASSUME TypeInv, NEW t \in Tasks, jobs[t] # Idle
    PROVE  /\ JobOK(jobs[t]) /\ jobs[t] \in JobOf /\ jobs[t].cam \in Cameras /\ t \in Busy
  BY DEF TypeInv, JobsOK, JobOK, JobOf, Busy

\* A task that is given a job, or none, leaves the jobs well typed.
LEMMA JobsType ==
    ASSUME TypeInv, NEW t \in Tasks, NEW k, k = Idle \/ JobOK(k), jobs' = [jobs EXCEPT ![t] = k]
    PROVE  /\ jobs' \in [Tasks -> JobOf \cup {Idle}] /\ JobsOK'
           /\ jobs'[t] = k /\ \A u \in Tasks \ {t} : jobs'[u] = jobs[u]
<1>1. k \in JobOf \cup {Idle}
  BY DEF JobOK
<1>2. jobs \in [Tasks -> JobOf \cup {Idle}]
  BY DEF TypeInv, TypeOK
<1>3. jobs' \in [Tasks -> JobOf \cup {Idle}] /\ jobs'[t] = k /\ \A u \in Tasks \ {t} : jobs'[u] = jobs[u]
  BY <1>1, <1>2
<1>4. JobsOK'
  BY <1>3 DEF TypeInv, JobsOK
<1> QED BY <1>3, <1>4

\* The same request one step further is a request.
LEMMA LaterType ==
    ASSUME TypeInv, NEW t \in Tasks, jobs[t] # Idle, NEW next \in {"write", "stop", "reread", "add", "remove", "drop"},
           NEW url \in Urls \cup {Keep},
           next = "add" \/ jobs[t].op # "update" => url \in Urls,
           jobs[t].op = "create" => next \in {"write", "add"}
    PROVE  JobOK(Later(jobs[t], url, next))
<1> DEFINE j == jobs[t]
           k == Later(j, url, next)
<1>1. j \in JobOf /\ JobOK(j)
  BY BusyJob
<1>2. k \in JobOf
  BY <1>1 DEF JobOf, Later
<1>3. /\ k.at = next /\ k.url = url /\ k.op = j.op /\ k.cam = j.cam /\ k.name = j.name /\ k.enabled = j.enabled
  BY DEF Later
<1> HIDE DEF k
<1>4. JobOK(k)
  BY <1>1, <1>2, <1>3 DEF JobOK
<1> QED BY <1>4 DEF k

-----------------------------------------------------------------------------
(* The invariant.                                                          *)

\* A row is that of a camera that was inserted.
RowsAreInserted == \A c \in Cameras : Exists(c) => c \in inserted

\* A request is in flight only while the process serves.
DownIsIdle == phase = "down" => \A t \in Tasks : jobs[t] = Idle

\* Two requests for the same thing are noted, with the cameras of both.
OverlapsAreNoted ==
    \A t, u \in Busy : t # u /\ Clash(jobs[t], jobs[u]) => {jobs[t].cam, jobs[u].cam} \subseteq raced

\* What AloneAgrees says of a camera, of rows R, entries S, captures V and
\* bypassed cameras B.
Agrees(c, R, S, V, B) ==
    /\ c \notin B => (c \in S <=> R[c] # Gone /\ R[c].enabled)
    /\ R[c] = Gone => c \notin S
    /\ V[c] # Gone => V[c] = R[c].url

\* What holds of a camera in the middle of its only request.
Midway(c, j, R, S, V, B) ==
    /\ j.at = "read" /\ j.op # "create" => Agrees(c, R, S, V, B)
    /\ j.at \in {"read", "write"} /\ j.op = "create" => R[c] = Gone /\ c \notin S
    /\ j.at = "write" /\ j.op # "create" =>
          R[c] # Gone /\ Agrees(c, R, S, V, B) /\ (j.op # "update" => j.url = R[c].url)
    /\ j.at = "stop" =>
          /\ R[c] # Gone /\ (c \in B \/ (c \in S <=> R[c].enabled))
          /\ j.op # "update" => j.url = R[c].url
    /\ j.at = "reread" =>
          R[c] # Gone /\ c \in S /\ (c \in B \/ R[c].enabled) /\ V[c] = Gone
    /\ j.at = "add" =>
          /\ R[c] # Gone /\ (c \in B \/ R[c].enabled) /\ (c \in S \/ j.url = R[c].url)
          /\ V[c] # Gone => V[c] = R[c].url
    /\ j.at = "remove" =>
          /\ R[c] # Gone /\ (j.op # "delete" => c \in B \/ ~R[c].enabled)
          /\ V[c] # Gone => V[c] = R[c].url
    /\ j.at = "drop" => c \notin S

\* Of a camera whose requests do not overlap, each begins where it agrees.
AloneIsMidway ==
    phase = "serving" =>
        \A c \in Cameras \ raced :
            /\ (\A t \in Tasks : jobs[t] # Idle => jobs[t].cam # c) => Agrees(c, rows, services, captures, bypassed)
            /\ \A t \in Tasks : jobs[t] # Idle /\ jobs[t].cam = c => Midway(c, jobs[t], rows, services, captures, bypassed)

\* A name that was found free stays free until the row is inserted.
NamesAreReserved ==
    \A t \in Tasks :
        jobs[t] # Idle /\ jobs[t].op = "create" /\ jobs[t].at = "write" /\ jobs[t].cam \notin raced =>
            \A d \in Cameras \ {jobs[t].cam} : Exists(d) => rows[d].name # jobs[t].name

ManagerInv ==
    /\ TypeInv /\ NoStrayCapture /\ RowsAreInserted /\ DownIsIdle
    /\ OverlapsAreNoted /\ AloneIsMidway /\ NamesAreReserved

LEMMA InitManager == Init => ManagerInv
<1> SUFFICES ASSUME Init PROVE ManagerInv
  OBVIOUS
<1>1. \A t \in Tasks : jobs[t] = Idle
  BY DEF Init
<1>2. TypeInv
  <2>1. TypeOK
    BY CameraManagerAssumption DEF Init, TypeOK, process, NoCaptures
  <2>2. JobsOK
    BY <1>1 DEF JobsOK
  <2> QED BY <2>1, <2>2 DEF TypeInv
<1>3. NoStrayCapture /\ RowsAreInserted /\ DownIsIdle /\ OverlapsAreNoted /\ AloneIsMidway /\ NamesAreReserved
  BY <1>1 DEF Init, NoCaptures, NoStrayCapture, RowsAreInserted, DownIsIdle, OverlapsAreNoted, Busy, AloneIsMidway,
             NamesAreReserved, Exists
<1> QED BY <1>2, <1>3 DEF ManagerInv

-----------------------------------------------------------------------------
(* A step of a request.                                                    *)

\* Nothing changes of a camera.
Untouched(c) ==
    /\ rows'[c] = rows[c] /\ captures'[c] = captures[c]
    /\ (c \in services' <=> c \in services) /\ (c \in bypassed' <=> c \in bypassed)

\* The request ends, or goes on as k.
Becomes(t, k) ==
    /\ k = Idle \/ (JobOK(k) /\ k.op = jobs[t].op /\ k.cam = jobs[t].cam /\ k.name = jobs[t].name)
    /\ jobs' = [jobs EXCEPT ![t] = k]

\* Untouched cameras stay as they were, in agreement or midway.
LEMMA UntouchedStays ==
    ASSUME NEW c \in Cameras, NEW j, Untouched(c)
    PROVE  /\ Agrees(c, rows, services, captures, bypassed) => Agrees(c, rows', services', captures', bypassed')
           /\ Midway(c, j, rows, services, captures, bypassed) => Midway(c, j, rows', services', captures', bypassed')
  BY DEF Untouched, Agrees, Midway

\* A step of a request that touches its camera alone keeps the rest of the
\* invariant, if it leaves its own camera midway or in agreement.
LEMMA OwnStep ==
    ASSUME ManagerInv, NEW t \in Tasks, jobs[t] # Idle, NEW k, Becomes(t, k),
           UNCHANGED <<phase, raced>>,
           NEW cam, cam = jobs[t].cam,
           \A c \in Cameras \ {cam} : Untouched(c),
           phase = "serving" /\ cam \notin raced =>
               /\ k = Idle => Agrees(cam, rows', services', captures', bypassed')
               /\ k # Idle => Midway(cam, k, rows', services', captures', bypassed')
    PROVE  JobsOK' /\ jobs' \in [Tasks -> JobOf \cup {Idle}] /\ DownIsIdle' /\ OverlapsAreNoted' /\ AloneIsMidway'
<1>1. TypeInv /\ JobOK(jobs[t]) /\ cam \in Cameras
  BY BusyJob DEF ManagerInv
<1>2. k = Idle \/ JobOK(k)
  BY DEF Becomes
<1>3. /\ jobs' \in [Tasks -> JobOf \cup {Idle}] /\ JobsOK'
      /\ jobs'[t] = k /\ \A u \in Tasks \ {t} : jobs'[u] = jobs[u]
  BY <1>1, <1>2, JobsType DEF Becomes
<1>4. DownIsIdle'
  BY DEF ManagerInv, DownIsIdle
<1>5. OverlapsAreNoted'
  <2> SUFFICES ASSUME NEW u \in Tasks, NEW v \in Tasks, jobs'[u] # Idle, jobs'[v] # Idle, u # v,
                      Clash(jobs'[u], jobs'[v])
               PROVE  {jobs'[u].cam, jobs'[v].cam} \subseteq raced
    BY DEF OverlapsAreNoted, Busy
  <2>1. /\ jobs[u] # Idle /\ jobs[v] # Idle
        /\ jobs'[u].cam = jobs[u].cam /\ jobs'[v].cam = jobs[v].cam
        /\ jobs'[u].name = jobs[u].name /\ jobs'[v].name = jobs[v].name
    BY <1>3 DEF Becomes
  <2>2. Clash(jobs[u], jobs[v])
    BY <2>1 DEF Clash
  <2> QED BY <2>1, <2>2 DEF ManagerInv, OverlapsAreNoted, Busy
<1>6. AloneIsMidway'
  <2> SUFFICES ASSUME phase = "serving", NEW c \in Cameras \ raced
               PROVE  /\ (\A u \in Tasks : jobs'[u] # Idle => jobs'[u].cam # c) =>
                            Agrees(c, rows', services', captures', bypassed')
                      /\ \A u \in Tasks : jobs'[u] # Idle /\ jobs'[u].cam = c =>
                            Midway(c, jobs'[u], rows', services', captures', bypassed')
    BY DEF AloneIsMidway
  <2>1. CASE c = cam
    <3>1. \A u \in Tasks \ {t} : jobs[u] # Idle => jobs[u].cam # c
      BY <2>1 DEF ManagerInv, OverlapsAreNoted, Busy, Clash
    <3> QED BY <2>1, <3>1, <1>3 DEF Becomes
  <2>2. CASE c # cam
    <3>1. Untouched(c)
      BY <2>2
    <3>2. /\ (\A u \in Tasks : jobs[u] # Idle => jobs[u].cam # c) => Agrees(c, rows, services, captures, bypassed)
          /\ \A u \in Tasks : jobs[u] # Idle /\ jobs[u].cam = c =>
                Midway(c, jobs[u], rows, services, captures, bypassed)
      BY DEF ManagerInv, AloneIsMidway
    <3>3. \A u \in Tasks : jobs'[u] # Idle /\ jobs'[u].cam = c => u # t
      BY <2>2, <1>3 DEF Becomes
    <3>4. (\A u \in Tasks : jobs'[u] # Idle => jobs'[u].cam # c) => \A u \in Tasks : jobs[u] # Idle => jobs[u].cam # c
      BY <2>2, <1>3
    <3>5. (\A u \in Tasks : jobs'[u] # Idle => jobs'[u].cam # c) => Agrees(c, rows', services', captures', bypassed')
      BY <3>1, <3>2, <3>4, UntouchedStays
    <3>6. ASSUME NEW u \in Tasks, jobs'[u] # Idle, jobs'[u].cam = c
          PROVE  Midway(c, jobs'[u], rows', services', captures', bypassed')
      <4>1. u # t /\ jobs'[u] = jobs[u]
        BY <3>3, <3>6, <1>3
      <4>2. Midway(c, jobs[u], rows, services, captures, bypassed)
        BY <3>2, <3>6, <4>1
      <4> QED BY <3>1, <4>1, <4>2, UntouchedStays
    <3> QED BY <3>5, <3>6
  <2> QED BY <2>1, <2>2
<1> QED BY <1>3, <1>4, <1>5, <1>6

\* What is known of the request that takes a step.
LEMMA Known ==
    ASSUME ManagerInv, NEW t \in Tasks, jobs[t] # Idle
    PROVE  /\ TypeInv /\ TypeOK /\ JobOK(jobs[t]) /\ jobs[t] \in JobOf /\ jobs[t].cam \in Cameras
           /\ NoStrayCapture /\ RowsAreInserted /\ NamesAreReserved
           /\ phase = "serving"
           /\ jobs[t].cam \notin raced => Midway(jobs[t].cam, jobs[t], rows, services, captures, bypassed)
<1>1. TypeInv /\ TypeOK /\ JobOK(jobs[t]) /\ jobs[t] \in JobOf /\ jobs[t].cam \in Cameras
  BY BusyJob DEF ManagerInv, TypeInv
<1>2. phase = "serving"
  BY <1>1 DEF ManagerInv, DownIsIdle, TypeOK
<1> QED BY <1>1, <1>2 DEF ManagerInv, AloneIsMidway

\* No name is given, and no name found free.
LEMMA NamesStay ==
    ASSUME ManagerInv, NEW t \in Tasks, jobs[t] # Idle, NEW k, Becomes(t, k), UNCHANGED raced,
           k # Idle /\ k.op = "create" => k.at # "write",
           \A d \in Cameras : rows'[d] # Gone => rows[d] # Gone /\ rows'[d].name = rows[d].name
    PROVE  NamesAreReserved'
<1>1. jobs'[t] = k /\ \A u \in Tasks \ {t} : jobs'[u] = jobs[u]
  BY Known, JobsType DEF Becomes
<1> QED BY <1>1 DEF ManagerInv, NamesAreReserved, Exists

\* A step of a request keeps the invariant, if its own camera does.
LEMMA StepKeeps ==
    ASSUME ManagerInv, NEW t \in Tasks, jobs[t] # Idle, NEW k, Becomes(t, k),
           UNCHANGED <<phase, raced, received, crashes>>,
           NEW cam, cam = jobs[t].cam,
           \A c \in Cameras \ {cam} : Untouched(c),
           cam \notin raced =>
               /\ k = Idle => Agrees(cam, rows', services', captures', bypassed')
               /\ k # Idle => Midway(cam, k, rows', services', captures', bypassed'),
           rows' \in [Cameras -> Row \cup {Gone}], inserted \subseteq inserted', inserted' \subseteq Cameras,
           services' \subseteq Cameras, captures' \in [Cameras -> Urls \cup {Gone}], bypassed' \subseteq Cameras,
           captures'[cam] # Gone => cam \in services',
           rows'[cam] # Gone => cam \in inserted',
           NamesAreReserved'
    PROVE  ManagerInv'
<1>1. /\ TypeOK /\ NoStrayCapture /\ RowsAreInserted
  BY Known
<1>2. JobsOK' /\ jobs' \in [Tasks -> JobOf \cup {Idle}] /\ DownIsIdle' /\ OverlapsAreNoted' /\ AloneIsMidway'
  BY OwnStep
<1>3. TypeOK'
  BY <1>1, <1>2 DEF TypeOK
<1>4. NoStrayCapture'
  BY <1>1 DEF NoStrayCapture, Untouched
<1>5. RowsAreInserted'
  BY <1>1 DEF RowsAreInserted, Untouched, Exists
<1> QED BY <1>2, <1>3, <1>4, <1>5 DEF ManagerInv, TypeInv

LEMMA CheckNewKeeps ==
    ASSUME ManagerInv, NEW t \in Tasks, jobs[t] # Idle, CheckNew(t)
    PROVE  ManagerInv'
<1> DEFINE j == jobs[t]
           k == IF FindByName(j.name) = {} /\ NoDuplicateUrl(j.url) /\ ValidUrl(j.url) THEN Later(j, j.url, "write") ELSE Idle
<1>1. /\ TypeInv /\ TypeOK /\ JobOK(j) /\ j.cam \in Cameras /\ NoStrayCapture /\ RowsAreInserted /\ NamesAreReserved
      /\ j.cam \notin raced => Midway(j.cam, j, rows, services, captures, bypassed)
  BY Known
<1>2. j.op = "create" /\ j.at = "read" /\ UNCHANGED <<rows, inserted, services, captures, phase, raced, bypassed, received, crashes>>
  BY DEF CheckNew, process
<1>3. jobs' = [jobs EXCEPT ![t] = k]
  BY DEF CheckNew, Go, Finish
<1>4. j.url \in Urls
  BY <1>1, <1>2 DEF JobOK
<1>5. JobOK(Later(j, j.url, "write"))
  BY <1>1, <1>2, <1>4, LaterType
<1>6. /\ Later(j, j.url, "write").op = j.op /\ Later(j, j.url, "write").cam = j.cam
      /\ Later(j, j.url, "write").name = j.name /\ Later(j, j.url, "write").at = "write"
  BY DEF Later
<1>7. Becomes(t, k)
  BY <1>3, <1>5, <1>6 DEF Becomes
<1>8. k # Idle => k.op = "create" /\ k.at = "write" /\ k.cam = j.cam /\ k.name = j.name /\ FindByName(j.name) = {}
  BY <1>2, <1>6
<1>9. \A c \in Cameras \ {j.cam} : Untouched(c)
  BY <1>2 DEF Untouched
<1> HIDE DEF k
<1>10. j.cam \notin raced =>
          /\ k = Idle => Agrees(j.cam, rows', services', captures', bypassed')
          /\ k # Idle => Midway(j.cam, k, rows', services', captures', bypassed')
  BY <1>1, <1>2, <1>8 DEF Midway, Agrees, NoStrayCapture
<1>11. NamesAreReserved'
  <2>1. jobs'[t] = k /\ \A u \in Tasks \ {t} : jobs'[u] = jobs[u]
    BY <1>1, <1>7, JobsType DEF Becomes
  <2> QED BY <1>1, <1>2, <1>8, <2>1 DEF NamesAreReserved, FindByName, Exists
<1>12. /\ rows' \in [Cameras -> Row \cup {Gone}] /\ inserted \subseteq inserted' /\ inserted' \subseteq Cameras
       /\ services' \subseteq Cameras /\ captures' \in [Cameras -> Urls \cup {Gone}] /\ bypassed' \subseteq Cameras
       /\ captures'[j.cam] # Gone => j.cam \in services'
       /\ rows'[j.cam] # Gone => j.cam \in inserted'
  BY <1>1, <1>2 DEF TypeOK, NoStrayCapture, RowsAreInserted, Exists
<1> QED BY <1>2, <1>7, <1>9, <1>10, <1>11, <1>12, StepKeeps

LEMMA ReadKeeps ==
    ASSUME ManagerInv, NEW t \in Tasks, jobs[t] # Idle, Read(t)
    PROVE  ManagerInv'
<1> DEFINE j == jobs[t]
           url == IF j.op = "update" THEN j.url ELSE rows[j.cam].url
           next == CASE j.op = "restart" -> "stop" [] j.op = "delete" -> "remove" [] OTHER -> "write"
           ok == Exists(j.cam) /\ (j.op = "update" /\ j.url # Keep => ValidUrl(j.url) /\ NoDuplicateUrl(j.url))
           k == IF ok THEN Later(j, url, next) ELSE Idle
<1>1. /\ TypeInv /\ TypeOK /\ JobOK(j) /\ j \in JobOf /\ j.cam \in Cameras /\ NoStrayCapture /\ RowsAreInserted
      /\ j.cam \notin raced => Midway(j.cam, j, rows, services, captures, bypassed)
  BY Known
<1>2. j.op # "create" /\ j.at = "read" /\ UNCHANGED <<rows, inserted, services, captures, phase, raced, bypassed, received, crashes>>
  BY DEF Read, process
<1>3. jobs' = [jobs EXCEPT ![t] = k]
  BY DEF Read
<1>4. next \in {"write", "stop", "remove"} /\ (next = "stop" <=> j.op = "restart") /\ (next = "remove" <=> j.op = "delete")
  OBVIOUS
<1>5. Exists(j.cam) => rows[j.cam] \in Row /\ rows[j.cam].url \in Urls
  BY <1>1 DEF TypeOK, Exists, Row
<1>6. ok => url \in Urls \cup {Keep} /\ (j.op # "update" => url \in Urls /\ url = rows[j.cam].url)
  BY <1>1, <1>5 DEF JobOf
<1> HIDE DEF next, url
<1>7. ok => JobOK(Later(j, url, next))
  BY <1>1, <1>2, <1>4, <1>6, LaterType
<1>8. /\ Later(j, url, next).op = j.op /\ Later(j, url, next).cam = j.cam /\ Later(j, url, next).url = url
      /\ Later(j, url, next).name = j.name /\ Later(j, url, next).at = next
  BY DEF Later
<1>9. Becomes(t, k)
  BY <1>3, <1>7, <1>8 DEF Becomes
<1>10. k # Idle => k.op = j.op /\ k.at = next /\ Exists(j.cam) /\ (j.op # "update" => k.url = rows[j.cam].url)
  BY <1>6, <1>8
<1>11. \A c \in Cameras \ {j.cam} : Untouched(c)
  BY <1>2 DEF Untouched
<1> HIDE DEF k, ok
<1>12. j.cam \notin raced =>
          /\ k = Idle => Agrees(j.cam, rows', services', captures', bypassed')
          /\ k # Idle => Midway(j.cam, k, rows', services', captures', bypassed')
  BY <1>1, <1>2, <1>4, <1>10 DEF Midway, Agrees, Exists
<1>13. NamesAreReserved'
  BY <1>2, <1>9, <1>10, NamesStay
<1>14. /\ rows' \in [Cameras -> Row \cup {Gone}] /\ inserted \subseteq inserted' /\ inserted' \subseteq Cameras
       /\ services' \subseteq Cameras /\ captures' \in [Cameras -> Urls \cup {Gone}] /\ bypassed' \subseteq Cameras
       /\ captures'[j.cam] # Gone => j.cam \in services'
       /\ rows'[j.cam] # Gone => j.cam \in inserted'
  BY <1>1, <1>2 DEF TypeOK, NoStrayCapture, RowsAreInserted, Exists
<1> QED BY <1>2, <1>9, <1>11, <1>12, <1>13, <1>14, StepKeeps

LEMMA InsertKeeps ==
    ASSUME ManagerInv, NEW t \in Tasks, jobs[t] # Idle, Insert(t)
    PROVE  ManagerInv'
<1> DEFINE j == jobs[t]
           row == [name |-> j.name, url |-> j.url, enabled |-> j.enabled]
           k == IF j.enabled THEN Later(j, j.url, "add") ELSE Idle
<1>1. /\ TypeInv /\ TypeOK /\ JobOK(j) /\ j \in JobOf /\ j.cam \in Cameras /\ NoStrayCapture /\ RowsAreInserted
      /\ j.cam \notin raced => Midway(j.cam, j, rows, services, captures, bypassed)
  BY Known
<1>2. /\ j.op = "create" /\ j.at = "write"
      /\ rows' = [rows EXCEPT ![j.cam] = row] /\ inserted' = inserted \cup {j.cam}
      /\ UNCHANGED <<services, captures, phase, raced, bypassed, received, crashes>>
  BY DEF Insert, process
<1>3. jobs' = [jobs EXCEPT ![t] = k]
  BY DEF Insert, Go, Finish
<1>4. j.url \in Urls /\ row \in Row /\ row # Gone /\ row.url = j.url /\ row.name = j.name /\ row.enabled = j.enabled
  BY <1>1, <1>2, CameraManagerAssumption DEF JobOK, Row
<1> HIDE DEF row
<1>5. /\ JobOK(Later(j, j.url, "add"))
      /\ Later(j, j.url, "add").op = j.op /\ Later(j, j.url, "add").cam = j.cam /\ Later(j, j.url, "add").url = j.url
      /\ Later(j, j.url, "add").name = j.name /\ Later(j, j.url, "add").at = "add"
  BY <1>1, <1>2, <1>4, LaterType DEF Later
<1>6. Becomes(t, k)
  BY <1>3, <1>5 DEF Becomes
<1>7. /\ k # Idle => k.op = "create" /\ k.at = "add" /\ k.url = j.url
      /\ k # Idle <=> j.enabled
  <2>1. Later(j, j.url, "add") # Idle
    BY <1>5, JobIsNotIdle DEF JobOK
  <2> QED BY <1>2, <1>5, <2>1
<1>8. \A c \in Cameras \ {j.cam} : Untouched(c)
  BY <1>1, <1>2 DEF Untouched, TypeOK
<1> HIDE DEF k
<1>9. rows'[j.cam] = row
  BY <1>1, <1>2 DEF TypeOK
<1>10. j.cam \notin raced =>
          /\ k = Idle => Agrees(j.cam, rows', services', captures', bypassed')
          /\ k # Idle => Midway(j.cam, k, rows', services', captures', bypassed')
  BY <1>1, <1>2, <1>4, <1>7, <1>9 DEF Midway, Agrees, NoStrayCapture
<1>11. NamesAreReserved'
  <2> SUFFICES ASSUME NEW u \in Tasks, jobs'[u] # Idle, jobs'[u].op = "create", jobs'[u].at = "write", jobs'[u].cam \notin raced,
                      NEW d \in Cameras \ {jobs'[u].cam}, rows'[d] # Gone
               PROVE  rows'[d].name # jobs'[u].name
    BY <1>2 DEF NamesAreReserved, Exists
  <2>1. jobs'[t] = k /\ \A v \in Tasks \ {t} : jobs'[v] = jobs[v]
    BY <1>1, <1>6, JobsType DEF Becomes
  <2>2. u # t /\ jobs'[u] = jobs[u]
    BY <1>7, <2>1
  <2>3. CASE d = j.cam
    <3>1. jobs[u].name # Keep
      BY <2>2, <1>1, CameraManagerAssumption DEF TypeInv, JobsOK, JobOK
    <3>2. ~Clash(jobs[u], j)
      BY <2>2 DEF ManagerInv, OverlapsAreNoted, Busy
    <3> QED BY <2>2, <2>3, <3>1, <3>2, <1>4, <1>9 DEF Clash
  <2>4. CASE d # j.cam
    BY <2>2, <2>4, <1>1, <1>2 DEF ManagerInv, NamesAreReserved, Exists, TypeOK
  <2> QED BY <2>3, <2>4
<1>12. /\ rows' \in [Cameras -> Row \cup {Gone}] /\ inserted \subseteq inserted' /\ inserted' \subseteq Cameras
       /\ services' \subseteq Cameras /\ captures' \in [Cameras -> Urls \cup {Gone}] /\ bypassed' \subseteq Cameras
       /\ captures'[j.cam] # Gone => j.cam \in services'
       /\ rows'[j.cam] # Gone => j.cam \in inserted'
  BY <1>1, <1>2, <1>4 DEF TypeOK, NoStrayCapture, RowsAreInserted, Exists
<1> QED BY <1>2, <1>6, <1>8, <1>10, <1>11, <1>12, StepKeeps

LEMMA UpdateKeeps ==
    ASSUME ManagerInv, NEW t \in Tasks, jobs[t] # Idle, Update(t)
    PROVE  ManagerInv'
<1> DEFINE j == jobs[t]
           row == Set(rows[j.cam], j)
           k == IF Exists(j.cam) /\ j.url # Keep THEN Later(j, j.url, "stop") ELSE Idle
<1>1. /\ TypeInv /\ TypeOK /\ JobOK(j) /\ j \in JobOf /\ j.cam \in Cameras /\ NoStrayCapture /\ RowsAreInserted
      /\ j.cam \notin raced => Midway(j.cam, j, rows, services, captures, bypassed)
  BY Known
<1>2. /\ j.op = "update" /\ j.at = "write"
      /\ rows' = IF Exists(j.cam) THEN [rows EXCEPT ![j.cam] = row] ELSE rows
      /\ bypassed' = IF j.enabled # Keep THEN bypassed \cup {j.cam} ELSE bypassed
      /\ UNCHANGED <<inserted, services, captures, phase, raced, received, crashes>>
  BY DEF Update, process
<1>3. jobs' = [jobs EXCEPT ![t] = k]
  BY DEF Update, Go, Finish
<1>4. /\ j.url \in Urls \cup {Keep}
      /\ Exists(j.cam) => rows[j.cam] \in Row
      /\ Exists(j.cam) => row \in Row
      /\ row.name = IF j.name = Keep THEN rows[j.cam].name ELSE j.name
      /\ j.url = Keep => row.url = rows[j.cam].url
      /\ j.enabled = Keep => row.enabled = rows[j.cam].enabled
  <2>1. /\ j.name \in Names \cup {Keep} /\ j.url \in Urls \cup {Keep} /\ j.enabled \in BOOLEAN \cup {Keep}
    BY <1>1 DEF JobOf
  <2>2. Exists(j.cam) => rows[j.cam] \in Row
    BY <1>1 DEF TypeOK, Exists
  <2> QED BY <2>1, <2>2 DEF Set, Row
<1>5. row \in Row => row # Gone
  BY CameraManagerAssumption DEF Row
<1> HIDE DEF row
<1>6. /\ JobOK(Later(j, j.url, "stop"))
      /\ Later(j, j.url, "stop").op = j.op /\ Later(j, j.url, "stop").cam = j.cam /\ Later(j, j.url, "stop").url = j.url
      /\ Later(j, j.url, "stop").name = j.name /\ Later(j, j.url, "stop").at = "stop"
  BY <1>1, <1>2, <1>4, LaterType DEF Later
<1>7. Becomes(t, k)
  BY <1>3, <1>6 DEF Becomes
<1>8. /\ k # Idle => k.op = "update" /\ k.at = "stop" /\ Exists(j.cam)
      /\ k = Idle => ~Exists(j.cam) \/ j.url = Keep
  <2>1. Later(j, j.url, "stop") # Idle
    BY <1>6, JobIsNotIdle DEF JobOK
  <2> QED BY <1>2, <1>6, <2>1
<1>9. \A c \in Cameras \ {j.cam} : Untouched(c)
  BY <1>1, <1>2 DEF Untouched, TypeOK
<1> HIDE DEF k
<1>10. Exists(j.cam) => rows'[j.cam] = row /\ row # Gone
  BY <1>1, <1>2, <1>4, <1>5 DEF TypeOK
<1>11. j.cam \notin raced =>
          /\ k = Idle => Agrees(j.cam, rows', services', captures', bypassed')
          /\ k # Idle => Midway(j.cam, k, rows', services', captures', bypassed')
  BY <1>1, <1>2, <1>4, <1>8, <1>10 DEF Midway, Agrees, NoStrayCapture, Exists
<1>12. NamesAreReserved'
  <2> SUFFICES ASSUME NEW u \in Tasks, jobs'[u] # Idle, jobs'[u].op = "create", jobs'[u].at = "write", jobs'[u].cam \notin raced,
                      NEW d \in Cameras \ {jobs'[u].cam}, rows'[d] # Gone
               PROVE  rows'[d].name # jobs'[u].name
    BY <1>2 DEF NamesAreReserved, Exists
  <2>1. jobs'[t] = k /\ \A v \in Tasks \ {t} : jobs'[v] = jobs[v]
    BY <1>1, <1>7, JobsType DEF Becomes
  <2>2. u # t /\ jobs'[u] = jobs[u]
    BY <1>8, <2>1
  <2>3. \A c \in Cameras \ {jobs[u].cam} : Exists(c) => rows[c].name # jobs[u].name
    BY <2>2 DEF ManagerInv, NamesAreReserved
  <2>4. CASE d = j.cam /\ Exists(d) /\ j.name # Keep
    <3>1. ~Clash(jobs[u], j)
      BY <2>2 DEF ManagerInv, OverlapsAreNoted, Busy
    <3> QED BY <2>2, <2>4, <3>1, <1>4, <1>10 DEF Clash
  <2>5. CASE d = j.cam /\ Exists(d) /\ j.name = Keep
    BY <2>2, <2>3, <2>5, <1>4, <1>10
  <2>6. CASE d # j.cam \/ ~Exists(d)
    <3>1. rows'[d] = rows[d]
      BY <2>6, <1>1, <1>2 DEF TypeOK
    <3> QED BY <2>2, <2>3, <3>1 DEF Exists
  <2> QED BY <2>4, <2>5, <2>6
<1>13. /\ rows' \in [Cameras -> Row \cup {Gone}] /\ inserted \subseteq inserted' /\ inserted' \subseteq Cameras
       /\ services' \subseteq Cameras /\ captures' \in [Cameras -> Urls \cup {Gone}] /\ bypassed' \subseteq Cameras
       /\ captures'[j.cam] # Gone => j.cam \in services'
       /\ rows'[j.cam] # Gone => j.cam \in inserted'
  BY <1>1, <1>2, <1>4 DEF TypeOK, NoStrayCapture, RowsAreInserted, Exists
<1> QED BY <1>2, <1>7, <1>9, <1>11, <1>12, <1>13, StepKeeps

LEMMA SetEnabledKeeps ==
    ASSUME ManagerInv, NEW t \in Tasks, jobs[t] # Idle, SetEnabled(t)
    PROVE  ManagerInv'
<1> DEFINE j == jobs[t]
           row == [name |-> rows[j.cam].name, url |-> rows[j.cam].url, enabled |-> j.op = "enable"]
           next == IF j.op = "enable" THEN "add" ELSE "remove"
           k == Later(j, j.url, next)
<1>1. /\ TypeInv /\ TypeOK /\ JobOK(j) /\ j \in JobOf /\ j.cam \in Cameras /\ NoStrayCapture /\ RowsAreInserted
      /\ j.cam \notin raced => Midway(j.cam, j, rows, services, captures, bypassed)
  BY Known
<1>2. /\ j.op \in {"enable", "disable"} /\ j.at = "write"
      /\ rows' = IF Exists(j.cam) THEN [rows EXCEPT ![j.cam] = row] ELSE rows
      /\ UNCHANGED <<inserted, services, captures, phase, raced, bypassed, received, crashes>>
  BY DEF SetEnabled, process
<1>3. jobs' = [jobs EXCEPT ![t] = k]
  BY DEF SetEnabled, Go
<1>4. Exists(j.cam) => row \in Row /\ row.url = rows[j.cam].url /\ row.name = rows[j.cam].name
  <2>1. Exists(j.cam) => rows[j.cam] \in Row
    BY <1>1 DEF TypeOK, Exists
  <2>2. Exists(j.cam) => rows[j.cam].name \in Names /\ rows[j.cam].url \in Urls
    BY <2>1 DEF Row
  <2>3. (j.op = "enable") \in BOOLEAN
    OBVIOUS
  <2> QED BY <2>2, <2>3 DEF Row
<1>5. row.enabled <=> j.op = "enable"
  OBVIOUS
<1>6. row \in Row => row # Gone
  BY CameraManagerAssumption DEF Row
<1> HIDE DEF row
<1>7. next \in {"add", "remove"} /\ (next = "add" <=> j.op = "enable") /\ j.url \in Urls
  BY <1>1, <1>2 DEF JobOK
<1> HIDE DEF next
<1>8. /\ JobOK(k) /\ k.op = j.op /\ k.cam = j.cam /\ k.url = j.url /\ k.name = j.name /\ k.at = next
  BY <1>1, <1>2, <1>7, LaterType DEF Later
<1> HIDE DEF k
<1>9. Becomes(t, k) /\ k # Idle
  BY <1>3, <1>8, JobIsNotIdle DEF Becomes, JobOK
<1>10. \A c \in Cameras \ {j.cam} : Untouched(c)
  BY <1>1, <1>2 DEF Untouched, TypeOK
<1>11. Exists(j.cam) => rows'[j.cam] = row /\ row # Gone
  BY <1>1, <1>2, <1>4, <1>6 DEF TypeOK
<1>12. j.cam \notin raced =>
          /\ k = Idle => Agrees(j.cam, rows', services', captures', bypassed')
          /\ k # Idle => Midway(j.cam, k, rows', services', captures', bypassed')
  BY <1>1, <1>2, <1>4, <1>5, <1>7, <1>8, <1>9, <1>11 DEF Midway, Agrees, NoStrayCapture, Exists
<1>13. NamesAreReserved'
  <2>1. \A d \in Cameras : rows'[d] # Gone => rows[d] # Gone /\ rows'[d].name = rows[d].name
    BY <1>1, <1>2, <1>4, <1>11 DEF Exists, TypeOK
  <2> QED BY <1>2, <1>8, <1>9, <2>1, NamesStay
<1>14. /\ rows' \in [Cameras -> Row \cup {Gone}] /\ inserted \subseteq inserted' /\ inserted' \subseteq Cameras
       /\ services' \subseteq Cameras /\ captures' \in [Cameras -> Urls \cup {Gone}] /\ bypassed' \subseteq Cameras
       /\ captures'[j.cam] # Gone => j.cam \in services'
       /\ rows'[j.cam] # Gone => j.cam \in inserted'
  BY <1>1, <1>2, <1>4 DEF TypeOK, NoStrayCapture, RowsAreInserted, Exists
<1> QED BY <1>2, <1>9, <1>10, <1>12, <1>13, <1>14, StepKeeps

LEMMA StopOldKeeps ==
    ASSUME ManagerInv, NEW t \in Tasks, jobs[t] # Idle, StopOld(t)
    PROVE  ManagerInv'
<1> DEFINE j == jobs[t]
           next == IF j.cam \in services THEN "reread" ELSE "add"
           k == IF j.cam \in services \/ j.op = "restart" THEN Later(j, j.url, next) ELSE Idle
<1>1. /\ TypeInv /\ TypeOK /\ JobOK(j) /\ j \in JobOf /\ j.cam \in Cameras /\ NoStrayCapture /\ RowsAreInserted
      /\ j.cam \notin raced => Midway(j.cam, j, rows, services, captures, bypassed)
  BY Known
<1>2. /\ j.at = "stop"
      /\ captures' = IF j.cam \in services THEN [captures EXCEPT ![j.cam] = Gone] ELSE captures
      /\ bypassed' = IF j.op = "restart" /\ j.cam \notin services THEN bypassed \cup {j.cam} ELSE bypassed
      /\ UNCHANGED <<rows, inserted, services, phase, raced, received, crashes>>
  BY DEF StopOld, StopForRestart, EngineRemove
<1>3. jobs' = [jobs EXCEPT ![t] = k]
  BY DEF StopOld, Go, Finish
<1>4. j.op # "create" /\ j.url \in Urls \cup {Keep} /\ (j.op # "update" => j.url \in Urls)
  BY <1>1, <1>2 DEF JobOK, JobOf
<1>5. next \in {"reread", "add"} /\ (next = "reread" <=> j.cam \in services)
  OBVIOUS
<1> HIDE DEF next
<1>6. k # Idle => JobOK(k) /\ k.op = j.op /\ k.cam = j.cam /\ k.url = j.url /\ k.name = j.name /\ k.at = next
  <2>1. j.cam \in services \/ j.op = "restart" => JobOK(Later(j, j.url, next))
    BY <1>1, <1>4, <1>5, LaterType
  <2> QED BY <2>1 DEF Later
<1>7. k = Idle => j.cam \notin services /\ j.op # "restart"
  <2>1. Later(j, j.url, next).op = j.op /\ j.op # "idle"
    BY <1>1, JobIsNotIdle DEF Later
  <2>2. Later(j, j.url, next) # Idle
    BY <2>1 DEF Idle
  <2> QED BY <2>2
<1>8. k # Idle => j.cam \in services \/ j.op = "restart"
  OBVIOUS
<1> HIDE DEF k
<1>9. Becomes(t, k)
  BY <1>3, <1>6 DEF Becomes
<1>10. \A c \in Cameras \ {j.cam} : Untouched(c)
  BY <1>1, <1>2 DEF Untouched, TypeOK
<1>11. captures'[j.cam] = Gone
  BY <1>1, <1>2 DEF TypeOK, NoStrayCapture
<1>12. j.cam \notin raced =>
          /\ k = Idle => Agrees(j.cam, rows', services', captures', bypassed')
          /\ k # Idle => Midway(j.cam, k, rows', services', captures', bypassed')
  BY <1>1, <1>2, <1>5, <1>6, <1>7, <1>8, <1>11 DEF Midway, Agrees
<1>13. NamesAreReserved'
  BY <1>2, <1>4, <1>6, <1>9, NamesStay
<1>14. /\ rows' \in [Cameras -> Row \cup {Gone}] /\ inserted \subseteq inserted' /\ inserted' \subseteq Cameras
       /\ services' \subseteq Cameras /\ captures' \in [Cameras -> Urls \cup {Gone}] /\ bypassed' \subseteq Cameras
       /\ captures'[j.cam] # Gone => j.cam \in services'
       /\ rows'[j.cam] # Gone => j.cam \in inserted'
  BY <1>1, <1>2, <1>11 DEF TypeOK, RowsAreInserted, Exists
<1> QED BY <1>2, <1>9, <1>10, <1>12, <1>13, <1>14, StepKeeps

LEMMA RereadKeeps ==
    ASSUME ManagerInv, NEW t \in Tasks, jobs[t] # Idle, Reread(t)
    PROVE  ManagerInv'
<1> DEFINE j == jobs[t]
           url == IF Exists(j.cam) THEN rows[j.cam].url ELSE j.url
           k == IF Exists(j.cam) \/ j.op = "restart" THEN Later(j, url, "add") ELSE Idle
<1>1. /\ TypeInv /\ TypeOK /\ JobOK(j) /\ j \in JobOf /\ j.cam \in Cameras /\ NoStrayCapture /\ RowsAreInserted
      /\ j.cam \notin raced => Midway(j.cam, j, rows, services, captures, bypassed)
  BY Known
<1>2. j.at = "reread" /\ UNCHANGED <<rows, inserted, services, captures, phase, raced, bypassed, received, crashes>>
  BY DEF Reread, process
<1>3. jobs' = [jobs EXCEPT ![t] = k]
  BY DEF Reread
<1>4. /\ j.op # "create"
      /\ Exists(j.cam) \/ j.op = "restart" => url \in Urls
      /\ Exists(j.cam) => url = rows[j.cam].url
  <2>1. Exists(j.cam) => rows[j.cam].url \in Urls
    BY <1>1 DEF TypeOK, Exists, Row
  <2> QED BY <2>1, <1>1, <1>2 DEF JobOK
<1> HIDE DEF url
<1>5. k # Idle => JobOK(k) /\ k.op = j.op /\ k.cam = j.cam /\ k.url = url /\ k.name = j.name /\ k.at = "add"
  <2>1. Exists(j.cam) \/ j.op = "restart" => JobOK(Later(j, url, "add"))
    BY <1>1, <1>4, LaterType
  <2> QED BY <2>1 DEF Later
<1>6. k = Idle => ~Exists(j.cam)
  <2>1. Later(j, url, "add").op = j.op /\ j.op # "idle"
    BY <1>1, JobIsNotIdle DEF Later
  <2>2. Later(j, url, "add") # Idle
    BY <2>1 DEF Idle
  <2> QED BY <2>2
<1> HIDE DEF k
<1>7. Becomes(t, k)
  BY <1>3, <1>5 DEF Becomes
<1>8. \A c \in Cameras \ {j.cam} : Untouched(c)
  BY <1>2 DEF Untouched
<1>9. j.cam \notin raced =>
          /\ k = Idle => Agrees(j.cam, rows', services', captures', bypassed')
          /\ k # Idle => Midway(j.cam, k, rows', services', captures', bypassed')
  BY <1>1, <1>2, <1>4, <1>5, <1>6 DEF Midway, Agrees, Exists
<1>10. NamesAreReserved'
  BY <1>2, <1>4, <1>5, <1>7, NamesStay
<1>11. /\ rows' \in [Cameras -> Row \cup {Gone}] /\ inserted \subseteq inserted' /\ inserted' \subseteq Cameras
       /\ services' \subseteq Cameras /\ captures' \in [Cameras -> Urls \cup {Gone}] /\ bypassed' \subseteq Cameras
       /\ captures'[j.cam] # Gone => j.cam \in services'
       /\ rows'[j.cam] # Gone => j.cam \in inserted'
  BY <1>1, <1>2 DEF TypeOK, NoStrayCapture, RowsAreInserted, Exists
<1> QED BY <1>2, <1>7, <1>8, <1>9, <1>10, <1>11, StepKeeps

LEMMA AddKeeps ==
    ASSUME ManagerInv, NEW t \in Tasks, jobs[t] # Idle, Add(t)
    PROVE  ManagerInv'
<1> DEFINE j == jobs[t]
<1>1. /\ TypeInv /\ TypeOK /\ JobOK(j) /\ j \in JobOf /\ j.cam \in Cameras /\ NoStrayCapture /\ RowsAreInserted
      /\ j.cam \notin raced => Midway(j.cam, j, rows, services, captures, bypassed)
  BY Known
<1>2. /\ j.at = "add" /\ j.url \in Urls
      /\ UNCHANGED <<rows, inserted, phase, raced, bypassed, received, crashes>>
  BY <1>1 DEF Add, JobOK
<1>3. Becomes(t, Idle)
  BY DEF Add, Finish, Becomes
<1>4. \/ j.cam \in services /\ UNCHANGED <<services, captures>>
      \/ /\ j.cam \notin services /\ services' = services \cup {j.cam}
         /\ captures[j.cam] = Gone /\ captures' = [captures EXCEPT ![j.cam] = j.url]
  BY <1>1 DEF Add, AddCamera, StartService, EngineAdd, NoStrayCapture
<1>5. \A c \in Cameras \ {j.cam} : Untouched(c)
  BY <1>1, <1>2, <1>4 DEF Untouched, TypeOK
<1>6. j.cam \notin raced => Agrees(j.cam, rows', services', captures', bypassed')
  BY <1>1, <1>2, <1>4 DEF Midway, Agrees, TypeOK
<1>7. NamesAreReserved'
  BY <1>2, <1>3, NamesStay
<1>8. /\ rows' \in [Cameras -> Row \cup {Gone}] /\ inserted \subseteq inserted' /\ inserted' \subseteq Cameras
      /\ services' \subseteq Cameras /\ captures' \in [Cameras -> Urls \cup {Gone}] /\ bypassed' \subseteq Cameras
      /\ captures'[j.cam] # Gone => j.cam \in services'
      /\ rows'[j.cam] # Gone => j.cam \in inserted'
  BY <1>1, <1>2, <1>4 DEF TypeOK, NoStrayCapture, RowsAreInserted, Exists
<1> DEFINE k == Idle
<1>9. Becomes(t, k) /\ k = Idle
  BY <1>3
<1> HIDE DEF k
<1>10. j.cam \notin raced =>
          /\ k = Idle => Agrees(j.cam, rows', services', captures', bypassed')
          /\ k # Idle => Midway(j.cam, k, rows', services', captures', bypassed')
  BY <1>6, <1>9
<1>11. Becomes(t, k)
  BY <1>9
<1> QED BY <1>2, <1>5, <1>7, <1>8, <1>10, <1>11, StepKeeps

LEMMA RemoveKeeps ==
    ASSUME ManagerInv, NEW t \in Tasks, jobs[t] # Idle, Remove(t)
    PROVE  ManagerInv'
<1> DEFINE j == jobs[t]
           k == IF j.op = "delete" THEN Later(j, j.url, "drop") ELSE Idle
<1>1. /\ TypeInv /\ TypeOK /\ JobOK(j) /\ j \in JobOf /\ j.cam \in Cameras /\ NoStrayCapture /\ RowsAreInserted
      /\ j.cam \notin raced => Midway(j.cam, j, rows, services, captures, bypassed)
  BY Known
<1>2. /\ j.at = "remove" /\ j.op # "create" /\ services' = services \ {j.cam}
      /\ captures' = IF j.cam \in services THEN [captures EXCEPT ![j.cam] = Gone] ELSE captures
      /\ UNCHANGED <<rows, inserted, phase, raced, bypassed, received, crashes>>
  BY <1>1 DEF Remove, RemoveCamera, EngineRemove, JobOK
<1>3. jobs' = [jobs EXCEPT ![t] = k]
  BY DEF Remove, Go, Finish
<1>4. k # Idle => JobOK(k) /\ k.op = j.op /\ k.cam = j.cam /\ k.name = j.name /\ k.at = "drop"
  <2>1. j.op = "delete" => j.url \in Urls \cup {Keep} /\ j.url \in Urls
    BY <1>1, <1>2 DEF JobOK
  <2>2. j.op = "delete" => JobOK(Later(j, j.url, "drop"))
    BY <1>1, <2>1, LaterType
  <2> QED BY <2>2 DEF Later
<1>5. k = Idle => j.op # "delete"
  <2>1. Later(j, j.url, "drop").op = j.op /\ j.op # "idle"
    BY <1>1, JobIsNotIdle DEF Later
  <2>2. Later(j, j.url, "drop") # Idle
    BY <2>1 DEF Idle
  <2> QED BY <2>2
<1> HIDE DEF k
<1>6. Becomes(t, k)
  BY <1>3, <1>4 DEF Becomes
<1>7. \A c \in Cameras \ {j.cam} : Untouched(c)
  BY <1>1, <1>2 DEF Untouched, TypeOK
<1>8. captures'[j.cam] = Gone
  BY <1>1, <1>2 DEF TypeOK, NoStrayCapture
<1>9. j.cam \notin raced =>
          /\ k = Idle => Agrees(j.cam, rows', services', captures', bypassed')
          /\ k # Idle => Midway(j.cam, k, rows', services', captures', bypassed')
  BY <1>1, <1>2, <1>4, <1>5, <1>8 DEF Midway, Agrees
<1>10. NamesAreReserved'
  BY <1>2, <1>4, <1>6, NamesStay
<1>11. /\ rows' \in [Cameras -> Row \cup {Gone}] /\ inserted \subseteq inserted' /\ inserted' \subseteq Cameras
       /\ services' \subseteq Cameras /\ captures' \in [Cameras -> Urls \cup {Gone}] /\ bypassed' \subseteq Cameras
       /\ captures'[j.cam] # Gone => j.cam \in services'
       /\ rows'[j.cam] # Gone => j.cam \in inserted'
  BY <1>1, <1>2, <1>8 DEF TypeOK, RowsAreInserted, Exists
<1> QED BY <1>2, <1>6, <1>7, <1>9, <1>10, <1>11, StepKeeps

LEMMA DropRowKeeps ==
    ASSUME ManagerInv, NEW t \in Tasks, jobs[t] # Idle, DropRow(t)
    PROVE  ManagerInv'
<1> DEFINE j == jobs[t]
<1>1. /\ TypeInv /\ TypeOK /\ JobOK(j) /\ j \in JobOf /\ j.cam \in Cameras /\ NoStrayCapture /\ RowsAreInserted
      /\ j.cam \notin raced => Midway(j.cam, j, rows, services, captures, bypassed)
  BY Known
<1>2. /\ j.at = "drop" /\ rows' = [rows EXCEPT ![j.cam] = Gone]
      /\ UNCHANGED <<inserted, services, captures, phase, raced, bypassed, received, crashes>>
  BY DEF DropRow, process
<1>3. Becomes(t, Idle)
  BY DEF DropRow, Finish, Becomes
<1>4. \A c \in Cameras \ {j.cam} : Untouched(c)
  BY <1>1, <1>2 DEF Untouched, TypeOK
<1>5. rows'[j.cam] = Gone
  BY <1>1, <1>2 DEF TypeOK
<1>6. j.cam \notin raced => Agrees(j.cam, rows', services', captures', bypassed')
  BY <1>1, <1>2, <1>5 DEF Midway, Agrees, NoStrayCapture
<1>7. NamesAreReserved'
  <2>1. \A d \in Cameras : rows'[d] # Gone => rows[d] # Gone /\ rows'[d].name = rows[d].name
    BY <1>1, <1>2 DEF TypeOK
  <2> QED BY <1>2, <1>3, <2>1, NamesStay
<1>8. /\ rows' \in [Cameras -> Row \cup {Gone}] /\ inserted \subseteq inserted' /\ inserted' \subseteq Cameras
      /\ services' \subseteq Cameras /\ captures' \in [Cameras -> Urls \cup {Gone}] /\ bypassed' \subseteq Cameras
      /\ captures'[j.cam] # Gone => j.cam \in services'
      /\ rows'[j.cam] # Gone => j.cam \in inserted'
  BY <1>1, <1>2, <1>5 DEF TypeOK, NoStrayCapture, RowsAreInserted, Exists
<1> DEFINE k == Idle
<1>9. Becomes(t, k) /\ k = Idle
  BY <1>3
<1> HIDE DEF k
<1>10. j.cam \notin raced =>
          /\ k = Idle => Agrees(j.cam, rows', services', captures', bypassed')
          /\ k # Idle => Midway(j.cam, k, rows', services', captures', bypassed')
  BY <1>6, <1>9
<1>11. Becomes(t, k)
  BY <1>9
<1> QED BY <1>2, <1>4, <1>7, <1>8, <1>10, <1>11, StepKeeps

-----------------------------------------------------------------------------
(* A request that is received, and the life of the process.                *)

LEMMA ReceiveKeeps ==
    ASSUME ManagerInv, NEW t \in Tasks, NEW j, JobOK(j), j.at = "read", Receive(t, j),
           j.op = "create" => j.cam \notin inserted
    PROVE  ManagerInv'
<1> DEFINE new == UNION {{j.cam, jobs[u].cam} : u \in {v \in Busy : Clash(j, jobs[v])}}
<1>1. TypeInv /\ TypeOK /\ NoStrayCapture /\ RowsAreInserted
  BY DEF ManagerInv, TypeInv
<1>2. /\ phase = "serving" /\ jobs[t] = Idle
      /\ jobs' = [jobs EXCEPT ![t] = j] /\ received' = received + 1 /\ raced' = raced \cup new
      /\ UNCHANGED <<rows, inserted, services, captures, phase, bypassed, crashes>>
  BY DEF Receive, process
<1>3. /\ jobs' \in [Tasks -> JobOf \cup {Idle}] /\ JobsOK'
      /\ jobs'[t] = j /\ \A u \in Tasks \ {t} : jobs'[u] = jobs[u]
  BY <1>1, <1>2, JobsType
<1>4. \A u \in Busy : Clash(j, jobs[u]) => j.cam \in new /\ jobs[u].cam \in new
  OBVIOUS
<1>5. new \subseteq Cameras
  <2>1. j.cam \in Cameras /\ \A u \in Busy : jobs[u].cam \in Cameras
    BY <1>1, BusyJob DEF JobOK, JobOf, Busy
  <2> QED BY <2>1
<1> HIDE DEF new
<1>6. TypeOK'
  BY <1>1, <1>2, <1>3, <1>5 DEF TypeOK
<1>7. NoStrayCapture' /\ RowsAreInserted' /\ DownIsIdle'
  BY <1>1, <1>2 DEF NoStrayCapture, RowsAreInserted, DownIsIdle, Exists
<1>8. OverlapsAreNoted'
  <2> SUFFICES ASSUME NEW u \in Tasks, NEW v \in Tasks, jobs'[u] # Idle, jobs'[v] # Idle, u # v,
                      Clash(jobs'[u], jobs'[v])
               PROVE  {jobs'[u].cam, jobs'[v].cam} \subseteq raced'
    BY DEF OverlapsAreNoted, Busy
  <2>1. CASE u # t /\ v # t
    BY <2>1, <1>2, <1>3 DEF ManagerInv, OverlapsAreNoted, Busy
  <2>2. CASE u = t
    BY <2>2, <1>2, <1>3, <1>4 DEF Busy
  <2>3. CASE v = t
    BY <2>3, <1>2, <1>3, <1>4 DEF Busy, Clash
  <2> QED BY <2>1, <2>2, <2>3
<1>9. AloneIsMidway'
  <2> SUFFICES ASSUME NEW c \in Cameras, c \notin raced'
               PROVE  /\ (\A u \in Tasks : jobs'[u] # Idle => jobs'[u].cam # c) =>
                            Agrees(c, rows, services, captures, bypassed)
                      /\ \A u \in Tasks : jobs'[u] # Idle /\ jobs'[u].cam = c =>
                            Midway(c, jobs'[u], rows, services, captures, bypassed)
    BY <1>2 DEF AloneIsMidway
  <2>1. /\ c \notin raced
        /\ (\A u \in Tasks : jobs[u] # Idle => jobs[u].cam # c) => Agrees(c, rows, services, captures, bypassed)
        /\ \A u \in Tasks : jobs[u] # Idle /\ jobs[u].cam = c =>
              Midway(c, jobs[u], rows, services, captures, bypassed)
    BY <1>2 DEF ManagerInv, AloneIsMidway
  <2>2. CASE c # j.cam
    BY <2>1, <2>2, <1>2, <1>3
  <2>3. CASE c = j.cam
    <3>1. \A u \in Tasks : jobs[u] # Idle => jobs[u].cam # c
      BY <2>3, <1>2, <1>4 DEF Clash, Busy
    <3>2. Agrees(c, rows, services, captures, bypassed)
      BY <2>1, <3>1
    <3>3. Midway(c, j, rows, services, captures, bypassed)
      BY <2>3, <3>2, <1>1 DEF Midway, Agrees, RowsAreInserted, Exists
    <3> QED BY <3>1, <3>2, <3>3, <1>3
  <2> QED BY <2>2, <2>3
<1>10. NamesAreReserved'
  BY <1>2, <1>3 DEF ManagerInv, NamesAreReserved, Exists
<1> QED BY <1>3, <1>6, <1>7, <1>8, <1>9, <1>10 DEF ManagerInv, TypeInv

LEMMA NewJob ==
    ASSUME NEW op \in Ops, NEW c \in Cameras, NEW n \in Names \cup {Keep}, NEW u \in Urls \cup {Keep},
           NEW e \in BOOLEAN \cup {Keep},
           op = "create" => n \in Names /\ u \in Urls /\ e \in BOOLEAN
    PROVE  JobOK(Job(op, c, n, u, e)) /\ Job(op, c, n, u, e).at = "read"
           /\ Job(op, c, n, u, e).cam = c /\ Job(op, c, n, u, e).op = op
<1>1. Job(op, c, n, u, e) \in JobOf
  BY DEF Job, JobOf
<1> QED BY <1>1 DEF Job, JobOK

LEMMA ReceivesKeep ==
    ASSUME ManagerInv, NEW t \in Tasks, ReceiveCreate(t) \/ ReceiveUpdate(t) \/ ReceiveOther(t)
    PROVE  ManagerInv'
<1>1. inserted \subseteq Cameras
  BY DEF ManagerInv, TypeInv, TypeOK
<1>2. CASE ReceiveCreate(t)
  <2>1. PICK c \in Cameras \ inserted, n \in Names, u \in Urls, e \in BOOLEAN : Receive(t, Job("create", c, n, u, e))
    BY <1>2 DEF ReceiveCreate
  <2>2. /\ JobOK(Job("create", c, n, u, e)) /\ Job("create", c, n, u, e).at = "read"
        /\ Job("create", c, n, u, e).cam = c
    BY NewJob DEF Ops
  <2> QED BY <2>1, <2>2, ReceiveKeeps
<1>3. CASE ReceiveUpdate(t)
  <2>1. PICK c \in inserted, n \in Names \cup {Keep}, u \in Urls \cup {Keep}, e \in BOOLEAN \cup {Keep} :
            Receive(t, Job("update", c, n, u, e))
    BY <1>3 DEF ReceiveUpdate
  <2>2. /\ JobOK(Job("update", c, n, u, e)) /\ Job("update", c, n, u, e).at = "read"
        /\ Job("update", c, n, u, e).op = "update"
    BY <1>1, NewJob DEF Ops
  <2> QED BY <2>1, <2>2, ReceiveKeeps
<1>4. CASE ReceiveOther(t)
  <2>1. PICK c \in inserted, op \in Ops \ {"create", "update"} : Receive(t, Job(op, c, Keep, Keep, Keep))
    BY <1>4 DEF ReceiveOther
  <2>2. /\ JobOK(Job(op, c, Keep, Keep, Keep)) /\ Job(op, c, Keep, Keep, Keep).at = "read"
        /\ Job(op, c, Keep, Keep, Keep).op = op
    BY <1>1, NewJob
  <2> QED BY <2>1, <2>2, ReceiveKeeps
<1> QED BY <1>2, <1>3, <1>4

LEMMA StartKeeps == ManagerInv /\ StartManager => ManagerInv'
<1> SUFFICES ASSUME ManagerInv, StartManager PROVE ManagerInv'
  OBVIOUS
<1>1. TypeInv /\ TypeOK /\ RowsAreInserted
  BY DEF ManagerInv, TypeInv
<1>2. /\ phase = "down" /\ phase' = "serving" /\ raced' = {} /\ bypassed' = {}
      /\ services' = {c \in ListCameras : rows[c].enabled}
      /\ captures' = [c \in Cameras |-> IF c \in services' THEN rows[c].url ELSE Gone]
      /\ UNCHANGED <<rows, inserted, jobs, received, crashes>>
  BY DEF StartManager
<1>3. \A t \in Tasks : jobs[t] = Idle
  BY <1>2 DEF ManagerInv, DownIsIdle
<1>4. /\ services' \subseteq Cameras
      /\ \A c \in Cameras : c \in services' <=> rows[c] # Gone /\ rows[c].enabled
  BY <1>2 DEF ListCameras, Exists
<1>5. \A c \in Cameras : rows[c] # Gone => rows[c].url \in Urls
  BY <1>1 DEF TypeOK, Row
<1>6. TypeOK'
  BY <1>1, <1>2, <1>4, <1>5 DEF TypeOK
<1>7. JobsOK'
  BY <1>2, <1>3 DEF JobsOK
<1>8. NoStrayCapture' /\ RowsAreInserted' /\ DownIsIdle' /\ OverlapsAreNoted' /\ NamesAreReserved'
  BY <1>1, <1>2, <1>3, <1>4 DEF NoStrayCapture, RowsAreInserted, DownIsIdle, OverlapsAreNoted, Busy, NamesAreReserved,
                                Exists
<1>9. AloneIsMidway'
  <2>1. \A c \in Cameras : Agrees(c, rows', services', captures', bypassed')
    BY <1>2, <1>4 DEF Agrees
  <2> QED BY <1>2, <1>3, <2>1 DEF AloneIsMidway
<1> QED BY <1>6, <1>7, <1>8, <1>9 DEF ManagerInv, TypeInv

LEMMA DownKeeps == ManagerInv /\ (StopManager \/ Crash) => ManagerInv'
<1> SUFFICES ASSUME ManagerInv, StopManager \/ Crash PROVE ManagerInv'
  OBVIOUS
<1>1. TypeInv /\ TypeOK /\ RowsAreInserted
  BY DEF ManagerInv, TypeInv
<1>2. /\ phase' = "down" /\ services' = {} /\ captures' = [c \in Cameras |-> Gone] /\ crashes' = crashes + 1
      /\ UNCHANGED <<rows, inserted, raced, bypassed, received>>
  BY DEF StopManager, Crash, NoCaptures
<1>3. jobs' \in [Tasks -> JobOf \cup {Idle}] /\ \A t \in Tasks : jobs'[t] = Idle
  BY <1>1 DEF StopManager, Crash, Busy, TypeOK
<1>4. TypeOK'
  BY <1>1, <1>2, <1>3 DEF TypeOK
<1>5. JobsOK'
  BY <1>3 DEF JobsOK
<1>6. /\ NoStrayCapture' /\ RowsAreInserted' /\ DownIsIdle' /\ OverlapsAreNoted' /\ AloneIsMidway'
      /\ NamesAreReserved'
  BY <1>1, <1>2, <1>3 DEF NoStrayCapture, RowsAreInserted, DownIsIdle, OverlapsAreNoted, AloneIsMidway, Busy,
                          NamesAreReserved, Exists
<1> QED BY <1>4, <1>5, <1>6 DEF ManagerInv, TypeInv

LEMMA NextKeepsManager == ManagerInv /\ [Next]_vars => ManagerInv'
<1> SUFFICES ASSUME ManagerInv, [Next]_vars PROVE ManagerInv'
  OBVIOUS
<1>1. CASE StartManager \/ StopManager \/ Crash
  BY <1>1, StartKeeps, DownKeeps
<1>2. ASSUME NEW t \in Tasks, ReceiveCreate(t) \/ ReceiveUpdate(t) \/ ReceiveOther(t)
      PROVE  ManagerInv'
  BY <1>2, ReceivesKeep
<1>3. ASSUME NEW t \in Tasks, Step(t)
      PROVE  ManagerInv'
  BY <1>3, CheckNewKeeps, InsertKeeps, ReadKeeps, UpdateKeeps, SetEnabledKeeps, StopOldKeeps, RereadKeeps, AddKeeps,
     RemoveKeeps, DropRowKeeps DEF Step
<1>4. CASE UNCHANGED vars
  <2>1. UNCHANGED <<rows, inserted, services, captures, phase, jobs, raced, bypassed, received, crashes>>
    BY <1>4 DEF vars, process
  <2>2. TypeInv' /\ NoStrayCapture' /\ RowsAreInserted' /\ DownIsIdle'
    BY <2>1 DEF ManagerInv, TypeInv, TypeOK, JobsOK, NoStrayCapture, RowsAreInserted, DownIsIdle, Exists
  <2>3. OverlapsAreNoted' /\ AloneIsMidway' /\ NamesAreReserved'
    BY <2>1 DEF ManagerInv, OverlapsAreNoted, Busy, AloneIsMidway, NamesAreReserved, Exists
  <2> QED BY <2>2, <2>3 DEF ManagerInv
<1> QED BY <1>1, <1>2, <1>3, <1>4 DEF Next

\* The strengthened invariant: overlaps are noted, a camera without one is where
\* its request has brought it, and a name that was found free is reserved.
THEOREM ManagerInvariant == Spec => []ManagerInv
  BY InitManager, NextKeepsManager, PTL DEF Spec

\* Rows, entries, captures and requests are of their kinds in every run of the
\* camera manager.
THEOREM ManagerTypes == Spec => []TypeOK
<1>1. ManagerInv => TypeOK
  BY DEF ManagerInv, TypeInv
<1> QED BY ManagerInvariant, <1>1, PTL

\* No capture runs without an entry of the manager, whatever requests overlap
\* and wherever the process dies.
THEOREM CapturesHaveEntries == Spec => []NoStrayCapture
<1>1. ManagerInv => NoStrayCapture
  BY DEF ManagerInv
<1> QED BY ManagerInvariant, <1>1, PTL

\* Where the requests of a camera do not overlap, entries, captures and rows
\* agree once they are answered.
THEOREM SettledCamerasAgree == Spec => []AloneAgrees
<1>1. ManagerInv => AloneAgrees
  BY DEF ManagerInv, AloneIsMidway, AloneAgrees, Settled, On, Busy, Agrees, ActiveCameraIds, Exists
<1> QED BY ManagerInvariant, <1>1, PTL

\* A row that is inserted has a name no other row has, unless a request about
\* that name was in flight with it.
THEOREM NewNamesWereFree == Spec => NewNamesAreFree
<1> DEFINE Free ==
        \A c \in Cameras : rows[c] = Gone /\ rows'[c] # Gone /\ c \notin raced =>
            \A d \in Cameras \ {c} : rows[d] # Gone => rows[d].name # rows'[c].name
<1>1. ManagerInv /\ [Next]_vars => [Free]_vars
  <2> SUFFICES ASSUME ManagerInv, Next, NEW c \in Cameras, rows[c] = Gone, rows'[c] # Gone, c \notin raced,
                      NEW d \in Cameras \ {c}, rows[d] # Gone
               PROVE  rows[d].name # rows'[c].name
    OBVIOUS
  <2>1. TypeOK
    BY DEF ManagerInv, TypeInv
  <2>2. PICK t \in Tasks : jobs[t] # Idle /\ (Insert(t) \/ Update(t) \/ SetEnabled(t) \/ DropRow(t))
    BY DEF Next, StartManager, StopManager, Crash, ReceiveCreate, ReceiveUpdate, ReceiveOther, Receive, Step, CheckNew, Read,
           StopOld, Reread, Add, Remove
  <2>3. Insert(t) /\ jobs[t].cam = c
    BY <2>1, <2>2 DEF Insert, Update, SetEnabled, DropRow, Exists, TypeOK
  <2>4. rows'[c].name = jobs[t].name
    BY <2>1, <2>3 DEF Insert, TypeOK
  <2> QED BY <2>2, <2>3, <2>4 DEF Insert, ManagerInv, NamesAreReserved, Exists
<1> HIDE DEF Free
<1>3. Spec => [][Free]_vars
  BY <1>1, ManagerInvariant, PTL DEF Spec
<1> QED BY <1>3 DEF NewNamesAreFree, Free

-----------------------------------------------------------------------------
(* CameraService: the buffer.                                              *)

LEMMA BufferSizePositive == BufferSize \in Nat /\ BufferSize > 0
  BY BoundAssumption

BufferType ==
    /\ frames \in Nat /\ dispatched \in Nat
    /\ queue \in Seq(Nat) /\ Len(queue) <= BufferSize

Contiguous(q, last) == \A i \in 1 .. Len(q) : q[i] = last - Len(q) + i

BufferInv ==
    /\ BufferType
    /\ Contiguous(queue, frames)
    /\ dispatched + Len(queue) <= frames

\* Taking the first frame leaves the newest ones.
LEMMA TailContiguous ==
    ASSUME NEW q \in Seq(Nat), NEW last \in Nat, Contiguous(q, last), q # <<>>
    PROVE  /\ Tail(q) \in Seq(Nat) /\ Len(Tail(q)) = Len(q) - 1 /\ Len(q) \in Nat \ {0}
           /\ Contiguous(Tail(q), last)
<1> DEFINE t == Tail(q)
<1>1. t \in Seq(Nat) /\ Len(t) = Len(q) - 1 /\ \A i \in 1 .. Len(t) : t[i] = q[i + 1]
  BY HeadTailProperties
<1>2. Len(q) \in Nat /\ Len(q) # 0
  BY LenProperties, EmptySeq
<1> HIDE DEF t
<1>3. ASSUME NEW i \in 1 .. Len(t) PROVE t[i] = last - Len(t) + i
  <2>1. i \in Int /\ i + 1 \in 1 .. Len(q)
    BY <1>1, <1>2
  <2>2. q[i + 1] = last - Len(q) + (i + 1)
    BY <2>1 DEF Contiguous
  <2> QED BY <1>1, <1>2, <2>1, <2>2
<1>4. Contiguous(t, last)
  BY <1>3 DEF Contiguous
<1> QED BY <1>1, <1>2, <1>4 DEF t

\* Appending the next frame keeps the sequence without a gap.
LEMMA AppendContiguous ==
    ASSUME NEW q \in Seq(Nat), NEW last \in Nat, Contiguous(q, last)
    PROVE  /\ Append(q, last + 1) \in Seq(Nat) /\ Len(Append(q, last + 1)) = Len(q) + 1
           /\ Len(q) \in Nat
           /\ Contiguous(Append(q, last + 1), last + 1)
<1> DEFINE p == Append(q, last + 1)
<1>1. /\ p \in Seq(Nat) /\ Len(p) = Len(q) + 1 /\ p[Len(q) + 1] = last + 1
      /\ \A i \in 1 .. Len(q) : p[i] = q[i]
  BY AppendProperties
<1>2. Len(q) \in Nat
  BY LenProperties
<1> HIDE DEF p
<1>3. ASSUME NEW i \in 1 .. Len(p) PROVE p[i] = last + 1 - Len(p) + i
  <2>1. CASE i = Len(q) + 1
    BY <2>1, <1>1, <1>2
  <2>2. CASE i # Len(q) + 1
    <3>1. i \in 1 .. Len(q)
      BY <2>2, <1>1, <1>2
    <3> QED BY <3>1, <1>1, <1>2 DEF Contiguous
  <2> QED BY <2>1, <2>2
<1>4. Contiguous(p, last + 1)
  BY <1>3 DEF Contiguous
<1> QED BY <1>1, <1>2, <1>4 DEF p

\* Push does one or the other, and never exceeds the buffer's size.
LEMMA PushContiguous ==
    ASSUME NEW q \in Seq(Nat), NEW last \in Nat, Len(q) <= BufferSize,
           Contiguous(q, last)
    PROVE  /\ Push(q, last + 1) \in Seq(Nat)
           /\ Len(Push(q, last + 1)) <= BufferSize
           /\ Len(Push(q, last + 1)) <= Len(q) + 1
           /\ Contiguous(Push(q, last + 1), last + 1)
<1>1. CASE Len(q) = BufferSize
  <2>1. q # <<>>
    BY <1>1, BufferSizePositive, EmptySeq
  <2>2. Push(q, last + 1) = Append(Tail(q), last + 1)
    BY <1>1 DEF Push
  <2>3. /\ Tail(q) \in Seq(Nat) /\ Len(Tail(q)) = Len(q) - 1 /\ Len(q) \in Nat
        /\ Contiguous(Tail(q), last)
    BY <2>1, TailContiguous
  <2>4. /\ Append(Tail(q), last + 1) \in Seq(Nat)
        /\ Len(Append(Tail(q), last + 1)) = Len(Tail(q)) + 1
        /\ Contiguous(Append(Tail(q), last + 1), last + 1)
    BY <2>3, AppendContiguous
  <2>5. Len(Append(Tail(q), last + 1)) = Len(q)
    BY <2>3, <2>4
  <2>6. Push(q, last + 1) \in Seq(Nat) /\ Contiguous(Push(q, last + 1), last + 1)
    BY <2>2, <2>4, Zenon
  <2>7. Len(Push(q, last + 1)) = Len(q) /\ Len(q) \in Nat
    BY <2>2, <2>3, <2>5
  <2> QED BY <1>1, <2>6, <2>7, BufferSizePositive
<1>2. CASE Len(q) # BufferSize
  <2>1. Push(q, last + 1) = Append(q, last + 1)
    BY <1>2 DEF Push
  <2>2. Len(Append(q, last + 1)) = Len(q) + 1 /\ Len(q) \in Nat
    BY AppendContiguous
  <2>3. Append(q, last + 1) \in Seq(Nat) /\ Contiguous(Append(q, last + 1), last + 1)
    BY AppendContiguous
  <2>4. Push(q, last + 1) \in Seq(Nat) /\ Contiguous(Push(q, last + 1), last + 1)
    BY <2>1, <2>3, Zenon
  <2>5. Len(Push(q, last + 1)) = Len(q) + 1 /\ Len(q) + 1 <= BufferSize
    BY <1>2, <2>1, <2>2, BufferSizePositive
  <2> QED BY <2>2, <2>4, <2>5
<1> QED BY <1>1, <1>2

LEMMA InitBuffer == InitService => BufferInv
  BY BufferSizePositive DEF InitService, BufferInv, BufferType, Contiguous

LEMMA StepBuffer == BufferInv /\ [NextService]_serviceVars => BufferInv'
<1> SUFFICES ASSUME BufferInv, [NextService]_serviceVars PROVE BufferInv'
  OBVIOUS
<1> USE DEF BufferInv, BufferType
<1>1. ASSUME UNCHANGED Buffer PROVE BufferInv'
  BY <1>1 DEF Buffer, Contiguous
<1>2. ASSUME NEW l \in Loops, ReadFrame(l) PROVE BufferInv'
  <2>1. frames' = frames + 1 /\ queue' = Push(queue, frames + 1) /\ dispatched' = dispatched
    BY <1>2 DEF ReadFrame
  <2> QED BY <2>1, PushContiguous
<1>3. ASSUME Dispatch PROVE BufferInv'
  <2>1. queue # <<>> /\ dispatched' = Head(queue) /\ queue' = Tail(queue) /\ frames' = frames
    BY <1>3 DEF Dispatch
  <2>2. /\ queue' \in Seq(Nat) /\ Len(queue') = Len(queue) - 1 /\ Len(queue) \in Nat \ {0}
        /\ Contiguous(queue', frames')
    BY <2>1, TailContiguous
  <2>3. dispatched' = queue[1] /\ queue[1] = frames - Len(queue) + 1
    BY <2>1, <2>2 DEF Contiguous
  <2> QED BY <2>1, <2>2, <2>3, BufferSizePositive
<1>4. CASE Start \/ Stop \/ CheckDegradation \/ StreamChanges
  BY <1>4, <1>1 DEF Start, Stop, CheckDegradation, StreamChanges
<1>5. ASSUME NEW l \in Loops, Ingest(l), ~ReadFrame(l) PROVE BufferInv'
  BY <1>5, <1>1 DEF Ingest, Begin, LeaveLoop, OpenSucceeds, OpenFails, ReadFails, StreamLost,
                    WaitForReconnect, Wake
<1>6. CASE UNCHANGED serviceVars
  BY <1>6, <1>1 DEF serviceVars, Buffer
<1> QED BY <1>2, <1>3, <1>4, <1>5, <1>6 DEF NextService

\* The newest frames, in order and without a gap, whatever the buffer's size and
\* however starts, stops, reconnects and even several ingest loops interleave.
THEOREM Freshest == ServiceSpec => []FreshestFrames
<1>1. BufferInv => FreshestFrames
  <2> SUFFICES ASSUME BufferInv PROVE FreshestFrames
    OBVIOUS
  <2>1. ASSUME queue # <<>> PROVE dispatched < Head(queue)
    <3>1. Len(queue) \in Nat \ {0} /\ Head(queue) = queue[1]
      BY <2>1 DEF BufferInv, BufferType
    <3> QED BY <3>1 DEF BufferInv, BufferType, Contiguous
  <2> QED BY <2>1 DEF BufferInv, Contiguous, FreshestFrames
<1> QED BY <1>1, InitBuffer, StepBuffer, PTL DEF ServiceSpec

-----------------------------------------------------------------------------
(* CameraService: nothing is left running, if attempts are not limited.    *)

Ended == {"none", "done"}

\* While the service runs, only the loop of its task is alive.
LifecycleInv ==
    /\ loops \in [Loops -> Places]
    /\ running \in BOOLEAN /\ stop_event \in BOOLEAN /\ capture \in BOOLEAN
    /\ max_attempts = 0 =>
        /\ running => task \in Loops /\ ~stop_event
        /\ \A l \in Loops : loops[l] \in Ended \/ (running /\ l = task)
        /\ ~running => ~capture

LEMMA InitLifecycle == InitService => LifecycleInv
  BY DEF InitService, LifecycleInv, Ended, Places

\* Steps of an ingest loop, with and without a limit.
LEMMA IngestTypes ==
    ASSUME LifecycleInv, NEW l \in Loops, Ingest(l)
    PROVE  /\ \E where \in Places : loops' = [loops EXCEPT ![l] = where]
           /\ running' \in BOOLEAN /\ stop_event' = stop_event /\ capture' \in BOOLEAN
           /\ task' = task /\ max_attempts' = max_attempts
           /\ loops[l] \notin Ended
           /\ max_attempts = 0 => running' = running
<1> USE DEF LifecycleInv, Ended, Places, Lifecycle, Policy, Goto
<1>1. CASE Begin(l) \/ OpenSucceeds(l) \/ OpenFails(l)
  BY <1>1 DEF Begin, OpenSucceeds, OpenFails
<1>2. CASE LeaveLoop(l) \/ StreamLost(l) \/ Wake(l)
  BY <1>2 DEF LeaveLoop, StreamLost, Wake
<1>3. CASE ReadFrame(l) \/ ReadFails(l)
  <2>1. loops' = loops => loops' = [loops EXCEPT ![l] = "read"]
    BY <1>3 DEF ReadFrame, ReadFails
  <2> QED BY <1>3, <2>1 DEF ReadFrame, ReadFails
<1>4. CASE WaitForReconnect(l)
  BY <1>4 DEF WaitForReconnect, ShouldRetry
<1> QED BY <1>1, <1>2, <1>3, <1>4 DEF Ingest

LEMMA StepLifecycle == LifecycleInv /\ [NextService]_serviceVars => LifecycleInv'
<1> SUFFICES ASSUME LifecycleInv, [NextService]_serviceVars PROVE LifecycleInv'
  OBVIOUS
<1>1. CASE Start
  BY <1>1 DEF Start, Goto, Policy, LifecycleInv, Ended, Places
<1>2. CASE Stop
  BY <1>2 DEF Stop, Policy, LifecycleInv, Ended, Places
<1>3. ASSUME NEW l \in Loops, Ingest(l) PROVE LifecycleInv'
  <2>1. /\ loops' \in [Loops -> Places] /\ \A k \in Loops : k # l => loops'[k] = loops[k]
        /\ running' \in BOOLEAN /\ stop_event' = stop_event /\ capture' \in BOOLEAN
    BY <1>3, IngestTypes DEF LifecycleInv
  <2>2. CASE max_attempts = 0
    <3>1. running /\ l = task /\ running' = running /\ task' = task /\ max_attempts' = 0
      BY <1>3, <2>2, IngestTypes DEF LifecycleInv
    <3> QED BY <2>1, <2>2, <3>1 DEF LifecycleInv
  <2>3. CASE max_attempts # 0
    BY <1>3, <2>1, <2>3, IngestTypes DEF LifecycleInv
  <2> QED BY <2>2, <2>3
<1>4. CASE Dispatch \/ CheckDegradation \/ StreamChanges \/ UNCHANGED serviceVars
  BY <1>4 DEF Dispatch, CheckDegradation, StreamChanges, Lifecycle, Policy, serviceVars, LifecycleInv
<1> QED BY <1>1, <1>2, <1>3, <1>4 DEF NextService

\* With the default of unlimited attempts stop is thorough: a service that is
\* not running has no ingest loop and no open capture.
THEOREM StopIsThorough == ServiceSpec => []NotRunningIsStopped
<1>1. LifecycleInv => NotRunningIsStopped
  BY DEF LifecycleInv, NotRunningIsStopped, Left, Ended
<1>2. LifecycleInv /\ [NextService]_serviceVars => LifecycleInv'
  BY StepLifecycle
<1> QED BY <1>1, <1>2, InitLifecycle, PTL DEF ServiceSpec
=============================================================================
