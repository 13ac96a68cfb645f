----------------------------- MODULE CameraManager -----------------------------
(***************************************************************************)
(* The cameras of the older backend: the requests of                       *)
(* api/v1/endpoints/cameras.py, the rows of db/camera_repository.py, the   *)
(* entries of services/camera_manager.py and the captures of               *)
(* inference_engine/engine_manager.py.                                     *)
(*                                                                         *)
(* A request waits at every call of the database, and requests interleave  *)
(* there; each takes one step from one such place to the next.  What the   *)
(* manager does under its lock waits for nothing (a stop joins the capture *)
(* thread without giving way to others), so a section of the lock is part  *)
(* of one step and the lock is no variable.                                *)
(***************************************************************************)
EXTENDS Integers, FiniteSets

CONSTANTS
    Cameras,     \* identifiers of the rows; a row is never inserted twice
    Names, Urls,
    InvalidUrls, \* the ones validate_rtsp_url refuses
    Tasks,       \* requests in flight
    Gone,        \* no row, no capture
    Keep,        \* a field that an update leaves alone
    MaxRequests, \* bound on the requests
    MaxCrashes   \* bound on the crashes and stops of the process

ASSUME CameraManagerAssumption ==
    /\ InvalidUrls \subseteq Urls /\ {MaxRequests, MaxCrashes} \subseteq Nat
    /\ Keep \notin Names \cup Urls \cup BOOLEAN
    /\ Gone \notin Urls \cup [name : Names, url : Urls, enabled : BOOLEAN]

VARIABLES
    rows,       \* table cameras: name, url and is_enabled
    inserted,   \* cameras that ever had a row
    services,   \* keys of CameraManager._services
    captures,   \* EngineManager.capture_workers: the url of each
    phase,      \* of the lifespan: "down", "serving"
    jobs,       \* what each task does
    raced,      \* history: cameras whose requests overlapped since the start
    bypassed,   \* history: cameras patched or restarted past is_enabled since
    received,   \* requests so far
    crashes

process == <<services, captures, phase>>
vars == <<rows, inserted, process, jobs, raced, bypassed, received, crashes>>

Ops == {"create", "update", "restart", "enable", "disable", "delete"}
Row == [name : Names, url : Urls, enabled : BOOLEAN]
Idle == [op |-> "idle"]
Busy == {t \in Tasks : jobs[t] # Idle}
On(c) == {t \in Busy : jobs[t].cam = c}
Exists(c) == rows[c] # Gone
NoCaptures == [c \in Cameras |-> Gone]

Init ==
    /\ rows = [c \in Cameras |-> Gone] /\ inserted = {}
    /\ services = {} /\ captures = NoCaptures /\ phase = "down"
    /\ jobs = [t \in Tasks |-> Idle] /\ raced = {} /\ bypassed = {} /\ received = 0 /\ crashes = 0

-----------------------------------------------------------------------------
(* The manager.                                                            *)

\* A camera that has a capture is not given another.
EngineAdd(c, url) == captures' = IF captures[c] # Gone THEN captures ELSE [captures EXCEPT ![c] = url]
EngineRemove(c) == captures' = [captures EXCEPT ![c] = Gone]

StartService(c, url) == EngineAdd(c, url) /\ services' = services \cup {c}

AddCamera(c, url) ==
    IF c \in services THEN UNCHANGED <<services, captures>> ELSE StartService(c, url)

\* Mutant: the entry is popped and the capture left running.
RemoveEntry(c) == services' = services \ {c} /\ UNCHANGED captures

RemoveCamera(c) ==
    /\ services' = services \ {c}
    /\ IF c \in services THEN EngineRemove(c) ELSE UNCHANGED captures

\* Mutant: a restart that finds the camera running leaves it alone.
StopNothing(c) == UNCHANGED <<services, captures>>

\* The first section of restart_camera: the entry stays.
StopForRestart(c) ==
    /\ UNCHANGED services
    /\ IF c \in services THEN EngineRemove(c) ELSE UNCHANGED captures

\* All rows: nothing sets is_active to false.
ListCameras == {c \in Cameras : Exists(c)}

\* All enabled rows.
StartManager ==
    /\ phase = "down"
    /\ services' = {c \in ListCameras : rows[c].enabled}
    /\ captures' = [c \in Cameras |-> IF c \in services' THEN rows[c].url ELSE Gone]
    /\ phase' = "serving" /\ raced' = {} /\ bypassed' = {}
    /\ UNCHANGED <<rows, inserted, jobs, received, crashes>>

\* The end of the lifespan waits for the requests.
StopManager ==
    /\ phase = "serving" /\ Busy = {} /\ crashes < MaxCrashes
    /\ services' = {} /\ captures' = NoCaptures /\ phase' = "down"
    /\ crashes' = crashes + 1
    /\ UNCHANGED <<rows, inserted, jobs, raced, bypassed, received>>

Crash ==
    /\ phase # "down" /\ crashes < MaxCrashes
    /\ services' = {} /\ captures' = NoCaptures /\ phase' = "down"
    /\ jobs' = [t \in Tasks |-> Idle] /\ crashes' = crashes + 1
    /\ UNCHANGED <<rows, inserted, raced, bypassed, received>>

-----------------------------------------------------------------------------
(* The requests.                                                           *)

\* Every encryption of a text is another text, so a query by the text of a
\* url finds no row, whatever the rows hold.
FindByRtspUrl(url) == {}
NoDuplicateUrl(url) == FindByRtspUrl(url) = {}

\* Mutant: only enabled cameras are searched for the name.
FindEnabledByName(n) == {c \in Cameras : rows[c] # Gone /\ rows[c].enabled /\ rows[c].name = n}

FindByName(n) == {c \in Cameras : Exists(c) /\ rows[c].name = n}
ValidUrl(url) == url \notin InvalidUrls

\* Two requests touch the same thing: a camera, or a name.
Clash(j, k) == j.cam = k.cam \/ (j.name = k.name /\ j.name # Keep)

\* The same request, one step further.
Later(j, url, next) ==
    [op |-> j.op, cam |-> j.cam, name |-> j.name, url |-> url, enabled |-> j.enabled, at |-> next]
Go(t, next) == jobs' = [jobs EXCEPT ![t] = Later(@, @.url, next)]
Finish(t) == jobs' = [jobs EXCEPT ![t] = Idle]

Receive(t, j) ==
    /\ phase = "serving" /\ jobs[t] = Idle /\ received < MaxRequests
    /\ jobs' = [jobs EXCEPT ![t] = j] /\ received' = received + 1
    /\ raced' = raced \cup UNION {{j.cam, jobs[u].cam} : u \in {v \in Busy : Clash(j, jobs[v])}}
    /\ UNCHANGED <<rows, inserted, process, bypassed, crashes>>

Job(op, c, n, u, e) == [op |-> op, cam |-> c, name |-> n, url |-> u, enabled |-> e, at |-> "read"]

\* A camera gets a fresh identifier when it is created.
ReceiveCreate(t) ==
    \E c \in Cameras \ inserted, n \in Names, u \in Urls, e \in BOOLEAN :
        /\ \A v \in Busy : jobs[v].cam # c
        /\ Receive(t, Job("create", c, n, u, e))

\* An update names the fields it sets; one field stands for any of its kind.
ReceiveUpdate(t) ==
    \E c \in inserted :
        \/ \E n \in Names : Receive(t, Job("update", c, n, Keep, Keep))
        \/ \E u \in Urls : Receive(t, Job("update", c, Keep, u, Keep))
        \/ \E e \in BOOLEAN : Receive(t, Job("update", c, Keep, Keep, e))

ReceiveOther(t) ==
    \E c \in inserted, op \in Ops \ {"create", "update"} : Receive(t, Job(op, c, Keep, Keep, Keep))

\* The checks of a create: a name that is taken, a url that is refused.
CheckNew(t) ==
    LET j == jobs[t] IN
    /\ j.op = "create" /\ j.at = "read"
    /\ IF FindByName(j.name) = {} /\ NoDuplicateUrl(j.url) /\ ValidUrl(j.url)
       THEN Go(t, "write") ELSE Finish(t)
    /\ UNCHANGED <<rows, inserted, process, raced, bypassed, received, crashes>>

Insert(t) ==
    LET j == jobs[t] IN
    /\ j.op = "create" /\ j.at = "write"
    /\ rows' = [rows EXCEPT ![j.cam] = [name |-> j.name, url |-> j.url, enabled |-> j.enabled]]
    /\ inserted' = inserted \cup {j.cam}
    /\ IF j.enabled THEN Go(t, "add") ELSE Finish(t)
    /\ UNCHANGED <<process, raced, bypassed, received, crashes>>

\* _get_or_404, and the checks of an update.  Enable and restart keep the
\* url they read here.
Read(t) ==
    LET j == jobs[t]
        ok == Exists(j.cam) /\ (j.op = "update" /\ j.url # Keep => ValidUrl(j.url) /\ NoDuplicateUrl(j.url))
        next == CASE j.op = "restart" -> "stop" [] j.op = "delete" -> "remove" [] OTHER -> "write"
    IN
    /\ j.op # "create" /\ j.at = "read"
    /\ jobs' = [jobs EXCEPT ![t] =
           IF ok THEN Later(j, IF j.op = "update" THEN j.url ELSE rows[j.cam].url, next) ELSE Idle]
    /\ UNCHANGED <<rows, inserted, process, raced, bypassed, received, crashes>>

Set(row, j) ==
    [name |-> IF j.name = Keep THEN row.name ELSE j.name,
     url |-> IF j.url = Keep THEN row.url ELSE j.url,
     enabled |-> IF j.enabled = Keep THEN row.enabled ELSE j.enabled]

\* An update of a row that is gone changes nothing and answers with an error.
Update(t) ==
    LET j == jobs[t] IN
    /\ j.op = "update" /\ j.at = "write"
    /\ rows' = IF Exists(j.cam) THEN [rows EXCEPT ![j.cam] = Set(@, j)] ELSE rows
    /\ bypassed' = IF j.enabled # Keep THEN bypassed \cup {j.cam} ELSE bypassed
    /\ IF Exists(j.cam) /\ j.url # Keep THEN Go(t, "stop") ELSE Finish(t)
    /\ UNCHANGED <<inserted, process, raced, received, crashes>>

SetEnabled(t) ==
    LET j == jobs[t] IN
    /\ j.op \in {"enable", "disable"} /\ j.at = "write"
    /\ rows' = IF Exists(j.cam) THEN [rows EXCEPT ![j.cam] = [name |-> @.name, url |-> @.url, enabled |-> j.op = "enable"]]
               ELSE rows
    /\ Go(t, IF j.op = "enable" THEN "add" ELSE "remove")
    /\ UNCHANGED <<inserted, process, raced, bypassed, received, crashes>>

\* restart_camera finds no entry: an update leaves it at that, the request
\* to restart adds the camera, enabled or not.
StopOld(t) ==
    LET j == jobs[t] IN
    /\ j.at = "stop"
    /\ StopForRestart(j.cam)
    /\ IF j.cam \in services THEN Go(t, "reread")
       ELSE IF j.op = "restart" THEN Go(t, "add") ELSE Finish(t)
    /\ bypassed' = IF j.op = "restart" /\ j.cam \notin services THEN bypassed \cup {j.cam} ELSE bypassed
    /\ UNCHANGED <<rows, inserted, phase, raced, received, crashes>>

Reread(t) ==
    LET j == jobs[t] IN
    /\ j.at = "reread"
    /\ jobs' = [jobs EXCEPT ![t] =
           IF Exists(j.cam) THEN Later(j, rows[j.cam].url, "add")
           ELSE IF j.op = "restart" THEN Later(j, j.url, "add") ELSE Idle]
    /\ UNCHANGED <<rows, inserted, process, raced, bypassed, received, crashes>>

Add(t) ==
    LET j == jobs[t] IN
    /\ j.at = "add"
    /\ AddCamera(j.cam, j.url)
    /\ Finish(t)
    /\ UNCHANGED <<rows, inserted, phase, raced, bypassed, received, crashes>>

Remove(t) ==
    LET j == jobs[t] IN
    /\ j.at = "remove"
    /\ RemoveCamera(j.cam)
    /\ IF j.op = "delete" THEN Go(t, "drop") ELSE Finish(t)
    /\ UNCHANGED <<rows, inserted, phase, raced, bypassed, received, crashes>>

DropRow(t) ==
    LET j == jobs[t] IN
    /\ j.at = "drop"
    /\ rows' = [rows EXCEPT ![j.cam] = Gone]
    /\ Finish(t)
    /\ UNCHANGED <<inserted, process, raced, bypassed, received, crashes>>

\* The next step of a request that was received.
Step(t) ==
    /\ jobs[t] # Idle
    /\ \/ CheckNew(t) \/ Insert(t) \/ Read(t) \/ Update(t) \/ SetEnabled(t)
       \/ StopOld(t) \/ Reread(t) \/ Add(t) \/ Remove(t) \/ DropRow(t)

Next ==
    \/ StartManager \/ StopManager \/ Crash
    \/ \E t \in Tasks : ReceiveCreate(t) \/ ReceiveUpdate(t) \/ ReceiveOther(t) \/ Step(t)

Spec == Init /\ [][Next]_vars

-----------------------------------------------------------------------------
(* Properties.                                                             *)

JobOf == [op : Ops, cam : Cameras, name : Names \cup {Keep}, url : Urls \cup {Keep},
          enabled : BOOLEAN \cup {Keep}, at : {"read", "write", "stop", "reread", "add", "remove", "drop"}]

\* Rows, entries, captures and requests are of their kinds.
TypeOK ==
    /\ rows \in [Cameras -> Row \cup {Gone}]
    /\ inserted \subseteq Cameras /\ services \subseteq Cameras
    /\ captures \in [Cameras -> Urls \cup {Gone}] /\ phase \in {"down", "serving"}
    /\ jobs \in [Tasks -> JobOf \cup {Idle}]
    /\ raced \subseteq Cameras /\ bypassed \subseteq Cameras /\ {received, crashes} \subseteq Nat

\* No capture runs that the manager has no entry for, so a disable, a delete
\* or a stop of the manager reaches every capture: whatever requests overlap
\* and wherever the process dies.
NoStrayCapture == \A c \in Cameras : captures[c] # Gone => c \in services

\* get_summary and get_active_camera_ids: the state of the stand-in service
\* is a constant.
ActiveCameraIds == services

Settled == {c \in Cameras : On(c) = {} /\ c \notin raced}

\* When the requests of a camera did not overlap, the manager and the row
\* agree once they are answered: a camera has an entry exactly if its row is
\* enabled, a deleted one has none, and a capture reads the url of the row.
\* Requests of other cameras in between do not matter, nor does a crash in
\* the middle of a request, which the next start repairs.
AloneAgrees ==
    phase = "serving" =>
        \A c \in Settled :
            /\ c \notin bypassed => (c \in ActiveCameraIds <=> Exists(c) /\ rows[c].enabled)
            /\ ~Exists(c) => c \notin services
            /\ captures[c] # Gone => captures[c] = rows[c].url

\* create_camera never gives a camera the name of another, unless a request
\* about that name was in flight with it.
NewNamesAreFree ==
    [][\A c \in Cameras : rows[c] = Gone /\ rows'[c] # Gone /\ c \notin raced =>
           \A d \in Cameras \ {c} : rows[d] # Gone => rows[d].name # rows'[c].name]_vars
=============================================================================
