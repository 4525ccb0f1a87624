---------------------------- MODULE RealtimeSync ----------------------------
(***************************************************************************)
(* How a letter in the outbox becomes a notification on the phone.  Two    *)
(* paths lead there and share nothing but the preferences of the app: the  *)
(* foreground service LuminousRealtimeService holds a WebSocket to the     *)
(* server thread serve_outbox_websocket, and LuminousNotificationJobService*)
(* reads the outbox over HTTP every 15 minutes.  Either shows a letter and *)
(* remembers its id in the preference SEEN_IDS.  The process may be killed *)
(* at any step; SharedPreferences.apply writes to disk later.              *)
(*                                                                         *)
(* Either path gets its letters in the order of created_at, the WebSocket  *)
(* also over several polls, for what a poll passes by is older than the    *)
(* window and stays so.  So what is under way is a set of letters, taken   *)
(* from the oldest on.                                                     *)
(***************************************************************************)
EXTENDS Naturals, FiniteSets

CONSTANTS
    Letters,     \* 1..n, in the order of created_at
    Window,      \* how many of the newest rows a reader gets (50 and 100)
    Remembered,  \* how many ids SEEN_IDS keeps (200)
    MaxFaults,   \* bound: kills, broken connections, failed and stopped jobs
    MaxChanges   \* bound: changes of permission, login and of the switch

ASSUME SyncAssumption ==
    /\ Letters \subseteq Nat /\ IsFiniteSet(Letters)
    /\ Window \in Nat \ {0} /\ Remembered \in Nat \ {0}
    /\ MaxFaults \in Nat /\ MaxChanges \in Nat

VARIABLES
    outbox,    \* status of each letter, as far as the readers tell it apart
    since,     \* preference SYNC_STARTED_AT: letters before it are old
    enabled,   \* preference ENABLED
    running,   \* the foreground service is running and not paused
    seen,      \* preference SEEN_IDS, in memory
    disk,      \* SEEN_IDS on disk
    allowed,   \* permission POST_NOTIFICATIONS
    cookie,    \* the app holds a live session cookie
    link,      \* the WebSocket: is it open, what was sent, what is on the wire
    reader,    \* the thread in handleMessage
    job,       \* the thread in syncOutbox
    shown,     \* history: letters notified, with how many times (up to 2)
    refused,   \* history: letters whose notify() raised SecurityException
    mixed,     \* history: the service and the job have worked at one time
    faults, changes

phone == <<since, enabled, running, seen, disk, allowed, cookie>>
history == <<shown, refused, mixed>>
spent == <<faults, changes>>
syncVars == <<outbox, phone, link, reader, job, history, spent>>

Closed == [open |-> FALSE, sent |-> {}, wire |-> {}]
Waiting == [at |-> "wait", letter |-> 0, read |-> {}]
NoJob == [at |-> "off", items |-> {}, seen |-> {}, added |-> {}]

Old == {m \in Letters : m < since}

SyncInit ==
    /\ since \in Letters
    /\ outbox = [m \in Letters |-> IF m \in Old THEN "notifiable" ELSE "absent"]
    /\ enabled = TRUE /\ running = TRUE /\ seen = {} /\ disk = {} /\ allowed = TRUE /\ cookie = TRUE
    /\ link = Closed /\ reader = Waiting /\ job = NoJob
    /\ shown = [m \in Letters |-> 0] /\ refused = {}
    /\ mixed = FALSE
    /\ faults = 0 /\ changes = 0

(* The newest of a set of letters; the first letter under way.             *)
NewestOf(S, n) == {m \in S : Cardinality({k \in S : k > m}) < n}
IsNext(m, S) == m \in S /\ \A k \in S : m <= k

(* read_outbox(limit).                                                     *)
Rows == {m \in Letters : outbox[m] # "absent"}
Newest == NewestOf(Rows, Window)

Notifiable(m) == outbox[m] = "notifiable"

(* A set of ids cut to what SEEN_IDS keeps.  Its order is that of a        *)
(* HashSet, so any of them may go.                                         *)
Kept(ids) ==
    IF Cardinality(ids) <= Remembered THEN {ids}
    ELSE {kept \in SUBSET ids : Cardinality(kept) = Remembered}

Fault == faults < MaxFaults /\ faults' = faults + 1 /\ UNCHANGED changes
Change == changes < MaxChanges /\ changes' = changes + 1 /\ UNCHANGED faults
-----------------------------------------------------------------------------
(* The server *)

NewLetter(m) ==
    /\ outbox[m] = "absent"
    /\ \A k \in Letters : k < m => outbox[k] # "absent"
    /\ outbox' = [outbox EXCEPT ![m] = "notifiable"]
    /\ UNCHANGED <<phone, link, reader, job, history, spent>>

(* The user answers in the app or the delivery is given up.                *)
Answer(m) ==
    /\ Notifiable(m)
    /\ outbox' = [outbox EXCEPT ![m] = "settled"]
    /\ UNCHANGED <<phone, link, reader, job, history, spent>>

(* One poll of the server thread: _send_new_outbox_items.                  *)
Poll ==
    LET fresh == {m \in Newest : m \notin link.sent /\ Notifiable(m)}
    IN  /\ link.open /\ fresh # {}
        /\ link' = [link EXCEPT !.sent = @ \cup fresh, !.wire = @ \cup (fresh \ Old)]
        /\ UNCHANGED <<outbox, phone, reader, job, history, spent>>
-----------------------------------------------------------------------------
(* The foreground service *)

Connect ==
    /\ running /\ cookie /\ ~link.open
    /\ link' = [Closed EXCEPT !.open = TRUE]
    /\ UNCHANGED <<outbox, phone, reader, job, history, spent>>

(* Mutant: a letter that may not be shown is remembered all the same.      *)
HandleMessage_RemembersRefused ==
    /\ reader.at = "wait"
    /\ \E m \in Letters :
         /\ IsNext(m, link.wire)
         /\ reader' = IF m \in seen THEN reader
                      ELSE [Waiting EXCEPT !.at = IF allowed THEN "show" ELSE "read", !.letter = m]
         /\ link' = [link EXCEPT !.wire = @ \ {m}]
    /\ mixed' = (mixed \/ job.at # "off")
    /\ UNCHANGED <<outbox, phone, job, shown, refused, spent>>

(* onMessage: alreadySeen, then notificationsAllowed.                      *)
HandleMessage ==
    /\ reader.at = "wait"
    /\ \E m \in Letters :
         /\ IsNext(m, link.wire)
         /\ reader' = IF m \in seen \/ ~allowed THEN reader
                      ELSE [Waiting EXCEPT !.at = "show", !.letter = m]
         /\ link' = [link EXCEPT !.wire = @ \ {m}]
    /\ mixed' = (mixed \/ job.at # "off")
    /\ UNCHANGED <<outbox, phone, job, shown, refused, spent>>

(* notify(), which raises without permission; the exception is swallowed.  *)
Notify(m) ==
    IF allowed
    THEN /\ shown' = [shown EXCEPT ![m] = IF @ < 2 THEN @ + 1 ELSE @]
         /\ UNCHANGED refused
    ELSE refused' = refused \cup {m} /\ UNCHANGED shown

ShowMessage ==
    /\ reader.at = "show"
    /\ Notify(reader.letter)
    /\ reader' = [reader EXCEPT !.at = "read"]
    /\ UNCHANGED <<outbox, phone, link, job, mixed, spent>>

ReadSeen ==
    /\ reader.at = "read"
    /\ reader' = [reader EXCEPT !.at = "write", !.read = seen]
    /\ UNCHANGED <<outbox, phone, link, job, history, spent>>

(* Mutant: the set is written back as it was read.                         *)
RememberSeen_Forgets ==
    /\ reader.at = "write"
    /\ seen' \in Kept(reader.read)
    /\ reader' = Waiting
    /\ UNCHANGED <<outbox, since, enabled, running, disk, allowed, cookie, link, job, history, spent>>

(* The receipt that follows goes out on the socket, if there is one; what  *)
(* it does to the row is ReadReceipt of OutboxDelivery.                    *)
RememberSeen ==
    /\ reader.at = "write"
    /\ \E kept \in Kept(reader.read \cup {reader.letter}) : seen' = kept
    /\ reader' = Waiting
    /\ UNCHANGED <<outbox, since, enabled, running, disk, allowed, cookie, link, job, history, spent>>

(* onClosed, onFailure; the server thread ends with its socket.            *)
Disconnect ==
    /\ link.open
    /\ Fault
    /\ link' = Closed
    /\ UNCHANGED <<outbox, phone, reader, job, history>>
-----------------------------------------------------------------------------
(* The periodic job *)

(* Mutant: the job does nothing unless the service runs.                   *)
StartJob_WithService ==
    /\ job.at = "off" /\ allowed /\ cookie /\ running
    /\ job' = [NoJob EXCEPT !.at = "fetched", !.items = {m \in Newest : Notifiable(m)}]
    /\ mixed' = (mixed \/ reader # Waiting)
    /\ UNCHANGED <<outbox, phone, link, reader, shown, refused, spent>>

(* onStartJob and the GET; without permission or cookie it is done.        *)
StartJob ==
    /\ job.at = "off" /\ allowed /\ cookie
    /\ job' = [NoJob EXCEPT !.at = "fetched", !.items = {m \in Newest : Notifiable(m)}]
    /\ mixed' = (mixed \/ reader # Waiting)
    /\ UNCHANGED <<outbox, phone, link, reader, shown, refused, spent>>

(* The preference is read once, after the response.                        *)
JobReadsSeen ==
    /\ job.at = "fetched"
    /\ job' = [job EXCEPT !.at = "loop", !.seen = seen]
    /\ UNCHANGED <<outbox, phone, link, reader, history, spent>>

JobKnows(m) == m \in job.seen \/ m \in job.added

(* One turn of the loop: skip, remember an old letter, or show it and post *)
(* its receipt, which may fail.                                            *)
JobItem ==
    /\ job.at = "loop"
    /\ \E m \in Letters :
         /\ IsNext(m, job.items)
         /\ job' = [job EXCEPT !.items = @ \ {m},
                              !.added = IF JobKnows(m) THEN @ ELSE @ \cup {m}]
         /\ IF JobKnows(m) \/ m \in Old THEN UNCHANGED <<shown, refused>> ELSE Notify(m)
    /\ UNCHANGED mixed
    /\ UNCHANGED <<outbox, phone, link, reader, spent>>

(* The ids kept are the last of those read, in any order, and those added. *)
JobCuts ==
    {kept \in Kept(job.seen \cup job.added) : NewestOf(job.added, Remembered) \subseteq kept}

JobWritesSeen ==
    /\ job.at = "loop" /\ job.items = {}
    /\ seen' \in JobCuts
    /\ job' = NoJob
    /\ UNCHANGED <<outbox, since, enabled, running, disk, allowed, cookie, link, reader, history, spent>>

(* The request fails, or the system stops the job and will start it again. *)
StopJob ==
    /\ job.at # "off"
    /\ Fault
    /\ job' = NoJob
    /\ UNCHANGED <<outbox, phone, link, reader, history>>
-----------------------------------------------------------------------------
(* The phone *)

WriteDisk ==
    /\ disk # seen
    /\ disk' = seen
    /\ UNCHANGED <<outbox, since, enabled, running, seen, allowed, cookie, link, reader, job, history, spent>>

(* The process is killed, by a reboot say, after which the boot receiver   *)
(* starts the service if it is enabled; so does START_STICKY.              *)
Kill ==
    /\ Fault
    /\ seen' = disk /\ running' = enabled
    /\ link' = Closed /\ reader' = Waiting /\ job' = NoJob
    /\ UNCHANGED <<outbox, since, enabled, disk, allowed, cookie, history>>

(* start and stop of RealtimeCompanionPlugin.                              *)
Switch ==
    /\ Change
    /\ enabled' = ~enabled /\ running' = ~enabled
    /\ link' = IF enabled THEN Closed ELSE link
    /\ UNCHANGED <<outbox, since, seen, disk, allowed, cookie, reader, job, history>>

(* The button of the ongoing notification, ACTION_STOP, stops the service  *)
(* and leaves the preference as it is.                                     *)
Pause ==
    /\ running
    /\ Change
    /\ running' = FALSE /\ link' = Closed
    /\ UNCHANGED <<outbox, since, enabled, seen, disk, allowed, cookie, reader, job, history>>

ChangePermission ==
    /\ Change
    /\ allowed' = ~allowed
    /\ UNCHANGED <<outbox, since, enabled, running, seen, disk, cookie, link, reader, job, history>>

(* Logging out does not close a connection that is open.                   *)
ChangeLogin ==
    /\ Change
    /\ cookie' = ~cookie
    /\ UNCHANGED <<outbox, since, enabled, running, seen, disk, allowed, link, reader, job, history>>

Service == Connect \/ HandleMessage \/ ShowMessage \/ ReadSeen \/ RememberSeen
Job == StartJob \/ JobReadsSeen \/ JobItem \/ JobWritesSeen

SyncNext ==
    \/ \E m \in Letters : NewLetter(m) \/ Answer(m)
    \/ Poll \/ Service \/ Disconnect
    \/ Job \/ StopJob
    \/ WriteDisk \/ Kill \/ Switch \/ Pause \/ ChangePermission \/ ChangeLogin

SyncSpec == SyncInit /\ [][SyncNext]_syncVars

(* The scheduler starts the job again and again, and what has been started *)
(* goes on: every call has a timeout.  The switch is the user's.           *)
FairSyncSpec == SyncSpec /\ WF_syncVars(Job) /\ WF_syncVars(Service) /\ WF_syncVars(Poll)
-----------------------------------------------------------------------------
(* Properties *)

(* What the phone holds in memory and in its preferences has its type.      *)
SyncTypeOK ==
    /\ outbox \in [Letters -> {"absent", "notifiable", "settled"}]
    /\ since \in Letters /\ enabled \in BOOLEAN /\ running \in BOOLEAN /\ (running => enabled)
    /\ seen \subseteq Letters /\ disk \subseteq Letters
    /\ Cardinality(seen) <= Remembered
    /\ allowed \in BOOLEAN /\ cookie \in BOOLEAN
    /\ link.sent \subseteq Letters /\ link.wire \subseteq link.sent
    /\ reader.letter \in Letters \cup {0} /\ reader.read \subseteq Letters
    /\ shown \in [Letters -> 0..2] /\ refused \subseteq Letters

(* An id in SEEN_IDS is never the reason a letter stays invisible: whatever *)
(* the two threads overwrite of each other's sets, a remembered letter was  *)
(* notified, is older than the first synchronisation, or was refused.       *)
SeenWasShown ==
    \A m \in seen \cup disk : m \in Old \/ shown[m] > 0 \/ m \in refused

(* A letter is notified a second time only after a kill, a stopped job or a *)
(* broken connection, when the service and the job were at work together,   *)
(* or when more ids were to be remembered than SEEN_IDS keeps.              *)
NoNeedlessRepeat ==
    faults = 0 /\ ~mixed /\ Cardinality(Rows) <= Remembered =>
        \A m \in Letters : shown[m] <= 1

(* A letter that stays notifiable is shown in the end, by the service or by *)
(* the job, if the permission and the login last.  (A burst of more letters *)
(* than the window holds is not covered: see Window.)                       *)
EveryLetterIsShown ==
    \A m \in Letters :
        <>[](m \notin Old /\ Notifiable(m) /\ allowed /\ cookie) => <>(shown[m] > 0 \/ m \in refused)

(* "message_id" removes duplicates: a letter is notified once.              *)
ShownOnce == \A m \in Letters : shown[m] <= 1
=============================================================================
