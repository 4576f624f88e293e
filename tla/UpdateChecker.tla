---------------------------- MODULE UpdateChecker ----------------------------
(***************************************************************************)
(* update-checker/update-checker.ts: a timer, a start and the API ask      *)
(* GitHub for the release of the configured channel, and announce an       *)
(* update once through Notifications; what was announced is kept in        *)
(* updateAnnouncement.json.  GitHub is external.                           *)
(*                                                                         *)
(* The announcement is emitted before it is kept, so that a crash in       *)
(* between announces it again, never not at all.                           *)
(***************************************************************************)
EXTENDS Notifications

CONSTANTS
  UpdateChannels, \* latest, stable, next, ...
  MaxVersion,     \* bound on the versions released
  UpdateAvailable \* the kind of the event

ASSUME UpdateAssumption == MaxVersion \in Nat \ {0} /\ UpdateAvailable \in Names

VARIABLES
  running,        \* _currentVersion
  channel,        \* _channel
  released,       \* the version each channel stands for at GitHub
  record,         \* updateAnnouncement.json
  told,           \* how often the emission of each announcement ended (history)
  mishap          \* whether something made a repetition legitimate (history)

updateVars == <<running, channel, released, record, told, mishap>>
vars == <<noteVars, updateVars>>

Versions == 1..MaxVersion
Announcement == [version : Versions, current : Versions, channel : UpdateChannels]
NoRecord == Nothing

\* Everything of Notifications but its tasks stays as it is.
NotesUnchanged == UNCHANGED <<now, inbox, last, emitted, requests, sent, seen>>

-----------------------------------------------------------------------------
Check(t) ==
  /\ task[t].step = "idle"
  /\ Does(t, [step |-> "fetching", channel |-> channel])
  /\ NotesUnchanged /\ UNCHANGED updateVars

\* The running version is read when the answer is there, the channel was read
\* before.
Fetched(t) ==
  /\ task[t].step = "fetching"
  /\ LET ann == [version |-> released[task[t].channel], current |-> running,
                 channel |-> task[t].channel]
     IN  Does(t, IF ann.version > ann.current
                 THEN [step |-> "recalling", then |-> ann] ELSE Idle)
  /\ NotesUnchanged /\ UNCHANGED updateVars

FetchFails(t) ==
  /\ task[t].step = "fetching"
  /\ Does(t, Idle)
  /\ NotesUnchanged /\ UNCHANGED updateVars

\* The announcement is under way: told, or being told, but not yet kept.
UnderWay(t, ann) == task[t].step \in Emitting /\ task[t].then = ann

AlreadyAnnounced(ann) == record = ann
NeverAnnounced(ann) == FALSE

RecallKnown(t) ==
  /\ task[t].step = "recalling" /\ AlreadyAnnounced(task[t].then)
  /\ Does(t, Idle)
  /\ NotesUnchanged /\ UNCHANGED updateVars

RecallAndKeep(t) ==                     \* the record is written before the event is out
  /\ task[t].step = "recalling" /\ ~AlreadyAnnounced(task[t].then)
  /\ EmitEvent(t, UpdateAvailable, task[t].then)
  /\ record' = task[t].then
  /\ UNCHANGED <<now, inbox, last, requests, sent, seen>>
  /\ UNCHANGED <<running, channel, released, told, mishap>>

\* A record that cannot be read, or is malformed, counts as none.
Recall(t) ==
  /\ task[t].step = "recalling"
  /\ \E unreadable \in BOOLEAN :
       /\ AlreadyAnnounced(task[t].then) => unreadable
       /\ LET ann == task[t].then IN
          /\ mishap' = (mishap \/ unreadable \/ \E u \in Tasks : UnderWay(u, ann))
          /\ EmitEvent(t, UpdateAvailable, ann)
  /\ UNCHANGED <<now, inbox, last, requests, sent, seen>>
  /\ UNCHANGED <<running, channel, released, record, told>>

\* The tasks of Notifications; an announcement that comes to its end is counted.
Works(t) ==
  /\ NoteStep(t)
  /\ told' = IF task'[t].step = "told" /\ task[t].step # "told"
             THEN [told EXCEPT ![task[t].then] = @ + 1] ELSE told
  /\ UNCHANGED <<running, channel, released, record, mishap>>

\* Another announcement may leave the record.
Persist(t) ==
  /\ task[t].step = "told"
  /\ record' = task[t].then
  /\ mishap' = (mishap \/ record \notin {NoRecord, task[t].then})
  /\ Does(t, Idle)
  /\ NotesUnchanged /\ UNCHANGED <<running, channel, released, told>>

PersistFails(t) ==
  /\ task[t].step = "told"
  /\ mishap' = TRUE
  /\ Does(t, Idle)
  /\ NotesUnchanged /\ UNCHANGED <<running, channel, released, record, told>>

-----------------------------------------------------------------------------
\* PUT /api/settings.
UpdateChannel ==
  /\ channel' \in UpdateChannels \ {channel}
  /\ NotesUnchanged /\ UNCHANGED <<task, running, released, record, told, mishap>>

\* A channel is moved to a newer release.
Release ==
  /\ \E ch \in UpdateChannels, v \in Versions :
       v > released[ch] /\ released' = [released EXCEPT ![ch] = v]
  /\ NotesUnchanged /\ UNCHANGED <<task, running, channel, record, told, mishap>>

\* The process ends and starts again, with the version then installed.
Upgrade ==
  /\ Restart
  /\ running' \in {running} \cup {released[ch] : ch \in UpdateChannels}
  /\ mishap' = (mishap \/ \E t \in Tasks, ann \in Announcement : UnderWay(t, ann))
  /\ UNCHANGED <<channel, released, record, told>>

Init ==
  /\ NoteInit
  /\ running = 1
  /\ channel \in UpdateChannels
  /\ released = [ch \in UpdateChannels |-> 1]
  /\ record = NoRecord
  /\ told = [ann \in Announcement |-> 0]
  /\ mishap = FALSE

Next ==
  \/ \E t \in Tasks : \/ Works(t)
                      \/ Check(t) \/ Fetched(t) \/ FetchFails(t)
                      \/ RecallKnown(t) \/ Recall(t) \/ Persist(t) \/ PersistFails(t)
  \/ Tick /\ UNCHANGED updateVars
  \/ UpdateChannel \/ Release \/ Upgrade

Spec == Init /\ [][Next]_vars

-----------------------------------------------------------------------------
\* Properties.

Thens == {Nothing} \cup Announcement
IsInbox(items) == items \in Seq(Item) /\ Len(items) <= MaxItems

TaskOK(w) ==
  /\ w.step \in Emitting \cup {"idle", "marking", "fetching", "recalling"}
  /\ w.step \in Emitting => w.event \in Event /\ w.then \in Thens
  /\ w.step \in {"appending", "marking"} => IsInbox(w.copy)
  /\ w.step = "sending" => w.to \subseteq Channels /\ w.to # {}
  /\ w.step = "fetching" => w.channel \in UpdateChannels
  /\ w.step \in {"recalling", "told"} => w.then \in Announcement

TypeOK ==
  /\ now \in Times
  /\ IsInbox(inbox)
  /\ last \in [Channels -> [Names -> Times \cup {Never}]]
  /\ \A t \in Tasks : TaskOK(task[t])
  /\ emitted \in 0..MaxEvents /\ requests \in 0..MaxRequests
  /\ sent \in [Channels -> [Names -> Nat]]
  /\ seen \in [Users -> SUBSET Serial]
  /\ running \in Versions /\ channel \in UpdateChannels
  /\ released \in [UpdateChannels -> Versions]
  /\ record \in Announcement \cup {NoRecord}
  /\ told \in [Announcement -> Nat] /\ mishap \in BOOLEAN

\* An update is announced, and once.  What the record keeps from being
\* announced again has been; and an announcement is repeated only when a check
\* could not know of it: a record not read or not written, a process that
\* died in between, two checks at once, or another announcement kept since.
AnnouncedOnce ==
  \A ann \in Announcement : /\ record = ann => told[ann] > 0
                            /\ told[ann] <= 1 \/ mishap
=============================================================================
