---------------------------- MODULE Notifications ----------------------------
(***************************************************************************)
(* notifications/emitter.ts: an event goes to the in-app inbox and to the  *)
(* external channels that receive it, and the inbox handlers of api/api.ts *)
(* mark what a user has read or dismissed.                                 *)
(*                                                                         *)
(* The inbox is one file that every task reads, changes and writes whole,  *)
(* with no lock from the read to the write.  The cooldowns of the channels *)
(* live in memory and end with the process.                                *)
(*                                                                         *)
(* Abstracted: who an item is addressed to (every user sees every item),   *)
(* the wording of an event, and the settings, which do not change.         *)
(***************************************************************************)
EXTENDS Naturals, Sequences, FiniteSets, Positions

CONSTANTS
  Tasks,          \* events and inbox requests at work at once
  Names,          \* the kinds of event
  Rank,           \* [Names -> Nat]: their severity
  TraceOf,        \* [Names -> traces]: the request they are about
  NoTrace,        \* ... or none
  Inboxed,        \* the kinds a dashboard channel receives
  Channels,       \* the external channels
  Receives,       \* [Channels -> SUBSET Names], router overrides included
  Cooldown,       \* [Channels -> Nat]
  Users,
  Window,         \* INCIDENT_WINDOW_MS
  MaxAge,         \* MAX_INBOX_AGE_MS
  MaxItems,       \* MAX_INBOX_ITEMS
  Old,            \* dismissed items of no trace the inbox holds at first
  MaxEvents,      \* bound on the events emitted
  MaxRequests,    \* bound on the inbox requests
  MaxNow          \* bound on the clock

ASSUME NotificationAssumption ==
  /\ IsFiniteSet(Tasks)
  /\ Rank \in [Names -> Nat] /\ Cooldown \in [Channels -> Nat]
  /\ DOMAIN TraceOf = Names /\ Inboxed \subseteq Names
  /\ Receives \in [Channels -> SUBSET Names]
  /\ Window \in Nat /\ MaxAge \in Nat /\ MaxItems \in Nat \ {0}
  /\ Old \in 0..MaxItems
  /\ MaxEvents \in Nat /\ MaxRequests \in Nat /\ MaxNow \in Nat

VARIABLES
  now,
  inbox,          \* notifications.json
  last,           \* channelLastDispatch
  task,
  emitted,        \* how many events there were (history)
  requests,       \* how many inbox requests there were (history)
  sent,           \* dispatches of a kind on a channel since the start (history)
  seen            \* the events each user has marked as read (history)

noteVars == <<now, inbox, last, task, emitted, requests, sent, seen>>

Never  == MaxNow + 1
Times  == 0..MaxNow
Serial == 1..MaxEvents
Nothing == [then |-> "nothing"]
Emitting == {"starting", "appending", "offering", "sending", "told"}

Event == [no : Serial, name : Names, at : Times]
Item  == [id : 0..MaxEvents, name : Names, trace : {TraceOf[n] : n \in Names}, at : Times,
          events : SUBSET Serial, readBy : SUBSET Users, deletedBy : SUBSET Users]

Idle == [step |-> "idle"]
Does(t, work) == task' = [task EXCEPT ![t] = work]

\* emitEvent returns: to nobody, or to a caller with something left to do.
Returns(t) ==
  Does(t, IF task[t].then = Nothing THEN Idle
          ELSE [step |-> "told", event |-> task[t].event, then |-> task[t].then])

-----------------------------------------------------------------------------
\* Incidents.

\* The position of the latest item of an event's trace, as a set.
Latest(items, e) ==
  LET same == {i \in DOMAIN items : items[i].trace = TraceOf[e.name]}
  IN  {i \in same : TraceOf[e.name] # NoTrace /\ \A k \in same : k <= i}

ActiveIncident(items, e) ==             \* the window is open at its end
  {i \in Latest(items, e) : items[i].at + Window > e.at}

\* The incident an event belongs to is the latest item of its trace, as long
\* as that saw activity within the window.
FindOpenIncident(items, e) ==
  {i \in Latest(items, e) : items[i].at + Window >= e.at}

MergeLeavingMarks(item, e) ==           \* readBy is not cleared
  [item EXCEPT !.events = @ \cup {e.no},
               !.name = IF Rank[e.name] >= Rank[item.name] THEN e.name ELSE @,
               !.at = e.at]

\* The item shows the worst event seen, the latest of equals, and is unread
\* again; a dismissal stands.
MergeIntoIncident(item, e) ==
  [item EXCEPT !.events = @ \cup {e.no},
               !.name = IF Rank[e.name] >= Rank[item.name] THEN e.name ELSE @,
               !.at = e.at,
               !.readBy = {}]

NewItem(e) == [id |-> e.no, name |-> e.name, trace |-> TraceOf[e.name], at |-> e.at,
               events |-> {e.no}, readBy |-> {}, deletedBy |-> {}]

\* The retention bounds: too old items go, then the first by position.
Trimmed(items) ==
  LET young == {i \in DOMAIN items : items[i].at + MaxAge >= now}
  IN  Picked(items, {i \in young : Cardinality({k \in young : k > i}) < MaxItems})

Added(items, e) ==
  IF FindOpenIncident(items, e) = {} THEN Append(items, NewItem(e))
  ELSE [i \in DOMAIN items |-> IF i \in FindOpenIncident(items, e)
                               THEN MergeIntoIncident(items[i], e) ELSE items[i]]

-----------------------------------------------------------------------------
\* emitEvent.  `then` is what the caller does when it returns.

Emission(name, then) ==
  [step |-> "starting", event |-> [no |-> emitted + 1, name |-> name, at |-> now], then |-> then]

\* The timestamp is taken first; the settings and the audience are read after.
EmitEvent(t, name, then) ==
  /\ emitted < MaxEvents /\ emitted' = emitted + 1
  /\ Does(t, Emission(name, then))

Report(t) ==
  /\ task[t].step = "idle"
  /\ \E name \in Names : EmitEvent(t, name, Nothing)
  /\ UNCHANGED <<now, inbox, last, requests, sent, seen>>

\* Settings that cannot be read leave the event without any channel.
SettingsFail(t) ==
  /\ task[t].step = "starting"
  /\ Returns(t)
  /\ UNCHANGED <<now, inbox, last, emitted, requests, sent, seen>>

Offering(t) == Does(t, [step |-> "offering", event |-> task[t].event, then |-> task[t].then])

ReadInbox(t) ==
  /\ task[t].step = "starting"
  /\ IF task[t].event.name \in Inboxed
     THEN Does(t, [step |-> "appending", event |-> task[t].event, then |-> task[t].then,
                   copy |-> inbox])
     ELSE Offering(t)
  /\ UNCHANGED <<now, inbox, last, emitted, requests, sent, seen>>

AppendToInbox(t) ==
  /\ task[t].step = "appending"
  /\ inbox' = Trimmed(Added(task[t].copy, task[t].event))
  /\ Offering(t)
  /\ UNCHANGED <<now, last, emitted, requests, sent, seen>>

\* A write that fails is logged; the external channels are still tried.
AppendFails(t) ==
  /\ task[t].step = "appending"
  /\ Offering(t)
  /\ UNCHANGED <<now, inbox, last, emitted, requests, sent, seen>>

CoolingDown(c, name) ==
  Cooldown[c] > 0 /\ last[c][name] # Never /\ now < last[c][name] + Cooldown[c]

\* The channels still to be served; none left, emitEvent returns.
Sends(t, to) ==
  IF to = {} THEN Returns(t)
  ELSE Does(t, [step |-> "sending", event |-> task[t].event, then |-> task[t].then, to |-> to])

Accepting(e) == {c \in Channels : e.name \in Receives[c] /\ ~CoolingDown(c, e.name)}

OfferWithoutStart(t) ==                 \* no cooldown starts before the message is out
  /\ task[t].step = "offering"
  /\ Sends(t, Accepting(task[t].event))
  /\ UNCHANGED <<now, inbox, last, emitted, requests, sent, seen>>

\* Every matched channel is checked, and its cooldown started, before the
\* first of them waits for anything.
Offer(t) ==
  LET e == task[t].event IN
  /\ task[t].step = "offering"
  /\ Sends(t, Accepting(e))
  /\ last' = [c \in Channels |-> IF c \in Accepting(e) /\ Cooldown[c] > 0
                                 THEN [last[c] EXCEPT ![e.name] = now] ELSE last[c]]
  /\ UNCHANGED <<now, inbox, emitted, requests, sent, seen>>

\* The audience of the channel is read, then the message goes out.
Dispatch(t) ==
  /\ task[t].step = "sending"
  /\ \E c \in task[t].to :
       /\ Sends(t, task[t].to \ {c})
       /\ sent' = [sent EXCEPT ![c][task[t].event.name] = @ + 1]
  /\ UNCHANGED <<now, inbox, last, emitted, requests, seen>>

\* A failure is logged, and neither tried again nor does it end the cooldown.
DispatchFails(t) ==
  /\ task[t].step = "sending"
  /\ \E c \in task[t].to : Sends(t, task[t].to \ {c})
  /\ UNCHANGED <<now, inbox, last, emitted, requests, sent, seen>>

-----------------------------------------------------------------------------
\* The handlers /api/notifications/inbox/read, unread and delete.

LookIn(t) ==
  /\ task[t].step = "idle"
  /\ requests < MaxRequests /\ requests' = requests + 1
  /\ Does(t, [step |-> "marking", copy |-> inbox])
  /\ UNCHANGED <<now, inbox, last, emitted, sent, seen>>

\* What a request about some items, or all, changes for user u.
MarkedBy(u, item, op) ==
  CASE op = "read"   -> [item EXCEPT !.readBy = @ \cup {u}]
    [] op = "unread" -> [item EXCEPT !.readBy = @ \ {u}]
    [] op = "delete" -> [item EXCEPT !.deletedBy = @ \cup {u}]

\* Only what the user still has in sight is marked, and nothing is written
\* when nothing changed.
Mark(t) ==
  /\ task[t].step = "marking"
  /\ \E u \in Users, op \in {"read", "unread", "delete"},
        asked \in SUBSET DOMAIN task[t].copy :
       LET copy == task[t].copy
           hit  == {i \in asked : u \notin copy[i].deletedBy /\ MarkedBy(u, copy[i], op) # copy[i]}
       IN
       /\ inbox' = IF hit = {} THEN inbox
                   ELSE [i \in DOMAIN copy |-> IF i \in hit THEN MarkedBy(u, copy[i], op)
                                               ELSE copy[i]]
       /\ seen' = IF op # "read" THEN seen
                  ELSE [seen EXCEPT ![u] = @ \cup UNION {copy[i].events : i \in hit}]
  /\ Does(t, Idle)
  /\ UNCHANGED <<now, last, emitted, requests, sent>>

-----------------------------------------------------------------------------
Tick ==
  /\ now < MaxNow /\ now' = now + 1
  /\ UNCHANGED <<inbox, last, task, emitted, requests, sent, seen>>

NoCooldowns == [c \in Channels |-> [n \in Names |-> Never]]
NoneSent    == [c \in Channels |-> [n \in Names |-> 0]]

\* The process ends and starts again: the inbox stays, the cooldowns do not.
Restart ==
  /\ task' = [t \in Tasks |-> Idle]
  /\ last' = NoCooldowns
  /\ sent' = NoneSent
  /\ UNCHANGED <<now, inbox, emitted, requests, seen>>

NoteInit ==
  /\ now = 0
  /\ \E n \in Names :
       /\ TraceOf[n] = NoTrace
       /\ inbox = [i \in 1..Old |-> [NewItem([no |-> 0, name |-> n, at |-> 0]) EXCEPT !.events = {}, !.deletedBy = Users]]
  /\ last = NoCooldowns /\ sent = NoneSent
  /\ task = [t \in Tasks |-> Idle]
  /\ emitted = 0 /\ requests = 0
  /\ seen = [u \in Users |-> {}]

NoteStep(t) ==
  \/ Report(t) \/ SettingsFail(t) \/ ReadInbox(t) \/ AppendToInbox(t) \/ AppendFails(t)
  \/ Offer(t) \/ Dispatch(t) \/ DispatchFails(t)
  \/ LookIn(t) \/ Mark(t)

-----------------------------------------------------------------------------
\* Properties.

\* A channel keeps its pace.  However many events of a kind are emitted at
\* once, a channel with a cooldown sends no more of them in the life of a
\* process than one, and one more for each cooldown on the clock.
Paced ==
  \A c \in Channels, n \in Names :
    Cooldown[c] > 0 => sent[c][n] <= 1 + now \div Cooldown[c]

\* One request, one incident.  Whatever tasks overwrite each other's inbox, at
\* most one item of a trace is within the window in which it takes events.
OpenOnce ==
  \A i, k \in DOMAIN inbox :
    (/\ inbox[i].trace = inbox[k].trace /\ inbox[i].trace # NoTrace
     /\ inbox[i].at + Window >= now /\ inbox[k].at + Window >= now) => i = k

\* News is unread.  An item a user has read holds no event that came to it
\* after the mark, even when the mark and the event were written at once.
NewsIsUnread ==
  \A i \in DOMAIN inbox : \A u \in inbox[i].readBy : inbox[i].events \subseteq seen[u]
=============================================================================
