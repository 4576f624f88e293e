---------------------------- MODULE NotifyProofs ----------------------------
(***************************************************************************)
(* Theorems about UpdateChecker and, through it, about Notifications.      *)
(* The inbox is written whole from a copy that may be old, so what holds   *)
(* of it has to hold of every copy a task has.  The pace of a channel      *)
(* counts what tasks are still about to send.  That an update is announced *)
(* once rests on where an announcement that was told is remembered.        *)
(***************************************************************************)
EXTENDS UpdateChecker, FiniteSetTheorems, SequenceTheorems, WellFoundedInduction, TLAPS

\* At time `clock`, an item with a later one of its trace takes no more events.
Closed(items, clock) ==
  \A i, k \in DOMAIN items :
    (i < k /\ items[i].trace = items[k].trace /\ items[i].trace # NoTrace)
      => items[i].at + Window < clock

\* What a user has read of an item is among what the user has seen.
WasSeen(items, marks) ==
  \A i \in DOMAIN items : \A u \in items[i].readBy : items[i].events \subseteq marks[u]

Fine(items, clock, marks) == IsInbox(items) /\ Closed(items, clock) /\ WasSeen(items, marks)

InboxesFine ==
  /\ Fine(inbox, now, seen)
  /\ \A t \in Tasks :
       task[t].step \in {"appending", "marking"} => Fine(task[t].copy, now, seen)

Past ==
  /\ \A t \in Tasks : task[t].step \in Emitting => task[t].event.at <= now
  /\ \A c \in Channels, n \in Names : last[c][n] # Never => last[c][n] <= now

\* The tasks that still have an event of kind n to send on c, and how many a
\* channel may have sent since it last started a cooldown.
Sending(c, n) ==
  {t \in Tasks : task[t].step = "sending" /\ c \in task[t].to /\ task[t].event.name = n}

Allowance(c, n) == IF last[c][n] = Never THEN 0 ELSE 1 + last[c][n] \div Cooldown[c]

InPace ==
  \A c \in Channels, n \in Names :
    Cooldown[c] > 0 => sent[c][n] + Cardinality(Sending(c, n)) <= Allowance(c, n)

Told(t, ann) == task[t].step = "told" /\ task[t].then = ann

\* An announcement under way is the only one; once told it is told, or kept.
Remembered(ann) ==
  /\ told[ann] <= 1
  /\ \A t, u \in Tasks : UnderWay(t, ann) /\ UnderWay(u, ann) => t = u
  /\ told[ann] > 0 => record = ann \/ \E t \in Tasks : Told(t, ann)
  /\ \A t \in Tasks : UnderWay(t, ann) /\ task[t].step # "told" => told[ann] = 0

Announced ==
  \A ann \in Announcement :
    /\ record = ann => told[ann] > 0
    /\ \A t \in Tasks : Told(t, ann) => told[ann] > 0
    /\ ~mishap => Remembered(ann)

Types == TypeOK /\ task = [t \in Tasks |-> task[t]]

IInv == Types /\ InboxesFine /\ Past /\ InPace /\ Announced

USE NotificationAssumption, UpdateAssumption

-----------------------------------------------------------------------------
(* Lemmas about lists.                                                      *)

\* What is picked of a list stays in its order.
LEMMA PickedInOrder ==
  ASSUME NEW S, NEW s \in Seq(S), NEW keep \in SUBSET DOMAIN s
  PROVE  /\ Picked(s, keep) \in Seq(S) /\ Len(Picked(s, keep)) = Cardinality(keep)
         /\ IsFiniteSet(keep)
         /\ \E at \in [DOMAIN Picked(s, keep) -> DOMAIN s] :
              /\ \A k \in DOMAIN Picked(s, keep) : Picked(s, keep)[k] = s[at[k]]
              /\ \A k, l \in DOMAIN Picked(s, keep) : k < l => at[k] < at[l]
<1> DEFINE n == Cardinality(keep)
           rank == [i \in keep |-> Cardinality(Before(i, keep)) + 1]
           at == [k \in 1..n |-> CHOOSE i \in keep : Cardinality(Before(i, keep)) = k - 1]
           t == Picked(s, keep)
<1>1. Len(s) \in Nat /\ DOMAIN s = 1..Len(s)
  BY LenProperties
<1>2. IsFiniteSet(keep) /\ n \in Nat
  <2>1. IsFiniteSet(1..Len(s))
    BY <1>1, FS_Interval
  <2>2. IsFiniteSet(keep)
    BY <1>1, <2>1, FS_Subset
  <2> QED BY <2>2, FS_CardinalityType
<1>3. ASSUME NEW i \in keep
      PROVE  /\ IsFiniteSet(Before(i, keep)) /\ Cardinality(Before(i, keep)) \in Nat
             /\ Cardinality(Before(i, keep)) < n
  <2>1. Before(i, keep) \in SUBSET keep /\ i \notin Before(i, keep)
    BY <1>1 DEF Before
  <2>2. IsFiniteSet(Before(i, keep)) /\ Cardinality(Before(i, keep)) <= n
        /\ (n = Cardinality(Before(i, keep)) => keep = Before(i, keep))
    BY <1>2, <2>1, FS_Subset
  <2>3. Cardinality(Before(i, keep)) \in Nat
    BY <2>2, FS_CardinalityType
  <2> QED BY <1>2, <2>1, <2>2, <2>3
<1>4. ASSUME NEW i \in keep, NEW j \in keep, i < j
      PROVE  Cardinality(Before(i, keep)) < Cardinality(Before(j, keep))
  <2>1. Before(i, keep) \in SUBSET Before(j, keep)
        /\ i \in Before(j, keep) /\ i \notin Before(i, keep)
    BY <1>1, <1>4 DEF Before
  <2>2. Cardinality(Before(i, keep)) <= Cardinality(Before(j, keep))
        /\ (Cardinality(Before(j, keep)) = Cardinality(Before(i, keep))
              => Before(j, keep) = Before(i, keep))
    BY <1>3, <2>1, FS_Subset
  <2> QED BY <1>3, <2>1, <2>2
<1>5. rank \in Surjection(keep, 1..n)
  <2>1. \A i \in keep : rank[i] \in 1..n
    BY <1>2, <1>3
  <2>2. \A i, j \in keep : rank[i] = rank[j] => i = j
    <3>1. SUFFICES ASSUME NEW i \in keep, NEW j \in keep, rank[i] = rank[j], i < j PROVE FALSE
      BY <1>1
    <3>2. Cardinality(Before(i, keep)) \in Nat /\ Cardinality(Before(j, keep)) \in Nat
      BY <1>3
    <3>3. Cardinality(Before(i, keep)) < Cardinality(Before(j, keep))
      BY <1>4, <3>1
    <3> QED BY <3>1, <3>2, <3>3
  <2>3. rank \in Injection(keep, 1..n)
    BY <2>1, <2>2 DEF Injection, IsInjective
  <2>4. IsFiniteSet(1..n) /\ Cardinality(1..n) = n
    BY <1>2, FS_Interval
  <2> QED BY <2>3, <2>4, FS_Injection
<1>6. \A k \in 1..n : at[k] \in keep /\ Cardinality(Before(at[k], keep)) = k - 1
  <2>1. ASSUME NEW k \in 1..n
        PROVE  \E i \in keep : Cardinality(Before(i, keep)) = k - 1
    <3>1. PICK i \in keep : rank[i] = k
      BY <1>5 DEF Surjection
    <3>2. Cardinality(Before(i, keep)) \in Nat
      BY <1>3
    <3> QED BY <3>1, <3>2
  <2> QED BY <2>1
<1>7. t = [k \in 1..n |-> s[at[k]]]
  BY DEF Picked
<1> HIDE DEF t, at, n
<1>8. ASSUME NEW k \in 1..n, NEW l \in 1..n, k < l PROVE at[k] < at[l]
  <2>1. at[k] \in keep /\ Cardinality(Before(at[k], keep)) = k - 1
    BY <1>6
  <2>2. at[l] \in keep /\ Cardinality(Before(at[l], keep)) = l - 1
    BY <1>6
  <2>3. at[l] < at[k] => l - 1 < k - 1
    BY <1>4, <2>1, <2>2
  <2>4. at[k] # at[l]
    BY <1>2, <1>8, <2>1, <2>2
  <2>5. at[k] \in 1..Len(s) /\ at[l] \in 1..Len(s)
    BY <1>1, <2>1, <2>2
  <2> QED BY <1>1, <1>2, <1>8, <2>3, <2>4, <2>5
<1>9. DOMAIN t = 1..n /\ \A k \in 1..n : t[k] = s[at[k]] /\ at[k] \in DOMAIN s
  BY <1>6, <1>7
<1>10. t \in Seq(S) /\ Len(t) = n
  <2>1. \A k \in 1..n : s[at[k]] \in S
    BY <1>1, <1>9, ElementOfSeq
  <2>2. t \in [1..n -> S]
    BY <1>7, <2>1
  <2>3. t \in Seq(S)
    BY <1>2, <2>2, SeqDef
  <2>4. Len(t) \in Nat /\ DOMAIN t = 1..Len(t)
    BY <2>3, LenProperties
  <2> QED BY <1>2, <1>9, <2>3, <2>4
<1>11. at \in [1..n -> DOMAIN s]
  BY <1>9 DEF at
<1>12. \E f \in [1..n -> DOMAIN s] : (\A k \in 1..n : t[k] = s[f[k]])
                                     /\ \A k, l \in 1..n : k < l => f[k] < f[l]
  BY <1>8, <1>9, <1>11
<1>13. DOMAIN t = 1..n
  BY <1>9
<1> HIDE DEF rank
<1> QED BY <1>2, <1>10, <1>12, <1>13 DEF t, n

\* Of some positions of a list, one is the last.
LEMMA LastOne ==
  ASSUME NEW n \in Nat, NEW P \in SUBSET (1..n), P # {}
  PROVE  \E m \in P : \A k \in P : k <= m
<1> DEFINE less == {p \in Nat \X Nat : p[1] < p[2]}
           T == {n - k : k \in P}
<1>1. IsWellFoundedOn(less, Nat)
  <2>1. less = OpToRel(<, Nat)
    BY DEF OpToRel
  <2> QED BY <2>1, NatLessThanWellFounded
<1>2. T \subseteq Nat /\ T # {}
  <2>1. \A k \in P : n - k \in Nat
    OBVIOUS
  <2>2. T \subseteq Nat
    BY <2>1
  <2>3. PICK k \in P : TRUE
    OBVIOUS
  <2>4. n - k \in T
    BY <2>3
  <2> QED BY <2>2, <2>4
<1> HIDE DEF less
<1>3. PICK x \in T : \A y \in T : <<y, x>> \notin less
  BY <1>1, <1>2, WFMin
<1>4. PICK m \in P : x = n - m
  BY <1>3
<1>5. ASSUME NEW k \in P PROVE k <= m
  <2>1. n - k \in T /\ n - k \in Nat /\ n - m \in Nat
    BY <1>2
  <2>2. ~(n - k < n - m)
    BY <1>3, <1>4, <2>1 DEF less
  <2> QED BY <2>2
<1> QED BY <1>5

\* The retention keeps its bound.
LEMMA TrimmedInbox ==
  ASSUME NEW s \in Seq(Item)
  PROVE  /\ IsInbox(Trimmed(s))
         /\ \E at \in [DOMAIN Trimmed(s) -> DOMAIN s] :
              /\ \A k \in DOMAIN Trimmed(s) : Trimmed(s)[k] = s[at[k]]
              /\ \A k, l \in DOMAIN Trimmed(s) : k < l => at[k] < at[l]
<1> DEFINE young == {i \in DOMAIN s : s[i].at + MaxAge >= now}
           After(i) == {k \in young : k > i}
           kept == {i \in young : Cardinality(After(i)) < MaxItems}
           rank == [i \in kept |-> Cardinality(After(i)) + 1]
<1>1. Trimmed(s) = Picked(s, kept)
  BY DEF Trimmed
<1>2. Len(s) \in Nat /\ DOMAIN s = 1..Len(s)
  BY LenProperties
<1>3. IsFiniteSet(young)
  <2>1. IsFiniteSet(1..Len(s))
    BY <1>2, FS_Interval
  <2> QED BY <1>2, <2>1, FS_Subset
<1>4. ASSUME NEW i \in young
      PROVE  IsFiniteSet(After(i)) /\ Cardinality(After(i)) \in Nat
  <2>1. After(i) \in SUBSET young
    OBVIOUS
  <2> QED BY <1>3, <2>1, FS_Subset, FS_CardinalityType
<1>5. ASSUME NEW i \in young, NEW j \in young, i < j
      PROVE  Cardinality(After(j)) < Cardinality(After(i))
  <2>1. After(j) \in SUBSET After(i) /\ j \in After(i) /\ j \notin After(j)
    BY <1>2, <1>5
  <2>2. Cardinality(After(j)) <= Cardinality(After(i))
        /\ (Cardinality(After(i)) = Cardinality(After(j)) => After(i) = After(j))
    BY <1>4, <2>1, FS_Subset
  <2>3. Cardinality(After(i)) \in Nat /\ Cardinality(After(j)) \in Nat
    BY <1>4
  <2> HIDE DEF After
  <2>4. After(i) # After(j)
    BY <2>1
  <2> QED BY <2>2, <2>3, <2>4
<1> HIDE DEF After
<1>6. rank \in Injection(kept, 1..MaxItems)
  <2>1. \A i \in kept : rank[i] \in 1..MaxItems
    BY <1>4
  <2>2. ASSUME NEW i \in kept, NEW j \in kept, rank[i] = rank[j], i < j PROVE FALSE
    BY <1>4, <1>5, <2>2
  <2>3. \A i, j \in kept : rank[i] = rank[j] => i = j
    <3>1. \A i, j \in kept : i = j \/ i < j \/ j < i
      BY <1>2
    <3> QED BY <2>2, <3>1
  <2> QED BY <2>1, <2>3 DEF Injection, IsInjective
<1>7. Cardinality(kept) <= MaxItems
  <2>1. IsFiniteSet(1..MaxItems) /\ Cardinality(1..MaxItems) = MaxItems
    <3>1. 1 \in Int /\ MaxItems \in Int /\ ~(1 > MaxItems) /\ MaxItems - 1 + 1 = MaxItems
      OBVIOUS
    <3>2. IsFiniteSet(1..MaxItems)
      BY <3>1, FS_Interval
    <3>3. Cardinality(1..MaxItems) = IF 1 > MaxItems THEN 0 ELSE MaxItems - 1 + 1
      BY <3>1, FS_Interval, Zenon
    <3> QED BY <3>1, <3>2, <3>3
  <2> HIDE DEF kept, rank
  <2>2. Cardinality(kept) <= Cardinality(1..MaxItems)
    BY <1>6, <2>1, FS_Injection
  <2> QED BY <2>1, <2>2
<1>8. kept \in SUBSET DOMAIN s
  OBVIOUS
<1> HIDE DEF kept
<1>9. Picked(s, kept) \in Seq(Item) /\ Len(Picked(s, kept)) <= MaxItems
  BY <1>7, <1>8, PickedInOrder
<1>10. \E at \in [DOMAIN Picked(s, kept) -> DOMAIN s] :
         /\ \A k \in DOMAIN Picked(s, kept) : Picked(s, kept)[k] = s[at[k]]
         /\ \A k, l \in DOMAIN Picked(s, kept) : k < l => at[k] < at[l]
  BY <1>8, PickedInOrder
<1> QED BY <1>1, <1>9, <1>10 DEF IsInbox

-----------------------------------------------------------------------------
(* Types.                                                                   *)

LEMMA ItemTypes ==
  /\ \A e \in Event : NewItem(e) \in Item
  /\ \A item \in Item, e \in Event : MergeIntoIncident(item, e) \in Item
  /\ \A item \in Item, u \in Users, op \in {"read", "unread", "delete"} :
       MarkedBy(u, item, op) \in Item
<1>1. \A e \in Event : NewItem(e) \in Item
  BY DEF NewItem, Item, Event, Serial, Times
<1>2. ASSUME NEW item \in Item, NEW e \in Event PROVE MergeIntoIncident(item, e) \in Item
  BY DEF MergeIntoIncident, Item, Event, Serial, Times
<1>3. ASSUME NEW item \in Item, NEW u \in Users, NEW op \in {"read", "unread", "delete"}
      PROVE  MarkedBy(u, item, op) \in Item
  BY DEF MarkedBy, Item
<1> QED BY <1>1, <1>2, <1>3

LEMMA AddedTypes ==
  ASSUME NEW s \in Seq(Item), NEW e \in Event
  PROVE  Added(s, e) \in Seq(Item)
<1>1. CASE FindOpenIncident(s, e) = {}
  BY <1>1, ItemTypes, AppendProperties DEF Added
<1>2. CASE FindOpenIncident(s, e) # {}
  <2>1. Len(s) \in Nat /\ DOMAIN s = 1..Len(s)
    BY LenProperties
  <2>2. \A i \in DOMAIN s : s[i] \in Item
    BY ElementOfSeq, <2>1
  <2>3. Added(s, e) \in [1..Len(s) -> Item]
    BY <1>2, <2>1, <2>2, ItemTypes DEF Added
  <2> QED BY <2>1, <2>3, SeqDef
<1> QED BY <1>1, <1>2

\* What a task returns to, and what it does after a channel.
LEMMA ReturnTypes ==
  ASSUME NEW t \in Tasks, TaskOK(task[t]), task[t].step \in Emitting
  PROVE  \/ task[t].then = Nothing /\ (Returns(t) => Does(t, Idle))
         \/ /\ task[t].then \in Announcement
            /\ Returns(t) => Does(t, [step |-> "told", event |-> task[t].event,
                                      then |-> task[t].then])
BY DEF TaskOK, Thens, Returns

LEMMA OneTask ==
  ASSUME Types, NEW t \in Tasks, NEW work, Does(t, work)
  PROVE  /\ task'[t] = work
         /\ \A u \in Tasks : u # t => task'[u] = task[u]
         /\ task' = [u \in Tasks |-> task'[u]]
         /\ TaskOK(work) => \A u \in Tasks : TaskOK(task'[u])
BY DEF Types, TypeOK, Does

LEMMA IdleTypes == TaskOK(Idle) /\ Idle.step = "idle"
BY DEF TaskOK, Idle, Emitting

NewTasks == (\A u \in Tasks : TaskOK(task'[u])) /\ task' = [u \in Tasks |-> task'[u]]

LEMMA DoesTypes ==
  ASSUME Types, NEW t \in Tasks, NEW work, TaskOK(work), Does(t, work)
  PROVE  NewTasks
BY OneTask DEF NewTasks

LEMMA ReturnsTypes ==
  ASSUME Types, NEW t \in Tasks, task[t].step \in Emitting, Returns(t)
  PROVE  NewTasks
<1>1. TaskOK(task[t])
  BY DEF Types, TypeOK
<1>2. task[t].then \in Announcement
        => TaskOK([step |-> "told", event |-> task[t].event, then |-> task[t].then])
  BY <1>1 DEF TaskOK, Emitting, Thens
<1> QED BY <1>1, <1>2, ReturnTypes, DoesTypes, IdleTypes

LEMMA SendsTypes ==
  ASSUME Types, NEW t \in Tasks, task[t].step \in Emitting,
         NEW to \in SUBSET Channels, Sends(t, to)
  PROVE  NewTasks
<1>1. CASE to = {}
  BY <1>1, ReturnsTypes DEF Sends
<1>2. CASE to # {}
  <2> DEFINE work == [step |-> "sending", event |-> task[t].event, then |-> task[t].then,
                      to |-> to]
  <2>1. TaskOK(task[t])
    BY DEF Types, TypeOK
  <2>2. TaskOK(work)
    BY <1>2, <2>1 DEF TaskOK, Emitting
  <2>3. Does(t, work)
    BY <1>2 DEF Sends
  <2> QED BY <2>2, <2>3, DoesTypes
<1> QED BY <1>1, <1>2

LEMMA NoteTypes ==
  ASSUME Types, NEW t \in Tasks, NoteStep(t),
         UNCHANGED <<running, channel, released, record, mishap>>,
         told' \in [Announcement -> Nat]
  PROVE  Types'
<1> SUFFICES /\ IsInbox(inbox)' /\ NewTasks
             /\ last' \in [Channels -> [Names -> Times \cup {Never}]]
             /\ emitted' \in 0..MaxEvents /\ requests' \in 0..MaxRequests
             /\ sent' \in [Channels -> [Names -> Nat]] /\ seen' \in [Users -> SUBSET Serial]
             /\ now' = now
  BY DEF Types, TypeOK, Thens, TaskOK, IsInbox, Event, Times, Serial,
         NewTasks
<1>0. TypeOK /\ TaskOK(task[t])
  BY DEF Types, TypeOK
<1> USE DEF Emitting
<1>1. CASE Report(t)
  <2>1. PICK name \in Names : EmitEvent(t, name, Nothing)
    BY <1>1 DEF Report
  <2>2. TaskOK(Emission(name, Nothing))
    BY <1>0, <2>1 DEF TaskOK, Emission, EmitEvent, Event, Serial, Thens, TypeOK
  <2>3. emitted' \in 0..MaxEvents
    BY <1>0, <2>1 DEF EmitEvent, TypeOK
  <2> QED BY <1>0, <1>1, <2>1, <2>2, <2>3, DoesTypes DEF Report, EmitEvent, TypeOK, IsInbox
<1>2. CASE SettingsFail(t)
  BY <1>0, <1>2, ReturnsTypes DEF SettingsFail, TypeOK, IsInbox
<1>3. CASE ReadInbox(t)
  <2> DEFINE work == [step |-> "appending", event |-> task[t].event, then |-> task[t].then,
                      copy |-> inbox]
  <2>1. TaskOK(work) /\ TaskOK([step |-> "offering", event |-> task[t].event,
                                then |-> task[t].then])
    BY <1>0, <1>3 DEF TaskOK, ReadInbox, TypeOK
  <2>2. NewTasks
    BY <1>3, <2>1, DoesTypes DEF ReadInbox, Offering
  <2> QED BY <1>0, <1>3, <2>2 DEF ReadInbox, TypeOK, IsInbox
<1>4. CASE AppendToInbox(t) \/ AppendFails(t)
  <2>1. TaskOK([step |-> "offering", event |-> task[t].event, then |-> task[t].then])
    BY <1>0, <1>4 DEF TaskOK, AppendToInbox, AppendFails
  <2>2. NewTasks
    BY <1>4, <2>1, DoesTypes DEF AppendToInbox, AppendFails, Offering
  <2>3. IsInbox(inbox)'
    <3>1. IsInbox(task[t].copy) /\ task[t].event \in Event
      BY <1>0, <1>4 DEF TaskOK, AppendToInbox, AppendFails
    <3>2. Added(task[t].copy, task[t].event) \in Seq(Item)
      BY <3>1, AddedTypes DEF IsInbox
    <3>3. IsInbox(Trimmed(Added(task[t].copy, task[t].event)))
      BY <3>2, TrimmedInbox
    <3> QED BY <1>0, <1>4, <3>3 DEF AppendToInbox, AppendFails, IsInbox, TypeOK
  <2> QED BY <1>0, <1>4, <2>2, <2>3 DEF AppendToInbox, AppendFails, TypeOK
<1>5. CASE Offer(t)
  <2> DEFINE e == task[t].event
  <2>1. Accepting(e) \in SUBSET Channels
    BY DEF Accepting
  <2>2. NewTasks
    BY <1>5, <2>1, SendsTypes DEF Offer
  <2>3. last' \in [Channels -> [Names -> Times \cup {Never}]]
    <3>1. e.name \in Names /\ now \in Times
      BY <1>0, <1>5 DEF TaskOK, Offer, Event, TypeOK
    <3>2. \A c \in Channels : [last[c] EXCEPT ![e.name] = now] \in [Names -> Times \cup {Never}]
      BY <1>0, <3>1 DEF TypeOK
    <3>3. \A c \in Channels : last[c] \in [Names -> Times \cup {Never}]
      BY <1>0 DEF TypeOK
    <3> QED BY <1>5, <3>2, <3>3 DEF Offer
  <2> QED BY <1>0, <1>5, <2>2, <2>3 DEF Offer, TypeOK, IsInbox
<1>6. CASE Dispatch(t) \/ DispatchFails(t)
  <2>1. PICK c \in task[t].to : Sends(t, task[t].to \ {c})
                             /\ (sent' = [sent EXCEPT ![c][task[t].event.name] = @ + 1]
                                   \/ sent' = sent)
    BY <1>6 DEF Dispatch, DispatchFails
  <2>2. task[t].to \subseteq Channels /\ task[t].event.name \in Names
    BY <1>0, <1>6 DEF TaskOK, Dispatch, DispatchFails, Event
  <2>3. NewTasks
    BY <1>6, <2>1, <2>2, SendsTypes DEF Dispatch, DispatchFails
  <2>4. sent' \in [Channels -> [Names -> Nat]]
    <3> DEFINE n == task[t].event.name
    <3>1. sent \in [Channels -> [Names -> Nat]] /\ c \in Channels /\ n \in Names
      BY <1>0, <2>1, <2>2 DEF TypeOK
    <3>2. sent' = [sent EXCEPT ![c][n] = @ + 1] \/ sent' = sent
      BY <2>1
    <3> HIDE DEF n
    <3>3. [sent[c] EXCEPT ![n] = @ + 1] \in [Names -> Nat]
      BY <3>1
    <3> QED BY <3>1, <3>2, <3>3
  <2>5. UNCHANGED <<now, inbox, last, emitted, requests, seen>>
    BY <1>6 DEF Dispatch, DispatchFails
  <2> QED BY <1>0, <2>3, <2>4, <2>5 DEF TypeOK, IsInbox
<1>7. CASE LookIn(t)
  <2>1. TaskOK([step |-> "marking", copy |-> inbox])
    BY <1>0 DEF TaskOK, TypeOK
  <2>2. NewTasks
    BY <1>7, <2>1, DoesTypes DEF LookIn
  <2> QED BY <1>0, <1>7, <2>2 DEF LookIn, TypeOK, IsInbox
<1>8. CASE Mark(t)
  <2> DEFINE copy == task[t].copy
  <2>1. IsInbox(copy) /\ Len(copy) \in Nat /\ DOMAIN copy = 1..Len(copy)
    <3>1. IsInbox(copy)
      BY <1>0, <1>8 DEF TaskOK, Mark
    <3> QED BY <3>1, LenProperties DEF IsInbox
  <2>2. NewTasks
    BY <1>8, DoesTypes, IdleTypes DEF Mark
  <2>3. PICK u \in Users, op \in {"read", "unread", "delete"}, hit \in SUBSET DOMAIN copy :
          /\ inbox' = IF hit = {} THEN inbox
                      ELSE [i \in DOMAIN copy |-> IF i \in hit THEN MarkedBy(u, copy[i], op)
                                                  ELSE copy[i]]
          /\ seen' = IF op # "read" THEN seen
                     ELSE [seen EXCEPT ![u] = @ \cup UNION {copy[i].events : i \in hit}]
    BY <1>8, Zenon DEF Mark
  <2>4. \A i \in DOMAIN copy : copy[i] \in Item
    BY <2>1, ElementOfSeq DEF IsInbox
  <2> HIDE DEF copy
  <2>5. IsInbox(inbox)'
    <3> DEFINE out == [i \in DOMAIN copy |-> IF i \in hit THEN MarkedBy(u, copy[i], op)
                                             ELSE copy[i]]
    <3>1. out \in [1..Len(copy) -> Item]
      BY <2>1, <2>4, ItemTypes
    <3>2. out \in Seq(Item)
      BY <2>1, <3>1, SeqDef
    <3>3. Len(out) = Len(copy)
      BY <2>1, <3>1, <3>2, LenProperties
    <3> QED BY <1>0, <2>1, <2>3, <3>2, <3>3 DEF IsInbox, TypeOK
  <2>6. seen' \in [Users -> SUBSET Serial]
    <3>1. \A i \in hit : copy[i].events \subseteq Serial
      BY <2>4 DEF Item
    <3>2. UNION {copy[i].events : i \in hit} \subseteq Serial
      BY <3>1
    <3> QED BY <1>0, <2>3, <3>2 DEF TypeOK
  <2> QED BY <1>0, <1>8, <2>2, <2>5, <2>6 DEF Mark, TypeOK
<1> QED BY <1>1, <1>2, <1>3, <1>4, <1>5, <1>6, <1>7, <1>8 DEF NoteStep

LEMMA TypesInit == Init => Types
<1> SUFFICES ASSUME Init PROVE Types
  OBVIOUS
<1>1. IsInbox(inbox)
  <2>1. PICK n \in Names :
          inbox = [i \in 1..Old |-> [NewItem([no |-> 0, name |-> n, at |-> 0])
                                       EXCEPT !.events = {}, !.deletedBy = Users]]
    BY DEF Init, NoteInit
  <2> DEFINE item == [NewItem([no |-> 0, name |-> n, at |-> 0])
                        EXCEPT !.events = {}, !.deletedBy = Users]
  <2>2. item \in Item
    <3>1. NewItem([no |-> 0, name |-> n, at |-> 0]) =
            [id |-> 0, name |-> n, trace |-> TraceOf[n], at |-> 0, events |-> {0},
             readBy |-> {}, deletedBy |-> {}]
      BY DEF NewItem
    <3>2. TraceOf[n] \in {TraceOf[m] : m \in Names}
      OBVIOUS
    <3>3. 0 \in 0..MaxEvents /\ 0 \in 0..MaxNow
      OBVIOUS
    <3> DEFINE made == NewItem([no |-> 0, name |-> n, at |-> 0])
    <3>4. made \in [id : 0..MaxEvents, name : Names, trace : {TraceOf[m] : m \in Names},
                    at : Times, events : {{0}}, readBy : SUBSET Users, deletedBy : SUBSET Users]
      BY <3>1, <3>2, <3>3 DEF Times
    <3> HIDE DEF made
    <3>5. [made EXCEPT !.events = {}, !.deletedBy = Users] \in Item
      BY <3>4 DEF Item
    <3> QED BY <3>5 DEF made
  <2>3. Old \in Nat /\ Old <= MaxItems
    OBVIOUS
  <2>4. inbox \in [1..Old -> Item]
    BY <2>1, <2>2
  <2>5. inbox \in Seq(Item)
    BY <2>3, <2>4, SeqDef
  <2>6. Len(inbox) = Old
    BY <2>3, <2>4, <2>5, LenProperties
  <2> QED BY <2>3, <2>5, <2>6 DEF IsInbox
<1>2. \A t \in Tasks : TaskOK(task[t])
  BY IdleTypes DEF Init, NoteInit
<1>3. last \in [Channels -> [Names -> Times \cup {Never}]] /\ sent \in [Channels -> [Names -> Nat]]
  BY DEF Init, NoteInit, NoCooldowns, NoneSent
<1>4. released \in [UpdateChannels -> Versions] /\ running \in Versions
  BY DEF Init, Versions
<1>5. told \in [Announcement -> Nat] /\ seen \in [Users -> SUBSET Serial]
  BY DEF Init, NoteInit
<1>6. task = [t \in Tasks |-> task[t]]
  BY DEF Init, NoteInit
<1>7. now \in Times /\ emitted \in 0..MaxEvents /\ requests \in 0..MaxRequests
  BY DEF Init, NoteInit, Times
<1> QED BY <1>1, <1>2, <1>3, <1>4, <1>5, <1>6, <1>7 DEF Init, Types, TypeOK

LEMMA TypesStep == Types /\ [Next]_vars => Types'
<1> SUFFICES ASSUME Types, [Next]_vars PROVE Types'
  OBVIOUS
<1>0. TypeOK /\ \A t \in Tasks : TaskOK(task[t])
  BY DEF Types, TypeOK
<1> USE DEF Emitting
\* A step of a task that changes nothing else but the record.
<1>1. ASSUME NewTasks, NotesUnchanged,
             UNCHANGED <<running, channel, released, told>>,
             record' \in Announcement \cup {NoRecord}, mishap' \in BOOLEAN
      PROVE  Types'
  BY <1>0, <1>1 DEF NotesUnchanged, NewTasks, Types, TypeOK, IsInbox, TaskOK
<1>2. ASSUME NEW t \in Tasks, Works(t) PROVE Types'
  <2>1. told' \in [Announcement -> Nat]
    <3>1. told \in [Announcement -> Nat]
      BY <1>0 DEF TypeOK
    <3>2. told' = told \/ told' = [told EXCEPT ![task[t].then] = @ + 1]
      BY <1>2 DEF Works
    <3>3. ASSUME NEW ann PROVE [told EXCEPT ![ann] = @ + 1] \in [Announcement -> Nat]
      <4>1. CASE ann \in Announcement
        <5>1. told[ann] + 1 \in Nat
          BY <3>1, <4>1
        <5> QED BY <3>1, <5>1
      <4>2. CASE ann \notin Announcement
        <5>1. [told EXCEPT ![ann] = @ + 1] = told
          BY <3>1, <4>2
        <5> QED BY <3>1, <5>1
      <4> QED BY <4>1, <4>2
    <3> QED BY <3>1, <3>2, <3>3
  <2> QED BY <1>2, <2>1, NoteTypes DEF Works
<1>3. ASSUME NEW t \in Tasks, Check(t) PROVE Types'
  <2>1. TaskOK([step |-> "fetching", channel |-> channel])
    BY <1>0 DEF TaskOK, TypeOK
  <2>2. NewTasks
    BY <1>3, <2>1, DoesTypes DEF Check
  <2> QED BY <1>0, <1>1, <1>3, <2>2 DEF Check, updateVars, TypeOK
<1>4. ASSUME NEW t \in Tasks, Fetched(t) PROVE Types'
  <2> DEFINE ann == [version |-> released[task[t].channel], current |-> running,
                     channel |-> task[t].channel]
  <2>1. ann \in Announcement
    BY <1>0, <1>4 DEF TaskOK, Fetched, Announcement, TypeOK
  <2>2. TaskOK([step |-> "recalling", then |-> ann])
    BY <2>1 DEF TaskOK
  <2>3. NewTasks
    BY <1>4, <2>2, DoesTypes, IdleTypes DEF Fetched
  <2> QED BY <1>0, <1>1, <1>4, <2>3 DEF Fetched, updateVars, TypeOK
<1>5. ASSUME NEW t \in Tasks, FetchFails(t) \/ RecallKnown(t) PROVE Types'
  <2>1. NewTasks
    BY <1>5, DoesTypes, IdleTypes DEF FetchFails, RecallKnown
  <2> QED BY <1>0, <1>1, <1>5, <2>1 DEF FetchFails, RecallKnown, updateVars, TypeOK
<1>6. ASSUME NEW t \in Tasks, Recall(t) PROVE Types'
  <2>1. task[t].then \in Announcement
    BY <1>0, <1>6 DEF TaskOK, Recall
  <2>2. EmitEvent(t, UpdateAvailable, task[t].then)
    BY <1>6 DEF Recall
  <2>3. TaskOK(Emission(UpdateAvailable, task[t].then)) /\ emitted' \in 0..MaxEvents
    BY <1>0, <2>1, <2>2 DEF TaskOK, Emission, EmitEvent, Event, Serial, Thens, TypeOK
  <2>4. NewTasks
    BY <2>2, <2>3, DoesTypes DEF EmitEvent
  <2>5. mishap' \in BOOLEAN
    BY <1>0, <1>6 DEF Recall, TypeOK
  <2>6. /\ UNCHANGED <<now, inbox, last, requests, sent, seen>>
        /\ UNCHANGED <<running, channel, released, record, told>>
    BY <1>6 DEF Recall
  <2> QED BY <1>0, <2>3, <2>4, <2>5, <2>6 DEF NewTasks, Types, TypeOK, IsInbox, TaskOK
<1>7. ASSUME NEW t \in Tasks, Persist(t) \/ PersistFails(t) PROVE Types'
  <2>1. task[t].then \in Announcement
    BY <1>0, <1>7 DEF TaskOK, Persist, PersistFails
  <2>2. NewTasks
    BY <1>7, DoesTypes, IdleTypes DEF Persist, PersistFails
  <2>3. mishap' \in BOOLEAN /\ record' \in Announcement \cup {NoRecord}
    BY <1>0, <1>7, <2>1 DEF Persist, PersistFails, TypeOK
  <2> QED BY <1>1, <1>7, <2>2, <2>3 DEF Persist, PersistFails
<1>8. CASE Tick /\ UNCHANGED updateVars
  BY <1>0, <1>8 DEF Tick, updateVars, Types, TypeOK, IsInbox, TaskOK, Times
<1>9. CASE UpdateChannel \/ Release
  <2>1. channel' \in UpdateChannels /\ released' \in [UpdateChannels -> Versions]
    BY <1>0, <1>9 DEF UpdateChannel, Release, TypeOK
  <2>2. NotesUnchanged /\ UNCHANGED <<task, running, record, told, mishap>>
    BY <1>9 DEF UpdateChannel, Release
  <2> QED BY <1>0, <2>1, <2>2 DEF NotesUnchanged, Types, TypeOK, IsInbox, TaskOK
<1>10. CASE Upgrade
  <2>1. NewTasks
    BY <1>10, IdleTypes DEF Upgrade, Restart, NewTasks
  <2>2. running' \in Versions /\ mishap' \in BOOLEAN
    BY <1>0, <1>10 DEF Upgrade, TypeOK
  <2>3. /\ last' \in [Channels -> [Names -> Times \cup {Never}]]
        /\ sent' \in [Channels -> [Names -> Nat]]
    BY <1>10 DEF Upgrade, Restart, NoCooldowns, NoneSent
  <2>4. /\ UNCHANGED <<now, inbox, emitted, requests, seen>>
        /\ UNCHANGED <<channel, released, record, told>>
    BY <1>10 DEF Upgrade, Restart
  <2> QED BY <1>0, <2>1, <2>2, <2>3, <2>4 DEF NewTasks, Types, TypeOK, IsInbox, TaskOK
<1>11. CASE UNCHANGED vars
  BY <1>0, <1>11 DEF vars, noteVars, updateVars, Types, TypeOK, IsInbox, TaskOK
<1> QED BY <1>2, <1>3, <1>4, <1>5, <1>6, <1>7, <1>8, <1>9, <1>10, <1>11 DEF Next

-----------------------------------------------------------------------------
(* The inbox and its copies.                                                *)

LEMMA ItemsOf ==
  ASSUME NEW s \in Seq(Item)
  PROVE  /\ Len(s) \in Nat /\ DOMAIN s = 1..Len(s)
         /\ \A i \in DOMAIN s : s[i] \in Item /\ s[i].at \in Times /\ s[i].readBy \subseteq Users
<1>1. Len(s) \in Nat /\ DOMAIN s = 1..Len(s)
  BY LenProperties
<1>2. \A i \in DOMAIN s : s[i] \in Item
  BY <1>1, ElementOfSeq
<1> QED BY <1>1, <1>2 DEF Item

LEMMA FineStays ==
  ASSUME NEW s, NEW n \in Nat, NEW m \in Nat, n <= m, NEW marks, NEW more,
         \A u \in Users : marks[u] \subseteq more[u], Fine(s, n, marks)
  PROVE  Fine(s, m, more)
<1>1. \A i \in DOMAIN s : s[i].at \in Nat /\ s[i].readBy \subseteq Users
  BY ItemsOf DEF Fine, IsInbox, Times
<1>2. Closed(s, m)
  BY <1>1 DEF Fine, Closed
<1>3. WasSeen(s, more)
  BY <1>1 DEF Fine, WasSeen
<1> QED BY <1>2, <1>3 DEF Fine

\* An event goes to the latest item of its trace, or the items of the trace
\* were closed before it happened.
LEMMA AddedFine ==
  ASSUME NEW s \in Seq(Item), NEW e \in Event, NEW clock \in Nat, e.at <= clock,
         NEW marks, Closed(s, clock), WasSeen(s, marks)
  PROVE  Closed(Added(s, e), clock) /\ WasSeen(Added(s, e), marks)
<1> DEFINE out == Added(s, e)
           n == Len(s)
           open == FindOpenIncident(s, e)
<1>0. n \in Nat /\ DOMAIN s = 1..n /\ e.at \in Nat /\ Window \in Nat
      /\ \A i \in 1..n : s[i] \in Item /\ s[i].at \in Nat
  BY ItemsOf DEF Event, Times
<1>1. CASE open = {}
  <2>1. out = Append(s, NewItem(e)) /\ NewItem(e) \in Item
    BY <1>1, ItemTypes DEF Added
  <2>2. /\ DOMAIN out = 1..(n + 1) /\ out[n + 1] = NewItem(e)
        /\ \A i \in 1..n : out[i] = s[i]
    BY <2>1, <1>0, AppendProperties
  <2>3. NewItem(e).trace = TraceOf[e.name] /\ NewItem(e).readBy = {}
    BY DEF NewItem
  <2> HIDE DEF out
  <2>4. ASSUME NEW i \in 1..n, s[i].trace = TraceOf[e.name], s[i].trace # NoTrace
        PROVE  s[i].at + Window < clock
    <3> DEFINE same == {k \in 1..n : s[k].trace = TraceOf[e.name]}
    <3>1. PICK m \in same : \A k \in same : k <= m
      <4>1. i \in same /\ same \in SUBSET (1..n)
        BY <2>4
      <4> HIDE DEF same
      <4> QED BY <1>0, <4>1, LastOne
    <3>2. m \in Latest(s, e)
      BY <1>0, <2>4, <3>1 DEF Latest
    <3>3. ~(s[m].at + Window >= e.at)
      BY <1>1, <3>2 DEF FindOpenIncident
    <3>4. s[m].at + Window < clock
      BY <1>0, <3>1, <3>3
    <3>5. i = m \/ i < m
      BY <2>4, <3>1, <1>0
    <3> QED BY <1>0, <2>4, <3>1, <3>4, <3>5 DEF Closed
  <2>5. Closed(out, clock)
    <3> SUFFICES ASSUME NEW i \in 1..(n + 1), NEW k \in 1..(n + 1), i < k,
                        out[i].trace = out[k].trace, out[i].trace # NoTrace
                 PROVE  out[i].at + Window < clock
      BY <2>2 DEF Closed
    <3>1. i \in 1..n /\ out[i] = s[i]
      BY <1>0, <2>2
    <3>2. CASE k = n + 1
      BY <2>2, <2>3, <2>4, <3>1, <3>2
    <3>3. CASE k \in 1..n
      BY <1>0, <2>2, <3>1, <3>3 DEF Closed
    <3>4. k = n + 1 \/ k \in 1..n
      BY <1>0
    <3> QED BY <3>2, <3>3, <3>4
  <2>6. WasSeen(out, marks)
    <3>1. \A i \in 1..(n + 1) : i \in 1..n \/ i = n + 1
      BY <1>0
    <3> QED BY <1>0, <2>2, <2>3, <3>1 DEF WasSeen
  <2> QED BY <2>5, <2>6 DEF out
<1>2. CASE open # {}
  <2>1. out = [i \in 1..n |-> IF i \in open THEN MergeIntoIncident(s[i], e) ELSE s[i]]
    BY <1>0, <1>2 DEF Added
  <2>2. ASSUME NEW i \in 1..n, i \in open
        PROVE  \A k \in 1..n : s[k].trace = s[i].trace => k <= i
    BY <1>0, <2>2 DEF FindOpenIncident, Latest
  <2>3. \A i \in 1..n : MergeIntoIncident(s[i], e).trace = s[i].trace
                        /\ MergeIntoIncident(s[i], e).readBy = {}
    BY <1>0 DEF MergeIntoIncident, Item
  <2> HIDE DEF out, open
  <2>4. \A i \in 1..n : out[i].trace = s[i].trace
    BY <2>1, <2>3
  <2>5. Closed(out, clock)
    <3> SUFFICES ASSUME NEW i \in 1..n, NEW k \in 1..n, i < k,
                        out[i].trace = out[k].trace, out[i].trace # NoTrace
                 PROVE  out[i].at + Window < clock
      BY <2>1 DEF Closed
    <3>1. i \notin open
      BY <1>0, <2>2, <2>4
    <3>2. out[i] = s[i]
      BY <2>1, <3>1
    <3> QED BY <1>0, <2>4, <3>2 DEF Closed
  <2>6. WasSeen(out, marks)
    BY <1>0, <2>1, <2>3 DEF WasSeen
  <2> QED BY <2>5, <2>6 DEF out
<1> QED BY <1>1, <1>2

LEMMA TrimmedFine ==
  ASSUME NEW s \in Seq(Item), NEW clock, NEW marks, Closed(s, clock), WasSeen(s, marks)
  PROVE  Fine(Trimmed(s), clock, marks)
<1> DEFINE out == Trimmed(s)
<1>1. IsInbox(out)
  BY TrimmedInbox
<1>2. PICK at \in [DOMAIN out -> DOMAIN s] :
        /\ \A k \in DOMAIN out : out[k] = s[at[k]]
        /\ \A k, l \in DOMAIN out : k < l => at[k] < at[l]
  BY TrimmedInbox
<1> HIDE DEF out
<1>3. \A k \in DOMAIN out : at[k] \in DOMAIN s
  BY <1>2
<1>4. Closed(out, clock)
  BY <1>2, <1>3 DEF Closed
<1>5. WasSeen(out, marks)
  BY <1>2, <1>3 DEF WasSeen
<1> QED BY <1>1, <1>4, <1>5 DEF Fine, out

Marked(s, u, op, hit) ==
  [i \in DOMAIN s |-> IF i \in hit THEN MarkedBy(u, s[i], op) ELSE s[i]]

\* A user marks what is in sight as read, and has seen it then.
LEMMA MarkedFine ==
  ASSUME NEW s, NEW clock, NEW marks, Fine(s, clock, marks), NEW u \in Users,
         NEW op \in {"read", "unread", "delete"}, NEW hit \in SUBSET DOMAIN s,
         NEW more, \A v \in Users : marks[v] \subseteq more[v],
         op = "read" => \A i \in hit : s[i].events \subseteq more[u]
  PROVE  Fine(Marked(s, u, op, hit), clock, more)
<1> DEFINE out == Marked(s, u, op, hit)
<1>0. /\ s \in Seq(Item) /\ Len(s) \in Nat /\ DOMAIN s = 1..Len(s)
      /\ \A i \in DOMAIN s : s[i] \in Item /\ s[i].readBy \subseteq Users
  BY ItemsOf DEF Fine, IsInbox
<1>3. ASSUME NEW i \in DOMAIN s
      PROVE  /\ MarkedBy(u, s[i], op).trace = s[i].trace
             /\ MarkedBy(u, s[i], op).at = s[i].at
             /\ MarkedBy(u, s[i], op).events = s[i].events
             /\ MarkedBy(u, s[i], op).readBy \subseteq s[i].readBy \cup {u}
             /\ op # "read" => MarkedBy(u, s[i], op).readBy \subseteq s[i].readBy
  BY <1>0 DEF MarkedBy, Item
<1>4. /\ DOMAIN out = DOMAIN s
      /\ \A i \in DOMAIN s : i \in hit => out[i] = MarkedBy(u, s[i], op)
      /\ \A i \in DOMAIN s : i \notin hit => out[i] = s[i]
  BY DEF Marked
<1>5. IsInbox(out)
  <2>1. out \in [1..Len(s) -> Item]
    BY <1>0, ItemTypes DEF Marked
  <2>2. out \in Seq(Item)
    BY <1>0, <2>1, SeqDef
  <2>3. Len(out) = Len(s)
    BY <1>0, <2>1, <2>2, LenProperties
  <2> QED BY <2>2, <2>3 DEF Fine, IsInbox
<1> HIDE DEF out
<1>6. \A i \in DOMAIN s : out[i].trace = s[i].trace /\ out[i].at = s[i].at
                         /\ out[i].events = s[i].events
  BY <1>3, <1>4
<1>7. Closed(out, clock)
  BY <1>4, <1>6 DEF Closed, Fine
<1>8. WasSeen(out, more)
  <2>1. SUFFICES ASSUME NEW i \in DOMAIN s, NEW v \in out[i].readBy
                 PROVE  s[i].events \subseteq more[v]
    BY <1>4, <1>6 DEF WasSeen
  <2>2. CASE v \in s[i].readBy
    BY <1>0, <2>2 DEF Fine, WasSeen
  <2>3. CASE v \notin s[i].readBy
    BY <1>3, <1>4, <2>1, <2>3
  <2> QED BY <2>2, <2>3
<1> QED BY <1>5, <1>7, <1>8 DEF Fine, out

\* Every task but the one at work keeps its copy.
LEMMA InboxesKept ==
  ASSUME Types, InboxesFine, NEW t \in Tasks, Fine(inbox, now, seen)',
         \A u \in Tasks : u # t => task'[u] = task[u], now' = now,
         \A u \in Users : seen[u] \subseteq seen'[u],
         task'[t].step \notin {"appending", "marking"}
  PROVE  InboxesFine'
<1>1. now \in Nat
  BY DEF Types, TypeOK, Times
<1>2. ASSUME NEW u \in Tasks, task'[u].step \in {"appending", "marking"}
      PROVE  Fine(task[u].copy, now', seen') /\ task'[u] = task[u]
  BY <1>1, <1>2, FineStays DEF InboxesFine
<1> QED BY <1>2 DEF InboxesFine

-----------------------------------------------------------------------------
(* What the steps of a task do to it.                                       *)

Begins(t) ==
  /\ task[t].step = "idle" /\ task'[t].step = "starting"
  /\ task'[t].then = Nothing /\ task'[t].event.at = now

GoesOn(t) ==
  /\ task[t].step \in Emitting \ {"told"} /\ task'[t].step \in Emitting \ {"starting"}
  /\ task'[t].event = task[t].event /\ task'[t].then = task[t].then
  /\ task'[t].step = "appending" => task'[t].copy = inbox
  /\ task'[t].step = "told" => task[t].then \in Announcement

Ends(t) ==
  /\ task[t].step \in Emitting \ {"told"} /\ task[t].then = Nothing
  /\ task'[t] = Idle

Looks(t) ==
  /\ task[t].step = "idle" /\ task'[t].step = "marking" /\ task'[t].copy = inbox

Others(t) == \A u \in Tasks : u # t => task'[u] = task[u]

LEMMA ReturnMoves ==
  ASSUME Types, NEW t \in Tasks, task[t].step \in Emitting \ {"told"}, Returns(t)
  PROVE  Others(t) /\ (GoesOn(t) \/ Ends(t)) /\ task'[t].step \in {"told", "idle"}
<1>1. TaskOK(task[t])
  BY DEF Types, TypeOK
<1>2. CASE task[t].then = Nothing
  <2>1. Does(t, Idle)
    BY <1>2 DEF Returns
  <2> QED BY <1>2, <2>1, OneTask, IdleTypes DEF Ends, Others
<1>3. CASE task[t].then # Nothing
  <2> DEFINE work == [step |-> "told", event |-> task[t].event, then |-> task[t].then]
  <2>1. Does(t, work) /\ task[t].then \in Announcement
    BY <1>1, <1>3, ReturnTypes DEF Returns
  <2>2. task'[t] = work /\ Others(t)
    BY <2>1, OneTask DEF Others
  <2> QED BY <2>1, <2>2 DEF GoesOn, Emitting
<1> QED BY <1>2, <1>3

LEMMA SendMoves ==
  ASSUME Types, NEW t \in Tasks, task[t].step \in Emitting \ {"told"}, NEW to, Sends(t, to)
  PROVE  /\ Others(t) /\ (GoesOn(t) \/ Ends(t))
         /\ \/ task'[t].step \in {"told", "idle"} /\ to = {}
            \/ task'[t].step = "sending" /\ task'[t].to = to /\ task'[t].event = task[t].event
<1>1. CASE to = {}
  BY <1>1, ReturnMoves DEF Sends
<1>2. CASE to # {}
  <2> DEFINE work == [step |-> "sending", event |-> task[t].event, then |-> task[t].then,
                      to |-> to]
  <2>1. Does(t, work)
    BY <1>2 DEF Sends
  <2>2. task'[t] = work /\ Others(t)
    BY <2>1, OneTask DEF Others
  <2> QED BY <2>2 DEF GoesOn, Emitting
<1> QED BY <1>1, <1>2

LEMMA NoteMoves ==
  ASSUME Types, NEW t \in Tasks, NoteStep(t)
  PROVE  /\ Others(t)
         /\ \/ Begins(t) \/ GoesOn(t) \/ Ends(t) \/ Looks(t)
            \/ Mark(t) /\ task'[t] = Idle
<1> USE DEF Emitting
<1>1. CASE Report(t)
  <2>1. PICK name \in Names : Does(t, Emission(name, Nothing))
    BY <1>1 DEF Report, EmitEvent
  <2>2. task'[t] = Emission(name, Nothing) /\ Others(t)
    BY <2>1, OneTask DEF Others
  <2> QED BY <1>1, <2>2 DEF Report, Begins, Emission
<1>2. CASE SettingsFail(t)
  BY <1>2, ReturnMoves DEF SettingsFail
<1>3. CASE ReadInbox(t)
  <2>1. PICK work : /\ Does(t, work)
                    /\ \/ work = [step |-> "appending", event |-> task[t].event,
                                  then |-> task[t].then, copy |-> inbox]
                       \/ work = [step |-> "offering", event |-> task[t].event,
                                  then |-> task[t].then]
    BY <1>3 DEF ReadInbox, Offering
  <2>2. task'[t] = work /\ Others(t)
    BY <2>1, OneTask DEF Others
  <2> QED BY <1>3, <2>1, <2>2 DEF ReadInbox, GoesOn
<1>4. CASE AppendToInbox(t) \/ AppendFails(t)
  <2>1. Does(t, [step |-> "offering", event |-> task[t].event, then |-> task[t].then])
    BY <1>4 DEF AppendToInbox, AppendFails, Offering
  <2>2. /\ task'[t] = [step |-> "offering", event |-> task[t].event, then |-> task[t].then]
        /\ Others(t)
    BY <2>1, OneTask DEF Others
  <2> QED BY <1>4, <2>2 DEF AppendToInbox, AppendFails, GoesOn
<1>5. CASE Offer(t)
  BY <1>5, SendMoves DEF Offer
<1>6. CASE Dispatch(t) \/ DispatchFails(t)
  BY <1>6, SendMoves DEF Dispatch, DispatchFails
<1>7. CASE LookIn(t)
  <2>1. task'[t] = [step |-> "marking", copy |-> inbox] /\ Others(t)
    BY <1>7, OneTask DEF LookIn, Others
  <2> QED BY <1>7, <2>1 DEF LookIn, Looks
<1>8. CASE Mark(t)
  BY <1>8, OneTask DEF Mark, Others
<1> QED BY <1>1, <1>2, <1>3, <1>4, <1>5, <1>6, <1>7, <1>8 DEF NoteStep

-----------------------------------------------------------------------------
(* The inbox, step by step.                                                 *)

LEMMA InboxesNote ==
  ASSUME Types, InboxesFine, Past, NEW t \in Tasks, NoteStep(t)
  PROVE  InboxesFine'
<1>0. /\ Others(t) /\ now' = now /\ now \in Nat
      /\ TaskOK(task[t]) /\ seen \in [Users -> SUBSET Serial]
      /\ \A u \in Users : seen[u] \subseteq seen[u]
  <2>1. now' = now
    BY DEF NoteStep, Report, SettingsFail, ReadInbox, AppendToInbox, AppendFails, Offer,
           Dispatch, DispatchFails, LookIn, Mark
  <2> QED BY <2>1, NoteMoves DEF Types, TypeOK, Times
<1>1. CASE AppendToInbox(t)
  <2> DEFINE s == task[t].copy
             e == task[t].event
  <2>1. Fine(s, now, seen) /\ e \in Event /\ e.at <= now
    BY <1>0, <1>1 DEF AppendToInbox, InboxesFine, TaskOK, Past, Emitting
  <2>2. /\ Added(s, e) \in Seq(Item) /\ Closed(Added(s, e), now)
        /\ WasSeen(Added(s, e), seen)
    <3>1. s \in Seq(Item) /\ Closed(s, now) /\ WasSeen(s, seen)
      BY <2>1 DEF Fine, IsInbox
    <3> HIDE DEF s, e
    <3> QED BY <1>0, <2>1, <3>1, AddedTypes, AddedFine
  <2>3. Fine(Trimmed(Added(s, e)), now, seen)
    BY <2>2, TrimmedFine
  <2>4. Fine(inbox, now, seen)' /\ seen' = seen
    BY <1>0, <1>1, <2>3 DEF AppendToInbox
  <2>5. task'[t].step = "offering"
    BY <1>1, OneTask DEF AppendToInbox, Offering
  <2> QED BY <1>0, <2>4, <2>5, InboxesKept DEF Others
<1>2. CASE Mark(t)
  <2> DEFINE s == task[t].copy
  <2>1. Fine(s, now, seen)
    BY <1>2 DEF Mark, InboxesFine
  <2>2. PICK u \in Users, op \in {"read", "unread", "delete"}, hit \in SUBSET DOMAIN s :
          /\ inbox' = IF hit = {} THEN inbox ELSE Marked(s, u, op, hit)
          /\ seen' = IF op # "read" THEN seen
                     ELSE [seen EXCEPT ![u] = @ \cup UNION {s[i].events : i \in hit}]
    BY <1>2, Zenon DEF Mark, Marked
  <2> HIDE DEF s
  <2>3. /\ \A v \in Users : seen[v] \subseteq seen'[v]
        /\ op = "read" => \A i \in hit : s[i].events \subseteq seen'[u]
    BY <1>0, <2>2
  <2>4. Fine(inbox, now, seen)'
    <3>1. Fine(inbox, now, seen')
      BY <1>0, <2>3, FineStays DEF InboxesFine
    <3>2. Fine(Marked(s, u, op, hit), now, seen')
      BY <2>1, <2>3, MarkedFine
    <3> QED BY <1>0, <2>2, <3>1, <3>2
  <2>5. task'[t].step = "idle"
    BY <1>2, OneTask, IdleTypes DEF Mark
  <2> QED BY <1>0, <2>3, <2>4, <2>5, InboxesKept DEF Others
<1>3. CASE ~AppendToInbox(t) /\ ~Mark(t)
  <2>1. inbox' = inbox /\ seen' = seen
    BY <1>3 DEF NoteStep, Report, SettingsFail, ReadInbox, AppendFails, Offer,
           Dispatch, DispatchFails, LookIn
  <2>2. task'[t].step \in {"appending", "marking"} => task'[t].copy = inbox
    BY <1>3, NoteMoves, IdleTypes DEF Begins, GoesOn, Ends, Looks, Emitting
  <2> QED BY <1>0, <2>1, <2>2 DEF InboxesFine, Others
<1> QED BY <1>1, <1>2, <1>3

\* The steps of a check, beside the emission it waits for.
CheckStep(t) ==
  \/ Check(t) \/ Fetched(t) \/ FetchFails(t)
  \/ RecallKnown(t) \/ Recall(t) \/ Persist(t) \/ PersistFails(t)

LEMMA CheckMoves ==
  ASSUME Types, NEW t \in Tasks, CheckStep(t)
  PROVE  /\ Others(t) /\ UNCHANGED <<now, inbox, last, sent, seen>>
         /\ \/ task'[t].step \in {"idle", "fetching", "recalling"} /\ ~Recall(t)
            \/ /\ Recall(t)
               /\ task'[t].step = "starting" /\ task'[t].event.at = now
               /\ task'[t].then = task[t].then
<1>1. CASE Check(t)
  BY <1>1, OneTask DEF Check, NotesUnchanged, Others, Recall
<1>2. CASE Fetched(t)
  <2>1. PICK work : Does(t, work) /\ work.step \in {"idle", "recalling"}
    BY <1>2, IdleTypes DEF Fetched
  <2>2. Others(t) /\ task'[t].step \in {"idle", "recalling"}
    BY <2>1, OneTask DEF Others
  <2> QED BY <1>2, <2>2 DEF Fetched, NotesUnchanged, Recall
<1>3. CASE FetchFails(t) \/ RecallKnown(t) \/ Persist(t) \/ PersistFails(t)
  <2>1. Does(t, Idle) /\ UNCHANGED <<now, inbox, last, sent, seen>>
    BY <1>3 DEF FetchFails, RecallKnown, Persist, PersistFails, NotesUnchanged
  <2>2. Others(t) /\ task'[t].step = "idle"
    BY <2>1, OneTask, IdleTypes DEF Others
  <2>3. ~Recall(t)
    BY <2>1, <2>2, OneTask DEF Recall, EmitEvent, Emission
  <2> QED BY <2>1, <2>2, <2>3
<1>4. CASE Recall(t)
  <2>1. Does(t, Emission(UpdateAvailable, task[t].then))
    BY <1>4 DEF Recall, EmitEvent
  <2>2. task'[t] = Emission(UpdateAvailable, task[t].then) /\ Others(t)
    BY <2>1, OneTask DEF Others
  <2> QED BY <1>4, <2>2 DEF Recall, Emission
<1> QED BY <1>1, <1>2, <1>3, <1>4 DEF CheckStep

LEMMA Quiet ==
  ASSUME UpdateChannel \/ Release \/ UNCHANGED vars
  PROVE  UNCHANGED <<now, inbox, last, task, sent, seen, told, record, mishap>>
BY DEF UpdateChannel, Release, vars, noteVars, updateVars, NotesUnchanged

LEMMA Kinds ==
  ASSUME [Next]_vars
  PROVE  \/ \E t \in Tasks : Works(t)
         \/ \E t \in Tasks : CheckStep(t)
         \/ Tick /\ UNCHANGED updateVars
         \/ Upgrade
         \/ UpdateChannel \/ Release \/ UNCHANGED vars
BY DEF Next, CheckStep

LEMMA InboxesStep ==
  ASSUME Types, InboxesFine, Past, [Next]_vars
  PROVE  InboxesFine'
<1>0. now \in Nat /\ \A u \in Users : seen[u] \subseteq seen[u]
  BY DEF Types, TypeOK, Times
<1>1. ASSUME NEW t \in Tasks, Works(t) PROVE InboxesFine'
  BY <1>1, InboxesNote DEF Works
<1>2. ASSUME NEW t \in Tasks, CheckStep(t) PROVE InboxesFine'
  <2>1. Others(t) /\ now' = now /\ seen' = seen
        /\ task'[t].step \notin {"appending", "marking"} /\ inbox' = inbox
    BY <1>2, CheckMoves
  <2> QED BY <1>0, <2>1 DEF InboxesFine, Others
<1>3. CASE Tick /\ UNCHANGED updateVars
  <2>1. now' = now + 1 /\ UNCHANGED <<inbox, task, seen>>
    BY <1>3 DEF Tick
  <2>2. \A s : Fine(s, now, seen) => Fine(s, now', seen)
    BY <1>0, <2>1, FineStays
  <2> QED BY <2>1, <2>2 DEF InboxesFine
<1>4. CASE Upgrade
  BY <1>4, IdleTypes DEF Upgrade, Restart, InboxesFine
<1>5. CASE UpdateChannel \/ Release \/ UNCHANGED vars
  BY <1>5, Quiet DEF InboxesFine
<1> QED BY <1>1, <1>2, <1>3, <1>4, <1>5, Kinds

LEMMA PastStep ==
  ASSUME Types, Past, [Next]_vars
  PROVE  Past'
<1>0. /\ now \in Nat /\ \A c \in Channels, n \in Names : last[c][n] \in Nat
      /\ \A t \in Tasks : task[t].step \in Emitting => task[t].event.at \in Nat
  BY DEF Types, TypeOK, Times, Never, TaskOK, Event
<1>1. ASSUME NEW t \in Tasks, Works(t) PROVE Past'
  <2>1. NoteStep(t)
    BY <1>1 DEF Works
  <2>2. \A u \in Tasks : task'[u].step \in Emitting => task'[u].event.at <= now
    <3>1. task'[t].step \in Emitting => task'[t].event.at <= now
      BY <1>0, <2>1, NoteMoves, IdleTypes
         DEF Begins, GoesOn, Ends, Looks, Past, Emitting
    <3>2. Others(t)
      BY <2>1, NoteMoves
    <3> QED BY <3>1, <3>2 DEF Others, Past
  <2>3. now' = now
    BY <2>1 DEF NoteStep, Report, SettingsFail, ReadInbox, AppendToInbox, AppendFails, Offer,
           Dispatch, DispatchFails, LookIn, Mark
  <2>4. ASSUME NEW c \in Channels, NEW n \in Names
        PROVE  last'[c][n] = last[c][n] \/ last'[c][n] = now
    <3>1. CASE Offer(t)
      <4>1. last' = [d \in Channels |->
                       IF d \in Accepting(task[t].event) /\ Cooldown[d] > 0
                       THEN [last[d] EXCEPT ![task[t].event.name] = now] ELSE last[d]]
        BY <3>1 DEF Offer
      <4>2. last[c] \in [Names -> Times \cup {Never}]
        BY DEF Types, TypeOK
      <4> QED BY <4>1, <4>2
    <3>2. CASE ~Offer(t)
      BY <2>1, <3>2 DEF NoteStep, Report, SettingsFail, ReadInbox, AppendToInbox,
           AppendFails, Dispatch, DispatchFails, LookIn, Mark
    <3> QED BY <3>1, <3>2
  <2> QED BY <1>0, <2>2, <2>3, <2>4 DEF Past
<1>2. ASSUME NEW t \in Tasks, CheckStep(t) PROVE Past'
  <2>1. Others(t) /\ now' = now /\ last' = last
        /\ (task'[t].step \in Emitting => task'[t].event.at <= now)
    BY <1>0, <1>2, CheckMoves DEF Emitting
  <2> QED BY <2>1 DEF Past, Others
<1>3. CASE Tick /\ UNCHANGED updateVars
  <2>1. now' = now + 1 /\ UNCHANGED <<last, task>>
    BY <1>3 DEF Tick
  <2>2. \A t \in Tasks : task[t].step \in Emitting => task[t].event.at <= now'
    BY <1>0, <2>1 DEF Past
  <2>3. \A c \in Channels, n \in Names : last[c][n] # Never => last[c][n] <= now'
    <3>1. ASSUME NEW c \in Channels, NEW n \in Names, last[c][n] # Never
          PROVE  last[c][n] <= now'
      <4>1. last[c][n] <= now /\ last[c][n] \in Nat
        BY <1>0, <3>1 DEF Past
      <4> QED BY <1>0, <2>1, <4>1
    <3> QED BY <3>1
  <2> QED BY <2>1, <2>2, <2>3 DEF Past
<1>4. CASE Upgrade
  <2>1. /\ \A c \in Channels, n \in Names : last'[c][n] = Never
        /\ \A t \in Tasks : task'[t].step = "idle"
    BY <1>4, IdleTypes DEF Upgrade, Restart, NoCooldowns
  <2> QED BY <2>1 DEF Past, Emitting, Never
<1>5. CASE UpdateChannel \/ Release \/ UNCHANGED vars
  BY <1>5, Quiet DEF Past
<1> QED BY <1>1, <1>2, <1>3, <1>4, <1>5, Kinds

-----------------------------------------------------------------------------
(* Announcements.                                                           *)

LEMMA NothingAnnounced == Nothing \notin Announcement
<1>1. SUFFICES ASSUME Nothing \in Announcement PROVE FALSE
  OBVIOUS
<1>2. DOMAIN Nothing = {"then"}
  BY DEF Nothing
<1>3. "version" \in DOMAIN Nothing
  BY <1>1 DEF Announcement
<1> QED BY <1>2, <1>3

\* A task that works on an announcement is under way with it, before and
\* after; when it is told, that is counted.
LEMMA WorksKeeps ==
  ASSUME Types, NEW t \in Tasks, Works(t), NEW ann \in Announcement
  PROVE  /\ UnderWay(t, ann)' <=> UnderWay(t, ann)
         /\ task[t].step # "told"
         /\ task'[t].step = "told" => task'[t].then \in Announcement
         /\ told'[ann] = IF Told(t, ann)' THEN told[ann] + 1 ELSE told[ann]
<1>1. NoteStep(t) /\ told \in [Announcement -> Nat]
  BY DEF Works, Types, TypeOK
<1>2. \/ Begins(t) \/ GoesOn(t) \/ Ends(t) \/ Looks(t)
      \/ task[t].step = "marking" /\ task'[t] = Idle
  BY <1>1, NoteMoves DEF Mark
<1>3. /\ task[t].step # "told"
      /\ task'[t].step = "told" => GoesOn(t)
  BY <1>2, IdleTypes DEF Begins, GoesOn, Ends, Looks, Emitting
<1>4. task'[t].step = "told" => task'[t].then = task[t].then /\ task'[t].then \in Announcement
  BY <1>3 DEF GoesOn
<1>5. UnderWay(t, ann)' <=> UnderWay(t, ann)
  BY <1>2, IdleTypes, NothingAnnounced
     DEF UnderWay, Begins, GoesOn, Ends, Looks, Emitting
<1>6. told' = IF task'[t].step = "told" THEN [told EXCEPT ![task[t].then] = @ + 1] ELSE told
  BY <1>3 DEF Works
<1>7. told'[ann] = IF Told(t, ann)' THEN told[ann] + 1 ELSE told[ann]
  BY <1>1, <1>4, <1>6 DEF Told
<1> QED BY <1>3, <1>4, <1>5, <1>7

LEMMA WorksRemembers ==
  ASSUME Types, NEW t \in Tasks, Works(t), NEW ann \in Announcement, Remembered(ann)
  PROVE  Remembered(ann)'
<1>1. Others(t) /\ UNCHANGED record
  BY NoteMoves DEF Works
<1>2. /\ UnderWay(t, ann)' <=> UnderWay(t, ann)
      /\ ~Told(t, ann)
      /\ told'[ann] = IF Told(t, ann)' THEN told[ann] + 1 ELSE told[ann]
  BY WorksKeeps DEF Told
<1>3. told[ann] \in Nat
  BY DEF Types, TypeOK
<1>4. \A u \in Tasks : u # t => (UnderWay(u, ann)' <=> UnderWay(u, ann))
                               /\ (Told(u, ann)' <=> Told(u, ann))
                               /\ task'[u].step = task[u].step
  BY <1>1 DEF Others, UnderWay, Told
<1>5. Told(t, ann)' => UnderWay(t, ann) /\ task[t].step # "told"
  BY <1>2 DEF Told, UnderWay, Emitting
<1>6. (told[ann] <= 1)'
  BY <1>2, <1>3, <1>5 DEF Remembered
<1>7. \A u, v \in Tasks : UnderWay(u, ann)' /\ UnderWay(v, ann)' => u = v
  BY <1>2, <1>4 DEF Remembered
<1>8. told'[ann] > 0 => record' = ann \/ \E u \in Tasks : Told(u, ann)'
  BY <1>1, <1>2, <1>3, <1>4 DEF Remembered
<1>9. ASSUME NEW u \in Tasks, UnderWay(u, ann)', task'[u].step # "told"
      PROVE  told'[ann] = 0
  <2>1. ~Told(u, ann)'
    BY <1>9 DEF Told
  <2>2. UnderWay(u, ann) /\ (u = t \/ task[u].step # "told")
    BY <1>2, <1>4, <1>9
  <2>3. told[ann] = 0
    <3>1. task[t].step # "told"
      BY WorksKeeps
    <3> QED BY <2>2, <3>1 DEF Remembered
  <2>4. ~Told(t, ann)'
    BY <1>5, <2>1, <2>2 DEF Remembered
  <2> QED BY <1>2, <2>3, <2>4
<1> QED BY <1>6, <1>7, <1>8, <1>9 DEF Remembered

LEMMA AnnouncedStep ==
  ASSUME Types, Announced, [Next]_vars
  PROVE  Announced'
<1>0. /\ told \in [Announcement -> Nat] /\ mishap \in BOOLEAN
      /\ \A t \in Tasks : TaskOK(task[t])
  BY DEF Types, TypeOK
<1>1. ASSUME NEW t \in Tasks, Works(t) PROVE Announced'
  <2>1. Others(t) /\ UNCHANGED <<record, mishap>>
    BY <1>1, NoteMoves DEF Works
  <2>2. ASSUME NEW ann \in Announcement
        PROVE  /\ record' = ann => told'[ann] > 0
               /\ \A u \in Tasks : Told(u, ann)' => told'[ann] > 0
               /\ ~mishap' => Remembered(ann)'
    <3>1. told[ann] \in Nat /\ told'[ann] = IF Told(t, ann)' THEN told[ann] + 1 ELSE told[ann]
      BY <1>0, <1>1, WorksKeeps
    <3>2. \A u \in Tasks : u # t => (Told(u, ann)' <=> Told(u, ann))
      BY <2>1 DEF Others, Told
    <3>3. ~mishap' => Remembered(ann)'
      BY <1>1, <2>1, WorksRemembers DEF Announced
    <3> QED BY <2>1, <3>1, <3>2, <3>3 DEF Announced
  <2> QED BY <2>2 DEF Announced
\* An announcement nobody is at, and that was kept or never told.
<1>2. ASSUME NEW t \in Tasks, CheckStep(t), ~Recall(t), ~Persist(t), ~PersistFails(t)
      PROVE  Announced'
  <2>1. Others(t) /\ task[t].step \in {"idle", "fetching", "recalling"}
        /\ task'[t].step \in {"idle", "fetching", "recalling"}
    BY <1>2, CheckMoves DEF CheckStep, Check, Fetched, FetchFails, RecallKnown
  <2>2. UNCHANGED <<told, record, mishap>>
    BY <1>2 DEF CheckStep, Check, Fetched, FetchFails, RecallKnown, updateVars
  <2>3. \A u \in Tasks, ann \in Announcement : (UnderWay(u, ann)' <=> UnderWay(u, ann))
                                              /\ (Told(u, ann)' <=> Told(u, ann))
    BY <2>1 DEF Others, UnderWay, Told, Emitting
  <2>4. \A u \in Tasks, ann \in Announcement :
          UnderWay(u, ann) => (task'[u].step # "told" => task[u].step # "told")
    BY <2>1 DEF Others, UnderWay, Emitting
  <2>5. ASSUME ~mishap, NEW ann \in Announcement PROVE Remembered(ann)'
    <3>1. Remembered(ann)
      BY <2>5 DEF Announced
    <3>2. \A u \in Tasks : (UnderWay(u, ann)' <=> UnderWay(u, ann))
                          /\ (Told(u, ann)' <=> Told(u, ann))
      BY <2>3, Zenon
    <3>3. ASSUME NEW u \in Tasks, UnderWay(u, ann)', task'[u].step # "told"
          PROVE  told'[ann] = 0
      <4>1. UnderWay(u, ann) /\ task[u].step # "told"
        BY <2>4, <3>2, <3>3
      <4> QED BY <2>2, <3>1, <4>1 DEF Remembered
    <3> QED BY <2>2, <3>1, <3>2, <3>3 DEF Remembered
  <2> QED BY <2>2, <2>3, <2>5 DEF Announced
<1>3. ASSUME NEW t \in Tasks, Recall(t) PROVE Announced'
  <2> DEFINE mine == task[t].then
  <2>1. /\ Others(t) /\ task[t].step = "recalling" /\ task'[t].step = "starting"
        /\ task'[t].then = mine
    BY <1>3, CheckMoves DEF CheckStep, Recall
  <2>2. UNCHANGED <<told, record>>
    BY <1>3 DEF Recall
  <2>3. ~mishap' => ~mishap /\ record # mine /\ \A u \in Tasks : ~UnderWay(u, mine)
    BY <1>3 DEF Recall, AlreadyAnnounced
  <2>4. \A u \in Tasks, ann \in Announcement : Told(u, ann)' <=> Told(u, ann)
    BY <2>1 DEF Others, Told
  <2>5. \A u \in Tasks, ann \in Announcement :
          UnderWay(u, ann)' <=> UnderWay(u, ann) \/ (u = t /\ ann = mine)
    BY <2>1 DEF Others, UnderWay, Emitting
  <2>6. \A u \in Tasks : u # t => task'[u].step = task[u].step
    BY <2>1 DEF Others
  <2> HIDE DEF mine
  <2>7. ASSUME ~mishap', NEW ann \in Announcement PROVE Remembered(ann)'
    <3>1. Remembered(ann)
      BY <2>3, <2>7 DEF Announced
    <3>2. CASE ann = mine
      <4>1. told[ann] = 0
        <5>1. ~(told[ann] > 0)
          BY <2>3, <2>7, <3>1, <3>2 DEF Remembered, Told, UnderWay, Emitting
        <5> QED BY <1>0, <5>1
      <4>2. \A u \in Tasks : UnderWay(u, ann)' => u = t
        BY <2>3, <2>5, <2>7, <3>2
      <4> QED BY <2>2, <4>1, <4>2 DEF Remembered
    <3>3. CASE ann # mine
      <4>1. \A u \in Tasks : UnderWay(u, ann)' <=> UnderWay(u, ann)
        BY <2>5, <3>3
      <4>2. ~UnderWay(t, ann)
        BY <2>1 DEF UnderWay, Emitting
      <4> QED BY <2>2, <2>4, <2>6, <3>1, <4>1, <4>2 DEF Remembered
    <3> QED BY <3>2, <3>3
  <2> QED BY <2>2, <2>4, <2>7 DEF Announced
<1>4. ASSUME NEW t \in Tasks, Persist(t) \/ PersistFails(t) PROVE Announced'
  <2> DEFINE mine == task[t].then
  <2>1. Others(t) /\ task[t].step = "told" /\ task'[t].step = "idle" /\ UNCHANGED told
    <3>1. task'[t] = Idle /\ Others(t)
      BY <1>4, OneTask DEF Persist, PersistFails, Others
    <3> QED BY <1>4, <3>1, IdleTypes DEF Persist, PersistFails
  <2>2. mine \in Announcement /\ told[mine] > 0
    <3>1. mine \in Announcement
      BY <1>0, <2>1 DEF TaskOK
    <3> QED BY <2>1, <3>1 DEF Announced, Told
  <2>3. record' \in {record, mine}
    BY <1>4 DEF Persist, PersistFails
  <2>4. ~mishap' => ~mishap /\ record' = mine /\ record \in {NoRecord, mine}
    BY <1>4 DEF Persist, PersistFails
  <2>5. \A u \in Tasks, ann \in Announcement :
          /\ UnderWay(u, ann)' <=> UnderWay(u, ann) /\ u # t
          /\ Told(u, ann)' <=> Told(u, ann) /\ u # t
    BY <2>1 DEF Others, UnderWay, Told, Emitting
  <2>6. Told(t, mine) /\ \A ann \in Announcement : Told(t, ann) => ann = mine
    BY <2>1 DEF Told
  <2>7. \A u \in Tasks : u # t => task'[u].step = task[u].step
    BY <2>1 DEF Others
  <2> HIDE DEF mine
  <2>8. ASSUME ~mishap', NEW ann \in Announcement PROVE Remembered(ann)'
    <3>1. Remembered(ann)
      BY <2>4, <2>8 DEF Announced
    <3>2. told'[ann] > 0 => record' = ann \/ \E u \in Tasks : Told(u, ann)'
      <4>1. ann # mine => record # ann
        BY <2>4, <2>8, NothingAnnounced DEF NoRecord
      <4> QED BY <2>1, <2>4, <2>5, <2>6, <2>8, <3>1, <4>1 DEF Remembered
    <3> QED BY <2>1, <2>5, <2>7, <3>1, <3>2 DEF Remembered
  <2> QED BY <2>1, <2>2, <2>3, <2>5, <2>8 DEF Announced
<1>5. CASE Tick /\ UNCHANGED updateVars
  BY <1>5 DEF Tick, updateVars, Announced, Remembered, Told, UnderWay
<1>6. CASE Upgrade
  <2>1. \A t \in Tasks : task'[t].step = "idle"
    BY <1>6, IdleTypes DEF Upgrade, Restart
  <2>2. UNCHANGED <<record, told>>
    BY <1>6 DEF Upgrade
  <2>3. ~mishap' => ~mishap /\ \A t \in Tasks, ann \in Announcement : ~UnderWay(t, ann)
    BY <1>6 DEF Upgrade
  <2>4. \A t \in Tasks, ann \in Announcement : ~UnderWay(t, ann)' /\ ~Told(t, ann)'
    BY <2>1 DEF UnderWay, Told, Emitting
  <2>5. \A t \in Tasks, ann \in Announcement : Told(t, ann) => UnderWay(t, ann)
    BY DEF UnderWay, Told, Emitting
  <2> QED BY <2>2, <2>3, <2>4, <2>5 DEF Announced, Remembered
<1>7. CASE UpdateChannel \/ Release \/ UNCHANGED vars
  BY <1>7, Quiet DEF Announced, Remembered, Told, UnderWay
<1> QED
  <2>1. \A t \in Tasks : Recall(t) \/ Persist(t) \/ PersistFails(t) => CheckStep(t)
    BY DEF CheckStep
  <2> QED BY <1>1, <1>2, <1>3, <1>4, <1>5, <1>6, <1>7, Kinds

-----------------------------------------------------------------------------
(* The pace of a channel.                                                   *)

LEMMA Division ==
  ASSUME NEW l \in Nat, NEW m \in Nat, NEW d \in Nat, d > 0
  PROVE  /\ l \div d \in Nat
         /\ l <= m => l \div d <= m \div d
         /\ l + d <= m => 1 + l \div d <= m \div d
<1> DEFINE q == l \div d
           r == m \div d
<1>1. q \in Int /\ d * q <= l /\ l < d * q + d
  OBVIOUS
<1>2. r \in Int /\ d * r <= m /\ m < d * r + d
  OBVIOUS
<1>3. q \in Nat
  OBVIOUS
<1> HIDE DEF q, r
<1>4. l <= m => q <= r
  <2>1. SUFFICES ASSUME l <= m, r + 1 <= q PROVE FALSE
    BY <1>1, <1>2
  <2>2. d * (r + 1) <= d * q
    BY <1>1, <1>2, <2>1
  <2>3. d * (r + 1) = d * r + d
    BY <1>2
  <2>4. d * r \in Int /\ d * q \in Int
    BY <1>1, <1>2
  <2> QED BY <1>1, <1>2, <2>1, <2>2, <2>3, <2>4
<1>5. l + d <= m => 1 + q <= r
  <2>1. SUFFICES ASSUME l + d <= m, r <= q PROVE FALSE
    BY <1>1, <1>2
  <2>2. d * r <= d * q
    BY <1>1, <1>2, <2>1
  <2>3. d * r \in Int /\ d * q \in Int
    BY <1>1, <1>2
  <2> QED BY <1>1, <1>2, <2>1, <2>2, <2>3
<1> QED BY <1>3, <1>4, <1>5 DEF q, r

LEMMA SendingFinite ==
  \A c \in Channels, n \in Names :
    IsFiniteSet(Sending(c, n)) /\ Cardinality(Sending(c, n)) \in Nat
<1> SUFFICES ASSUME NEW c \in Channels, NEW n \in Names
             PROVE  IsFiniteSet(Sending(c, n)) /\ Cardinality(Sending(c, n)) \in Nat
  OBVIOUS
<1>1. Sending(c, n) \in SUBSET Tasks
  BY DEF Sending
<1> QED BY <1>1, FS_Subset, FS_CardinalityType



\* A task that sends neither before nor after changes no pace.
LEMMA NotSending ==
  ASSUME NEW t \in Tasks, Others(t), task[t].step # "sending", task'[t].step # "sending",
         UNCHANGED <<last, sent>>, InPace
  PROVE  InPace'
<1>1. \A c \in Channels, n \in Names : Sending(c, n)' = Sending(c, n)
  BY DEF Sending, Others
<1>2. \A c \in Channels, n \in Names : Allowance(c, n)' = Allowance(c, n)
  BY DEF Allowance
<1> QED BY <1>1, <1>2 DEF InPace

LEMMA OfferPaced ==
  ASSUME Types, Past, InPace, NEW t \in Tasks, Offer(t)
  PROVE  InPace'
<1> DEFINE e == task[t].event
<1>0. /\ task[t].step = "offering" /\ Sends(t, Accepting(e)) /\ UNCHANGED <<now, sent>>
      /\ now \in Nat /\ e.name \in Names
  BY DEF Offer, Types, TypeOK, Times, TaskOK, Emitting, Event
<1>1. /\ Others(t)
      /\ \/ task'[t].step \in {"told", "idle"} /\ Accepting(e) = {}
         \/ task'[t].step = "sending" /\ task'[t].to = Accepting(e) /\ task'[t].event = e
  BY <1>0, SendMoves DEF Emitting
<1> SUFFICES ASSUME NEW c \in Channels, NEW n \in Names, Cooldown[c] > 0
             PROVE  sent'[c][n] + Cardinality(Sending(c, n)') <= Allowance(c, n)'
  BY DEF InPace
<1>2. last[c] \in [Names -> Times \cup {Never}] /\ Cooldown[c] \in Nat /\ sent[c][n] \in Nat
  BY DEF Types, TypeOK
<1>3. last'[c] = IF c \in Accepting(e) THEN [last[c] EXCEPT ![e.name] = now] ELSE last[c]
  BY DEF Offer
<1> HIDE DEF e
<1>4. CASE c \in Accepting(e) /\ n = e.name
  <2>1. Sending(c, n)' = Sending(c, n) \cup {t} /\ t \notin Sending(c, n)
    BY <1>0, <1>1, <1>4 DEF Sending, Others
  <2>2. Cardinality(Sending(c, n)') = Cardinality(Sending(c, n)) + 1
    BY <2>1, SendingFinite, FS_AddElement
  <2>3. last'[c][n] = now /\ now # Never
    <3>1. now \in Times
      BY DEF Types, TypeOK
    <3> QED BY <1>2, <1>3, <1>4, <3>1 DEF Times, Never
  <2>4. Allowance(c, n)' = 1 + now \div Cooldown[c]
    BY <1>0, <2>3 DEF Allowance, Never
  <2>5. sent[c][n] + Cardinality(Sending(c, n)) <= now \div Cooldown[c]
    <3>1. CASE last[c][n] = Never
      <4>1. sent[c][n] + Cardinality(Sending(c, n)) <= 0
        BY <3>1 DEF InPace, Allowance
      <4>2. now \div Cooldown[c] \in Nat
        BY <1>0, <1>2, Division
      <4>3. Cardinality(Sending(c, n)) \in Nat
        BY SendingFinite
      <4> QED BY <1>2, <4>1, <4>2, <4>3
    <3>2. CASE last[c][n] # Never
      <4>1. last[c][n] \in Nat
        BY <1>2, <3>2 DEF Times
      <4>2. ~CoolingDown(c, n)
        BY <1>4 DEF Accepting
      <4>3. last[c][n] + Cooldown[c] <= now
        BY <1>0, <1>2, <3>2, <4>1, <4>2 DEF CoolingDown
      <4>4. 1 + last[c][n] \div Cooldown[c] <= now \div Cooldown[c]
            /\ last[c][n] \div Cooldown[c] \in Nat /\ now \div Cooldown[c] \in Nat
        BY <1>0, <1>2, <4>1, <4>3, Division
      <4>5. sent[c][n] + Cardinality(Sending(c, n)) <= 1 + last[c][n] \div Cooldown[c]
        BY <3>2 DEF InPace, Allowance
      <4>6. Cardinality(Sending(c, n)) \in Nat
        BY SendingFinite
      <4> QED BY <1>2, <4>4, <4>5, <4>6
    <3> QED BY <3>1, <3>2
  <2>6. now \div Cooldown[c] \in Nat /\ Cardinality(Sending(c, n)) \in Nat
    BY <1>0, <1>2, Division, SendingFinite
  <2>7. sent'[c][n] = sent[c][n]
    BY <1>0
  <2> QED BY <1>2, <2>2, <2>4, <2>5, <2>6, <2>7
<1>5. CASE ~(c \in Accepting(e) /\ n = e.name)
  <2>1. Sending(c, n)' = Sending(c, n)
    BY <1>0, <1>1, <1>5 DEF Sending, Others
  <2>2. last'[c][n] = last[c][n]
    BY <1>0, <1>2, <1>3, <1>5
  <2>3. Allowance(c, n)' = Allowance(c, n)
    BY <2>2 DEF Allowance, Never
  <2> QED BY <1>0, <2>1, <2>3 DEF InPace
<1> QED BY <1>4, <1>5

LEMMA DispatchPaced ==
  ASSUME Types, InPace, NEW t \in Tasks, Dispatch(t) \/ DispatchFails(t)
  PROVE  InPace'
<1> DEFINE e == task[t].event
<1>1. PICK d \in task[t].to :
        /\ Sends(t, task[t].to \ {d})
        /\ sent' = [sent EXCEPT ![d][e.name] = @ + 1] \/ sent' = sent
  BY DEF Dispatch, DispatchFails
<1>2. task[t].step = "sending" /\ last' = last /\ e.name \in Names /\ d \in Channels
  BY <1>1 DEF Dispatch, DispatchFails, Types, TypeOK, TaskOK, Emitting, Event
<1>3. /\ Others(t)
      /\ \/ task'[t].step \in {"told", "idle"} /\ task[t].to \ {d} = {}
         \/ task'[t].step = "sending" /\ task'[t].to = task[t].to \ {d}
              /\ task'[t].event = e
  BY <1>1, <1>2, SendMoves DEF Emitting
<1> SUFFICES ASSUME NEW c \in Channels, NEW n \in Names, Cooldown[c] > 0
             PROVE  sent'[c][n] + Cardinality(Sending(c, n)') <= Allowance(c, n)'
  BY DEF InPace
<1>4. sent \in [Channels -> [Names -> Nat]] /\ sent[c][n] \in Nat
  BY DEF Types, TypeOK
<1>5. Allowance(c, n)' = Allowance(c, n)
  BY <1>2 DEF Allowance, Never
<1>6. sent[c][n] + Cardinality(Sending(c, n)) <= Allowance(c, n)
  BY DEF InPace
<1>7. IsFiniteSet(Sending(c, n)) /\ Cardinality(Sending(c, n)) \in Nat
  BY SendingFinite
<1>8. Allowance(c, n) \in Nat
  <2>1. Cooldown[c] \in Nat /\ last[c][n] \in Times \cup {Never}
    BY DEF Types, TypeOK
  <2>2. last[c][n] # Never => last[c][n] \in Nat
    BY <2>1 DEF Times
  <2>3. last[c][n] # Never => last[c][n] \div Cooldown[c] \in Nat
    BY <2>1, <2>2, Division
  <2> QED BY <2>3 DEF Allowance
<1> HIDE DEF e
<1>9. CASE c = d /\ n = e.name
  <2>1. Sending(c, n)' = Sending(c, n) \ {t} /\ t \in Sending(c, n)
    BY <1>2, <1>3, <1>9 DEF Sending, Others, e
  <2>2. Cardinality(Sending(c, n)') = Cardinality(Sending(c, n)) - 1
    BY <1>7, <2>1, FS_RemoveElement
  <2>3. sent'[c][n] = sent[c][n] \/ sent'[c][n] = sent[c][n] + 1
    BY <1>1, <1>2, <1>4, <1>9
  <2> QED BY <1>4, <1>5, <1>6, <1>7, <1>8, <2>2, <2>3
<1>10. CASE ~(c = d /\ n = e.name)
  <2>1. Sending(c, n)' = Sending(c, n)
    BY <1>2, <1>3, <1>10 DEF Sending, Others, e
  <2>2. sent'[c][n] = sent[c][n]
    BY <1>1, <1>2, <1>4, <1>10
  <2> QED BY <1>5, <1>6, <2>1, <2>2
<1> QED BY <1>9, <1>10

LEMMA InPaceStep ==
  ASSUME Types, Past, InPace, [Next]_vars
  PROVE  InPace'
<1>1. ASSUME NEW t \in Tasks, Works(t) PROVE InPace'
  <2>1. NoteStep(t)
    BY <1>1 DEF Works
  <2>2. CASE Offer(t)
    BY <2>2, OfferPaced
  <2>3. CASE Dispatch(t) \/ DispatchFails(t)
    BY <2>3, DispatchPaced
  <2>4. CASE SettingsFail(t)
    <3>1. Others(t) /\ task'[t].step \in {"told", "idle"}
      BY <2>4, ReturnMoves DEF SettingsFail, Emitting
    <3> QED BY <2>4, <3>1, NotSending DEF SettingsFail
  <2>5. CASE Report(t) \/ ReadInbox(t) \/ AppendToInbox(t) \/ AppendFails(t)
             \/ LookIn(t) \/ Mark(t)
    <3>1. PICK work : Does(t, work) /\ work.step # "sending"
      <4>1. CASE Report(t)
        BY <4>1 DEF Report, EmitEvent, Emission
      <4>2. CASE ReadInbox(t)
        BY <4>2 DEF ReadInbox, Offering
      <4>3. CASE AppendToInbox(t) \/ AppendFails(t)
        BY <4>3 DEF AppendToInbox, AppendFails, Offering
      <4>4. CASE LookIn(t) \/ Mark(t)
        BY <4>4, IdleTypes DEF LookIn, Mark
      <4> QED BY <2>5, <4>1, <4>2, <4>3, <4>4
    <3>2. Others(t) /\ task'[t].step # "sending"
      BY <3>1, OneTask DEF Others
    <3>3. task[t].step # "sending" /\ UNCHANGED <<last, sent>>
      BY <2>5 DEF Report, ReadInbox, AppendToInbox, AppendFails, LookIn, Mark
    <3> QED BY <3>2, <3>3, NotSending
  <2> QED BY <2>1, <2>2, <2>3, <2>4, <2>5 DEF NoteStep
<1>2. ASSUME NEW t \in Tasks, CheckStep(t) PROVE InPace'
  <2>1. /\ Others(t) /\ UNCHANGED <<last, sent>>
        /\ task'[t].step \in {"idle", "fetching", "recalling", "starting"}
    BY <1>2, CheckMoves
  <2>2. task[t].step # "sending"
    BY <1>2 DEF CheckStep, Check, Fetched, FetchFails, RecallKnown, Recall, Persist,
                PersistFails
  <2> QED BY <2>1, <2>2, NotSending
<1>3. ASSUME UNCHANGED <<last, sent, task>> PROVE InPace'
  BY <1>3 DEF InPace, Sending, Allowance
<1>4. CASE Tick /\ UNCHANGED updateVars
  BY <1>3, <1>4 DEF Tick
<1>5. CASE Upgrade
  <2>1. /\ \A c \in Channels, n \in Names : last'[c][n] = Never /\ sent'[c][n] = 0
        /\ \A t \in Tasks : task'[t].step = "idle"
    BY <1>5, IdleTypes DEF Upgrade, Restart, NoCooldowns, NoneSent
  <2>2. \A c \in Channels, n \in Names : Sending(c, n)' = {} /\ Allowance(c, n)' = 0
    BY <2>1 DEF Sending, Allowance, Never
  <2>3. Cardinality({}) = 0
    BY FS_EmptySet
  <2>4. \A c \in Channels, n \in Names :
          sent'[c][n] + Cardinality(Sending(c, n)') <= Allowance(c, n)'
    <3>1. SUFFICES ASSUME NEW c \in Channels, NEW n \in Names
                   PROVE  sent'[c][n] + Cardinality(Sending(c, n)') <= Allowance(c, n)'
      OBVIOUS
    <3>2. Cardinality(Sending(c, n)') = 0
      BY <2>2, <2>3, Zenon
    <3> QED BY <2>1, <2>2, <3>2
  <2> QED BY <2>4 DEF InPace
<1>6. CASE UpdateChannel \/ Release \/ UNCHANGED vars
  BY <1>3, <1>6, Quiet
<1> QED BY <1>1, <1>2, <1>4, <1>5, <1>6, Kinds

-----------------------------------------------------------------------------
(* The theorems.                                                            *)

LEMMA Start == Init => IInv
<1> SUFFICES ASSUME Init PROVE IInv
  OBVIOUS
<1>1. Types /\ now = 0
  BY TypesInit DEF Init, NoteInit
<1>2. InboxesFine
  <2>1. PICK n \in Names :
          /\ TraceOf[n] = NoTrace
          /\ inbox = [i \in 1..Old |-> [NewItem([no |-> 0, name |-> n, at |-> 0])
                                          EXCEPT !.events = {}, !.deletedBy = Users]]
    BY DEF Init, NoteInit
  <2>2. NewItem([no |-> 0, name |-> n, at |-> 0]) =
          [id |-> 0, name |-> n, trace |-> TraceOf[n], at |-> 0, events |-> {0},
           readBy |-> {}, deletedBy |-> {}]
    BY DEF NewItem
  <2>3. \A i \in DOMAIN inbox : inbox[i].trace = NoTrace /\ inbox[i].readBy = {}
    <3> DEFINE made == NewItem([no |-> 0, name |-> n, at |-> 0])
    <3>1. made \in [id : {0}, name : Names, trace : {NoTrace}, at : {0}, events : {{0}},
                    readBy : {{}}, deletedBy : {{}}]
      BY <2>1, <2>2
    <3> HIDE DEF made
    <3>2. /\ [made EXCEPT !.events = {}, !.deletedBy = Users].trace = NoTrace
          /\ [made EXCEPT !.events = {}, !.deletedBy = Users].readBy = {}
      BY <3>1
    <3>3. inbox = [i \in 1..Old |-> [made EXCEPT !.events = {}, !.deletedBy = Users]]
      BY <2>1 DEF made
    <3> QED BY <3>2, <3>3
  <2>4. IsInbox(inbox)
    BY <1>1 DEF Types, TypeOK
  <2>5. \A t \in Tasks : task[t].step = "idle"
    BY IdleTypes DEF Init, NoteInit
  <2> QED BY <2>3, <2>4, <2>5 DEF InboxesFine, Fine, Closed, WasSeen
<1>3. \A t \in Tasks : task[t].step = "idle"
  BY IdleTypes DEF Init, NoteInit
<1>4. \A c \in Channels, n \in Names : last[c][n] = Never /\ sent[c][n] = 0
  BY DEF Init, NoteInit, NoCooldowns, NoneSent
<1>5. Past
  BY <1>3, <1>4 DEF Past, Emitting
<1>6. InPace
  <2>1. \A c \in Channels, n \in Names : Sending(c, n) = {} /\ Allowance(c, n) = 0
    BY <1>3, <1>4 DEF Sending, Allowance
  <2>2. Cardinality({}) = 0
    BY FS_EmptySet
  <2> SUFFICES ASSUME NEW c \in Channels, NEW n \in Names
               PROVE  sent[c][n] + Cardinality(Sending(c, n)) <= Allowance(c, n)
    BY DEF InPace
  <2>3. Cardinality(Sending(c, n)) = 0
    BY <2>1, <2>2, Zenon
  <2> QED BY <1>4, <2>1, <2>3
<1>7. Announced
  <2>1. record \notin Announcement /\ \A ann \in Announcement : told[ann] = 0
    BY NothingAnnounced DEF Init, NoRecord
  <2>2. \A t \in Tasks, ann \in Announcement : ~UnderWay(t, ann) /\ ~Told(t, ann)
    BY <1>3 DEF UnderWay, Told, Emitting
  <2> QED BY <2>1, <2>2 DEF Announced, Remembered
<1> QED BY <1>1, <1>2, <1>5, <1>6, <1>7 DEF IInv

LEMMA Inductive == Spec => []IInv
<1>1. IInv /\ [Next]_vars => IInv'
  BY TypesStep, InboxesStep, PastStep, InPaceStep, AnnouncedStep DEF IInv
<1> QED BY <1>1, Start, PTL DEF Spec

\* The inbox and the copies tasks have of it hold at most MaxItems well-formed
\* items, and the work of every task keeps its form, whatever overlaps.
THEOREM NotifyTypes == Spec => []TypeOK
<1>1. IInv => TypeOK
  BY DEF IInv, Types
<1> QED BY <1>1, Inductive, PTL

\* A channel keeps its pace for any events, tasks and clock: what is sent and
\* what tasks may still send is paid for by the cooldowns started.
THEOREM ChannelsKeepTheirPace == Spec => []Paced
<1>1. IInv => Paced
  <2> SUFFICES ASSUME IInv, NEW c \in Channels, NEW n \in Names, Cooldown[c] > 0
               PROVE  sent[c][n] <= 1 + now \div Cooldown[c]
    BY DEF Paced
  <2>1. /\ now \in Nat /\ Cooldown[c] \in Nat /\ sent[c][n] \in Nat
        /\ last[c][n] \in Times \cup {Never}
    BY DEF IInv, Types, TypeOK, Times
  <2>2. sent[c][n] + Cardinality(Sending(c, n)) <= Allowance(c, n)
    BY DEF IInv, InPace
  <2>3. Cardinality(Sending(c, n)) \in Nat /\ now \div Cooldown[c] \in Nat
    BY <2>1, SendingFinite, Division
  <2>4. CASE last[c][n] = Never
    BY <2>1, <2>2, <2>3, <2>4 DEF Allowance
  <2>5. CASE last[c][n] # Never
    <3>1. last[c][n] \in Nat /\ last[c][n] <= now
      BY <2>1, <2>5 DEF IInv, Past, Times
    <3>2. last[c][n] \div Cooldown[c] <= now \div Cooldown[c]
          /\ last[c][n] \div Cooldown[c] \in Nat
      BY <2>1, <3>1, Division
    <3> QED BY <2>1, <2>2, <2>3, <2>5, <3>2 DEF Allowance
  <2> QED BY <2>4, <2>5
<1> QED BY <1>1, Inductive, PTL

\* At most one item of a trace takes events, whichever older inbox is written
\* back: in every copy an item with a later one of its trace is closed.
THEOREM OneOpenIncident == Spec => []OpenOnce
<1>1. IInv => OpenOnce
  <2> SUFFICES ASSUME IInv PROVE OpenOnce
    OBVIOUS
  <2>0. inbox \in Seq(Item) /\ now \in Nat /\ DOMAIN inbox \subseteq Nat
    <3>1. inbox \in Seq(Item) /\ now \in Nat
      BY DEF IInv, Types, TypeOK, IsInbox, Times
    <3>2. Len(inbox) \in Nat /\ DOMAIN inbox = 1..Len(inbox)
      BY <3>1, ItemsOf
    <3> QED BY <3>1, <3>2
  <2> SUFFICES ASSUME NEW i \in DOMAIN inbox, NEW k \in DOMAIN inbox,
                      inbox[i].trace = inbox[k].trace, inbox[i].trace # NoTrace,
                      inbox[i].at + Window >= now, inbox[k].at + Window >= now, i < k
               PROVE  FALSE
    BY <2>0 DEF OpenOnce
  <2>1. inbox[i].at + Window < now
    BY DEF IInv, InboxesFine, Fine, Closed
  <2>2. inbox[i].at \in Nat
    BY <2>0, ItemsOf DEF Times
  <2> QED BY <2>0, <2>1, <2>2
<1> QED BY <1>1, Inductive, PTL

\* A mark never covers an event that came after it, for any number of users
\* and tasks that overwrite each other's inbox.
THEOREM NewsStaysUnread == Spec => []NewsIsUnread
<1>1. IInv => NewsIsUnread
  BY DEF IInv, InboxesFine, Fine, WasSeen, NewsIsUnread
<1> QED BY <1>1, Inductive, PTL

\* An update is announced once, unless a check could not know: an announcement
\* that was told is either kept or still remembered by the task that told it.
THEOREM AnnouncementsAreKept == Spec => []AnnouncedOnce
<1>1. IInv => AnnouncedOnce
  BY DEF IInv, Announced, Remembered, AnnouncedOnce
<1> QED BY <1>1, Inductive, PTL
=============================================================================
