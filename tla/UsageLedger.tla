---------------------------- MODULE UsageLedger ----------------------------
(***************************************************************************)
(* The way of a usage record from the call it accounts for to a line of    *)
(* data/usage.ndjson: trackUsage builds it (usage/tracker.ts), a trace     *)
(* that is still open holds it back (usage/pending.ts, trace/store.ts),    *)
(* the end of the request or a backstop timer flushes it, and the append,  *)
(* the retention sweep and the readers meet on the file                    *)
(* (config/usageNdjson.ts).                                                *)
(*                                                                         *)
(* A record is its trace and its number in the order of creation, which is *)
(* the order of the timestamps, with the number of entries of the trace it *)
(* carries.  Torn is a line that does not parse.                           *)
(***************************************************************************)
EXTENDS Integers, Sequences, FiniteSets, Positions

CONSTANTS
  Traces,       \* request ids
  NoTrace,
  Slow,         \* traces that may stay open past MAX_WAIT_MS and MAX_AGE_MS
  MaxEntries,   \* bound on the entries of a trace before its recap
  MaxRecords,   \* bound on the records of a run
  MaxDeaths,    \* bound on the deaths of the process
  Sweeping      \* TRUE: a retention policy is configured

VARIABLES
  up,           \* the process runs
  deaths,
  stage,        \* new, running, ended, thrown or dead, per request
  buffer,       \* trace/store.ts: absent, open or closed
  entries,      \* how many entries the array of the trace has
  final,        \* how many it had, the recap among them, when it was
                \* announced as finished: 0 before that (history)
  made,         \* records created so far
  held,         \* pending.ts: the records waiting for their trace
  timer,        \* the traces whose backstop timer is armed
  batches,      \* appends that wait for the lock
  lock,         \* the lock of the file: free, append, sweep or stale
  appending,    \* the batch of the append that holds the lock
  sweep,        \* the lines the sweep has read, when it holds the lock
  file,         \* the lines of usage.ndjson
  dangling,     \* the last line has no newline
  lost          \* records given up: dead process, failed append, retention,
                \* a line glued to a torn one (history)

vars == <<up, deaths, stage, buffer, entries, final, made, held, timer, batches, lock,
          appending, sweep, file, dangling, lost>>

ASSUME LedgerAssumption ==
  /\ NoTrace \notin Traces
  /\ Slow \subseteq Traces
  /\ MaxEntries \in Nat /\ MaxRecords \in Nat /\ MaxDeaths \in Nat
  /\ Sweeping \in BOOLEAN

Record == [trace : Traces, seq : 1..MaxRecords, entries : 0..(MaxEntries + 1)]
Torn   == [trace |-> NoTrace, seq |-> 0, entries |-> 0]
Line   == Record \cup {Torn}
Batch  == [recs : Seq(Record), deferred : BOOLEAN]
NoBatch == [recs |-> <<>>, deferred |-> FALSE]

Init ==
  /\ up = TRUE /\ deaths = 0
  /\ stage = [t \in Traces |-> "new"]
  /\ buffer = [t \in Traces |-> "absent"]
  /\ entries = [t \in Traces |-> 0] /\ final = [t \in Traces |-> 0]
  /\ made = 0
  /\ held = [t \in Traces |-> <<>>]
  /\ timer = {}
  /\ batches = {}
  /\ lock = "free" /\ appending = NoBatch /\ sweep = <<>>
  /\ file = <<>> /\ dangling = FALSE
  /\ lost = {}

-----------------------------------------------------------------------------
(* The trace buffer and the records held for it.                            *)

\* Ingress: openTrace first drops the buffers past MAX_AGE_MS, open or not.  The
\* timers of a request that is not slow have fired long before.
Open(t, aged) ==
  /\ up /\ stage[t] = "new"
  /\ \A u \in aged :
       /\ buffer[u] # "absent"
       /\ u \in Slow \/ (stage[u] # "running" /\ u \notin timer)
  /\ stage' = [stage EXCEPT ![t] = "running"]
  /\ buffer' = [u \in Traces |-> IF u = t THEN "open"
                                 ELSE IF u \in aged THEN "absent" ELSE buffer[u]]
  /\ UNCHANGED <<up, deaths, entries, final, made, held, timer, batches, lock, appending, sweep, file, dangling, lost>>

Under(t) == stage[t] \in {"running", "ended", "thrown"}

\* recordTrace: an entry goes into the buffer while there is one, closed or not.
Publish(t) ==
  /\ up /\ Under(t) /\ buffer[t] # "absent" /\ entries[t] < MaxEntries
  /\ entries' = [entries EXCEPT ![t] = @ + 1]
  /\ UNCHANGED <<up, deaths, stage, buffer, final, made, held, timer, batches, lock, appending, sweep, file, dangling, lost>>

\* What getTrace has for a record that is made now.
Buffered(t) == IF buffer[t] = "absent" THEN 0 ELSE entries[t]

TrackUntimed(t) ==                     \* no backstop for the held record
  /\ up /\ Under(t) /\ made < MaxRecords
  /\ buffer[t] = "absent" => t \in Slow
  /\ made' = made + 1
  /\ LET r == [trace |-> t, seq |-> made + 1, entries |-> Buffered(t)]
     IN  IF buffer[t] = "open"
         THEN /\ held' = [held EXCEPT ![t] = Append(@, r)]
              /\ UNCHANGED <<timer, batches>>
         ELSE /\ batches' = batches \cup {[recs |-> <<r>>, deferred |-> FALSE]}
              /\ UNCHANGED <<held, timer>>
  /\ UNCHANGED <<up, deaths, stage, buffer, entries, final, lock, appending, sweep, file, dangling, lost>>

\* trackUsage: while the trace is open the record is held, and the first one
\* held arms the timer; a call that ends after its request is appended at once.
\* Only a slow request still has calls when its buffer has aged out.
Track(t) ==
  /\ up /\ Under(t) /\ made < MaxRecords
  /\ buffer[t] = "absent" => t \in Slow
  /\ made' = made + 1
  /\ LET r == [trace |-> t, seq |-> made + 1, entries |-> Buffered(t)]
     IN  IF buffer[t] = "open"
         THEN /\ held' = [held EXCEPT ![t] = Append(@, r)]
              /\ timer' = IF held[t] = <<>> THEN timer \cup {t} ELSE timer
              /\ UNCHANGED batches
         ELSE /\ batches' = batches \cup {[recs |-> <<r>>, deferred |-> FALSE]}
              /\ UNCHANGED <<held, timer>>
  /\ UNCHANGED <<up, deaths, stage, buffer, entries, final, lock, appending, sweep, file, dangling, lost>>

\* The records of t with the first n entries of its trace.
Snapshot(t, n) == [i \in DOMAIN held[t] |-> [held[t][i] EXCEPT !.entries = n]]

FlushKeeping(t, n) ==                  \* pending still has what was flushed
  /\ timer' = timer \ {t}
  /\ UNCHANGED held
  /\ batches' = IF held[t] = <<>> THEN batches
                ELSE batches \cup {[recs |-> Snapshot(t, n), deferred |-> TRUE]}

\* flushTrace: pending and timer are cleared before the append is awaited.  Each
\* record takes a copy of the array as it stands, whether the trace is closed or
\* not; when the buffer has aged out it keeps the array itself, as it was last.
Flush(t, n) ==
  /\ held' = [held EXCEPT ![t] = <<>>]
  /\ timer' = timer \ {t}
  /\ batches' = IF held[t] = <<>> THEN batches
                ELSE batches \cup {[recs |-> Snapshot(t, n), deferred |-> TRUE]}

\* A trace without entries, or that has aged out, is not announced.
Announces(t) == buffer[t] = "open" /\ entries[t] > 0

FinishRecapLast(t) ==                  \* the recap is published to the bus last
  /\ up /\ stage[t] = "running"
  /\ stage' = [stage EXCEPT ![t] = "ended"]
  /\ buffer' = [buffer EXCEPT ![t] = IF @ = "open" THEN "closed" ELSE @]
  /\ IF Announces(t)
     THEN /\ entries' = [entries EXCEPT ![t] = @ + 1]
          /\ final' = [final EXCEPT ![t] = entries[t] + 1]
          /\ Flush(t, entries[t])
     ELSE UNCHANGED <<entries, final, held, timer, batches>>
  /\ UNCHANGED <<up, deaths, made, lock, appending, sweep, file, dangling, lost>>

\* trace.finalize: the recap is emitted into the buffer, the trace closed and
\* announced, and the subscriber flushes what is held; nothing is awaited.
Finish(t) ==
  /\ up /\ stage[t] = "running"
  /\ stage' = [stage EXCEPT ![t] = "ended"]
  /\ buffer' = [buffer EXCEPT ![t] = IF @ = "open" THEN "closed" ELSE @]
  /\ IF Announces(t)
     THEN /\ entries' = [entries EXCEPT ![t] = @ + 1]
          /\ final' = [final EXCEPT ![t] = entries[t] + 1]
          /\ Flush(t, entries[t] + 1)
     ELSE UNCHANGED <<entries, final, held, timer, batches>>
  /\ UNCHANGED <<up, deaths, made, lock, appending, sweep, file, dangling, lost>>

\* runProxy does not walk finalize when a processor throws: the buffer stays open.
Throws(t) ==
  /\ up /\ stage[t] = "running"
  /\ stage' = [stage EXCEPT ![t] = "thrown"]
  /\ UNCHANGED <<up, deaths, buffer, entries, final, made, held, timer, batches, lock, appending, sweep, file, dangling, lost>>

\* The backstop: a request that is not slow has ended, or thrown, by then.
TimerFires(t) ==
  /\ up /\ t \in timer
  /\ stage[t] = "running" => t \in Slow
  /\ Flush(t, entries[t])
  /\ UNCHANGED <<up, deaths, stage, buffer, entries, final, made, lock, appending, sweep, file, dangling, lost>>

-----------------------------------------------------------------------------
(* The file.                                                                *)

Seqs(s) == {s[i].seq : i \in DOMAIN s}

RecordsIn(s) == {s[i] : i \in DOMAIN s}

TakeLock(b) ==
  /\ up /\ lock \in {"free", "stale"} /\ b \in batches
  /\ lock' = "append" /\ appending' = b
  /\ batches' = batches \ {b}
  /\ UNCHANGED <<up, deaths, stage, buffer, entries, final, made, held, timer, sweep, file, dangling, lost>>

\* What appending the lines of rs makes of the file: after a line without a
\* newline the first of them continues it.
Appended(rs) ==
  IF dangling /\ rs # <<>>
  THEN SubSeq(file, 1, Len(file) - 1) \o <<Torn>> \o Tail(rs)
  ELSE file \o rs

\* The records that this spoils.
Glued(rs) ==
  IF dangling /\ rs # <<>> THEN {file[Len(file)].seq, rs[1].seq} \ {0} ELSE {}

AppendAll ==
  /\ up /\ lock = "append"
  /\ file' = Appended(appending.recs) /\ dangling' = FALSE
  /\ lost' = lost \cup Glued(appending.recs)
  /\ lock' = "free" /\ appending' = NoBatch
  /\ UNCHANGED <<up, deaths, stage, buffer, entries, final, made, held, timer, batches, sweep>>

\* Every record that is only in memory.
InMemory ==
  UNION ({RecordsIn(b.recs) : b \in batches \cup {appending}}
           \cup {RecordsIn(held[t]) : t \in Traces})

\* The process ends: its memory is gone, a lock it held goes stale.
Die ==
  /\ up' = FALSE /\ deaths' = deaths + 1
  /\ stage' = [t \in Traces |-> IF stage[t] = "new" THEN "new" ELSE "dead"]
  /\ buffer' = [t \in Traces |-> "absent"]
  /\ entries' = [t \in Traces |-> 0]
  /\ held' = [t \in Traces |-> <<>>]
  /\ timer' = {} /\ batches' = {} /\ appending' = NoBatch /\ sweep' = <<>>
  /\ lock' = IF lock = "free" THEN "free" ELSE "stale"
  /\ UNCHANGED <<final, made>>

AppendFailsRetried(b) ==               \* reported as failed, and still queued
  /\ up /\ b \in batches /\ ~b.deferred /\ lock # "free"
  /\ lost' = lost \cup Seqs(b.recs)
  /\ UNCHANGED <<up, deaths, stage, buffer, entries, final, made, held, timer, batches, lock, appending, sweep, file, dangling>>

\* The lock or the write fails.  trackUsage's callers swallow it; nobody
\* handles the rejection of a flush, and an unhandled one ends the process.
AppendFails(b) ==
  /\ up /\ b \in batches \cup {appending} /\ b # NoBatch
  /\ b = appending \/ lock # "free"
  /\ IF b.deferred
     THEN /\ deaths < MaxDeaths
          /\ Die
          /\ lost' = lost \cup {r.seq : r \in InMemory}
     ELSE /\ lost' = lost \cup Seqs(b.recs)
          /\ batches' = batches \ {b}
          /\ appending' = IF b = appending THEN NoBatch ELSE appending
          /\ lock' = IF b = appending THEN "free" ELSE lock
          /\ UNCHANGED <<up, deaths, stage, buffer, entries, final, made, held, timer, sweep>>
  /\ UNCHANGED <<file, dangling>>

\* A crash, or a stop, which does not flush.  An append under way leaves its
\* first k lines, the last of them perhaps torn or without its newline.
Crash ==
  /\ up /\ deaths < MaxDeaths
  /\ Die
  /\ \/ /\ UNCHANGED <<file, dangling>>
        /\ lost' = lost \cup {r.seq : r \in InMemory}
     \/ \E k \in 1..Len(appending.recs), torn, open \in BOOLEAN :
          LET out == SubSeq(appending.recs, 1, k - 1)
                       \o <<IF torn THEN Torn ELSE appending.recs[k]>>
          IN  /\ lock = "append"
              /\ torn => open
              /\ file' = Appended(out) /\ dangling' = open
              /\ lost' = lost \cup Glued(out) \cup ({r.seq : r \in InMemory} \ Seqs(out))

Restart ==
  /\ ~up /\ up' = TRUE
  /\ UNCHANGED <<deaths, stage, buffer, entries, final, made, held, timer, batches, lock, appending, sweep, file, dangling, lost>>

-----------------------------------------------------------------------------
(* Readers and the retention sweep.                                         *)

\* readUsageNdjson throws on a malformed line that is not the last one.
Readable == \A i \in 1..(Len(file) - 1) : file[i] # Torn

\* What a reader gets: a malformed last line is dropped.
Parsed ==
  IF file # <<>> /\ file[Len(file)] = Torn THEN SubSeq(file, 1, Len(file) - 1) ELSE file

SweepReadsUnlocked ==                  \* the file is read before the lock is taken
  /\ up /\ Sweeping /\ Readable /\ lock # "sweep"
  /\ IF sweep = <<>>
     THEN sweep' = Parsed /\ UNCHANGED lock
     ELSE lock \in {"free", "stale"} /\ lock' = "sweep" /\ UNCHANGED sweep
  /\ UNCHANGED <<up, deaths, stage, buffer, entries, final, made, held, timer, batches, appending, file, dangling, lost>>

\* applyUsageRetention takes the lock before it reads.
SweepReads ==
  /\ up /\ Sweeping /\ lock \in {"free", "stale"} /\ Readable
  /\ lock' = "sweep" /\ sweep' = Parsed
  /\ UNCHANGED <<up, deaths, stage, buffer, entries, final, made, held, timer, batches, appending, file, dangling, lost>>

\* Old records go by age, then lines go from the front by size.
SweepWrites(cutoff, n) ==
  LET young == {i \in DOMAIN sweep : sweep[i].seq > cutoff}
      kept  == {i \in young : Cardinality(Before(i, young)) >= n}
  IN  /\ up /\ lock = "sweep"
      /\ IF kept = DOMAIN sweep THEN UNCHANGED <<file, dangling, lost>>
         ELSE /\ file' = Picked(sweep, kept) /\ dangling' = FALSE
              /\ lost' = lost \cup (Seqs(sweep) \ {sweep[i].seq : i \in kept})
      /\ lock' = "free" /\ sweep' = <<>>
      /\ UNCHANGED <<up, deaths, stage, buffer, entries, final, made, held, timer, batches, appending>>

SweepFails ==
  /\ up /\ lock = "sweep"
  /\ lock' = "free" /\ sweep' = <<>>
  /\ UNCHANGED <<up, deaths, stage, buffer, entries, final, made, held, timer, batches, appending, file, dangling, lost>>

Next ==
  \/ \E t \in Traces, aged \in SUBSET Traces : Open(t, aged)
  \/ \E t \in Traces : Publish(t) \/ Track(t) \/ Finish(t) \/ Throws(t) \/ TimerFires(t)
  \/ \E b \in batches : TakeLock(b)
  \/ AppendAll
  \/ \E b \in batches \cup {appending} : AppendFails(b)
  \/ Crash \/ Restart
  \/ SweepReads
  \/ \E cutoff, n \in 0..MaxRecords : SweepWrites(cutoff, n)
  \/ SweepFails

Spec == Init /\ [][Next]_vars

\* Timers fire, requests end, a call of the file system returns, a lock is granted in the
\* end, and a dead process is started again.
FairSpec ==
  /\ Spec
  /\ \A t \in Traces : WF_vars(TimerFires(t)) /\ WF_vars(Finish(t))
  /\ WF_vars(AppendAll) /\ WF_vars(Restart)
  /\ SF_vars(\E b \in batches : TakeLock(b))
  /\ WF_vars(SweepFails \/ \E cutoff, n \in 0..MaxRecords : SweepWrites(cutoff, n))

-----------------------------------------------------------------------------
(* What the ledger promises.                                                *)

TypeOK ==
  /\ up \in BOOLEAN /\ deaths \in 0..MaxDeaths
  /\ stage \in [Traces -> {"new", "running", "ended", "thrown", "dead"}]
  /\ buffer \in [Traces -> {"absent", "open", "closed"}]
  /\ entries \in [Traces -> 0..(MaxEntries + 1)]
  /\ final \in [Traces -> 0..(MaxEntries + 1)]
  /\ made \in 0..MaxRecords
  /\ held \in [Traces -> Seq(Record)]
  /\ timer \subseteq Traces
  /\ batches \subseteq Batch /\ appending \in Batch
  /\ lock \in {"free", "append", "sweep", "stale"}
  /\ sweep \in Seq(Record) /\ file \in Seq(Line) /\ dangling \in BOOLEAN
  /\ lost \subseteq 1..MaxRecords

\* How many times the n-th record is in a sequence of lines.
Times(n, s) == Cardinality({i \in DOMAIN s : s[i].seq = n})

Waiting == {n \in 1..made : \E r \in InMemory : r.seq = n}

\* A call is accounted for once: the timer, the end of the request and a late
\* call may race, yet no record is in the file twice or comes again.
OnceOnly ==
  \A n \in 1..made : /\ Times(n, file) <= 1
                     /\ n \in Waiting => Times(n, file) = 0

\* And at least once: a record is on its way or in the file, unless a dead
\* process, a torn line, a failed append or the retention policy gave it up.  In particular
\* a sweep drops nothing that was appended while it worked.
Accounted ==
  \A n \in 1..made : n \in Waiting \/ Times(n, file) = 1 \/ n \in lost

\* Usage waits for a trace to finish so as to store all of it: once the trace has
\* been announced, every record of it in the file, whether the end of the request,
\* the timer or a late call put it there, carries the entries up to the recap.
\* Only a request that outlasts the timers is stored with less.
WholeOnceAnnounced ==
  \A i \in DOMAIN file :
    file[i] # Torn => \/ file[i].trace \in Slow
                      \/ final[file[i].trace] <= file[i].entries

\* A held record does not stay held: the end of its request or the timer, or
\* the death of the process, takes it on.
HeldIsFlushed == \A t \in Traces : (held[t] # <<>>) ~> (held[t] = <<>>)

-----------------------------------------------------------------------------
(* The book the file implements.                                            *)

\* The records that a reader finds.
Stored == {n \in 1..made : Times(n, file) = 1}

Book == INSTANCE AccountBook WITH
  made <- made, waiting <- Waiting, stored <- Stored, gone <- lost, torn <- dangling

\* A record waits, is stored or given up in steps of the book: it leaves memory
\* for the file or for good, a write spoils at most the line left open by a
\* death and the one that continues it, and what is given up does not come back.
ImplementsBook == Book!BSpec
=============================================================================
