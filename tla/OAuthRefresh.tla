----------------------------- MODULE OAuthRefresh -----------------------------
(***************************************************************************)
(* The access tokens of OAuth connections: provider/openai-oauth.ts and    *)
(* provider/anthropic-oauth.ts refresh a token that is about to expire and *)
(* keep the new pair in connections.json.                                  *)
(*                                                                         *)
(* Nothing makes two requests share one refresh, and nothing holds the     *)
(* lock of the file between the read and the write: any task may have      *)
(* rewritten the whole file in between, another refresh or a handler of    *)
(* the administration API (api/connections.ts).  The provider is external; *)
(* a refresh token that rotates may be used once.                          *)
(***************************************************************************)
EXTENDS Naturals, FiniteSets

CONSTANTS
  Connections,
  Tasks,           \* requests and administrators at work at once
  Rotating,        \* connections whose provider issues a new refresh token each time
  TwoUrls,         \* connections whose refresh is tried again at a second URL
  MaxPair          \* bound on the token pairs issued to a connection

ASSUME OAuthAssumption ==
  Rotating \subseteq Connections /\ TwoUrls \subseteq Connections /\ MaxPair \in Nat \ {0}

VARIABLES
  tokens,          \* connections.json: the token pair of each connection
  live,            \* refresh tokens the provider accepts
  issued,          \* the last pair issued to each connection
  task,
  excuse           \* why the stored pair of a connection may be worthless

oauthVars == <<tokens, live, issued, task, excuse>>

Pairs  == 1..MaxPair
Gone   == [pair |-> 0, age |-> "gone"]
StoredPair == [pair : Pairs, age : {"fresh", "due", "unknown"}] \cup {Gone}
Idle   == [at |-> "idle"]
Work   == [at : {"idle"}]
          \cup [at : {"posting", "again"}, conn : Connections, with : Pairs]
          \cup [at : {"granted"}, conn : Connections, got : Pairs]
          \cup [at : {"merging"}, conn : Connections, got : Pairs,
                copy : [Connections -> StoredPair]]
          \cup [at : {"editing"}, copy : [Connections -> StoredPair]]
Excuses == {"none", "lost", "dropped", "overwritten"}

Does(t, work) == task' = [task EXCEPT ![t] = work]

-----------------------------------------------------------------------------
\* resolveOpenAIOAuthCredential and resolveAnthropicOAuthCredential: a token
\* that is not near its end, or whose end is not known, is used as it is.
Resolve(t) ==
  /\ task[t].at = "idle"
  /\ \E c \in Connections :
       /\ tokens[c].age = "due"
       /\ Does(t, [at |-> "posting", conn |-> c, with |-> tokens[c].pair])
  /\ UNCHANGED <<tokens, live, issued, excuse>>

Posting(t)  == task[t].at \in {"posting", "again"}
Accepted(t) == task[t].with \in live[task[t].conn]

\* What an accepted refresh does at the provider.  An answer without a
\* refresh_token leaves the old one good.
Grant(c, with) ==
  IF c \in Rotating
  THEN /\ issued[c] < MaxPair
       /\ issued' = [issued EXCEPT ![c] = @ + 1]
       /\ live' = [live EXCEPT ![c] = (@ \ {with}) \cup {issued[c] + 1}]
  ELSE UNCHANGED <<live, issued>>
Got(c, with) == IF c \in Rotating THEN issued[c] + 1 ELSE with

Granted(t) ==
  /\ Posting(t) /\ Accepted(t)
  /\ Grant(task[t].conn, task[t].with)
  /\ Does(t, [at |-> "granted", conn |-> task[t].conn, got |-> Got(task[t].conn, task[t].with)])
  /\ UNCHANGED <<tokens, excuse>>

\* Any failure of the first URL, an answer that is late included, is followed
\* by the same token at the second; after that the request fails.
Fails(t) ==
  Does(t, IF task[t].at = "posting" /\ task[t].conn \in TwoUrls
          THEN [task[t] EXCEPT !.at = "again"] ELSE Idle)

\* The provider took the token but its answer is not read.
AnswerLost(t) ==
  /\ Posting(t) /\ Accepted(t)
  /\ Grant(task[t].conn, task[t].with)
  /\ Fails(t)
  /\ excuse' = IF task[t].conn \in Rotating THEN [excuse EXCEPT ![task[t].conn] = "lost"] ELSE excuse
  /\ UNCHANGED tokens

\* The provider refuses the token, or never saw it.
Refused(t) ==
  /\ Posting(t)
  /\ Fails(t)
  /\ UNCHANGED <<tokens, live, issued, excuse>>

ReadBack(t) ==
  /\ task[t].at = "granted"
  /\ Does(t, [at |-> "merging", conn |-> task[t].conn, got |-> task[t].got, copy |-> tokens])
  /\ UNCHANGED <<tokens, live, issued, excuse>>

\* What a write of a whole copy does to the connections it is not about.
Reverted(copy, about) == {d \in Connections \ about : copy[d] # tokens[d]}
Excused(copy, about, renewed) ==
  [d \in Connections |-> IF d \in Reverted(copy, about) THEN "overwritten"
                         ELSE IF d \in renewed THEN "none" ELSE excuse[d]]

MergedUnderOld(copy, c, got, age) == [copy EXCEPT ![c] = [pair |-> copy[c].pair, age |-> age]]
\* The new pair over what the file held of the connection.
Merged(copy, c, got, age) == [copy EXCEPT ![c] = [pair |-> got, age |-> age]]

\* A connection deleted meanwhile stays deleted.
WriteBack(t) ==
  LET w == task[t] IN
  /\ w.at = "merging"
  /\ \/ /\ w.copy[w.conn] = Gone
        /\ UNCHANGED <<tokens, excuse>>
     \/ /\ w.copy[w.conn] # Gone
        /\ \E age \in {"fresh", "unknown"} : tokens' = Merged(w.copy, w.conn, w.got, age)
        /\ excuse' = Excused(w.copy, {w.conn}, {w.conn})
  /\ Does(t, Idle)
  /\ UNCHANGED <<live, issued>>

\* connections.json cannot be read, or the pair cannot be written to it: the
\* request fails and the pair it was given is known to nobody.
KeepFails(t) ==
  /\ task[t].at = "granted" \/ (task[t].at = "merging" /\ task[t].copy[task[t].conn] # Gone)
  /\ excuse' = IF task[t].conn \in Rotating THEN [excuse EXCEPT ![task[t].conn] = "dropped"] ELSE excuse
  /\ Does(t, Idle)
  /\ UNCHANGED <<tokens, live, issued>>

-----------------------------------------------------------------------------
\* The handlers of api/connections.ts: a read, checks, a write of the whole.

EditRead(t) ==
  /\ task[t].at = "idle"
  /\ Does(t, [at |-> "editing", copy |-> tokens])
  /\ UNCHANGED <<tokens, live, issued, excuse>>

\* PATCH of a label: the stored credentials are kept as they were read.
Relabel(t) ==
  /\ task[t].at = "editing"
  /\ \E c \in Connections :
       /\ task[t].copy[c] # Gone
       /\ tokens' = task[t].copy
       /\ excuse' = Excused(task[t].copy, {}, {})
  /\ Does(t, Idle)
  /\ UNCHANGED <<live, issued>>

\* PATCH of the credentials: a pair obtained from the provider elsewhere.
LogInAgain(t) ==
  /\ task[t].at = "editing"
  /\ \E c \in Connections :
       /\ task[t].copy[c] # Gone /\ issued[c] < MaxPair
       /\ issued' = [issued EXCEPT ![c] = @ + 1]
       /\ live' = [live EXCEPT ![c] = @ \cup {issued[c] + 1}]
       /\ tokens' = Merged(task[t].copy, c, issued[c] + 1, "fresh")
       /\ excuse' = Excused(task[t].copy, {c}, {c})
  /\ Does(t, Idle)

DeleteConnection(t) ==
  /\ task[t].at = "editing"
  /\ \E c \in Connections :
       /\ task[t].copy[c] # Gone
       /\ tokens' = [task[t].copy EXCEPT ![c] = Gone]
       /\ excuse' = Excused(task[t].copy, {c}, {})
  /\ Does(t, Idle)
  /\ UNCHANGED <<live, issued>>

\* The handler refuses the edit, or cannot write it.
EditFails(t) ==
  /\ task[t].at = "editing"
  /\ Does(t, Idle)
  /\ UNCHANGED <<tokens, live, issued, excuse>>

-----------------------------------------------------------------------------
\* Time, and the end of the process.

Expire ==
  /\ \E c \in Connections :
       /\ tokens[c].age = "fresh"
       /\ tokens' = [tokens EXCEPT ![c].age = "due"]
  /\ UNCHANGED <<live, issued, task, excuse>>

Holds(t, c) == task[t].at \in {"granted", "merging"} /\ task[t].conn = c

ProcessEnds ==
  /\ \E t \in Tasks : task[t] # Idle
  /\ task' = [t \in Tasks |-> Idle]
  /\ excuse' = [c \in Connections |-> IF c \in Rotating /\ \E t \in Tasks : Holds(t, c)
                                      THEN "lost" ELSE excuse[c]]
  /\ UNCHANGED <<tokens, live, issued>>

OAuthInit ==
  /\ tokens = [c \in Connections |-> [pair |-> 1, age |-> "fresh"]]
  /\ live = [c \in Connections |-> {1}]
  /\ issued = [c \in Connections |-> 1]
  /\ task = [t \in Tasks |-> Idle]
  /\ excuse = [c \in Connections |-> "none"]

OAuthNext ==
  \/ \E t \in Tasks : \/ Resolve(t) \/ Granted(t) \/ AnswerLost(t) \/ Refused(t)
                      \/ ReadBack(t) \/ WriteBack(t) \/ KeepFails(t)
                      \/ EditRead(t) \/ Relabel(t) \/ LogInAgain(t) \/ DeleteConnection(t)
                      \/ EditFails(t)
  \/ Expire \/ ProcessEnds

OAuthSpec == OAuthInit /\ [][OAuthNext]_oauthVars

-----------------------------------------------------------------------------
\* Properties.

OAuthTypeOK ==
  /\ tokens \in [Connections -> StoredPair]
  /\ live \in [Connections -> SUBSET Pairs]
  /\ issued \in [Connections -> Pairs]
  /\ task \in [Tasks -> Work]
  /\ excuse \in [Connections -> Excuses]

\* However many requests refresh a connection at once, the refresh token in the
\* file is one the provider accepts, or the request that used it up still holds
\* the next.  What may lock a connection out is that an answer of the provider was
\* lost or the process died with the next pair in hand ("lost"), that the file
\* could not be read or written when the pair was to be kept ("dropped"), or that
\* a task about another connection wrote an older copy of the file over it
\* ("overwritten"); never the refreshes among themselves.
KeepsUp ==
  \A c \in Connections :
    \/ tokens[c] = Gone
    \/ excuse[c] # "none"
    \/ tokens[c].pair \in live[c]
    \/ \E t \in Tasks : Holds(t, c) /\ task[t].got \in live[c]
=============================================================================
