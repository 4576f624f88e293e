---------------------------- MODULE LedgerProofs ----------------------------
(***************************************************************************)
(* Theorems about UsageLedger: a record is in one place at a time, on its  *)
(* way or in the file, until it is given up.  What the file loses, it      *)
(* loses by the lines that Glued and the sweep name.                       *)
(***************************************************************************)
EXTENDS UsageLedger, FiniteSetTheorems, SequenceTheorems, TLAPS

USE LedgerAssumption

\* The numbers of the records among some lines, and that none comes twice.
Nums(s)   == Seqs(s) \ {0}
Single(s) == \A i, j \in DOMAIN s : (s[i].seq = s[j].seq /\ s[i].seq # 0) => i = j

\* The first k lines of s, the last of them replaced.
Cut(s, k, last) == SubSeq(s, 1, k - 1) \o <<last>>

InHand == batches \cup {appending}

-----------------------------------------------------------------------------
(* Lemmas about lists of lines.                                             *)

LEMMA LineFacts ==
  /\ Torn \in Line /\ Torn \notin Record /\ Torn.seq = 0
  /\ \A r \in Record : r \in Line /\ r.seq \in 1..MaxRecords /\ r.seq # 0
  /\ \A l \in Line : l.seq \in 0..MaxRecords /\ (l.seq = 0 => l = Torn)
BY DEF Line, Record, Torn

LEMMA NoLines == Nums(<<>>) = {} /\ Single(<<>>)
BY DEF Nums, Seqs, Single

LEMMA RecordsAreLines ==
  ASSUME NEW s \in Seq(Record)
  PROVE  s \in Seq(Line)
BY SeqMonotonic DEF Line

LEMMA OneMore ==
  ASSUME NEW s \in Seq(Record), NEW r \in Record, Single(s), r.seq \notin Nums(s)
  PROVE  /\ Append(s, r) \in Seq(Record) /\ Append(s, r) # <<>>
         /\ Single(Append(s, r))
         /\ Nums(Append(s, r)) = Nums(s) \cup {r.seq}
<1> DEFINE t == Append(s, r)
<1>1. /\ t \in Seq(Record) /\ t # <<>> /\ Len(t) = Len(s) + 1 /\ t[Len(s) + 1] = r
      /\ \A i \in 1..Len(s) : t[i] = s[i]
  BY AppendProperties
<1>2. DOMAIN t = 1..(Len(s) + 1) /\ DOMAIN s = 1..Len(s) /\ Len(s) \in Nat
  BY <1>1, LenProperties
<1> HIDE DEF t
<1>3. r.seq # 0
  BY LineFacts
<1>4. \A i \in DOMAIN t : i \in DOMAIN s \/ i = Len(s) + 1
  BY <1>2
<1>5. \A i \in DOMAIN s : s[i].seq # r.seq
  BY <1>3 DEF Nums, Seqs
<1>6. Single(t)
  BY <1>1, <1>2, <1>4, <1>5 DEF Single
<1>7. Nums(t) = Nums(s) \cup {r.seq}
  <2>1. Seqs(t) = Seqs(s) \cup {r.seq}
    BY <1>1, <1>2, <1>4 DEF Seqs
  <2> QED BY <1>3, <2>1 DEF Nums
<1> QED BY <1>1, <1>6, <1>7 DEF t

\* What a flush appends: the records held, each with n entries of their trace.
LEMMA SnapshotLines ==
  ASSUME NEW t, held[t] \in Seq(Record), NEW n \in 0..(MaxEntries + 1)
  PROVE  /\ Snapshot(t, n) \in Seq(Record)
         /\ Nums(Snapshot(t, n)) = Nums(held[t])
         /\ Single(held[t]) => Single(Snapshot(t, n))
         /\ held[t] # <<>> => Snapshot(t, n) # <<>>
         /\ \A i \in DOMAIN Snapshot(t, n) :
              /\ i \in DOMAIN held[t] /\ Snapshot(t, n)[i].trace = held[t][i].trace
              /\ Snapshot(t, n)[i].entries = n
<1> DEFINE s == Snapshot(t, n)
<1>1. DOMAIN held[t] = 1..Len(held[t]) /\ Len(held[t]) \in Nat
      /\ \A i \in DOMAIN held[t] : held[t][i] \in Record
  BY LenProperties, ElementOfSeq
<1>2. DOMAIN s = DOMAIN held[t]
      /\ \A i \in DOMAIN held[t] : s[i] = [held[t][i] EXCEPT !.entries = n]
  BY DEF Snapshot
<1> HIDE DEF s
<1>3. ASSUME NEW i \in DOMAIN held[t]
      PROVE  /\ s[i] \in Record /\ s[i].seq = held[t][i].seq /\ s[i].trace = held[t][i].trace
             /\ s[i].entries = n
  <2> DEFINE r == held[t][i]
  <2>1. r \in Record /\ s[i] = [r EXCEPT !.entries = n]
    BY <1>1, <1>2
  <2> HIDE DEF r
  <2>2. s[i] \in Record /\ s[i].seq = r.seq /\ s[i].trace = r.trace /\ s[i].entries = n
    BY <2>1 DEF Record
  <2> QED BY <2>2 DEF r
<1>4. s \in Seq(Record)
  <2>1. s \in [1..Len(held[t]) -> Record]
    BY <1>1, <1>2, <1>3 DEF s, Snapshot
  <2> QED BY <1>1, <2>1, SeqDef
<1>5. Seqs(s) = Seqs(held[t])
  BY <1>2, <1>3 DEF Seqs
<1>6. Single(held[t]) => Single(s)
  BY <1>2, <1>3 DEF Single
<1>7. held[t] # <<>> => s # <<>>
  BY <1>1, <1>2, <1>4, EmptySeq, LenProperties
<1> QED BY <1>2, <1>3, <1>4, <1>5, <1>6, <1>7 DEF Nums, s

\* What is left of a list that is torn in an append: its first k lines, the
\* last of them perhaps unreadable.
LEMMA TornLines ==
  ASSUME NEW s \in Seq(Record), NEW k \in 1..Len(s), NEW last \in {Torn, s[k]}
  PROVE  LET out == Cut(s, k, last) IN
         /\ out \in Seq(Line) /\ out # <<>>
         /\ Nums(out) \subseteq Nums(s) /\ (Single(s) => Single(out))
         /\ \A i \in DOMAIN out : out[i] = Torn \/ \E j \in DOMAIN s : out[i] = s[j]
<1> DEFINE front == SubSeq(s, 1, k - 1)
           cut == front \o <<last>>
<1>1. Len(s) \in Nat /\ DOMAIN s = 1..Len(s) /\ k \in Nat /\ k >= 1 /\ k <= Len(s)
  BY LenProperties
<1>2. \A i \in 1..Len(s) : s[i] \in Record /\ s[i] \in Line
  BY ElementOfSeq, LineFacts
<1>3. front \in Seq(Line) /\ Len(front) = k - 1 /\ \A i \in 1..(k - 1) : front[i] = s[i]
  <2>1. \A i \in 1..(k - 1) : s[i] \in Line
    BY <1>1, <1>2
  <2>2. /\ SubSeq(s, 1, k - 1) \in Seq(Line)
        /\ Len(SubSeq(s, 1, k - 1)) = IF 1 <= k - 1 THEN (k - 1) - 1 + 1 ELSE 0
        /\ \A i \in 1..((k - 1) - 1 + 1) : SubSeq(s, 1, k - 1)[i] = s[1 + i - 1]
    BY <1>1, <2>1, SubSeqProperties
  <2> QED BY <1>1, <2>2
<1>4. last \in Line /\ <<last>> \in Seq(Line) /\ Len(<<last>>) = 1 /\ <<last>>[1] = last
  BY <1>1, <1>2, LineFacts
<1> HIDE DEF front
<1>5. /\ cut \in Seq(Line) /\ Len(cut) = k
      /\ \A i \in 1..k : cut[i] = IF i <= k - 1 THEN front[i] ELSE <<last>>[i - (k - 1)]
  BY <1>1, <1>3, <1>4, ConcatProperties
<1> HIDE DEF cut
<1>6. DOMAIN cut = 1..k
  BY <1>5, LenProperties
<1>7. \A i \in 1..k : cut[i] = IF i = k THEN last ELSE s[i]
  <2>1. ASSUME NEW i \in 1..k PROVE cut[i] = IF i = k THEN last ELSE s[i]
    <3>1. CASE i = k
      BY <1>1, <1>4, <1>5, <3>1
    <3>2. CASE i # k
      <4>1. i <= k - 1 /\ i \in 1..(k - 1)
        BY <1>1, <3>2
      <4> QED BY <1>3, <1>5, <3>2, <4>1
    <3> QED BY <3>1, <3>2
  <2> QED BY <2>1
<1>8. \A i \in DOMAIN cut : cut[i] = Torn \/ (cut[i] = s[i] /\ i \in DOMAIN s)
  BY <1>1, <1>6, <1>7
<1>9. Nums(cut) \subseteq Nums(s)
  BY <1>8, LineFacts DEF Nums, Seqs
<1>10. Single(s) => Single(cut)
  BY <1>8, LineFacts DEF Single
<1>11. cut # <<>>
  BY <1>1, <1>5, EmptySeq
<1>12. Cut(s, k, last) = cut
  BY DEF Cut, cut, front
<1> QED BY <1>5, <1>8, <1>9, <1>10, <1>11, <1>12

\* What appending makes of the file: nothing new is in it, nothing comes twice,
\* and only what is glued to a line without its newline is missing.
LEMMA AppendedLines ==
  ASSUME file \in Seq(Line), dangling => file # <<>>, NEW rs \in Seq(Line), rs # <<>>,
         Single(file), Single(rs), Nums(file) \cap Nums(rs) = {}
  PROVE  /\ Appended(rs) \in Seq(Line) /\ Appended(rs) # <<>> /\ Single(Appended(rs))
         /\ Nums(Appended(rs)) \subseteq Nums(file) \cup Nums(rs)
         /\ Nums(file) \cup Nums(rs) \subseteq Nums(Appended(rs)) \cup Glued(rs)
         /\ Glued(rs) \cap Nums(Appended(rs)) = {}
         /\ \A i \in DOMAIN Appended(rs) :
              \/ Appended(rs)[i] = Torn
              \/ \E j \in DOMAIN file : Appended(rs)[i] = file[j]
              \/ \E j \in DOMAIN rs : Appended(rs)[i] = rs[j]
<1> DEFINE out == Appended(rs)
           n == Len(file)
           m == Len(rs)
<1>1. /\ n \in Nat /\ DOMAIN file = 1..n /\ \A i \in 1..n : file[i] \in Line
      /\ m \in Nat /\ DOMAIN rs = 1..m /\ m > 0 /\ \A i \in 1..m : rs[i] \in Line
  BY LenProperties, ElementOfSeq, EmptySeq
<1> HIDE DEF n, m
<1>2. CASE ~dangling
  <2>1. out = file \o rs /\ Glued(rs) = {}
    BY <1>2 DEF Appended, Glued
  <2>2. /\ out \in Seq(Line) /\ Len(out) = n + m
        /\ \A i \in 1..(n + m) : out[i] = IF i <= n THEN file[i] ELSE rs[i - n]
    BY <2>1, ConcatProperties DEF n, m
  <2>3. DOMAIN out = 1..(n + m)
    BY <2>2, LenProperties
  <2> HIDE DEF out
  <2>4. \A i \in 1..n : i \in DOMAIN out /\ out[i] = file[i]
    BY <1>1, <2>2, <2>3
  <2>5. \A j \in 1..m : n + j \in DOMAIN out /\ out[n + j] = rs[j]
    BY <1>1, <2>2, <2>3
  <2>6. \A i \in DOMAIN out : \/ i \in 1..n /\ out[i] = file[i]
                              \/ i > n /\ i - n \in 1..m /\ out[i] = rs[i - n]
    BY <1>1, <2>2, <2>3
  <2>7. Nums(out) = Nums(file) \cup Nums(rs)
    <3>1. Seqs(out) = Seqs(file) \cup Seqs(rs)
      <4>1. Seqs(file) \subseteq Seqs(out)
        BY <1>1, <2>4 DEF Seqs
      <4>2. Seqs(rs) \subseteq Seqs(out)
        BY <1>1, <2>5 DEF Seqs
      <4>3. Seqs(out) \subseteq Seqs(file) \cup Seqs(rs)
        BY <1>1, <2>6 DEF Seqs
      <4> QED BY <4>1, <4>2, <4>3
    <3> QED BY <3>1 DEF Nums
  <2>8. Single(out)
    <3>1. SUFFICES ASSUME NEW i \in DOMAIN out, NEW j \in DOMAIN out,
                          out[i].seq = out[j].seq, out[i].seq # 0, i # j
                   PROVE  FALSE
      BY DEF Single
    <3>2. CASE i \in 1..n /\ j \in 1..n
      BY <1>1, <2>4, <3>1, <3>2 DEF Single
    <3>3. CASE i > n /\ j > n
      <4>1. i - n \in 1..m /\ j - n \in 1..m /\ i - n # j - n
        BY <1>1, <2>3, <3>1, <3>3
      <4>2. out[i] = rs[i - n] /\ out[j] = rs[j - n]
        BY <1>1, <2>5, <2>6, <3>3
      <4> QED BY <1>1, <3>1, <4>1, <4>2 DEF Single
    <3>4. ASSUME NEW a \in 1..n, NEW b \in DOMAIN out, b > n, out[a].seq = out[b].seq,
                 out[a].seq # 0
          PROVE  FALSE
      <4>1. out[a].seq \in Nums(file)
        BY <1>1, <2>4, <3>4 DEF Nums, Seqs
      <4>2. b - n \in 1..m /\ out[b] = rs[b - n]
        BY <1>1, <2>6, <3>4
      <4>3. out[a].seq \in Nums(rs)
        BY <1>1, <3>4, <4>2 DEF Nums, Seqs
      <4> QED BY <4>1, <4>3
    <3>5. (i \in 1..n \/ i > n) /\ (j \in 1..n \/ j > n)
      BY <1>1, <2>3
    <3> QED BY <3>1, <3>2, <3>3, <3>4, <3>5
  <2>9. out # <<>>
    BY <1>1, <2>2, EmptySeq
  <2>10. \A i \in DOMAIN out : \/ \E j \in DOMAIN file : out[i] = file[j]
                               \/ \E j \in DOMAIN rs : out[i] = rs[j]
    BY <1>1, <2>6
  <2> QED BY <2>1, <2>2, <2>7, <2>8, <2>9, <2>10 DEF out
<1>3. CASE dangling
  <2> DEFINE front == SubSeq(file, 1, n - 1)
             rest == Tail(rs)
  <2>1. n > 0
    BY <1>1, <1>3, EmptySeq DEF n
  <2>2. /\ out = front \o <<Torn>> \o rest
        /\ Glued(rs) = {file[n].seq, rs[1].seq} \ {0}
    BY <1>3 DEF Appended, Glued, n
  <2>3. front \in Seq(Line) /\ Len(front) = n - 1 /\ \A i \in 1..(n - 1) : front[i] = file[i]
    <3>1. \A i \in 1..(n - 1) : file[i] \in Line
      BY <1>1
    <3>2. /\ SubSeq(file, 1, n - 1) \in Seq(Line)
          /\ Len(SubSeq(file, 1, n - 1)) = IF 1 <= n - 1 THEN (n - 1) - 1 + 1 ELSE 0
          /\ \A i \in 1..((n - 1) - 1 + 1) : SubSeq(file, 1, n - 1)[i] = file[1 + i - 1]
      BY <1>1, <3>1, SubSeqProperties
    <3> QED BY <1>1, <2>1, <3>2
  <2>4. /\ rest \in Seq(Line) /\ Len(rest) = m - 1
        /\ \A i \in 1..(m - 1) : rest[i] = rs[i + 1]
    BY HeadTailProperties DEF m
  <2>5. <<Torn>> \in Seq(Line) /\ Len(<<Torn>>) = 1 /\ <<Torn>>[1] = Torn
    BY LineFacts
  <2> DEFINE torn == front \o <<Torn>>
  <2> HIDE DEF front, rest
  <2>6. /\ torn \in Seq(Line) /\ Len(torn) = n
        /\ \A i \in 1..n : torn[i] = IF i < n THEN file[i] ELSE Torn
    <3>1. /\ torn \in Seq(Line) /\ Len(torn) = (n - 1) + 1
          /\ \A i \in 1..((n - 1) + 1) :
               torn[i] = IF i <= n - 1 THEN front[i] ELSE <<Torn>>[i - (n - 1)]
      BY <2>3, <2>5, ConcatProperties
    <3>2. (n - 1) + 1 = n
      BY <1>1
    <3>3. ASSUME NEW i \in 1..n
          PROVE  torn[i] = IF i < n THEN file[i] ELSE Torn
      <4>1. CASE i < n
        BY <1>1, <2>3, <3>1, <4>1
      <4>2. CASE ~(i < n)
        <5>1. i = n /\ ~(i <= n - 1) /\ i - (n - 1) = 1
          BY <1>1, <2>1, <4>2
        <5> QED BY <2>5, <3>1, <3>2, <4>2, <5>1
      <4> QED BY <4>1, <4>2
    <3> QED BY <3>1, <3>2, <3>3
  <2> HIDE DEF torn
  <2>7. out = torn \o rest
    BY <2>2 DEF torn
  <2>8. /\ out \in Seq(Line) /\ Len(out) = n + (m - 1)
        /\ \A i \in 1..(n + (m - 1)) : out[i] = IF i <= n THEN torn[i] ELSE rest[i - n]
    <3>1. torn \in Seq(Line) /\ rest \in Seq(Line)
      BY <2>4, <2>6
    <3>2. LET c == torn \o rest IN
          /\ c \in Seq(Line) /\ Len(c) = Len(torn) + Len(rest)
          /\ \A i \in 1..(Len(torn) + Len(rest)) :
               c[i] = IF i <= Len(torn) THEN torn[i] ELSE rest[i - Len(torn)]
      BY <3>1, ConcatProperties
    <3>3. Len(torn) = n /\ Len(rest) = m - 1
      BY <2>4, <2>6
    <3> HIDE DEF out
    <3> QED BY <2>7, <3>2, <3>3
  <2>9. DOMAIN out = 1..(n + (m - 1))
    BY <2>8, LenProperties
  <2> HIDE DEF out
  <2>10. \A i \in 1..(n - 1) : i \in DOMAIN out /\ out[i] = file[i]
    BY <1>1, <2>1, <2>6, <2>8, <2>9
  <2>11. n \in DOMAIN out /\ out[n] = Torn
    BY <1>1, <2>1, <2>6, <2>8, <2>9
  <2>12. \A j \in 2..m : n + (j - 1) \in DOMAIN out /\ out[n + (j - 1)] = rs[j]
    <3>1. ASSUME NEW j \in 2..m
          PROVE  n + (j - 1) \in DOMAIN out /\ out[n + (j - 1)] = rs[j]
      <4>1. n + (j - 1) \in 1..(n + (m - 1)) /\ ~(n + (j - 1) <= n)
            /\ (n + (j - 1)) - n = j - 1 /\ j - 1 \in 1..(m - 1) /\ (j - 1) + 1 = j
        BY <1>1, <2>1
      <4> QED BY <2>4, <2>8, <2>9, <4>1
    <3> QED BY <3>1
  <2>13. \A i \in DOMAIN out : \/ i \in 1..(n - 1) /\ out[i] = file[i]
                               \/ i = n /\ out[i] = Torn
                               \/ i > n /\ (i - n) + 1 \in 2..m /\ out[i] = rs[(i - n) + 1]
    <3>1. ASSUME NEW i \in DOMAIN out, i > n
          PROVE  (i - n) + 1 \in 2..m /\ out[i] = rs[(i - n) + 1]
      <4>1. i - n \in 1..(m - 1) /\ (i - n) + 1 \in 2..m /\ ~(i <= n)
        BY <1>1, <2>9, <3>1
      <4> QED BY <2>4, <2>8, <2>9, <4>1
    <3> QED BY <1>1, <2>1, <2>9, <2>10, <2>11, <3>1
  <2>14. Nums(out) \subseteq Nums(file) \cup Nums(rs)
    <3>1. \A i \in DOMAIN out : out[i].seq # 0 => out[i].seq \in Seqs(file) \cup Seqs(rs)
      BY <1>1, <2>13, LineFacts DEF Seqs
    <3> QED BY <3>1 DEF Nums, Seqs
  <2>15. Nums(file) \cup Nums(rs) \subseteq Nums(out) \cup Glued(rs)
    <3>1. \A i \in 1..n : i = n \/ i \in 1..(n - 1)
      BY <1>1
    <3>2. Nums(file) \subseteq Nums(out) \cup {file[n].seq}
      BY <1>1, <2>10, <3>1 DEF Nums, Seqs
    <3>3. \A j \in 1..m : j = 1 \/ j \in 2..m
      BY <1>1
    <3>4. Nums(rs) \subseteq Nums(out) \cup {rs[1].seq}
      BY <1>1, <2>12, <3>3 DEF Nums, Seqs
    <3>5. 0 \notin Nums(file) /\ 0 \notin Nums(rs)
      BY DEF Nums
    <3> QED BY <2>2, <3>2, <3>4, <3>5
  <2>16. Single(out)
    <3>1. SUFFICES ASSUME NEW i \in DOMAIN out, NEW j \in DOMAIN out,
                          out[i].seq = out[j].seq, out[i].seq # 0, i # j
                   PROVE  FALSE
      BY DEF Single
    <3>2. CASE i \in 1..(n - 1) /\ j \in 1..(n - 1)
      <4>1. i \in DOMAIN file /\ j \in DOMAIN file
        BY <1>1, <3>2
      <4> QED BY <2>10, <3>1, <3>2, <4>1 DEF Single
    <3>3. CASE i > n /\ j > n
      <4>1. /\ (i - n) + 1 \in 1..m /\ (j - n) + 1 \in 1..m /\ (i - n) + 1 # (j - n) + 1
            /\ out[i] = rs[(i - n) + 1] /\ out[j] = rs[(j - n) + 1]
        BY <1>1, <2>9, <2>13, <3>1, <3>3
      <4> QED BY <1>1, <3>1, <4>1 DEF Single
    <3>4. ASSUME NEW a \in 1..(n - 1), NEW b \in DOMAIN out, b > n, out[a].seq = out[b].seq,
                 out[a].seq # 0
          PROVE  FALSE
      <4>1. a \in DOMAIN file /\ out[a] = file[a]
        BY <1>1, <2>10
      <4>2. (b - n) + 1 \in DOMAIN rs /\ out[b] = rs[(b - n) + 1]
        <5>1. b \notin 1..(n - 1) /\ b # n
          BY <1>1, <2>9, <3>4
        <5>2. (b - n) + 1 \in 2..m /\ out[b] = rs[(b - n) + 1]
          BY <2>13, <5>1
        <5> QED BY <1>1, <5>2
      <4>3. out[a].seq \in Nums(file)
        BY <3>4, <4>1 DEF Nums, Seqs
      <4>4. out[a].seq \in Nums(rs)
        BY <3>4, <4>2 DEF Nums, Seqs
      <4> QED BY <4>3, <4>4
    <3>5. (i \in 1..(n - 1) \/ i > n) /\ (j \in 1..(n - 1) \/ j > n)
      BY <2>13, <3>1, LineFacts
    <3> QED BY <3>1, <3>2, <3>3, <3>4, <3>5
  <2>17. out # <<>>
    BY <1>1, <2>1, <2>8, EmptySeq
  <2>18. \A i \in DOMAIN out : \/ out[i] = Torn
                               \/ \E j \in DOMAIN file : out[i] = file[j]
                               \/ \E j \in DOMAIN rs : out[i] = rs[j]
    <3>1. 1..(n - 1) \subseteq DOMAIN file /\ 2..m \subseteq DOMAIN rs
      BY <1>1
    <3> QED BY <2>13, <3>1
  <2>19. Glued(rs) \cap Nums(out) = {}
    <3>1. SUFFICES ASSUME NEW i \in DOMAIN out, out[i].seq # 0,
                          out[i].seq \in {file[n].seq, rs[1].seq}
                   PROVE  FALSE
      BY <2>2 DEF Nums, Seqs
    <3>2. n \in DOMAIN file /\ 1 \in DOMAIN rs
      BY <1>1, <2>1
    <3>3. CASE i \in 1..(n - 1) /\ out[i] = file[i]
      <4>1. i \in DOMAIN file /\ i # n
        BY <1>1, <3>3
      <4>2. out[i].seq # file[n].seq
        BY <3>1, <3>2, <3>3, <4>1 DEF Single
      <4>3. out[i].seq \in Nums(file) /\ out[i].seq \in Nums(rs)
        BY <3>1, <3>2, <3>3, <4>1, <4>2 DEF Nums, Seqs
      <4> QED BY <4>3
    <3>4. CASE i = n /\ out[i] = Torn
      BY <3>1, <3>4, LineFacts
    <3>5. CASE i > n /\ (i - n) + 1 \in 2..m /\ out[i] = rs[(i - n) + 1]
      <4>1. (i - n) + 1 \in DOMAIN rs /\ (i - n) + 1 # 1
        BY <1>1, <3>5
      <4>2. out[i].seq # rs[1].seq
        BY <3>1, <3>2, <3>5, <4>1 DEF Single
      <4>3. out[i].seq \in Nums(file) /\ out[i].seq \in Nums(rs)
        BY <3>1, <3>2, <3>5, <4>1, <4>2 DEF Nums, Seqs
      <4> QED BY <4>3
    <3> QED BY <2>13, <3>3, <3>4, <3>5
  <2> QED BY <2>8, <2>14, <2>15, <2>16, <2>17, <2>18, <2>19 DEF out
<1> QED BY <1>2, <1>3

\* The lines at some positions, in their order: each position is the k-th of
\* them for one k.
LEMMA PickedLines ==
  ASSUME NEW s \in Seq(Record), NEW keep \in SUBSET DOMAIN s
  PROVE  /\ Picked(s, keep) \in Seq(Record)
         /\ Seqs(Picked(s, keep)) = {s[i].seq : i \in keep}
         /\ Single(s) => Single(Picked(s, keep))
         /\ \A k \in DOMAIN Picked(s, keep) : \E i \in DOMAIN s : Picked(s, keep)[k] = s[i]
<1> DEFINE n == Cardinality(keep)
           rank == [i \in keep |-> Cardinality(Before(i, keep)) + 1]
           at == [k \in 1..n |-> CHOOSE i \in keep : Cardinality(Before(i, keep)) = k - 1]
           t == Picked(s, keep)
<1>1. Len(s) \in Nat /\ DOMAIN s = 1..Len(s)
  BY LenProperties
<1>2. IsFiniteSet(keep) /\ n \in Nat
  <2>1. IsFiniteSet(1..Len(s))
    BY <1>1, FS_Interval
  <2>2. IsFiniteSet(keep)
    BY <1>1, <2>1, FS_Subset
  <2> QED BY <2>2, FS_CardinalityType
<1>3. ASSUME NEW i \in keep
      PROVE  /\ IsFiniteSet(Before(i, keep)) /\ Cardinality(Before(i, keep)) \in Nat
             /\ Cardinality(Before(i, keep)) < n
  <2>1. Before(i, keep) \in SUBSET keep /\ i \notin Before(i, keep)
    BY <1>1 DEF Before
  <2>2. IsFiniteSet(Before(i, keep)) /\ Cardinality(Before(i, keep)) <= n
        /\ (n = Cardinality(Before(i, keep)) => keep = Before(i, keep))
    BY <1>2, <2>1, FS_Subset
  <2>3. Cardinality(Before(i, keep)) \in Nat
    BY <2>2, FS_CardinalityType
  <2> QED BY <1>2, <2>1, <2>2, <2>3
<1>4. ASSUME NEW i \in keep, NEW j \in keep, i < j
      PROVE  Cardinality(Before(i, keep)) < Cardinality(Before(j, keep))
  <2>1. Before(i, keep) \in SUBSET Before(j, keep)
        /\ i \in Before(j, keep) /\ i \notin Before(i, keep)
    BY <1>1, <1>4 DEF Before
  <2>2. Cardinality(Before(i, keep)) <= Cardinality(Before(j, keep))
        /\ (Cardinality(Before(j, keep)) = Cardinality(Before(i, keep))
              => Before(j, keep) = Before(i, keep))
    BY <1>3, <2>1, FS_Subset
  <2> QED BY <1>3, <2>1, <2>2
<1>5. rank \in Surjection(keep, 1..n)
  <2>1. \A i \in keep : rank[i] \in 1..n
    BY <1>2, <1>3
  <2>2. \A i, j \in keep : rank[i] = rank[j] => i = j
    <3>1. SUFFICES ASSUME NEW i \in keep, NEW j \in keep, rank[i] = rank[j], i < j PROVE FALSE
      BY <1>1
    <3>2. Cardinality(Before(i, keep)) \in Nat /\ Cardinality(Before(j, keep)) \in Nat
      BY <1>3
    <3>3. Cardinality(Before(i, keep)) < Cardinality(Before(j, keep))
      BY <1>4, <3>1
    <3> QED BY <3>1, <3>2, <3>3
  <2>3. rank \in Injection(keep, 1..n)
    BY <2>1, <2>2 DEF Injection, IsInjective
  <2>4. IsFiniteSet(1..n) /\ Cardinality(1..n) = n
    BY <1>2, FS_Interval
  <2> QED BY <2>3, <2>4, FS_Injection
<1>6. \A k \in 1..n : at[k] \in keep /\ Cardinality(Before(at[k], keep)) = k - 1
  <2>1. ASSUME NEW k \in 1..n
        PROVE  \E i \in keep : Cardinality(Before(i, keep)) = k - 1
    <3>1. PICK i \in keep : rank[i] = k
      BY <1>5 DEF Surjection
    <3>2. Cardinality(Before(i, keep)) \in Nat
      BY <1>3
    <3> QED BY <3>1, <3>2
  <2> QED BY <2>1
<1>7. \A k, l \in 1..n : at[k] = at[l] => k = l
  BY <1>2, <1>6
<1>8. \A i \in keep : \E k \in 1..n : at[k] = i
  <2>1. SUFFICES ASSUME NEW i \in keep PROVE \E k \in 1..n : at[k] = i
    OBVIOUS
  <2> DEFINE k == Cardinality(Before(i, keep)) + 1
  <2>2. k \in 1..n /\ Cardinality(Before(i, keep)) = k - 1
    BY <1>2, <1>3
  <2>3. at[k] \in keep /\ Cardinality(Before(at[k], keep)) = Cardinality(Before(i, keep))
    BY <1>6, <2>2
  <2>4. at[k] = i
    <3> DEFINE a == at[k]
    <3>1. a \in 1..Len(s) /\ i \in 1..Len(s)
      BY <1>1, <2>3
    <3>2. Cardinality(Before(i, keep)) \in Nat
      BY <1>3
    <3> HIDE DEF a, at
    <3>3. ~(a < i) /\ ~(i < a)
      BY <1>4, <2>3, <3>2 DEF a
    <3> QED BY <1>1, <3>1, <3>3 DEF a
  <2> QED BY <2>2, <2>4
<1>9. t = [k \in 1..n |-> s[at[k]]]
  BY DEF Picked
<1> HIDE DEF t, at, n
<1>10. DOMAIN t = 1..n /\ \A k \in 1..n : t[k] = s[at[k]] /\ at[k] \in DOMAIN s
  BY <1>6, <1>9
<1>11. t \in Seq(Record)
  <2>1. \A k \in 1..n : s[at[k]] \in Record
    BY <1>1, <1>10, ElementOfSeq
  <2>2. t \in [1..n -> Record]
    BY <1>9, <2>1
  <2> QED BY <1>2, <2>2, SeqDef
<1>12. Seqs(t) = {s[i].seq : i \in keep}
  BY <1>6, <1>8, <1>10 DEF Seqs
<1>13. Single(s) => Single(t)
  BY <1>7, <1>10 DEF Single
<1> QED BY <1>10, <1>11, <1>12, <1>13 DEF t

\* What the sweep reads: every line but a last one that is torn.
LEMMA ParsedLines ==
  ASSUME file \in Seq(Line), Readable
  PROVE  /\ Parsed \in Seq(Record) /\ Nums(Parsed) = Nums(file)
         /\ Single(file) => Single(Parsed)
         /\ \A i \in DOMAIN Parsed : i \in DOMAIN file /\ Parsed[i] = file[i]
<1> DEFINE n == Len(file)
<1>1. n \in Nat /\ DOMAIN file = 1..n /\ \A i \in 1..n : file[i] \in Line
  BY LenProperties, ElementOfSeq
<1> HIDE DEF n
<1>2. \A i \in 1..(n - 1) : file[i] # Torn
  BY DEF Readable, n
<1>3. \A l \in Line : l # Torn => l \in Record
  BY DEF Line
<1>4. CASE file # <<>> /\ file[n] = Torn
  <2>1. n > 0
    BY <1>1, <1>4, EmptySeq DEF n
  <2>2. Parsed = SubSeq(file, 1, n - 1)
    BY <1>4 DEF Parsed, n
  <2>3. \A i \in 1..(n - 1) : file[i] \in Record
    BY <1>1, <1>2, <1>3
  <2>4. Parsed \in Seq(Record) /\ Len(Parsed) = n - 1 /\ \A i \in 1..(n - 1) : Parsed[i] = file[i]
    <3>1. /\ SubSeq(file, 1, n - 1) \in Seq(Record)
          /\ Len(SubSeq(file, 1, n - 1)) = IF 1 <= n - 1 THEN (n - 1) - 1 + 1 ELSE 0
          /\ \A i \in 1..((n - 1) - 1 + 1) : SubSeq(file, 1, n - 1)[i] = file[1 + i - 1]
      BY <1>1, <2>3, SubSeqProperties
    <3> QED BY <1>1, <2>1, <2>2, <3>1
  <2>5. DOMAIN Parsed = 1..(n - 1)
    BY <2>4, LenProperties
  <2>6. \A i \in DOMAIN file : i \in DOMAIN Parsed \/ file[i] = Torn
    BY <1>1, <1>4, <2>1, <2>5
  <2>7. \A i \in DOMAIN Parsed : i \in DOMAIN file /\ Parsed[i] = file[i]
    BY <1>1, <2>4, <2>5
  <2>8. Nums(Parsed) = Nums(file)
    BY <2>6, <2>7, LineFacts DEF Nums, Seqs
  <2> QED BY <2>4, <2>7, <2>8 DEF Single
<1>5. CASE ~(file # <<>> /\ file[n] = Torn)
  <2>1. Parsed = file
    BY <1>5 DEF Parsed, n
  <2>2. \A i \in 1..n : file[i] \in Record
    <3>1. SUFFICES ASSUME NEW i \in 1..n PROVE file[i] # Torn
      BY <1>1, <1>3
    <3>2. CASE i = n
      BY <1>1, <1>5, <3>2, EmptySeq DEF n
    <3>3. CASE i # n
      <4>1. i \in 1..(n - 1)
        BY <1>1, <3>3
      <4> QED BY <1>2, <4>1
    <3> QED BY <3>2, <3>3
  <2>3. file \in [1..n -> Record]
    <3>1. file \in [1..n -> Line]
      BY LenProperties DEF n
    <3> QED BY <2>2, <3>1
  <2>4. file \in Seq(Record)
    BY <1>1, <2>3, SeqDef
  <2> QED BY <2>1, <2>4
<1> QED BY <1>4, <1>5

\* A record is in a list as often as its number is: once or not at all.
LEMMA TimesOf ==
  ASSUME NEW s \in Seq(Line), Single(s), NEW n \in Nat \ {0}
  PROVE  Times(n, s) = IF n \in Nums(s) THEN 1 ELSE 0
<1> DEFINE at == {i \in DOMAIN s : s[i].seq = n}
<1>1. CASE n \in Nums(s)
  <2>1. PICK i \in DOMAIN s : s[i].seq = n
    BY <1>1 DEF Nums, Seqs
  <2>2. at = {i}
    BY <2>1 DEF Single
  <2> QED BY <1>1, <2>2, FS_Singleton DEF Times
<1>2. CASE n \notin Nums(s)
  <2>1. at = {}
    BY <1>2 DEF Nums, Seqs
  <2> QED BY <1>2, <2>1, FS_EmptySet DEF Times
<1> QED BY <1>1, <1>2
-----------------------------------------------------------------------------
(* The invariant.                                                           *)

\* What the holder of the lock has in hand.
Locked ==
  /\ lock = "append" => appending.recs # <<>>
  /\ lock # "append" => appending = NoBatch
  /\ lock = "sweep" => Readable /\ sweep = Parsed
  /\ dangling => file # <<>>

\* No record is in two places.
OnceInMemory ==
  /\ appending \notin batches /\ \A b \in batches : b.recs # <<>>
  /\ \A t \in Traces : Single(held[t]) /\ Nums(held[t]) \subseteq 1..made
  /\ \A b \in InHand : Single(b.recs) /\ Nums(b.recs) \subseteq 1..made
  /\ \A t, u \in Traces : t # u => Nums(held[t]) \cap Nums(held[u]) = {}
  /\ \A b, c \in InHand : b # c => Nums(b.recs) \cap Nums(c.recs) = {}
  /\ \A t \in Traces, b \in InHand : Nums(held[t]) \cap Nums(b.recs) = {}

OnceInFile ==
  /\ Single(file) /\ Nums(file) \subseteq 1..made
  /\ \A t \in Traces : Nums(held[t]) \cap Nums(file) = {}
  /\ \A b \in InHand : Nums(b.recs) \cap Nums(file) = {}

\* None disappears.
Kept ==
  \A n \in 1..made : \/ \E t \in Traces : n \in Nums(held[t])
                     \/ \E b \in InHand : n \in Nums(b.recs)
                     \/ n \in Nums(file) \/ n \in lost

Stages == [Traces -> {"new", "running", "ended", "thrown", "dead"}]
Counts == [Traces -> 0..(MaxEntries + 1)]

USE DEF Stages, Counts

\* The requests that run no more.
Over == {t \in Traces : stage[t] \notin {"new", "running"}}

\* A record that has left for the file is of a slow request, or of one that is
\* over, and then it has what the trace had when it was announced.
Fine(r, over, f) == r.trace \in Slow \/ (r.trace \in over /\ f[r.trace] <= r.entries)

Traced ==
  /\ \A t \in Traces : held[t] # <<>> => t \in timer
  /\ \A t \in timer : stage[t] \notin {"new", "dead"}
  /\ \A t \in Traces : \A i \in DOMAIN held[t] : held[t][i].trace = t
  /\ \A t \in Traces \ Slow : stage[t] = "running" => buffer[t] = "open"
  /\ \A t \in Traces : /\ stage[t] # "dead" => final[t] <= entries[t]
                       /\ stage[t] \in {"new", "running"} =>
                            final[t] = 0 /\ entries[t] <= MaxEntries

AllFine ==
  /\ \A b \in InHand : \A i \in DOMAIN b.recs : Fine(b.recs[i], Over, final)
  /\ \A i \in DOMAIN file : file[i] = Torn \/ Fine(file[i], Over, final)

IInv == /\ TypeOK /\ Locked
        /\ OnceInMemory /\ OnceInFile /\ Kept
        /\ Traced /\ AllFine

-----------------------------------------------------------------------------
(* What a step does to the records in memory.                               *)

\* No request comes back, and the end of one that is over stays as it was.
Steady == Over \subseteq Over' /\ \A t \in Over : final'[t] = final[t]

LEMMA FineStays ==
  ASSUME Steady
  PROVE  \A r : Fine(r, Over, final) => Fine(r, Over', final')
BY DEF Steady, Fine

LEMMA SteadyStages ==
  ASSUME UNCHANGED <<stage, final>>
  PROVE  Steady
BY DEF Steady, Over

LEMMA NothingInHand == NoBatch \in Batch /\ NoBatch.recs = <<>>
BY EmptySeq DEF NoBatch, Batch

\* A number is of a record in memory when some place in memory has it.
LEMMA InMemoryNumbers ==
  ASSUME NEW n
  PROVE  (n # 0 /\ \E r \in InMemory : r.seq = n)
           <=> \/ \E t \in Traces : n \in Nums(held[t])
               \/ \E b \in InHand : n \in Nums(b.recs)
<1>1. ASSUME NEW t \in Traces, n \in Nums(held[t])
      PROVE  n # 0 /\ \E r \in InMemory : r.seq = n
  <2>1. PICK i \in DOMAIN held[t] : n = held[t][i].seq /\ n # 0
    BY <1>1 DEF Nums, Seqs
  <2>2. held[t][i] \in RecordsIn(held[t])
    BY DEF RecordsIn
  <2>3. held[t][i] \in InMemory
    BY <2>2 DEF InMemory
  <2> QED BY <2>1, <2>3
<1>2. ASSUME NEW b \in InHand, n \in Nums(b.recs)
      PROVE  n # 0 /\ \E r \in InMemory : r.seq = n
  <2>1. PICK i \in DOMAIN b.recs : n = b.recs[i].seq /\ n # 0
    BY <1>2 DEF Nums, Seqs
  <2>2. b.recs[i] \in RecordsIn(b.recs)
    BY DEF RecordsIn
  <2>3. b.recs[i] \in InMemory
    BY <2>2 DEF InMemory, InHand
  <2> QED BY <2>1, <2>3
<1>3. ASSUME n # 0, NEW r \in InMemory, r.seq = n
      PROVE  \/ \E t \in Traces : n \in Nums(held[t])
             \/ \E b \in InHand : n \in Nums(b.recs)
  <2>1. \/ \E b \in InHand : r \in RecordsIn(b.recs)
        \/ \E t \in Traces : r \in RecordsIn(held[t])
    BY DEF InMemory, InHand
  <2>2. ASSUME NEW b \in InHand, r \in RecordsIn(b.recs) PROVE n \in Nums(b.recs)
    BY <1>3, <2>2 DEF RecordsIn, Nums, Seqs
  <2>3. ASSUME NEW t \in Traces, r \in RecordsIn(held[t])
        PROVE  n \in Nums(held[t])
    BY <1>3, <2>3 DEF RecordsIn, Nums, Seqs
  <2> QED BY <2>1, <2>2, <2>3
<1> QED BY <1>1, <1>2, <1>3

\* A step that leaves the records where they are.
LEMMA NothingMoves ==
  ASSUME IInv, Steady, UNCHANGED <<held, batches, appending, file, made>>, lost \subseteq lost'
  PROVE  OnceInMemory' /\ OnceInFile' /\ Kept' /\ AllFine'
<1>1. InHand' = InHand
  BY DEF InHand
<1>2. OnceInMemory' /\ OnceInFile'
  BY <1>1 DEF IInv, OnceInMemory, OnceInFile
<1>3. Kept'
  BY <1>1 DEF IInv, Kept
<1>4. AllFine'
  BY <1>1, FineStays DEF IInv, AllFine
<1> QED BY <1>2, <1>3, <1>4

\* The next number is nobody's yet.
LEMMA NextIsNew ==
  ASSUME IInv
  PROVE  /\ made \in Nat /\ \A n \in 1..made : n \in 1..(made + 1) /\ n # made + 1
         /\ \A n \in 1..(made + 1) : n \in 1..made \/ n = made + 1
         /\ \A t \in Traces : made + 1 \notin Nums(held[t])
         /\ \A b \in InHand : made + 1 \notin Nums(b.recs)
         /\ made + 1 \notin Nums(file)
<1>1. made \in Nat
  BY DEF IInv, TypeOK
<1>2. \A n \in 1..made : n \in 1..(made + 1) /\ n # made + 1
  BY <1>1
<1>3. \A n \in 1..(made + 1) : n \in 1..made \/ n = made + 1
  BY <1>1
<1>4. /\ \A t \in Traces : Nums(held[t]) \subseteq 1..made
      /\ \A b \in InHand : Nums(b.recs) \subseteq 1..made
      /\ Nums(file) \subseteq 1..made
  BY DEF IInv, OnceInMemory, OnceInFile
<1>5. made + 1 \notin 1..made
  BY <1>1
<1> QED BY <1>1, <1>2, <1>3, <1>4, <1>5

\* A new record is held ...
LEMMA NewIsHeld ==
  ASSUME IInv, Steady, NEW t \in Traces, NEW r \in Record, r.seq = made + 1, made' = made + 1,
         held' = [held EXCEPT ![t] = Append(held[t], r)],
         UNCHANGED <<batches, appending, file, lost>>
  PROVE  OnceInMemory' /\ OnceInFile' /\ Kept' /\ AllFine'
<1>1. held \in [Traces -> Seq(Record)]
  BY DEF IInv, TypeOK
<1>4. Single(held'[t]) /\ Nums(held'[t]) = Nums(held[t]) \cup {made + 1}
  <2>1. r.seq \notin Nums(held[t]) /\ Single(held[t]) /\ held[t] \in Seq(Record)
    BY <1>1, NextIsNew DEF IInv, OnceInMemory
  <2>2. held'[t] = Append(held[t], r)
    BY <1>1
  <2> QED BY <2>1, <2>2, OneMore
<1>5. \A u \in Traces : u # t => held'[u] = held[u]
  BY <1>1
<1>6. InHand' = InHand
  BY DEF InHand
<1>7. OnceInMemory'
  <2>1. \A u \in Traces : Single(held'[u]) /\ Nums(held'[u]) \subseteq 1..made'
    <3>1. made + 1 \in 1..made'
      BY NextIsNew
    <3> QED BY <1>4, <1>5, <3>1, NextIsNew DEF IInv, OnceInMemory
  <2>2. \A b \in InHand : Single(b.recs) /\ Nums(b.recs) \subseteq 1..made'
    BY NextIsNew DEF IInv, OnceInMemory
  <2>3. \A u, v \in Traces : u # v => Nums(held'[u]) \cap Nums(held'[v]) = {}
    <3>1. \A u, v \in Traces : u # v => Nums(held[u]) \cap Nums(held[v]) = {}
      BY DEF IInv, OnceInMemory
    <3>2. \A u \in Traces : u # t => Nums(held'[t]) \cap Nums(held'[u]) = {}
      BY <1>4, <1>5, <3>1, NextIsNew
    <3>3. SUFFICES ASSUME NEW u \in Traces, NEW v \in Traces, u # v
                   PROVE  Nums(held'[u]) \cap Nums(held'[v]) = {}
      OBVIOUS
    <3>4. CASE u = t \/ v = t
      BY <3>2, <3>3, <3>4
    <3>5. CASE u # t /\ v # t
      BY <1>5, <3>1, <3>3, <3>5
    <3> QED BY <3>4, <3>5
  <2>4. \A u \in Traces, b \in InHand : Nums(held'[u]) \cap Nums(b.recs) = {}
    <3>1. SUFFICES ASSUME NEW u \in Traces, NEW b \in InHand
                   PROVE  Nums(held'[u]) \cap Nums(b.recs) = {}
      OBVIOUS
    <3>2. Nums(held[u]) \cap Nums(b.recs) = {} /\ made + 1 \notin Nums(b.recs)
      BY NextIsNew DEF IInv, OnceInMemory
    <3>3. CASE u = t
      BY <1>4, <3>2, <3>3
    <3>4. CASE u # t
      BY <1>5, <3>2, <3>4
    <3> QED BY <3>3, <3>4
  <2> QED BY <1>6, <2>1, <2>2, <2>3, <2>4 DEF IInv, OnceInMemory
<1>9. OnceInFile'
  BY <1>4, <1>5, <1>6, NextIsNew DEF IInv, OnceInFile
<1>10. Kept'
  BY <1>4, <1>5, <1>6, NextIsNew DEF IInv, Kept
<1>11. AllFine'
  BY <1>6, FineStays DEF IInv, AllFine
<1> QED BY <1>7, <1>9, <1>10, <1>11

\* ... or goes to the file by itself.
LEMMA NewIsSent ==
  ASSUME IInv, Steady, NEW r \in Record, r.seq = made + 1, made' = made + 1,
         Fine(r, Over', final'),
         batches' = batches \cup {[recs |-> <<r>>, deferred |-> FALSE]},
         UNCHANGED <<held, appending, file, lost>>
  PROVE  OnceInMemory' /\ OnceInFile' /\ Kept' /\ AllFine'
<1> DEFINE b == [recs |-> <<r>>, deferred |-> FALSE]
<1>4. /\ b.recs # <<>> /\ Single(b.recs) /\ Nums(b.recs) = {made + 1}
      /\ \A i \in DOMAIN b.recs : Fine(b.recs[i], Over', final')
  <2>1. Len(<<r>>) = 1 /\ DOMAIN <<r>> = {1} /\ <<r>>[1] = r
    OBVIOUS
  <2>2. made + 1 # 0 /\ b.recs = <<r>>
    BY NextIsNew
  <2>3. Seqs(<<r>>) = {made + 1}
    BY <2>1 DEF Seqs
  <2> HIDE DEF b
  <2> QED BY <2>1, <2>2, <2>3 DEF Single, Nums
<1>5. InHand' = InHand \cup {b} /\ b \notin InHand
  <2>1. made + 1 \in Nums(b.recs)
    BY <1>4
  <2>2. b \notin InHand
    BY <2>1, NextIsNew
  <2> QED BY <2>2 DEF InHand
<1>b. batches' = batches \cup {b}
  OBVIOUS
<1> HIDE DEF b
<1>6. OnceInMemory'
  <2>1. \A u \in Traces : Single(held'[u]) /\ Nums(held'[u]) \subseteq 1..made'
    BY NextIsNew DEF IInv, OnceInMemory
  <2>2. \A c \in InHand' : Single(c.recs) /\ Nums(c.recs) \subseteq 1..made'
    <3>1. made + 1 \in 1..made'
      BY NextIsNew
    <3> QED BY <1>4, <1>5, <3>1, NextIsNew DEF IInv, OnceInMemory
  <2>3. \A c, d \in InHand' : c # d => Nums(c.recs) \cap Nums(d.recs) = {}
    <3>1. \A c, d \in InHand : c # d => Nums(c.recs) \cap Nums(d.recs) = {}
      BY DEF IInv, OnceInMemory
    <3>2. \A c \in InHand : Nums(c.recs) \cap Nums(b.recs) = {}
      BY <1>4, NextIsNew
    <3> QED BY <1>5, <3>1, <3>2
  <2>4. \A u \in Traces, c \in InHand' : Nums(held'[u]) \cap Nums(c.recs) = {}
    BY <1>4, <1>5, NextIsNew DEF IInv, OnceInMemory
  <2>5. appending' \notin batches' /\ \A c \in batches' : c.recs # <<>>
    BY <1>4, <1>5, <1>b DEF IInv, OnceInMemory, InHand
  <2>6. \A u, v \in Traces : u # v => Nums(held'[u]) \cap Nums(held'[v]) = {}
    BY DEF IInv, OnceInMemory
  <2> QED BY <2>1, <2>2, <2>3, <2>4, <2>5, <2>6 DEF OnceInMemory
<1>8. OnceInFile'
  BY <1>4, <1>5, NextIsNew DEF IInv, OnceInFile
<1>9. Kept'
  BY <1>4, <1>5, NextIsNew DEF IInv, Kept
<1>10. AllFine'
  BY <1>4, <1>5, FineStays DEF IInv, AllFine
<1> QED BY <1>6, <1>8, <1>9, <1>10

\* The records held for a trace leave together.
LEMMA FlushMoves ==
  ASSUME IInv, Steady, NEW t \in Traces, NEW n \in 0..(MaxEntries + 1), Flush(t, n),
         held[t] # <<>> => t \in Slow \/ (t \in Over' /\ final'[t] <= n),
         UNCHANGED <<appending, file, made, lost>>
  PROVE  /\ OnceInMemory' /\ OnceInFile' /\ Kept' /\ AllFine'
         /\ held' \in [Traces -> Seq(Record)] /\ batches' \subseteq Batch
         /\ \A u \in Traces : held'[u] = IF u = t THEN <<>> ELSE held[u]
<1>1. held \in [Traces -> Seq(Record)] /\ batches \subseteq Batch
  BY DEF IInv, TypeOK
<1>2. \A u \in Traces : held'[u] = IF u = t THEN <<>> ELSE held[u]
  BY <1>1 DEF Flush
<1>3. held' \in [Traces -> Seq(Record)]
  BY <1>1, EmptySeq DEF Flush
<1>4. CASE held[t] = <<>>
  <2>1. held' = held /\ batches' = batches
    BY <1>1, <1>4 DEF Flush
  <2>2. OnceInMemory' /\ OnceInFile' /\ Kept' /\ AllFine'
    BY <2>1, NothingMoves
  <2> QED BY <1>1, <1>2, <2>1, <2>2
<1>5. CASE held[t] # <<>>
  <2> DEFINE s == Snapshot(t, n)
             b == [recs |-> s, deferred |-> TRUE]
  <2>1. /\ s \in Seq(Record) /\ Nums(s) = Nums(held[t]) /\ Single(s) /\ s # <<>>
        /\ \A i \in DOMAIN s : Fine(s[i], Over', final')
    <3>1. held[t] \in Seq(Record) /\ Single(held[t])
      BY <1>1 DEF IInv, OnceInMemory
    <3>2. \A i \in DOMAIN held[t] : held[t][i].trace = t
      BY DEF IInv, Traced
    <3> QED BY <1>5, <3>1, <3>2, SnapshotLines DEF Fine
  <2>2. batches' = batches \cup {b}
    BY <1>5 DEF Flush
  <2> HIDE DEF s
  <2>3. b \in Batch /\ b.recs = s
    BY <2>1 DEF Batch
  <2> HIDE DEF b
  <2>4. \E m : m \in Nums(s)
    <3>1. DOMAIN s = 1..Len(s) /\ Len(s) \in Nat /\ Len(s) # 0
      BY <2>1, EmptySeq, LenProperties
    <3>2. 1 \in DOMAIN s
      BY <3>1
    <3>3. s[1] \in Record
      BY <2>1, <3>2
    <3>4. s[1].seq \in Seqs(s) /\ s[1].seq # 0
      BY <3>2, <3>3, LineFacts DEF Seqs
    <3> QED BY <3>4 DEF Nums
  <2>5. Nums(b.recs) \cap Nums(file) = {} /\ \A c \in InHand : Nums(b.recs) \cap Nums(c.recs) = {}
    BY <2>1, <2>3 DEF IInv, OnceInMemory, OnceInFile
  <2>6. InHand' = InHand \cup {b} /\ b \notin InHand
    <3>1. b \notin InHand
      BY <2>3, <2>4, <2>5
    <3> QED BY <2>2, <3>1 DEF InHand
  <2>7. \A u \in Traces : Nums(held'[u]) = IF u = t THEN {} ELSE Nums(held[u])
    BY <1>2, NoLines
  <2>8. OnceInMemory'
    <3>1. \A u \in Traces : Single(held'[u]) /\ Nums(held'[u]) \subseteq 1..made'
      BY <1>2, <2>7, NoLines DEF IInv, OnceInMemory
    <3>2. \A c \in InHand' : Single(c.recs) /\ Nums(c.recs) \subseteq 1..made'
      BY <2>1, <2>3, <2>6 DEF IInv, OnceInMemory
    <3>3. \A u, v \in Traces : u # v => Nums(held'[u]) \cap Nums(held'[v]) = {}
      BY <2>7 DEF IInv, OnceInMemory
    <3>4. \A c, d \in InHand' : c # d => Nums(c.recs) \cap Nums(d.recs) = {}
      BY <2>5, <2>6 DEF IInv, OnceInMemory
    <3>5. \A u \in Traces, c \in InHand' : Nums(held'[u]) \cap Nums(c.recs) = {}
      BY <2>1, <2>3, <2>6, <2>7 DEF IInv, OnceInMemory
    <3>6. appending' \notin batches' /\ \A c \in batches' : c.recs # <<>>
      BY <2>1, <2>2, <2>3, <2>6 DEF IInv, OnceInMemory, InHand
    <3> QED BY <3>1, <3>2, <3>3, <3>4, <3>5, <3>6 DEF OnceInMemory
  <2>10. OnceInFile'
    BY <2>5, <2>6, <2>7 DEF IInv, OnceInFile
  <2>13. Kept'
    <3>1. \A m \in Nums(held[t]) : m \in Nums(b.recs)
      BY <2>1, <2>3
    <3> QED BY <2>6, <2>7, <3>1 DEF IInv, Kept
  <2>11. AllFine'
    BY <2>1, <2>3, <2>6, FineStays DEF IInv, AllFine
  <2>12. batches' \subseteq Batch
    BY <1>1, <2>2, <2>3
  <2> QED BY <1>2, <1>3, <2>8, <2>10, <2>11, <2>12, <2>13
<1> QED BY <1>4, <1>5

\* The lock is granted to a batch.
LEMMA TakeMoves ==
  ASSUME IInv, NEW b, TakeLock(b)
  PROVE  /\ OnceInMemory' /\ OnceInFile' /\ Kept' /\ AllFine'
         /\ appending' \in Batch /\ appending'.recs # <<>>
<1>1. appending = NoBatch /\ b \in batches /\ appending' = b /\ batches' = batches \ {b}
  BY DEF TakeLock, IInv, Locked
<1>2. UNCHANGED <<held, file, made, lost>>
  BY DEF TakeLock
<1>3. InHand = InHand' \cup {NoBatch} /\ b \in InHand
  BY <1>1 DEF InHand
<1>4. OnceInMemory'
  BY <1>1, <1>2, <1>3 DEF IInv, OnceInMemory
<1>5. Nums(NoBatch.recs) = {}
  BY NoLines, NothingInHand
<1>6. OnceInFile'
  BY <1>2, <1>3 DEF IInv, OnceInFile
<1>8. Kept'
  BY <1>2, <1>3, <1>5 DEF IInv, Kept
<1>7. AllFine'
  <2>1. Steady
    BY SteadyStages DEF TakeLock
  <2> QED BY <1>2, <1>3, <2>1, FineStays DEF IInv, AllFine
<1> QED BY <1>1, <1>4, <1>6, <1>7, <1>8 DEF IInv, TypeOK, OnceInMemory

\* A batch leaves memory, and nothing else of it changes.
LEMMA HandedOver ==
  ASSUME IInv, Steady, NEW b \in InHand, UNCHANGED <<held, made>>,
         InHand \ {b} \subseteq InHand', InHand' \subseteq (InHand \ {b}) \cup {NoBatch},
         batches' \subseteq batches, appending' \notin batches'
  PROVE  /\ OnceInMemory'
         /\ \A c \in InHand' : \A i \in DOMAIN c.recs : Fine(c.recs[i], Over', final')
         /\ \A n \in 1..made : \/ \E t \in Traces : n \in Nums(held[t])
                               \/ \E c \in InHand' : n \in Nums(c.recs)
                               \/ n \in Nums(b.recs) \/ n \in Nums(file) \/ n \in lost
<1>1. /\ NoBatch.recs = <<>> /\ Nums(NoBatch.recs) = {} /\ Single(NoBatch.recs)
      /\ DOMAIN NoBatch.recs = {}
  BY NoLines, NothingInHand
<1>2. \A c \in InHand' : (c \in InHand /\ c # b) \/ c = NoBatch
  OBVIOUS
<1>3. OnceInMemory'
  <2>1. \A c \in InHand' : Single(c.recs) /\ Nums(c.recs) \subseteq 1..made'
    BY <1>1, <1>2 DEF IInv, OnceInMemory
  <2>2. \A c, d \in InHand' : c # d => Nums(c.recs) \cap Nums(d.recs) = {}
    BY <1>1, <1>2 DEF IInv, OnceInMemory
  <2>3. \A t \in Traces, c \in InHand' : Nums(held[t]) \cap Nums(c.recs) = {}
    BY <1>1, <1>2 DEF IInv, OnceInMemory
  <2> QED BY <2>1, <2>2, <2>3 DEF IInv, OnceInMemory
<1>4. \A c \in InHand' : \A i \in DOMAIN c.recs : Fine(c.recs[i], Over', final')
  BY <1>1, <1>2, FineStays DEF IInv, AllFine
<1>5. \A n \in 1..made : \/ \E t \in Traces : n \in Nums(held[t])
                         \/ \E c \in InHand' : n \in Nums(c.recs)
                         \/ n \in Nums(b.recs) \/ n \in Nums(file) \/ n \in lost
  BY DEF IInv, Kept
<1> QED BY <1>3, <1>4, <1>5

\* What the file spoils are numbers of records.
LEMMA GluedNumbers ==
  ASSUME file \in Seq(Line), dangling => file # <<>>, NEW rs \in Seq(Line)
  PROVE  Glued(rs) \subseteq 1..MaxRecords
<1>1. ASSUME dangling, rs # <<>>
      PROVE  file[Len(file)] \in Line /\ rs[1] \in Line
  <2>1. /\ Len(file) \in Nat /\ Len(file) # 0 /\ DOMAIN file = 1..Len(file)
        /\ Len(rs) \in Nat /\ Len(rs) # 0 /\ DOMAIN rs = 1..Len(rs)
    BY <1>1, EmptySeq, LenProperties
  <2>2. Len(file) \in DOMAIN file /\ 1 \in DOMAIN rs
    BY <2>1
  <2> QED BY <2>2, ElementOfSeq, <2>1
<1>2. \A l \in Line : l.seq # 0 => l.seq \in 1..MaxRecords
  BY LineFacts
<1> QED BY <1>1, <1>2 DEF Glued

\* The batch that holds the lock is in the file, line by line.
LEMMA AppendMoves ==
  ASSUME IInv, AppendAll
  PROVE  /\ OnceInMemory' /\ OnceInFile' /\ Kept' /\ AllFine'
         /\ file' \in Seq(Line) /\ lost' \subseteq 1..MaxRecords
<1> DEFINE rs == appending.recs
<1>1. /\ rs \in Seq(Record) /\ rs \in Seq(Line) /\ rs # <<>> /\ file \in Seq(Line)
      /\ dangling => file # <<>>
  <2>1. rs \in Seq(Record)
    BY DEF IInv, TypeOK, Batch
  <2> QED BY <2>1, RecordsAreLines DEF AppendAll, IInv, TypeOK, Locked
<1>2. appending \in InHand
  BY DEF InHand
<1>3. Single(rs) /\ Single(file) /\ Nums(file) \cap Nums(rs) = {}
  BY <1>2 DEF IInv, OnceInMemory, OnceInFile
<1>4. /\ Appended(rs) \in Seq(Line) /\ Single(Appended(rs))
      /\ Nums(Appended(rs)) \subseteq Nums(file) \cup Nums(rs)
      /\ Nums(file) \cup Nums(rs) \subseteq Nums(Appended(rs)) \cup Glued(rs)
      /\ \A i \in DOMAIN Appended(rs) : \/ Appended(rs)[i] = Torn
                                        \/ \E j \in DOMAIN file : Appended(rs)[i] = file[j]
                                        \/ \E j \in DOMAIN rs : Appended(rs)[i] = rs[j]
  BY <1>1, <1>3, AppendedLines
<1>5. /\ file' = Appended(rs) /\ lost' = lost \cup Glued(rs) /\ appending' = NoBatch
      /\ UNCHANGED <<held, batches, made>>
  BY DEF AppendAll
<1> HIDE DEF rs
<1>6. /\ InHand' \subseteq (InHand \ {appending}) \cup {NoBatch}
      /\ InHand \ {appending} \subseteq InHand'
      /\ appending' \notin batches' /\ batches' \subseteq batches
  <2>1. appending \notin batches /\ NoBatch \notin batches
    BY NothingInHand DEF IInv, OnceInMemory
  <2> QED BY <1>5, <2>1 DEF InHand
<1>7. /\ OnceInMemory'
      /\ \A c \in InHand' : \A i \in DOMAIN c.recs : Fine(c.recs[i], Over', final')
      /\ \A n \in 1..made : \/ \E t \in Traces : n \in Nums(held[t])
                            \/ \E c \in InHand' : n \in Nums(c.recs)
                            \/ n \in Nums(appending.recs) \/ n \in Nums(file) \/ n \in lost
  <2>1. Steady
    BY SteadyStages DEF AppendAll
  <2> QED BY <1>2, <1>5, <1>6, <2>1, HandedOver
<1>8. OnceInFile'
  <2>1. Nums(rs) \subseteq 1..made /\ Nums(file) \subseteq 1..made
    BY <1>2 DEF IInv, OnceInMemory, OnceInFile, rs
  <2>2. \A t \in Traces : Nums(held[t]) \cap (Nums(file) \cup Nums(rs)) = {}
    BY <1>2 DEF IInv, OnceInMemory, OnceInFile, rs
  <2>3. \A c \in InHand' : Nums(c.recs) \cap (Nums(file) \cup Nums(rs)) = {}
    <3>1. Nums(NoBatch.recs) = {}
      BY NoLines, NothingInHand
    <3> QED BY <1>2, <1>6, <3>1 DEF IInv, OnceInMemory, OnceInFile, rs
  <2> QED BY <1>4, <1>5, <2>1, <2>2, <2>3 DEF OnceInFile
<1>9. Kept'
  BY <1>4, <1>5, <1>7 DEF Kept, rs
<1>10. AllFine'
  <2>1. Steady
    BY SteadyStages DEF AppendAll
  <2>2. /\ \A i \in DOMAIN rs : Fine(rs[i], Over', final')
        /\ \A i \in DOMAIN file : file[i] = Torn \/ Fine(file[i], Over', final')
    BY <1>2, <2>1, FineStays DEF IInv, AllFine, rs
  <2> QED BY <1>4, <1>5, <1>7, <2>2 DEF AllFine
<1>11. lost' \subseteq 1..MaxRecords
  BY <1>1, <1>5, GluedNumbers DEF IInv, TypeOK
<1> QED BY <1>4, <1>5, <1>7, <1>8, <1>9, <1>10, <1>11

\* The process is dead: nothing is in memory.
LEMMA DeadMemory ==
  ASSUME IInv, Die, deaths < MaxDeaths
  PROVE  /\ OnceInMemory' /\ Traced' /\ InHand' = {NoBatch}
         /\ \A t \in Traces : held'[t] = <<>>
         /\ up' \in BOOLEAN /\ deaths' \in 0..MaxDeaths
         /\ stage' \in Stages
         /\ buffer' \in [Traces -> {"absent", "open", "closed"}]
         /\ entries' \in Counts /\ final' \in Counts /\ Steady
         /\ made' = made /\ held' \in [Traces -> Seq(Record)] /\ timer' \subseteq Traces
         /\ batches' \subseteq Batch /\ appending' = NoBatch /\ appending' \in Batch
         /\ lock' \in {"free", "stale"} /\ sweep' \in Seq(Record)
         /\ Nums(NoBatch.recs) = {} /\ DOMAIN NoBatch.recs = {} /\ Nums(<<>>) = {}
<1>1. /\ NoBatch.recs = <<>> /\ Nums(NoBatch.recs) = {} /\ Single(NoBatch.recs)
      /\ DOMAIN NoBatch.recs = {} /\ NoBatch \in Batch /\ Nums(<<>>) = {} /\ Single(<<>>)
  BY NoLines, NothingInHand
<1>2. batches' = {} /\ appending' = NoBatch /\ InHand' = {NoBatch} /\ timer' = {}
      /\ made' = made /\ up' = FALSE /\ deaths' = deaths + 1
      /\ lock' \in {"free", "stale"}
  BY DEF Die, InHand
<1>3. held' = [t \in Traces |-> <<>>] /\ \A t \in Traces : held'[t] = <<>>
  BY DEF Die
<1>4. held' \in [Traces -> Seq(Record)] /\ sweep' \in Seq(Record)
  BY <1>3, EmptySeq DEF Die
<1>5. deaths' \in 0..MaxDeaths
  BY <1>2 DEF IInv, TypeOK
<1>6. /\ stage' \in Stages
      /\ buffer' \in [Traces -> {"absent", "open", "closed"}]
  BY DEF Die
<1>9. entries' \in Counts /\ final' \in Counts
  BY DEF Die, IInv, TypeOK
<1>10. Steady
  BY DEF Die, Steady, Over, IInv, TypeOK
<1>7. OnceInMemory'
  BY <1>1, <1>2, <1>3 DEF OnceInMemory
<1>8. Traced'
  <2>1. \A t \in Traces : held'[t] = <<>> /\ DOMAIN held'[t] = {}
    BY <1>3
  <2>2. \A t \in Traces : stage'[t] \notin {"running"} /\ (stage'[t] # "dead" => stage'[t] = "new")
    BY DEF Die
  <2>3. \A t \in Traces : stage[t] = "new" => final[t] = 0
    BY DEF IInv, Traced
  <2>4. \A t \in Traces : stage'[t] = "new" => final'[t] = 0 /\ entries'[t] = 0
    BY <2>3 DEF Die
  <2> QED BY <1>2, <2>1, <2>2, <2>4 DEF Traced
<1> QED BY <1>1, <1>2, <1>3, <1>4, <1>5, <1>6, <1>7, <1>8, <1>9, <1>10

LEMMA RecordsInMemory ==
  ASSUME TypeOK
  PROVE  \A r \in InMemory : r.seq \in 1..MaxRecords
<1>1. \A b \in InHand : b.recs \in Seq(Record)
  BY DEF InHand, TypeOK, Batch
<1>2. \A t \in Traces : held[t] \in Seq(Record)
  BY DEF TypeOK
<1>3. \A s \in Seq(Record) : \A r \in RecordsIn(s) : r \in Record
  BY LenProperties, ElementOfSeq DEF RecordsIn
<1>4. \A r \in InMemory : \/ \E b \in InHand : r \in RecordsIn(b.recs)
                          \/ \E t \in Traces : r \in RecordsIn(held[t])
  BY DEF InMemory, InHand
<1> QED BY <1>1, <1>2, <1>3, <1>4, LineFacts

\* A death between two writes: what was in memory is given up.
LEMMA DeathLoses ==
  ASSUME IInv, Die, deaths < MaxDeaths, UNCHANGED <<file, dangling>>,
         lost' = lost \cup {r.seq : r \in InMemory}
  PROVE  OnceInFile' /\ Kept' /\ AllFine' /\ lost' \subseteq 1..MaxRecords
<1>1. OnceInFile'
  BY DeadMemory DEF IInv, OnceInFile
<1>2. Kept'
  <2>1. \A n \in 1..made : \/ \E r \in InMemory : r.seq = n
                           \/ n \in Nums(file) \/ n \in lost
    BY InMemoryNumbers DEF IInv, Kept
  <2> QED BY <2>1, DeadMemory DEF Kept
<1>3. AllFine'
  BY DeadMemory, FineStays DEF IInv, AllFine
<1>4. lost' \subseteq 1..MaxRecords
  <2>1. TypeOK
    BY DEF IInv
  <2>2. lost \subseteq 1..MaxRecords /\ \A r \in InMemory : r.seq \in 1..MaxRecords
    BY <2>1, RecordsInMemory DEF TypeOK
  <2> QED BY <2>2
<1> QED BY <1>1, <1>2, <1>3, <1>4

\* A death in the middle of an append: the lines that are out are in the file.
LEMMA DeathTears ==
  ASSUME IInv, Die, deaths < MaxDeaths, lock = "append",
         NEW k \in 1..Len(appending.recs), NEW last \in {Torn, appending.recs[k]},
         NEW out, out = Cut(appending.recs, k, last),
         file' = Appended(out),
         lost' = lost \cup Glued(out) \cup ({r.seq : r \in InMemory} \ Seqs(out))
  PROVE  /\ OnceInFile' /\ Kept' /\ AllFine' /\ lost' \subseteq 1..MaxRecords
         /\ file' \in Seq(Line) /\ file' # <<>>
<1> DEFINE rs == appending.recs
<1>1. rs \in Seq(Record) /\ file \in Seq(Line) /\ (dangling => file # <<>>)
  BY DEF IInv, TypeOK, Batch, Locked
<1>2. appending \in InHand
  BY DEF InHand
<1>3. /\ Single(rs) /\ Single(file) /\ Nums(file) \cap Nums(rs) = {}
      /\ Nums(rs) \subseteq 1..made /\ Nums(file) \subseteq 1..made
      /\ \A i \in DOMAIN rs : Fine(rs[i], Over', final')
      /\ \A i \in DOMAIN file : file[i] = Torn \/ Fine(file[i], Over', final')
  BY <1>2, DeadMemory, FineStays DEF IInv, OnceInMemory, OnceInFile, AllFine
<1>4. /\ out \in Seq(Line) /\ out # <<>> /\ Nums(out) \subseteq Nums(rs) /\ Single(out)
      /\ \A i \in DOMAIN out : out[i] = Torn \/ \E j \in DOMAIN rs : out[i] = rs[j]
  <2>1. k \in 1..Len(rs) /\ last \in {Torn, rs[k]} /\ out = Cut(rs, k, last)
    OBVIOUS
  <2> HIDE DEF rs
  <2>2. rs \in Seq(Record) /\ Single(rs)
    BY <1>1, <1>3
  <2>3. out \in Seq(Line) /\ out # <<>> /\ Nums(out) \subseteq Nums(rs) /\ Single(out)
    BY <2>1, <2>2, TornLines
  <2>4. \A i \in DOMAIN Cut(rs, k, last) :
          Cut(rs, k, last)[i] = Torn \/ \E j \in DOMAIN rs : Cut(rs, k, last)[i] = rs[j]
    <3>1. rs \in Seq(Record) /\ k \in 1..Len(rs) /\ last \in {Torn, rs[k]}
      BY <2>1, <2>2
    <3> QED BY <3>1, TornLines, Zenon
  <2> QED BY <2>1, <2>3, <2>4
<1> HIDE DEF rs
<1>5. /\ Appended(out) \in Seq(Line) /\ Appended(out) # <<>> /\ Single(Appended(out))
      /\ Nums(Appended(out)) \subseteq Nums(file) \cup Nums(out)
      /\ Nums(file) \cup Nums(out) \subseteq Nums(Appended(out)) \cup Glued(out)
      /\ \A i \in DOMAIN Appended(out) :
           \/ Appended(out)[i] = Torn
           \/ \E j \in DOMAIN file : Appended(out)[i] = file[j]
           \/ \E j \in DOMAIN out : Appended(out)[i] = out[j]
  <2>1. Nums(file) \cap Nums(out) = {}
    BY <1>3, <1>4
  <2> QED BY <1>1, <1>3, <1>4, <2>1, AppendedLines
<1>6. OnceInFile'
  BY <1>3, <1>4, <1>5, DeadMemory DEF OnceInFile
<1>7. Kept'
  <2>1. \A n \in 1..made : \/ \E r \in InMemory : r.seq = n
                           \/ n \in Nums(file) \/ n \in lost
    BY InMemoryNumbers DEF IInv, Kept
  <2>2. \A n \in 1..made : n # 0
    BY DEF IInv, TypeOK
  <2>3. \A n \in 1..made : n \in Seqs(out) => n \in Nums(out)
    BY <2>2 DEF Nums
  <2> QED BY <1>5, <2>1, <2>3, DeadMemory DEF Kept
<1>8. AllFine'
  <2>1. \A i \in DOMAIN out : out[i] = Torn \/ Fine(out[i], Over', final')
    BY <1>3, <1>4
  <2>2. \A i \in DOMAIN file' : file'[i] = Torn \/ Fine(file'[i], Over', final')
    <3>1. SUFFICES ASSUME NEW i \in DOMAIN Appended(out)
                   PROVE  Appended(out)[i] = Torn \/ Fine(Appended(out)[i], Over', final')
      OBVIOUS
    <3>2. CASE \E j \in DOMAIN file : Appended(out)[i] = file[j]
      BY <1>3, <3>2
    <3>3. CASE \E j \in DOMAIN out : Appended(out)[i] = out[j]
      BY <2>1, <3>3
    <3> QED BY <1>5, <3>2, <3>3
  <2>3. \A b \in InHand' : DOMAIN b.recs = {}
    BY DeadMemory
  <2> QED BY <2>2, <2>3 DEF AllFine
<1>9. lost' \subseteq 1..MaxRecords
  <2>0. TypeOK
    BY DEF IInv
  <2>1. file \in Seq(Line) /\ (dangling => file # <<>>) /\ lost \subseteq 1..MaxRecords
    BY <1>1, <2>0 DEF TypeOK
  <2>2. Glued(out) \subseteq 1..MaxRecords
    BY <1>4, <2>1, GluedNumbers
  <2>3. \A r \in InMemory : r.seq \in 1..MaxRecords
    BY <2>0, RecordsInMemory
  <2>4. lost' = lost \cup Glued(out) \cup ({r.seq : r \in InMemory} \ Seqs(out))
    BY <1>1
  <2> QED BY <2>1, <2>2, <2>3, <2>4
<1> QED BY <1>5, <1>6, <1>7, <1>8, <1>9

\* The sweep writes some of the lines it has read; the others it gives up.
LEMMA SweepMoves ==
  ASSUME IInv, NEW cutoff, NEW n, SweepWrites(cutoff, n)
  PROVE  /\ OnceInMemory' /\ OnceInFile' /\ Kept' /\ AllFine'
         /\ file' \in Seq(Line) /\ lost' \subseteq 1..MaxRecords
         /\ dangling' => file' # <<>>
<1> DEFINE young == {i \in DOMAIN sweep : sweep[i].seq > cutoff}
           kept  == {i \in young : Cardinality(Before(i, young)) >= n}
<1>1. kept \in SUBSET DOMAIN sweep
  OBVIOUS
<1>2. /\ lock = "sweep" /\ UNCHANGED <<held, batches, appending, made>>
      /\ IF kept = DOMAIN sweep THEN UNCHANGED <<file, dangling, lost>>
         ELSE /\ file' = Picked(sweep, kept) /\ dangling' = FALSE
              /\ lost' = lost \cup (Seqs(sweep) \ {sweep[i].seq : i \in kept})
  BY DEF SweepWrites
<1>s. Steady
  BY SteadyStages DEF SweepWrites
<1> HIDE DEF young, kept
<1>3. CASE kept = DOMAIN sweep
  <2>1. UNCHANGED <<file, dangling, lost>>
    BY <1>2, <1>3
  <2>2. OnceInMemory' /\ OnceInFile' /\ Kept' /\ AllFine'
    BY <1>2, <1>s, <2>1, NothingMoves
  <2> QED BY <2>1, <2>2 DEF IInv, TypeOK, Locked
<1>4. CASE kept # DOMAIN sweep
  <2>1. /\ file' = Picked(sweep, kept) /\ dangling' = FALSE
        /\ lost' = lost \cup (Seqs(sweep) \ {sweep[i].seq : i \in kept})
    BY <1>2, <1>4
  <2>2. /\ sweep \in Seq(Record) /\ Nums(sweep) = Nums(file) /\ Single(sweep)
        /\ \A i \in DOMAIN sweep : i \in DOMAIN file /\ sweep[i] = file[i]
    <3>1. file \in Seq(Line) /\ Readable /\ sweep = Parsed /\ Single(file)
      BY <1>2 DEF IInv, TypeOK, Locked, OnceInFile
    <3> QED BY <3>1, ParsedLines
  <2>3. /\ file' \in Seq(Record) /\ Seqs(file') = {sweep[i].seq : i \in kept} /\ Single(file')
        /\ \A k \in DOMAIN file' : \E i \in DOMAIN sweep : file'[k] = sweep[i]
    BY <1>1, <2>1, <2>2, PickedLines
  <2>4. {sweep[i].seq : i \in kept} \subseteq Seqs(sweep)
    BY <1>1 DEF Seqs
  <2>5. Nums(file') \subseteq Nums(file)
    BY <2>2, <2>3, <2>4 DEF Nums
  <2>6. InHand' = InHand
    BY <1>2 DEF InHand
  <2>7. OnceInMemory'
    BY <1>2, <2>6 DEF IInv, OnceInMemory
  <2>8. OnceInFile'
    BY <1>2, <2>3, <2>5, <2>6 DEF IInv, OnceInFile
  <2>9. Kept'
    <3>1. \A m \in Nums(file) : m \in Nums(file') \/ m \in lost'
      BY <2>1, <2>2, <2>3 DEF Nums
    <3> QED BY <1>2, <2>1, <2>6, <3>1 DEF IInv, Kept
  <2>10. AllFine'
    BY <1>2, <1>s, <2>2, <2>3, <2>6, FineStays DEF IInv, AllFine
  <2>11. lost' \subseteq 1..MaxRecords
    <3>1. Seqs(sweep) \subseteq 1..MaxRecords
      BY <2>2, LineFacts, ElementOfSeq, LenProperties DEF Seqs
    <3> QED BY <2>1, <3>1 DEF IInv, TypeOK
  <2> QED BY <2>1, <2>3, <2>7, <2>8, <2>9, <2>10, <2>11, RecordsAreLines
<1> QED BY <1>3, <1>4

-----------------------------------------------------------------------------
(* One step lemma per action.                                               *)

LEMMA InitIInv == Init => IInv
<1> SUFFICES ASSUME Init PROVE IInv
  OBVIOUS
<1>1. /\ \A t \in Traces : held[t] = <<>>
      /\ made = 0 /\ batches = {} /\ appending = NoBatch /\ file = <<>> /\ timer = {}
      /\ lock = "free" /\ dangling = FALSE /\ lost = {}
  BY DEF Init
<1>2. NoBatch \in Batch /\ NoBatch.recs = <<>> /\ Nums(<<>>) = {} /\ Single(<<>>)
  BY NoLines, NothingInHand
<1>3. InHand = {NoBatch} /\ 1..made = {}
  BY <1>1 DEF InHand
<1>4. TypeOK
  <2>1. held \in [Traces -> Seq(Record)] /\ sweep \in Seq(Record) /\ file \in Seq(Line)
    BY EmptySeq DEF Init
  <2>2. /\ stage \in Stages
        /\ buffer \in [Traces -> {"absent", "open", "closed"}]
        /\ entries \in Counts /\ final \in Counts
    BY DEF Init
  <2>3. up \in BOOLEAN /\ deaths \in 0..MaxDeaths /\ made \in 0..MaxRecords
    BY DEF Init
  <2> QED BY <1>1, <1>2, <2>1, <2>2, <2>3 DEF TypeOK
<1>5. Locked
  BY <1>1 DEF Locked
<1>6. OnceInMemory
  BY <1>1, <1>2, <1>3 DEF OnceInMemory
<1>7. OnceInFile
  BY <1>1, <1>2, <1>3 DEF OnceInFile
<1>8. Kept
  BY <1>3 DEF Kept
<1>9. Traced
  <2>1. \A t \in Traces : /\ stage[t] = "new" /\ final[t] = 0 /\ entries[t] = 0
                          /\ DOMAIN held[t] = {}
    BY <1>1 DEF Init
  <2> QED BY <1>1, <2>1 DEF Traced
<1>10. AllFine
  BY <1>1, <1>2, <1>3 DEF AllFine
<1> QED BY <1>4, <1>5, <1>6, <1>7, <1>8, <1>9, <1>10 DEF IInv

LEMMA OpenStep ==
  ASSUME IInv, NEW t \in Traces, NEW aged \in SUBSET Traces, Open(t, aged)
  PROVE  IInv'
<1>1. /\ UNCHANGED <<up, deaths, entries, final, made, held, timer, batches, lock, appending,
                     sweep, file, dangling, lost>>
      /\ stage[t] = "new" /\ stage' = [stage EXCEPT ![t] = "running"]
      /\ \A u \in Traces : buffer'[u] = IF u = t THEN "open"
                                        ELSE IF u \in aged THEN "absent" ELSE buffer[u]
      /\ \A u \in aged : u \in Slow \/ stage[u] # "running"
  BY DEF Open
<1>2. \A u \in Traces : stage'[u] = IF u = t THEN "running" ELSE stage[u]
  BY <1>1 DEF IInv, TypeOK
<1>3. Steady
  BY <1>1, <1>2 DEF Steady, Over
<1>4. OnceInMemory' /\ OnceInFile' /\ Kept' /\ AllFine'
  BY <1>1, <1>3, NothingMoves
<1>5. TypeOK'
  BY <1>1 DEF Open, IInv, TypeOK
<1>6. Locked'
  BY <1>1 DEF IInv, Locked, Readable, Parsed
<1>7. Traced'
  <2>1. timer \subseteq Traces
    BY DEF IInv, TypeOK
  <2> QED BY <1>1, <1>2, <2>1 DEF IInv, Traced
<1> QED BY <1>4, <1>5, <1>6, <1>7 DEF IInv

LEMMA PublishStep ==
  ASSUME IInv, NEW t \in Traces, Publish(t)
  PROVE  IInv'
<1>1. /\ UNCHANGED <<up, deaths, stage, buffer, final, made, held, timer, batches, lock,
                     appending, sweep, file, dangling, lost>>
      /\ entries[t] < MaxEntries /\ entries' = [entries EXCEPT ![t] = @ + 1]
  BY DEF Publish
<1>2. /\ entries \in Counts /\ final \in Counts
      /\ \A u \in Traces : entries'[u] = IF u = t THEN entries[u] + 1 ELSE entries[u]
  BY <1>1 DEF IInv, TypeOK
<1>3. OnceInMemory' /\ OnceInFile' /\ Kept' /\ AllFine'
  BY <1>1, SteadyStages, NothingMoves
<1>4. TypeOK'
  <2>1. entries' \in Counts
    BY <1>1, <1>2
  <2> QED BY <1>1, <2>1 DEF IInv, TypeOK
<1>5. Locked'
  BY <1>1 DEF IInv, Locked, Readable, Parsed
<1>6. Traced'
  <2>1. \A u \in Traces : final[u] \in Nat /\ entries[u] \in Nat /\ entries[u] <= entries'[u]
    BY <1>2
  <2> QED BY <1>1, <2>1 DEF IInv, Traced
<1> QED BY <1>3, <1>4, <1>5, <1>6 DEF IInv

LEMMA TrackStep ==
  ASSUME IInv, NEW t \in Traces, Track(t)
  PROVE  IInv'
<1> DEFINE r == [trace |-> t, seq |-> made + 1, entries |-> Buffered(t)]
<1>1. /\ UNCHANGED <<up, deaths, stage, buffer, entries, final, lock, appending, sweep, file, dangling, lost>>
      /\ made' = made + 1 /\ made < MaxRecords /\ Under(t)
      /\ buffer[t] = "absent" => t \in Slow
      /\ buffer[t] = "open" =>
           /\ held' = [held EXCEPT ![t] = Append(held[t], r)]
           /\ timer' = IF held[t] = <<>> THEN timer \cup {t} ELSE timer
           /\ batches' = batches
      /\ buffer[t] # "open" =>
           /\ batches' = batches \cup {[recs |-> <<r>>, deferred |-> FALSE]}
           /\ UNCHANGED <<held, timer>>
  BY DEF Track
<1>2. made \in Nat /\ made + 1 \in 1..MaxRecords
      /\ held \in [Traces -> Seq(Record)] /\ timer \subseteq Traces /\ batches \subseteq Batch
      /\ buffer[t] \in {"absent", "open", "closed"} /\ Buffered(t) \in 0..(MaxEntries + 1)
  BY <1>1 DEF IInv, TypeOK, Buffered
<1>3. r \in Record /\ r.seq = made + 1 /\ r.trace = t /\ r.entries = Buffered(t)
  BY <1>2 DEF Record
<1>s. Steady
  BY <1>1, SteadyStages
<1> HIDE DEF r
<1>4. Locked'
  BY <1>1 DEF IInv, Locked, Readable, Parsed
<1>5. CASE buffer[t] = "open"
  <2>1. OnceInMemory' /\ OnceInFile' /\ Kept' /\ AllFine'
    BY <1>1, <1>3, <1>5, <1>s, NewIsHeld
  <2>2. /\ held'[t] \in Seq(Record) /\ Len(held'[t]) = Len(held[t]) + 1
        /\ held'[t][Len(held[t]) + 1] = r /\ \A i \in 1..Len(held[t]) : held'[t][i] = held[t][i]
    <3>1. held'[t] = Append(held[t], r) /\ held[t] \in Seq(Record)
      BY <1>1, <1>2, <1>5
    <3> QED BY <1>3, <3>1, AppendProperties
  <2>3. \A u \in Traces : u # t => held'[u] = held[u]
    BY <1>1, <1>2, <1>5
  <2>4. held' \in [Traces -> Seq(Record)]
    BY <1>1, <1>2, <1>5, <2>2, <2>3
  <2>5. timer' = timer \cup {t}
    BY <1>1, <1>5 DEF IInv, Traced
  <2>6. TypeOK'
    BY <1>1, <1>2, <1>5, <2>4, <2>5 DEF IInv, TypeOK
  <2>7. Traced'
    <3>1. \A u \in Traces : held'[u] # <<>> => u \in timer'
      BY <2>3, <2>5 DEF IInv, Traced
    <3>2. \A u \in timer' : stage'[u] \notin {"new", "dead"}
      BY <1>1, <2>5 DEF IInv, Traced, Under
    <3>3. \A i \in DOMAIN held'[t] : held'[t][i].trace = t
      <4>1. DOMAIN held'[t] = 1..(Len(held[t]) + 1) /\ DOMAIN held[t] = 1..Len(held[t])
            /\ Len(held[t]) \in Nat
        BY <1>2, <2>2, LenProperties
      <4>2. \A i \in DOMAIN held'[t] : i \in DOMAIN held[t] \/ i = Len(held[t]) + 1
        BY <4>1
      <4> QED BY <1>3, <2>2, <4>1, <4>2 DEF IInv, Traced
    <3> QED BY <1>1, <2>3, <3>1, <3>2, <3>3 DEF IInv, Traced
  <2> QED BY <1>4, <2>1, <2>6, <2>7 DEF IInv
<1>6. CASE buffer[t] # "open"
  <2>1. Fine(r, Over', final')
    <3>1. t \in Slow \/ (buffer[t] = "closed" /\ stage[t] \in {"ended", "thrown"})
      BY <1>1, <1>2, <1>6 DEF IInv, Traced, Under
    <3>2. CASE buffer[t] = "closed" /\ stage[t] \in {"ended", "thrown"}
      <4>1. final[t] <= r.entries
        BY <1>3, <3>2 DEF IInv, Traced, Buffered
      <4> QED BY <1>1, <1>3, <3>2, <4>1 DEF Fine, Over
    <3> QED BY <1>3, <3>1, <3>2 DEF Fine
  <2>2. OnceInMemory' /\ OnceInFile' /\ Kept' /\ AllFine'
    BY <1>1, <1>3, <1>6, <1>s, <2>1, NewIsSent
  <2>3. [recs |-> <<r>>, deferred |-> FALSE] \in Batch
    BY <1>3 DEF Batch
  <2>4. TypeOK'
    <3>1. batches' \subseteq Batch /\ UNCHANGED <<held, timer>>
      BY <1>1, <1>2, <1>6, <2>3
    <3>2. made' \in 0..MaxRecords
      BY <1>1, <1>2
    <3> QED BY <1>1, <3>1, <3>2 DEF IInv, TypeOK
  <2>5. Traced'
    BY <1>1, <1>6 DEF IInv, Traced
  <2> QED BY <1>4, <2>2, <2>4, <2>5 DEF IInv
<1> QED BY <1>5, <1>6

\* A flush takes what is held, and its timer with it.
LEMMA FlushStep ==
  ASSUME IInv, Steady, NEW t \in Traces, NEW n \in 0..(MaxEntries + 1), Flush(t, n),
         held[t] # <<>> => t \in Slow \/ (t \in Over' /\ final'[t] <= n),
         UNCHANGED <<up, deaths, made, lock, appending, sweep, file, dangling, lost>>,
         stage' \in Stages, buffer' \in [Traces -> {"absent", "open", "closed"}],
         entries' \in Counts, final' \in Counts,
         \A u \in Traces :
           /\ stage'[u] \in {"new", "dead"} => stage'[u] = stage[u]
           /\ stage'[u] = "running" => stage[u] = "running" /\ buffer'[u] = buffer[u]
           /\ stage'[u] # "dead" => final'[u] <= entries'[u]
           /\ stage'[u] \in {"new", "running"} => final'[u] = 0 /\ entries'[u] <= MaxEntries
  PROVE  IInv'
<1>1. /\ OnceInMemory' /\ OnceInFile' /\ Kept' /\ AllFine'
      /\ held' \in [Traces -> Seq(Record)] /\ batches' \subseteq Batch
      /\ \A u \in Traces : held'[u] = IF u = t THEN <<>> ELSE held[u]
  BY FlushMoves
<1>2. timer' = timer \ {t} /\ timer \subseteq Traces
  BY DEF Flush, IInv, TypeOK
<1>3. TypeOK'
  BY <1>1, <1>2 DEF IInv, TypeOK
<1>4. Locked'
  BY DEF IInv, Locked, Readable, Parsed
<1>5. Traced'
  <2>1. \A u \in Traces : held'[u] # <<>> => u # t /\ held'[u] = held[u]
    BY <1>1
  <2>2. \A u \in Traces : held'[u] # <<>> => u \in timer'
    BY <1>2, <2>1 DEF IInv, Traced
  <2>3. \A u \in timer' : stage'[u] \notin {"new", "dead"}
    BY <1>2 DEF IInv, Traced
  <2>4. \A u \in Traces : \A i \in DOMAIN held'[u] : held'[u][i].trace = u
    <3>1. DOMAIN <<>> = {}
      OBVIOUS
    <3> QED BY <1>1, <3>1 DEF IInv, Traced
  <2>5. \A u \in Traces \ Slow : stage'[u] = "running" => buffer'[u] = "open"
    BY DEF IInv, Traced
  <2> QED BY <2>2, <2>3, <2>4, <2>5 DEF Traced
<1> QED BY <1>1, <1>3, <1>4, <1>5 DEF IInv

\* A request that runs no more, and nothing is flushed.
LEMMA OverStep ==
  ASSUME IInv, NEW t \in Traces, stage[t] = "running",
         UNCHANGED <<up, deaths, entries, final, made, held, timer, batches, lock, appending,
                     sweep, file, dangling, lost>>,
         stage' \in Stages, buffer' \in [Traces -> {"absent", "open", "closed"}],
         \A u \in Traces : /\ u = t => stage'[u] \in {"ended", "thrown"}
                           /\ u # t => stage'[u] = stage[u] /\ buffer'[u] = buffer[u]
  PROVE  IInv'
<1>1. Steady
  BY DEF Steady, Over
<1>2. OnceInMemory' /\ OnceInFile' /\ Kept' /\ AllFine'
  BY <1>1, NothingMoves
<1>3. TypeOK'
  BY DEF IInv, TypeOK
<1>4. Locked'
  BY DEF IInv, Locked, Readable, Parsed
<1>5. Traced'
  <2>1. timer \subseteq Traces
    BY DEF IInv, TypeOK
  <2>2. \A u \in Traces : stage'[u] \in {"new", "dead", "running"} => u # t /\ stage'[u] = stage[u]
    OBVIOUS
  <2> QED BY <2>1, <2>2 DEF IInv, Traced
<1> QED BY <1>2, <1>3, <1>4, <1>5 DEF IInv

LEMMA ThrowsStep ==
  ASSUME IInv, NEW t \in Traces, Throws(t)
  PROVE  IInv'
<1>1. /\ UNCHANGED <<up, deaths, buffer, entries, final, made, held, timer, batches, lock,
                     appending, sweep, file, dangling, lost>>
      /\ stage[t] = "running" /\ stage' = [stage EXCEPT ![t] = "thrown"]
  BY DEF Throws
<1>2. stage \in Stages /\ buffer \in [Traces -> {"absent", "open", "closed"}]
  BY DEF IInv, TypeOK
<1> QED BY <1>1, <1>2, OverStep

\* The end of a request: what is held goes with the recap.
LEMMA FinishStep ==
  ASSUME IInv, NEW t \in Traces, Finish(t)
  PROVE  IInv'
<1>1. /\ UNCHANGED <<up, deaths, made, lock, appending, sweep, file, dangling, lost>>
      /\ stage[t] = "running" /\ stage' = [stage EXCEPT ![t] = "ended"]
      /\ buffer' = [buffer EXCEPT ![t] = IF buffer[t] = "open" THEN "closed" ELSE buffer[t]]
  BY DEF Finish
<1>2. /\ stage \in Stages /\ buffer \in [Traces -> {"absent", "open", "closed"}]
      /\ entries \in Counts /\ final \in Counts /\ timer \subseteq Traces
  BY DEF IInv, TypeOK
<1>3. /\ stage' \in Stages /\ buffer' \in [Traces -> {"absent", "open", "closed"}]
      /\ \A u \in Traces : /\ stage'[u] = IF u = t THEN "ended" ELSE stage[u]
                           /\ u # t => buffer'[u] = buffer[u]
  BY <1>1, <1>2
<1>4. CASE Announces(t)
  <2>1. /\ entries' = [entries EXCEPT ![t] = entries[t] + 1]
        /\ final' = [final EXCEPT ![t] = entries[t] + 1]
        /\ Flush(t, entries[t] + 1)
    BY <1>4 DEF Finish
  <2>2. entries[t] + 1 \in 0..(MaxEntries + 1)
    BY <1>1, <1>2, <1>4 DEF IInv, Traced, Announces
  <2>3. /\ entries' \in Counts /\ final' \in Counts
        /\ \A u \in Traces : /\ entries'[u] = IF u = t THEN entries[t] + 1 ELSE entries[u]
                             /\ final'[u] = IF u = t THEN entries[t] + 1 ELSE final[u]
    BY <1>2, <2>1, <2>2
  <2>4. Steady
    BY <1>1, <1>3, <2>3 DEF Steady, Over
  <2>5. t \in Over' /\ final'[t] <= entries[t] + 1
    BY <1>3, <2>2, <2>3 DEF Over
  <2>6. \A u \in Traces :
          /\ stage'[u] \in {"new", "dead"} => stage'[u] = stage[u]
          /\ stage'[u] = "running" => stage[u] = "running" /\ buffer'[u] = buffer[u]
          /\ stage'[u] # "dead" => final'[u] <= entries'[u]
          /\ stage'[u] \in {"new", "running"} => final'[u] = 0 /\ entries'[u] <= MaxEntries
    <3> SUFFICES ASSUME NEW u \in Traces
                 PROVE  /\ stage'[u] \in {"new", "dead"} => stage'[u] = stage[u]
                        /\ stage'[u] = "running" => stage[u] = "running" /\ buffer'[u] = buffer[u]
                        /\ stage'[u] # "dead" => final'[u] <= entries'[u]
                        /\ stage'[u] \in {"new", "running"} =>
                             final'[u] = 0 /\ entries'[u] <= MaxEntries
      OBVIOUS
    <3>1. CASE u = t
      BY <1>3, <2>2, <2>3, <3>1
    <3>2. CASE u # t
      <4>1. /\ stage[u] # "dead" => final[u] <= entries[u]
            /\ stage[u] \in {"new", "running"} => final[u] = 0 /\ entries[u] <= MaxEntries
        BY DEF IInv, Traced
      <4> QED BY <1>3, <2>3, <3>2, <4>1
    <3> QED BY <3>1, <3>2
  <2>7. /\ Steady /\ Flush(t, entries[t] + 1)
        /\ held[t] # <<>> => t \in Slow \/ (t \in Over' /\ final'[t] <= entries[t] + 1)
        /\ entries' \in Counts /\ final' \in Counts
    BY <2>1, <2>3, <2>4, <2>5
  <2> DEFINE n == entries[t] + 1
  <2>8. n \in 0..(MaxEntries + 1)
    BY <2>2
  <2> HIDE DEF n
  <2> QED BY <1>1, <1>3, <2>6, <2>7, <2>8, FlushStep DEF n
<1>5. CASE ~Announces(t)
  <2>1. UNCHANGED <<entries, final, held, timer, batches>>
    BY <1>5 DEF Finish
  <2> QED BY <1>1, <1>3, <2>1, OverStep
<1> QED BY <1>4, <1>5

LEMMA TimerStep ==
  ASSUME IInv, NEW t \in Traces, TimerFires(t)
  PROVE  IInv'
<1>1. /\ t \in timer /\ (stage[t] = "running" => t \in Slow) /\ Flush(t, entries[t])
      /\ UNCHANGED <<up, deaths, stage, buffer, entries, final, made, lock, appending, sweep,
                     file, dangling, lost>>
  BY DEF TimerFires
<1>2. /\ stage \in Stages /\ buffer \in [Traces -> {"absent", "open", "closed"}]
      /\ entries \in Counts /\ final \in Counts /\ entries[t] \in 0..(MaxEntries + 1)
  BY DEF IInv, TypeOK
<1>3. Steady
  BY <1>1, SteadyStages
<1>4. t \in Slow \/ (t \in Over' /\ final'[t] <= entries[t])
  BY <1>1 DEF IInv, Traced, Over
<1>5. \A u \in Traces : /\ stage[u] # "dead" => final[u] <= entries[u]
                        /\ stage[u] \in {"new", "running"} =>
                             final[u] = 0 /\ entries[u] <= MaxEntries
  BY DEF IInv, Traced
<1> QED BY <1>1, <1>2, <1>3, <1>4, <1>5, FlushStep

LEMMA TakeStep ==
  ASSUME IInv, NEW b \in batches, TakeLock(b)
  PROVE  IInv'
<1>1. /\ UNCHANGED <<up, deaths, stage, buffer, entries, final, made, held, timer, sweep, file, dangling, lost>>
      /\ lock' = "append" /\ batches' \subseteq batches
  BY DEF TakeLock
<1>2. /\ OnceInMemory' /\ OnceInFile' /\ Kept' /\ AllFine'
      /\ appending' \in Batch /\ appending'.recs # <<>>
  BY TakeMoves
<1>3. TypeOK'
  BY <1>1, <1>2 DEF IInv, TypeOK
<1>4. Locked'
  BY <1>1, <1>2 DEF IInv, Locked
<1>5. Traced'
  BY <1>1 DEF IInv, Traced
<1> QED BY <1>2, <1>3, <1>4, <1>5 DEF IInv

LEMMA AppendStep ==
  ASSUME IInv, AppendAll
  PROVE  IInv'
<1>1. /\ UNCHANGED <<up, deaths, stage, buffer, entries, final, made, held, timer, batches, sweep>>
      /\ lock' = "free" /\ appending' = NoBatch /\ dangling' = FALSE
  BY DEF AppendAll
<1>2. /\ OnceInMemory' /\ OnceInFile' /\ Kept' /\ AllFine'
      /\ file' \in Seq(Line) /\ lost' \subseteq 1..MaxRecords
  BY AppendMoves
<1>3. TypeOK'
  BY <1>1, <1>2, NothingInHand DEF IInv, TypeOK
<1>4. Locked'
  BY <1>1 DEF Locked
<1>5. Traced'
  BY <1>1 DEF IInv, Traced
<1> QED BY <1>2, <1>3, <1>4, <1>5 DEF IInv

LEMMA FailStep ==
  ASSUME IInv, NEW b \in batches \cup {appending}, AppendFails(b)
  PROVE  IInv'
<1>1. b \in InHand /\ b # NoBatch /\ (b = appending \/ lock # "free")
      /\ UNCHANGED <<file, dangling>>
  BY DEF InHand, AppendFails
<1>2. CASE b.deferred
  <2>1. Die /\ deaths < MaxDeaths /\ lost' = lost \cup {r.seq : r \in InMemory}
    BY <1>2 DEF AppendFails
  <2>2. OnceInFile' /\ Kept' /\ AllFine' /\ lost' \subseteq 1..MaxRecords
    BY <1>1, <2>1, DeathLoses
  <2>3. TypeOK'
    <3>1. made' \in 0..MaxRecords /\ file' \in Seq(Line) /\ dangling' \in BOOLEAN
      BY <1>1, <2>1, DeadMemory DEF IInv, TypeOK
    <3> QED BY <2>1, <2>2, <3>1, DeadMemory DEF TypeOK
  <2>4. Locked'
    BY <1>1, <2>1, DeadMemory DEF IInv, Locked
  <2> QED BY <2>1, <2>2, <2>3, <2>4, DeadMemory DEF IInv
<1>3. CASE ~b.deferred
  <2>1. /\ lost' = lost \cup Seqs(b.recs) /\ batches' = batches \ {b}
        /\ appending' = IF b = appending THEN NoBatch ELSE appending
        /\ lock' = IF b = appending THEN "free" ELSE lock
        /\ UNCHANGED <<up, deaths, stage, buffer, entries, final, made, held, timer, sweep>>
    BY <1>3 DEF AppendFails
  <2>2. /\ InHand \ {b} \subseteq InHand' /\ InHand' \subseteq (InHand \ {b}) \cup {NoBatch}
        /\ batches' \subseteq batches /\ appending' \notin batches'
    <3>1. appending \notin batches /\ NoBatch \notin batches
      BY NothingInHand DEF IInv, OnceInMemory
    <3> QED BY <2>1, <3>1 DEF InHand
  <2>3. /\ OnceInMemory'
        /\ \A c \in InHand' : \A i \in DOMAIN c.recs : Fine(c.recs[i], Over', final')
        /\ \A n \in 1..made : \/ \E t \in Traces : n \in Nums(held[t])
                              \/ \E c \in InHand' : n \in Nums(c.recs)
                              \/ n \in Nums(b.recs) \/ n \in Nums(file) \/ n \in lost
    <3>1. Steady
      BY <2>1, SteadyStages
    <3> QED BY <1>1, <2>1, <2>2, <3>1, HandedOver
  <2>4. Nums(NoBatch.recs) = {}
    BY NoLines, NothingInHand
  <2>5. OnceInFile'
    BY <1>1, <2>1, <2>2, <2>4 DEF IInv, OnceInFile
  <2>6. Kept'
    <3>1. \A n \in Nums(b.recs) : n \in lost'
      BY <2>1 DEF Nums
    <3> QED BY <1>1, <2>1, <2>3, <3>1 DEF Kept
  <2>7. AllFine'
    <3>1. Steady
      BY <2>1, SteadyStages
    <3> QED BY <1>1, <2>3, <3>1, FineStays DEF IInv, AllFine
  <2>8. TypeOK'
    <3>1. b.recs \in Seq(Record) /\ appending' \in Batch /\ batches' \subseteq Batch
      BY <2>1, NothingInHand DEF IInv, TypeOK, Batch
    <3>2. lost' \subseteq 1..MaxRecords
      <4>1. Seqs(b.recs) \subseteq 1..MaxRecords
        BY <3>1, LineFacts, ElementOfSeq, LenProperties DEF Seqs
      <4> QED BY <2>1, <4>1 DEF IInv, TypeOK
    <3>3. lock' \in {"free", "append", "sweep", "stale"}
      BY <2>1 DEF IInv, TypeOK
    <3> QED BY <1>1, <2>1, <3>1, <3>2, <3>3 DEF IInv, TypeOK
  <2>9. Locked'
    <3>1. b = appending => lock = "append"
      BY <1>1 DEF IInv, Locked
    <3> QED BY <1>1, <2>1, <3>1 DEF IInv, Locked, Readable, Parsed
  <2>10. Traced'
    BY <2>1 DEF IInv, Traced
  <2> QED BY <2>3, <2>5, <2>6, <2>7, <2>8, <2>9, <2>10 DEF IInv
<1> QED BY <1>2, <1>3

LEMMA CrashStep ==
  ASSUME IInv, Crash
  PROVE  IInv'
<1>1. Die /\ deaths < MaxDeaths
  BY DEF Crash
<1>2. /\ OnceInFile' /\ Kept' /\ AllFine' /\ lost' \subseteq 1..MaxRecords
      /\ file' \in Seq(Line) /\ (dangling' => file' # <<>>)
  <2>1. CASE UNCHANGED <<file, dangling>> /\ lost' = lost \cup {r.seq : r \in InMemory}
    <3>1. OnceInFile' /\ Kept' /\ AllFine' /\ lost' \subseteq 1..MaxRecords
      BY <1>1, <2>1, DeathLoses
    <3> QED BY <2>1, <3>1 DEF IInv, TypeOK, Locked
  <2>2. ASSUME NEW k \in 1..Len(appending.recs), NEW torn \in BOOLEAN, NEW open \in BOOLEAN,
               LET out == SubSeq(appending.recs, 1, k - 1)
                            \o <<IF torn THEN Torn ELSE appending.recs[k]>>
               IN  /\ lock = "append"
                   /\ torn => open
                   /\ file' = Appended(out) /\ dangling' = open
                   /\ lost' = lost \cup Glued(out) \cup ({r.seq : r \in InMemory} \ Seqs(out))
        PROVE  /\ OnceInFile' /\ Kept' /\ AllFine' /\ lost' \subseteq 1..MaxRecords
               /\ file' \in Seq(Line) /\ file' # <<>>
    <3> DEFINE last == IF torn THEN Torn ELSE appending.recs[k]
               out == Cut(appending.recs, k, last)
    <3>1. last \in {Torn, appending.recs[k]}
      OBVIOUS
    <3>2. /\ lock = "append" /\ file' = Appended(out)
          /\ lost' = lost \cup Glued(out) \cup ({r.seq : r \in InMemory} \ Seqs(out))
      BY <2>2 DEF Cut
    <3> HIDE DEF last
    <3> QED BY <1>1, <3>1, <3>2, DeathTears
  <2> QED BY <2>1, <2>2 DEF Crash
<1>3. TypeOK'
  <2>1. made' \in 0..MaxRecords /\ dangling' \in BOOLEAN
    <3>1. dangling' \in BOOLEAN
      BY DEF Crash, IInv, TypeOK
    <3> QED BY <1>1, <3>1, DeadMemory DEF IInv, TypeOK
  <2> QED BY <1>1, <1>2, <2>1, DeadMemory DEF TypeOK
<1>4. Locked'
  BY <1>1, <1>2, DeadMemory DEF Locked
<1> QED BY <1>1, <1>2, <1>3, <1>4, DeadMemory DEF IInv

LEMMA SweepReadsStep ==
  ASSUME IInv, SweepReads
  PROVE  IInv'
<1>1. /\ UNCHANGED <<up, deaths, stage, buffer, entries, final, made, held, timer, batches, appending, file,
                     dangling, lost>>
      /\ lock \in {"free", "stale"} /\ lock' = "sweep" /\ sweep' = Parsed /\ Readable
  BY DEF SweepReads
<1>2. OnceInMemory' /\ OnceInFile' /\ Kept' /\ AllFine'
  BY <1>1, SteadyStages, NothingMoves
<1>3. Parsed \in Seq(Record)
  BY <1>1, ParsedLines DEF IInv, TypeOK
<1>4. TypeOK'
  BY <1>1, <1>3 DEF IInv, TypeOK
<1>5. Locked'
  BY <1>1 DEF IInv, Locked, Readable, Parsed
<1>6. Traced'
  BY <1>1 DEF IInv, Traced
<1> QED BY <1>2, <1>4, <1>5, <1>6 DEF IInv

LEMMA SweepWritesStep ==
  ASSUME IInv, NEW cutoff, NEW n, SweepWrites(cutoff, n)
  PROVE  IInv'
<1>1. /\ UNCHANGED <<up, deaths, stage, buffer, entries, final, made, held, timer, batches, appending>>
      /\ lock = "sweep" /\ lock' = "free" /\ sweep' = <<>>
  BY DEF SweepWrites
<1>2. /\ OnceInMemory' /\ OnceInFile' /\ Kept' /\ AllFine'
      /\ file' \in Seq(Line) /\ lost' \subseteq 1..MaxRecords
      /\ dangling' => file' # <<>>
  BY SweepMoves
<1>3. TypeOK'
  <2>1. dangling' \in BOOLEAN
    BY DEF SweepWrites, IInv, TypeOK
  <2> QED BY <1>1, <1>2, <2>1, EmptySeq DEF IInv, TypeOK
<1>4. Locked'
  BY <1>1, <1>2 DEF IInv, Locked
<1>5. Traced'
  BY <1>1 DEF IInv, Traced
<1> QED BY <1>2, <1>3, <1>4, <1>5 DEF IInv

\* The steps that move no record at all.
LEMMA QuietStep ==
  ASSUME IInv, SweepFails \/ Restart \/ UNCHANGED vars
  PROVE  IInv'
<1>1. UNCHANGED <<deaths, stage, buffer, entries, final, made, held, timer, batches, appending, file,
                  dangling, lost>>
  BY DEF SweepFails, Restart, vars
<1>2. OnceInMemory' /\ OnceInFile' /\ Kept' /\ AllFine'
  BY <1>1, SteadyStages, NothingMoves
<1>3. UNCHANGED <<lock, sweep>> \/ (lock = "sweep" /\ lock' = "free" /\ sweep' = <<>>)
  BY DEF SweepFails, Restart, vars
<1>4. TypeOK'
  <2>1. up' \in BOOLEAN
    BY DEF IInv, TypeOK, SweepFails, Restart, vars
  <2>2. lock' \in {"free", "append", "sweep", "stale"} /\ sweep' \in Seq(Record)
    <3>1. lock \in {"free", "append", "sweep", "stale"} /\ sweep \in Seq(Record)
      BY DEF IInv, TypeOK
    <3>2. <<>> \in Seq(Record)
      BY EmptySeq
    <3>3. CASE UNCHANGED <<lock, sweep>>
      BY <3>1, <3>3
    <3>4. CASE lock' = "free" /\ sweep' = <<>>
      BY <3>2, <3>4
    <3> QED BY <1>3, <3>3, <3>4
  <2> QED BY <1>1, <2>1, <2>2 DEF IInv, TypeOK
<1>5. Locked'
  BY <1>1, <1>3 DEF IInv, Locked, Readable, Parsed
<1>6. Traced'
  BY <1>1 DEF IInv, Traced
<1> QED BY <1>2, <1>4, <1>5, <1>6 DEF IInv

LEMMA NextIInv == IInv /\ [Next]_vars => IInv'
<1> SUFFICES ASSUME IInv, [Next]_vars PROVE IInv'
  OBVIOUS
<1>1. ASSUME NEW t \in Traces, NEW aged \in SUBSET Traces, Open(t, aged) PROVE IInv'
  BY <1>1, OpenStep
<1>2. ASSUME NEW t \in Traces,
             Publish(t) \/ Track(t) \/ Finish(t) \/ Throws(t) \/ TimerFires(t)
      PROVE  IInv'
  BY <1>2, PublishStep, TrackStep, FinishStep, ThrowsStep, TimerStep
<1>3. ASSUME NEW b \in batches, TakeLock(b) PROVE IInv'
  BY <1>3, TakeStep
<1>4. CASE AppendAll
  BY <1>4, AppendStep
<1>5. ASSUME NEW b \in batches \cup {appending}, AppendFails(b) PROVE IInv'
  BY <1>5, FailStep
<1>6. CASE Crash
  BY <1>6, CrashStep
<1>7. CASE SweepReads
  BY <1>7, SweepReadsStep
<1>8. ASSUME NEW cutoff \in 0..MaxRecords, NEW n \in 0..MaxRecords, SweepWrites(cutoff, n)
      PROVE  IInv'
  BY <1>8, SweepWritesStep
<1>9. CASE SweepFails \/ Restart \/ UNCHANGED vars
  BY <1>9, QuietStep
<1> QED BY <1>1, <1>2, <1>3, <1>4, <1>5, <1>6, <1>7, <1>8, <1>9 DEF Next

LEMMA SpecIInv == Spec => []IInv
BY InitIInv, NextIInv, PTL DEF Spec

-----------------------------------------------------------------------------
(* What follows from the invariant.                                         *)

\* The variables of the ledger keep their types: batches hold records, the file
\* lines, and the sweep only lines that parse.
THEOREM LedgerTypes == Spec => []TypeOK
<1>1. IInv => TypeOK
  BY DEF IInv
<1> QED BY <1>1, SpecIInv, PTL

\* A record that waits has its number in memory.
LEMMA WaitingNumbers ==
  ASSUME IInv, NEW n \in 1..made
  PROVE  n \in Waiting <=> \/ \E t \in Traces : n \in Nums(held[t])
                           \/ \E b \in InHand : n \in Nums(b.recs)
<1>1. n # 0
  BY DEF IInv, TypeOK
<1> QED BY <1>1, InMemoryNumbers DEF Waiting

\* The race of the timer, the end of the request, a late call, the deaths and
\* the sweep leaves each record at most once in the file, and not there while it
\* is still in memory: flushTrace takes the records before it awaits the append.
THEOREM CountedOnce == Spec => []OnceOnly
<1>1. ASSUME IInv PROVE OnceOnly
  <2>1. SUFFICES ASSUME NEW n \in 1..made
                 PROVE  Times(n, file) <= 1 /\ (n \in Waiting => Times(n, file) = 0)
    BY DEF OnceOnly
  <2>2. n \in Nat \ {0}
    BY <1>1 DEF IInv, TypeOK
  <2>3. Times(n, file) = IF n \in Nums(file) THEN 1 ELSE 0
    BY <1>1, <2>2, TimesOf DEF IInv, TypeOK, OnceInFile
  <2>4. n \in Waiting => n \notin Nums(file)
    BY <1>1, WaitingNumbers DEF IInv, OnceInFile
  <2> QED BY <2>3, <2>4
<1> QED BY <1>1, SpecIInv, PTL

\* No record disappears unless a dead process, a failed append, a glued line or
\* the retention policy gave it up; a sweep under the lock loses no append.
THEOREM NoneDisappears == Spec => []Accounted
<1>1. ASSUME IInv PROVE Accounted
  <2>1. SUFFICES ASSUME NEW n \in 1..made
                 PROVE  n \in Waiting \/ Times(n, file) = 1 \/ n \in lost
    BY DEF Accounted
  <2>2. n \in Nat \ {0}
    BY <1>1 DEF IInv, TypeOK
  <2>3. Times(n, file) = IF n \in Nums(file) THEN 1 ELSE 0
    BY <1>1, <2>2, TimesOf DEF IInv, TypeOK, OnceInFile
  <2>4. n \in Waiting \/ n \in Nums(file) \/ n \in lost
    BY <1>1, WaitingNumbers DEF IInv, Kept
  <2> QED BY <2>3, <2>4
<1> QED BY <1>1, SpecIInv, PTL

\* What is stored of a trace that has been announced goes up to its recap, though
\* the end of the request, the timer, a late call and the deaths race for its
\* records: nothing of a request that is not slow leaves before it is over.
THEOREM StoredWhole == Spec => []WholeOnceAnnounced
<1>1. IInv => WholeOnceAnnounced
  BY DEF IInv, AllFine, Fine, WholeOnceAnnounced
<1> QED BY <1>1, SpecIInv, PTL

-----------------------------------------------------------------------------
(* The file implements the book.                                            *)

\* The records of the book, in the terms of the invariant.
Unwritten(n) == \/ \E t \in Traces : n \in Nums(held[t])
                \/ \E b \in InHand : n \in Nums(b.recs)

InBook == Stored = Nums(file) /\ \A n : n \in Waiting <=> Unwritten(n)

LEMMA BookRecords == IInv => InBook
<1> SUFFICES ASSUME IInv PROVE InBook
  OBVIOUS
<1>1. file \in Seq(Line) /\ Single(file) /\ Nums(file) \subseteq 1..made
  BY DEF IInv, TypeOK, OnceInFile
<1>2. \A n \in 1..made : n \in Nat \ {0}
  BY DEF IInv, TypeOK
<1>3. \A n \in 1..made : Times(n, file) = 1 <=> n \in Nums(file)
  BY <1>1, <1>2, TimesOf
<1>4. Stored = Nums(file)
  BY <1>1, <1>3 DEF Stored
<1>5. \A n : Unwritten(n) => n \in 1..made
  BY DEF IInv, OnceInMemory, Unwritten
<1>6. \A n : n \in Waiting => n \in 1..made
  BY DEF Waiting
<1> QED BY <1>4, <1>5, <1>6, WaitingNumbers DEF InBook, Unwritten

LEMMA BookRecordsNext == IInv' => InBook'
BY BookRecords, PTL

\* A step between places in memory is none of the book.
LEMMA BookStays ==
  ASSUME IInv, IInv', UNCHANGED <<made, file, dangling, lost>>,
         \A n : Unwritten(n) <=> Unwritten(n)'
  PROVE  UNCHANGED Book!bvars
<1>1. Waiting' = Waiting
  <2>1. \A n : n \in Waiting' <=> n \in Waiting
    BY BookRecords, BookRecordsNext DEF InBook
  <2> QED BY <2>1 DEF Waiting
<1>2. Stored' = Stored
  BY DEF Stored
<1> QED BY <1>1, <1>2 DEF Book!bvars

LEMMA NothingHeldMoves ==
  ASSUME IInv, IInv', UNCHANGED <<held, batches, appending, made, file, dangling, lost>>
  PROVE  UNCHANGED Book!bvars
<1>1. \A n : Unwritten(n) <=> Unwritten(n)'
  BY DEF Unwritten, InHand
<1> QED BY <1>1, BookStays

\* Taking the lock moves a batch from the queue into the hand of the writer.
LEMMA TakenWaits ==
  ASSUME IInv, IInv', NEW b, TakeLock(b)
  PROVE  UNCHANGED Book!bvars
<1>1. /\ appending = NoBatch /\ b \in batches /\ appending' = b /\ batches' = batches \ {b}
      /\ UNCHANGED <<held, made, file, dangling, lost>>
  BY DEF TakeLock, IInv, Locked
<1>2. Nums(NoBatch.recs) = {}
  BY NoLines, NothingInHand
<1>3. \A n : Unwritten(n) <=> Unwritten(n)'
  BY <1>1, <1>2 DEF Unwritten, InHand
<1> QED BY <1>1, <1>3, BookStays

\* A flush moves the records held for a trace into a batch.
LEMMA FlushedWaits ==
  ASSUME IInv, IInv', NEW t \in Traces, NEW n \in 0..(MaxEntries + 1), Flush(t, n),
         UNCHANGED <<appending, made, file, dangling, lost>>
  PROVE  UNCHANGED Book!bvars
<1>1. held \in [Traces -> Seq(Record)]
  BY DEF IInv, TypeOK
<1>2. \A u \in Traces : held'[u] = IF u = t THEN <<>> ELSE held[u]
  BY <1>1 DEF Flush
<1>3. CASE held[t] = <<>>
  <2>1. held' = held /\ batches' = batches
    BY <1>1, <1>3 DEF Flush
  <2> QED BY <2>1, NothingHeldMoves
<1>4. CASE held[t] # <<>>
  <2> DEFINE s == Snapshot(t, n)
             b == [recs |-> s, deferred |-> TRUE]
  <2>1. Nums(s) = Nums(held[t])
    BY <1>1, SnapshotLines DEF IInv, OnceInMemory
  <2>2. batches' = batches \cup {b} /\ b.recs = s
    BY <1>4 DEF Flush
  <2> HIDE DEF s, b
  <2>3. InHand' = InHand \cup {b}
    BY <2>2 DEF InHand
  <2>4. \A u \in Traces : Nums(held'[u]) = IF u = t THEN {} ELSE Nums(held[u])
    BY <1>2, NoLines
  <2>5. ASSUME NEW m PROVE Unwritten(m) <=> Unwritten(m)'
    <3>1. Unwritten(m) => Unwritten(m)'
      BY <2>1, <2>2, <2>3, <2>4 DEF Unwritten
    <3>2. Unwritten(m)' => Unwritten(m)
      BY <2>1, <2>2, <2>3, <2>4 DEF Unwritten
    <3> QED BY <3>1, <3>2
  <2> QED BY <2>5, BookStays
<1> QED BY <1>3, <1>4

\* A record is made: it waits, held or on its way.
LEMMA TrackMakes ==
  ASSUME IInv, IInv', NEW t \in Traces, Track(t)
  PROVE  Book!Make
<1> DEFINE r == [trace |-> t, seq |-> made + 1, entries |-> Buffered(t)]
<1>1. /\ UNCHANGED <<appending, file, dangling, lost>> /\ made' = made + 1 /\ made < MaxRecords
      /\ buffer[t] = "open" => /\ held' = [held EXCEPT ![t] = Append(held[t], r)]
                               /\ batches' = batches
      /\ buffer[t] # "open" =>
           /\ batches' = batches \cup {[recs |-> <<r>>, deferred |-> FALSE]}
           /\ held' = held
  BY DEF Track
<1>2. /\ held \in [Traces -> Seq(Record)] /\ made + 1 \in 1..MaxRecords
      /\ Buffered(t) \in 0..(MaxEntries + 1)
  BY <1>1 DEF IInv, TypeOK, Buffered
<1>3. r \in Record /\ r.seq = made + 1 /\ r.seq # 0
  BY <1>2 DEF Record
<1> HIDE DEF r
<1>4. \A n : Unwritten(n)' <=> Unwritten(n) \/ n = made + 1
  <2>1. CASE buffer[t] = "open"
    <3>1. held[t] \in Seq(Record) /\ Single(held[t]) /\ r.seq \notin Nums(held[t])
      BY <1>2, <1>3, NextIsNew DEF IInv, OnceInMemory
    <3>2. Nums(Append(held[t], r)) = Nums(held[t]) \cup {made + 1}
      BY <1>3, <3>1, OneMore
    <3>3. \A u \in Traces : Nums(held'[u]) = IF u = t THEN Nums(held[u]) \cup {made + 1}
                                             ELSE Nums(held[u])
      BY <1>1, <1>2, <2>1, <3>2
    <3>4. InHand' = InHand
      BY <1>1, <2>1 DEF InHand
    <3> QED BY <3>3, <3>4 DEF Unwritten
  <2>2. CASE buffer[t] # "open"
    <3> DEFINE b == [recs |-> <<r>>, deferred |-> FALSE]
    <3>1. Nums(b.recs) = {made + 1}
      <4>1. Len(<<r>>) = 1 /\ DOMAIN <<r>> = {1} /\ <<r>>[1] = r /\ b.recs = <<r>>
        OBVIOUS
      <4>2. Seqs(<<r>>) = {made + 1}
        BY <1>3, <4>1 DEF Seqs
      <4> HIDE DEF b
      <4> QED BY <1>3, <4>1, <4>2 DEF Nums
    <3>2. InHand' = InHand \cup {b}
      BY <1>1, <2>2 DEF InHand
    <3> HIDE DEF b
    <3>3. held' = held
      BY <1>1, <2>2
    <3> QED BY <3>1, <3>2, <3>3 DEF Unwritten
  <2> QED BY <2>1, <2>2
<1>5. Waiting' = Waiting \cup {made + 1}
  <2>1. \A n : n \in Waiting' <=> n \in Waiting \/ n = made + 1
    BY <1>4, BookRecords, BookRecordsNext DEF InBook
  <2> QED BY <2>1
<1>6. Stored' = Stored
  BY <1>1, BookRecords, BookRecordsNext DEF InBook, Nums, Seqs
<1> QED BY <1>1, <1>5, <1>6 DEF Book!Make

\* A batch leaves memory: its records wait no more, and no others.
LEMMA BatchLeaves ==
  ASSUME IInv, IInv', NEW b \in InHand, UNCHANGED <<held, made>>,
         InHand \ {b} \subseteq InHand', InHand' \subseteq (InHand \ {b}) \cup {NoBatch}
  PROVE  Nums(b.recs) \subseteq Waiting /\ Waiting' = Waiting \ Nums(b.recs)
<1>1. Nums(NoBatch.recs) = {}
  BY NoLines, NothingInHand
<1>2. \A n \in Nums(b.recs) : /\ \A t \in Traces : n \notin Nums(held[t])
                             /\ \A c \in InHand \ {b} : n \notin Nums(c.recs)
  BY DEF IInv, OnceInMemory
<1>3. \A n : Unwritten(n)' <=> Unwritten(n) /\ n \notin Nums(b.recs)
  BY <1>1, <1>2 DEF Unwritten
<1>4. \A n \in Nums(b.recs) : Unwritten(n)
  BY DEF Unwritten
<1>5. \A n : n \in Waiting' <=> n \in Waiting /\ n \notin Nums(b.recs)
  BY <1>3, BookRecords, BookRecordsNext DEF InBook
<1>6. Nums(b.recs) \subseteq Waiting
  BY <1>4, BookRecords DEF InBook
<1> QED BY <1>5, <1>6

\* What a write of the lines rs does to the book.
LEMMA AppendedBook ==
  ASSUME IInv, NEW rs \in Seq(Line), rs # <<>>, Single(rs), Nums(file) \cap Nums(rs) = {}
  PROVE  /\ Nums(Appended(rs)) = (Nums(file) \cup Nums(rs)) \ Glued(rs)
         /\ Glued(rs) \subseteq Nums(file) \cup Nums(rs)
         /\ Book!MaySpoil(Nums(rs), Glued(rs))
<1>1. file \in Seq(Line) /\ (dangling => file # <<>>) /\ Single(file)
  BY DEF IInv, TypeOK, Locked, OnceInFile
<1>2. /\ Nums(Appended(rs)) \subseteq Nums(file) \cup Nums(rs)
      /\ Nums(file) \cup Nums(rs) \subseteq Nums(Appended(rs)) \cup Glued(rs)
      /\ Glued(rs) \cap Nums(Appended(rs)) = {}
  BY <1>1, AppendedLines
<1>3. dangling => /\ file[Len(file)].seq # 0 => file[Len(file)].seq \in Nums(file)
                  /\ rs[1].seq # 0 => rs[1].seq \in Nums(rs)
  <2>1. dangling => Len(file) \in DOMAIN file
    BY <1>1, EmptySeq, LenProperties
  <2>2. 1 \in DOMAIN rs
    BY EmptySeq, LenProperties
  <2> QED BY <2>1, <2>2 DEF Nums, Seqs
<1>4. Glued(rs) \subseteq Nums(file) \cup Nums(rs)
  BY <1>3 DEF Glued
<1>5. Stored = Nums(file)
  BY BookRecords DEF InBook
<1>6. \A m, n \in Glued(rs) \cap Nums(file) : m = n
  BY <1>3 DEF Glued
<1>7. \A m, n \in Glued(rs) \cap Nums(rs) : m = n
  BY <1>3 DEF Glued
<1>8. Glued(rs) # {} => dangling
  BY DEF Glued
<1> QED BY <1>2, <1>4, <1>5, <1>6, <1>7, <1>8 DEF Book!MaySpoil, Book!AtMostOne

\* The append enters the batch that holds the lock, all of it.
LEMMA AppendEnters ==
  ASSUME IInv, IInv', AppendAll
  PROVE  Book!BNext
<1> DEFINE rs == appending.recs
<1>1. rs \in Seq(Line) /\ rs # <<>>
  <2>1. rs \in Seq(Record)
    BY DEF IInv, TypeOK, Batch
  <2> QED BY <2>1, RecordsAreLines DEF AppendAll, IInv, Locked
<1>2. appending \in InHand
  BY DEF InHand
<1>3. Single(rs) /\ Nums(file) \cap Nums(rs) = {}
  BY <1>2 DEF IInv, OnceInMemory, OnceInFile
<1>4. /\ Nums(Appended(rs)) = (Nums(file) \cup Nums(rs)) \ Glued(rs)
      /\ Glued(rs) \subseteq Nums(file) \cup Nums(rs)
      /\ Book!MaySpoil(Nums(rs), Glued(rs))
  BY <1>1, <1>3, AppendedBook
<1>5. /\ file' = Appended(rs) /\ lost' = lost \cup Glued(rs) /\ appending' = NoBatch
      /\ dangling' = FALSE /\ UNCHANGED <<held, batches, made>>
  BY DEF AppendAll
<1>6. Nums(rs) \subseteq Waiting /\ Waiting' = Waiting \ Nums(rs)
  <2>1. /\ InHand' \subseteq (InHand \ {appending}) \cup {NoBatch}
        /\ InHand \ {appending} \subseteq InHand'
    BY <1>5 DEF InHand, IInv, OnceInMemory
  <2> QED BY <1>2, <1>5, <2>1, BatchLeaves
<1>7. Stored = Nums(file) /\ Stored' = Nums(file')
  BY BookRecords, BookRecordsNext DEF InBook, Nums, Seqs
<1> HIDE DEF rs
<1>8. Book!Enter(Nums(rs), Glued(rs))
  BY <1>4, <1>5, <1>6, <1>7 DEF Book!Enter
<1>9. Nums(rs) \in SUBSET Waiting /\ Glued(rs) \in SUBSET (Stored \cup Waiting)
  BY <1>4, <1>6, <1>7
<1> QED BY <1>8, <1>9 DEF Book!BNext

\* A death gives up what waits, but for what an append under way has written.
LEMMA DeathPerishes ==
  ASSUME IInv, IInv', Die, deaths < MaxDeaths, NEW ns \in SUBSET Waiting, NEW spoiled,
         Book!MaySpoil(ns, spoiled), Nums(file') = (Nums(file) \cup ns) \ spoiled,
         lost' = lost \cup spoiled \cup (Waiting \ ns)
  PROVE  Book!BNext
<1>1. Waiting' = {}
  <2>1. \A n : ~Unwritten(n)'
    <3>1. /\ InHand' = {NoBatch} /\ Nums(NoBatch.recs) = {} /\ Nums(<<>>) = {}
          /\ \A t \in Traces : held'[t] = <<>>
      BY DeadMemory
    <3> QED BY <3>1 DEF Unwritten
  <2>2. \A n : n \notin Waiting'
    BY <2>1, BookRecordsNext DEF InBook
  <2> QED BY <2>2
<1>2. Stored = Nums(file) /\ Stored' = Nums(file')
  BY BookRecords, BookRecordsNext DEF InBook, Nums, Seqs
<1>3. made' = made /\ dangling' \in BOOLEAN
  BY DeadMemory DEF IInv, TypeOK
<1>4. Book!Perish(ns, spoiled)
  BY <1>1, <1>2, <1>3 DEF Book!Perish
<1>5. spoiled \in SUBSET (Stored \cup Waiting)
  BY DEF Book!MaySpoil
<1> QED BY <1>4, <1>5 DEF Book!BNext

\* The records in memory are the ones that wait.
LEMMA MemoryWaits == IInv => {r.seq : r \in InMemory} = Waiting
<1> SUFFICES ASSUME IInv PROVE {r.seq : r \in InMemory} = Waiting
  OBVIOUS
<1>1. \A r \in InMemory : r.seq # 0
  BY RecordsInMemory DEF IInv
<1>2. \A n : n \in Waiting <=> n # 0 /\ \E r \in InMemory : r.seq = n
  BY InMemoryNumbers, BookRecords DEF InBook, Unwritten
<1> QED BY <1>1, <1>2

LEMMA DeathBetween ==
  ASSUME IInv, IInv', Die, deaths < MaxDeaths, UNCHANGED <<file, dangling>>,
         lost' = lost \cup {r.seq : r \in InMemory}
  PROVE  Book!BNext
<1>1. Book!MaySpoil({}, {})
  BY DEF Book!MaySpoil, Book!AtMostOne
<1>2. {} \in SUBSET Waiting
  OBVIOUS
<1>3. Nums(file') = (Nums(file) \cup {}) \ {} /\ lost' = lost \cup {} \cup (Waiting \ {})
  BY MemoryWaits
<1> QED BY <1>1, <1>2, <1>3, DeathPerishes

LEMMA DeathWithin ==
  ASSUME IInv, IInv', Die, deaths < MaxDeaths,
         NEW k \in 1..Len(appending.recs), NEW last \in {Torn, appending.recs[k]},
         NEW out, out = Cut(appending.recs, k, last),
         file' = Appended(out),
         lost' = lost \cup Glued(out) \cup ({r.seq : r \in InMemory} \ Seqs(out))
  PROVE  Book!BNext
<1> DEFINE rs == appending.recs
<1>1. rs \in Seq(Record)
  BY DEF IInv, TypeOK, Batch
<1>2. appending \in InHand
  BY DEF InHand
<1>3. Single(rs) /\ Nums(file) \cap Nums(rs) = {}
  BY <1>2 DEF IInv, OnceInMemory, OnceInFile
<1>4. out \in Seq(Line) /\ out # <<>> /\ Nums(out) \subseteq Nums(rs) /\ Single(out)
  <2>1. k \in 1..Len(rs) /\ last \in {Torn, rs[k]} /\ out = Cut(rs, k, last)
    OBVIOUS
  <2> HIDE DEF rs
  <2> QED BY <1>1, <1>3, <2>1, TornLines
<1>5. Nums(rs) \subseteq Waiting
  BY <1>2, BookRecords DEF InBook, Unwritten
<1> HIDE DEF rs
<1>6. Nums(out) \in SUBSET Waiting /\ Nums(file) \cap Nums(out) = {}
  BY <1>3, <1>4, <1>5
<1>7. /\ Nums(Appended(out)) = (Nums(file) \cup Nums(out)) \ Glued(out)
      /\ Book!MaySpoil(Nums(out), Glued(out))
  BY <1>4, <1>6, AppendedBook
<1>8. lost' = lost \cup Glued(out) \cup (Waiting \ Nums(out))
  <2>1. 0 \notin Waiting
    BY DEF Waiting, IInv, TypeOK
  <2> QED BY <2>1, MemoryWaits DEF Nums
<1> QED BY <1>6, <1>7, <1>8, DeathPerishes

LEMMA CrashPerishes ==
  ASSUME IInv, IInv', Crash
  PROVE  Book!BNext
<1>1. Die /\ deaths < MaxDeaths
  BY DEF Crash
<1>2. CASE UNCHANGED <<file, dangling>> /\ lost' = lost \cup {r.seq : r \in InMemory}
  BY <1>1, <1>2, DeathBetween
<1>3. ASSUME NEW k \in 1..Len(appending.recs), NEW torn \in BOOLEAN, NEW open \in BOOLEAN,
             LET out == SubSeq(appending.recs, 1, k - 1)
                          \o <<IF torn THEN Torn ELSE appending.recs[k]>>
             IN  /\ lock = "append"
                 /\ torn => open
                 /\ file' = Appended(out) /\ dangling' = open
                 /\ lost' = lost \cup Glued(out) \cup ({r.seq : r \in InMemory} \ Seqs(out))
      PROVE  Book!BNext
  <2> DEFINE last == IF torn THEN Torn ELSE appending.recs[k]
             out == Cut(appending.recs, k, last)
  <2>1. last \in {Torn, appending.recs[k]}
    OBVIOUS
  <2>2. /\ file' = Appended(out)
        /\ lost' = lost \cup Glued(out) \cup ({r.seq : r \in InMemory} \ Seqs(out))
    BY <1>3 DEF Cut
  <2> HIDE DEF last
  <2> QED BY <1>1, <2>1, <2>2, DeathWithin
<1> QED BY <1>2, <1>3 DEF Crash

\* A failed append gives its batch up, or the process with all that waits.
LEMMA FailGivesUp ==
  ASSUME IInv, IInv', NEW b \in batches \cup {appending}, AppendFails(b)
  PROVE  Book!BNext
<1>1. b \in InHand /\ UNCHANGED <<file, dangling>>
  BY DEF InHand, AppendFails
<1>2. CASE b.deferred
  <2>1. Die /\ deaths < MaxDeaths /\ lost' = lost \cup {r.seq : r \in InMemory}
    BY <1>2 DEF AppendFails
  <2> QED BY <1>1, <2>1, DeathBetween
<1>3. CASE ~b.deferred
  <2>1. /\ lost' = lost \cup Seqs(b.recs) /\ batches' = batches \ {b}
        /\ appending' = IF b = appending THEN NoBatch ELSE appending
        /\ UNCHANGED <<made, held>>
    BY <1>3 DEF AppendFails
  <2>2. /\ InHand \ {b} \subseteq InHand' /\ InHand' \subseteq (InHand \ {b}) \cup {NoBatch}
    BY <2>1 DEF InHand, IInv, OnceInMemory
  <2>3. Nums(b.recs) \subseteq Waiting /\ Waiting' = Waiting \ Nums(b.recs)
    BY <1>1, <2>1, <2>2, BatchLeaves
  <2>4. Seqs(b.recs) = Nums(b.recs)
    <3>1. b.recs \in Seq(Record)
      BY DEF IInv, TypeOK, Batch
    <3> QED BY <3>1, LineFacts, ElementOfSeq, LenProperties DEF Nums, Seqs
  <2>5. Stored' = Stored
    BY <1>1, <2>1 DEF Stored
  <2>6. Book!GiveUp(Nums(b.recs))
    BY <1>1, <2>1, <2>3, <2>4, <2>5 DEF Book!GiveUp
  <2> QED BY <2>3, <2>6 DEF Book!BNext
<1> QED BY <1>2, <1>3

\* The sweep keeps some of what is stored, and nothing else goes.
LEMMA SweepRetains ==
  ASSUME IInv, IInv', NEW cutoff, NEW n, SweepWrites(cutoff, n)
  PROVE  [Book!BNext]_(Book!bvars)
<1> DEFINE young == {i \in DOMAIN sweep : sweep[i].seq > cutoff}
           kept  == {i \in young : Cardinality(Before(i, young)) >= n}
<1>1. kept \in SUBSET DOMAIN sweep
  OBVIOUS
<1>2. /\ lock = "sweep" /\ UNCHANGED <<held, batches, appending, made>>
      /\ IF kept = DOMAIN sweep THEN UNCHANGED <<file, dangling, lost>>
         ELSE /\ file' = Picked(sweep, kept) /\ dangling' = FALSE
              /\ lost' = lost \cup (Seqs(sweep) \ {sweep[i].seq : i \in kept})
  BY DEF SweepWrites
<1> HIDE DEF young, kept
<1>3. CASE kept = DOMAIN sweep
  <2>1. UNCHANGED <<file, dangling, lost>>
    BY <1>2, <1>3
  <2> QED BY <1>2, <2>1, NothingHeldMoves
<1>4. CASE kept # DOMAIN sweep
  <2>1. /\ file' = Picked(sweep, kept) /\ dangling' = FALSE
        /\ lost' = lost \cup (Seqs(sweep) \ {sweep[i].seq : i \in kept})
    BY <1>2, <1>4
  <2>2. sweep \in Seq(Record) /\ Nums(sweep) = Nums(file)
    <3>1. file \in Seq(Line) /\ Readable /\ sweep = Parsed
      BY <1>2 DEF IInv, TypeOK, Locked
    <3> QED BY <3>1, ParsedLines
  <2>3. Seqs(file') = {sweep[i].seq : i \in kept}
    BY <1>1, <2>1, <2>2, PickedLines
  <2>4. Seqs(file') \subseteq Seqs(sweep) /\ Seqs(sweep) = Nums(sweep)
    <3>1. 0 \notin Seqs(sweep)
      BY <2>2, LineFacts, ElementOfSeq, LenProperties DEF Seqs
    <3> QED BY <1>1, <2>3, <3>1 DEF Nums, Seqs
  <2>5. Stored = Seqs(sweep) /\ Stored' = Seqs(file')
    <3>1. Stored = Nums(file) /\ Stored' = Nums(file')
      BY BookRecords, BookRecordsNext DEF InBook, Nums, Seqs
    <3> QED BY <2>2, <2>4, <3>1 DEF Nums
  <2>6. Waiting' = Waiting
    <3>1. \A m : Unwritten(m)' <=> Unwritten(m)
      BY <1>2 DEF Unwritten, InHand
    <3>2. \A m : m \in Waiting' <=> m \in Waiting
      BY <3>1, BookRecords, BookRecordsNext DEF InBook
    <3> QED BY <3>2
  <2>7. Book!Retain(Seqs(file'))
    BY <1>2, <2>1, <2>3, <2>4, <2>5, <2>6 DEF Book!Retain
  <2>8. Seqs(file') \in SUBSET Stored
    BY <2>4, <2>5
  <2> QED BY <2>7, <2>8 DEF Book!BNext
<1> QED BY <1>3, <1>4

LEMMA InitBook == Init => Book!BInit
<1> SUFFICES ASSUME Init PROVE Book!BInit
  OBVIOUS
<1>1. made = 0 /\ lost = {} /\ dangling = FALSE /\ 1..made = {}
  BY DEF Init
<1> QED BY <1>1 DEF Book!BInit, Waiting, Stored

\* Every step of the ledger is a step of the book, or none.
LEMMA NextBook ==
  ASSUME IInv, IInv', [Next]_vars
  PROVE  [Book!BNext]_(Book!bvars)
<1>1. ASSUME NEW t \in Traces, NEW aged \in SUBSET Traces, Open(t, aged)
      PROVE  UNCHANGED Book!bvars
  <2>1. UNCHANGED <<held, batches, appending, made, file, dangling, lost>>
    BY <1>1 DEF Open
  <2> QED BY <2>1, NothingHeldMoves
<1>2. ASSUME NEW t \in Traces, Track(t) PROVE Book!BNext
  BY <1>2, TrackMakes DEF Book!BNext
<1>3. ASSUME NEW t \in Traces, Finish(t) PROVE UNCHANGED Book!bvars
  <2>1. UNCHANGED <<appending, made, file, dangling, lost>>
    BY <1>3 DEF Finish
  <2>2. CASE Announces(t)
    <3>1. Flush(t, entries[t] + 1)
      BY <1>3, <2>2 DEF Finish
    <3>2. entries[t] + 1 \in 0..(MaxEntries + 1)
      BY <1>3, <2>2 DEF IInv, TypeOK, Traced, Announces, Finish
    <3> QED BY <2>1, <3>1, <3>2, FlushedWaits
  <2>3. CASE ~Announces(t)
    <3>1. UNCHANGED <<held, batches>>
      BY <1>3, <2>3 DEF Finish
    <3> QED BY <2>1, <3>1, NothingHeldMoves
  <2> QED BY <2>2, <2>3
<1>4. ASSUME NEW t \in Traces, TimerFires(t) PROVE UNCHANGED Book!bvars
  <2>1. /\ UNCHANGED <<appending, made, file, dangling, lost>> /\ Flush(t, entries[t])
        /\ entries[t] \in 0..(MaxEntries + 1)
    BY <1>4 DEF TimerFires, IInv, TypeOK
  <2> QED BY <2>1, FlushedWaits
<1>11. ASSUME NEW t \in Traces, Publish(t) \/ Throws(t) PROVE UNCHANGED Book!bvars
  <2>1. UNCHANGED <<held, batches, appending, made, file, dangling, lost>>
    BY <1>11 DEF Publish, Throws
  <2> QED BY <2>1, NothingHeldMoves
<1>5. ASSUME NEW b \in batches, TakeLock(b) PROVE UNCHANGED Book!bvars
  BY <1>5, TakenWaits
<1>6. CASE AppendAll
  BY <1>6, AppendEnters
<1>7. ASSUME NEW b \in batches \cup {appending}, AppendFails(b) PROVE Book!BNext
  BY <1>7, FailGivesUp
<1>8. CASE Crash
  BY <1>8, CrashPerishes
<1>9. CASE SweepReads \/ SweepFails \/ Restart \/ UNCHANGED vars
  <2>1. UNCHANGED <<held, batches, appending, made, file, dangling, lost>>
    BY <1>9 DEF SweepReads, SweepFails, Restart, vars
  <2>2. UNCHANGED Book!bvars
    BY <2>1, NothingHeldMoves
  <2> QED BY <2>2
<1>10. ASSUME NEW cutoff \in 0..MaxRecords, NEW n \in 0..MaxRecords, SweepWrites(cutoff, n)
       PROVE  [Book!BNext]_(Book!bvars)
  BY <1>10, SweepRetains
<1> QED BY <1>1, <1>2, <1>3, <1>4, <1>5, <1>6, <1>7, <1>8, <1>9, <1>10, <1>11 DEF Next

\* The ledger implements the book: timers, batches, the lock, deaths in the
\* middle of a write and the sweep change it only by steps of AccountBook.
THEOREM LedgerImplementsBook == Spec => ImplementsBook
<1>1. IInv /\ IInv' /\ [Next]_vars => [Book!BNext]_(Book!bvars)
  BY NextBook
<1> QED BY <1>1, InitBook, SpecIInv, PTL DEF Spec, ImplementsBook, Book!BSpec

\* A step of the book leaves each record in one place.
LEMMA BookKeepsPlace ==
  ASSUME made \in Nat, Book!OnePlace, [Book!BNext]_(Book!bvars)
  PROVE  made' \in Nat /\ Book!OnePlace'
<1>1. CASE Book!Make
  <2>1. 1..(made + 1) = (1..made) \cup {made + 1} /\ made + 1 \notin 1..made
    OBVIOUS
  <2>2. /\ made' = made + 1 /\ Waiting' = Waiting \cup {made + 1}
        /\ Stored' = Stored /\ lost' = lost
    BY <1>1 DEF Book!Make
  <2>3. made + 1 \notin Stored /\ made + 1 \notin lost
    BY <2>1 DEF Book!OnePlace
  <2> QED BY <2>1, <2>2, <2>3 DEF Book!OnePlace
<1>2. ASSUME NEW ns \in SUBSET Waiting, NEW spoiled, Book!Enter(ns, spoiled) \/ Book!Perish(ns, spoiled)
      PROVE  made' \in Nat /\ Book!OnePlace'
  <2>1. made' = made /\ spoiled \subseteq Stored \cup ns
    BY <1>2 DEF Book!Enter, Book!Perish, Book!MaySpoil
  <2>2. Stored' = (Stored \cup ns) \ spoiled
    BY <1>2 DEF Book!Enter, Book!Perish
  <2>3. \/ Waiting' = Waiting \ ns /\ lost' = lost \cup spoiled
        \/ Waiting' = {} /\ lost' = lost \cup spoiled \cup (Waiting \ ns)
    BY <1>2 DEF Book!Enter, Book!Perish
  <2> QED BY <2>1, <2>2, <2>3 DEF Book!OnePlace
<1>3. ASSUME NEW ns \in SUBSET Waiting, Book!GiveUp(ns)
      PROVE  made' \in Nat /\ Book!OnePlace'
  BY <1>3 DEF Book!GiveUp, Book!OnePlace
<1>4. ASSUME NEW ns \in SUBSET Stored, Book!Retain(ns)
      PROVE  made' \in Nat /\ Book!OnePlace'
  BY <1>4 DEF Book!Retain, Book!OnePlace
<1>5. CASE UNCHANGED Book!bvars
  BY <1>5 DEF Book!bvars, Book!OnePlace
<1> QED BY <1>1, <1>2, <1>3, <1>4, <1>5 DEF Book!BNext

\* Each record of the ledger is in one place: it waits, is stored or is given up,
\* and what is given up (lost) is neither in the file nor on its way any more.
THEOREM EachInOnePlace == Spec => []Book!OnePlace
<1> DEFINE Placed == made \in Nat /\ Book!OnePlace
<1>1. Book!BInit => Placed
  BY DEF Book!BInit, Book!OnePlace
<1>2. Placed /\ [Book!BNext]_(Book!bvars) => Placed'
  BY BookKeepsPlace
<1>3. Placed => Book!OnePlace
  OBVIOUS
<1> HIDE DEF Placed
<1> QED BY <1>1, <1>2, <1>3, LedgerImplementsBook, PTL DEF ImplementsBook, Book!BSpec
=============================================================================
