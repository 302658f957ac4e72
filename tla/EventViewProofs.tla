-------------------------- MODULE EventViewProofs --------------------------
(***************************************************************************)
(* Theorems of what is seen of an attempt's events.  EventStream: what a   *)
(* subscriber and a download are given, for any teams, ranges, cap and     *)
(* length of the log.  EventRedaction: what of a secret reaches the log,   *)
(* for any secrets, raw events and number of rotations and restarts; with  *)
(* the lemmas about Replace and Untainted it rests on.                     *)
(***************************************************************************)
EXTENDS EventStream, EventRedaction, FiniteSetTheorems, TLAPS

-----------------------------------------------------------------------------
(* EventStream.                                                            *)

\* Teams and numbers of a line, and what a subscription is made of.
Line == [seq : Nat, team : Teams \cup {"all"}]
Subscriptions ==
  [phase : {"closed", "replay", "replayed", "tail", "ended"}, asked : Nat, from : Nat, to : Nat,
   team : Teams \cup {"any"}, pos : Nat \ {0}, emitted : Nat, sent : Seq(Nat), last : Nat,
   reopened : BOOLEAN]

ViewsTyped ==
  /\ lines \in Seq(Line)
  /\ stream \in Subscriptions /\ stream.pos <= Len(lines) + 1
  /\ copy \in [size : Nat, pos : Nat \ {0}, got : Seq(Nat), open : BOOLEAN]
  /\ copy.size <= Len(lines) /\ copy.pos <= copy.size + 1

\* Numbers ascend from 1 without a gap.
LogCounts ==
  /\ \A i, j \in DOMAIN lines :
       IsEvent(lines[i]) /\ IsEvent(lines[j]) /\ i < j => lines[i].seq < lines[j].seq
  /\ \E n \in Nat : Numbers \ {0} = 1..n

\* What has been sent is what was awaited up to a number.
SentIsAwaited == stream.phase # "closed" =>
  /\ Ascending(stream.sent)
  /\ ToSet(stream.sent) = {n \in Awaited(lines) : n <= stream.last}
  /\ stream.last = 0 \/ stream.last < stream.asked \/ stream.last \in Numbers
  /\ stream.asked <= stream.last + 1
  /\ stream.asked <= stream.from
  /\ stream.to # 0 \/ ~stream.reopened => stream.from = stream.asked

\* The lines before the position have been dealt with, those after it have not.
ReplayKnows == stream.phase \in {"replay", "replayed"} =>
  /\ stream.from <= stream.last + 1
  /\ \A i \in 1..(stream.pos - 1) : AskedFor(lines[i]) => lines[i].seq <= stream.last
  /\ \A i \in stream.pos..Len(lines) :
       IsEvent(lines[i]) /\ lines[i].seq >= stream.from => lines[i].seq > stream.last

\* Only a stream without an end follows; one with an end got what it read.
EndIsKept ==
  /\ stream.phase = "tail" => stream.to = 0
  /\ stream.phase = "ended" => ToSet(stream.sent) = Awaited(SubSeq(lines, 1, stream.pos - 1))

StreamInv == SentIsAwaited /\ ReplayKnows /\ EndIsKept

\* A download has the events of the lines it has read, and they count.
CopyInv ==
  /\ \A i \in DOMAIN copy.got : copy.got[i] = i
  /\ ToSet(copy.got) = {lines[i].seq : i \in {j \in 1..(copy.pos - 1) : IsEvent(lines[j])}}

ViewInv == ViewsTyped /\ LogCounts /\ StreamInv /\ CopyInv

\* The next number is greater than all in the log.
LEMMA NumbersGoOn ==
  ASSUME ViewsTyped, LogCounts
  PROVE  /\ NextNumber \in Nat \ {0} /\ Numbers \ {0} = 1..(NextNumber - 1)
         /\ \A i \in DOMAIN lines : lines[i].seq < NextNumber
<1>1. PICK n \in Nat : Numbers \ {0} = 1..n
  BY DEF LogCounts
<1>2. Cardinality(1..n) = n
  BY FS_Interval
<1>3. NextNumber = n + 1
  <2>1. Cardinality(Numbers \ {0}) = n
    BY <1>1, <1>2, Zenon
  <2> QED
    BY <2>1 DEF NextNumber
<1>4. ASSUME NEW i \in DOMAIN lines
      PROVE  lines[i].seq \in 0..n
  <2>1. lines[i].seq \in Numbers
    BY DEF Numbers
  <2>2. lines[i] \in Line
    BY DEF ViewsTyped
  <2>3. lines[i].seq \in Nat
    BY <2>2 DEF Line
  <2> QED
    BY <1>1, <2>1, <2>3
<1> QED
  BY <1>1, <1>3, <1>4

\* The log grows by one line, the others stay as they are.
Longer(line) == lines' = Append(lines, line) /\ stream' = stream /\ copy' = copy

\* A line more keeps the types and the numbers.
LEMMA AppendKeepsLog ==
  ASSUME ViewsTyped, LogCounts, NEW line \in Line, line.seq \in {0, NextNumber}, Longer(line)
  PROVE  /\ ViewsTyped' /\ LogCounts' /\ Numbers' = Numbers \cup {line.seq}
         /\ Len(lines') = Len(lines) + 1
         /\ \A i \in 1..Len(lines) : lines'[i] = lines[i]
         /\ lines'[Len(lines) + 1] = line
<1>1. /\ lines \in Seq(Line) /\ Len(lines) \in Nat /\ DOMAIN lines = 1..Len(lines)
  BY DEF ViewsTyped
<1>2. /\ lines' \in Seq(Line) /\ Len(lines') = Len(lines) + 1 /\ DOMAIN lines' = 1..(Len(lines) + 1)
      /\ \A i \in 1..Len(lines) : lines'[i] = lines[i]
      /\ lines'[Len(lines) + 1] = line
  BY <1>1 DEF Longer
<1>3. ViewsTyped'
  BY <1>1, <1>2 DEF ViewsTyped, Longer, Subscriptions
<1>4. Numbers' = Numbers \cup {line.seq}
  <2>1. \A i \in DOMAIN lines' : i \in DOMAIN lines \/ i = Len(lines) + 1
    BY <1>1, <1>2
  <2>2. \A i \in DOMAIN lines : i \in DOMAIN lines' /\ lines'[i] = lines[i]
    BY <1>1, <1>2
  <2>3. Len(lines) + 1 \in DOMAIN lines'
    BY <1>1, <1>2
  <2> QED
    BY <1>2, <2>1, <2>2, <2>3 DEF Numbers
<1>5. LogCounts'
  <2>1. ASSUME NEW i \in DOMAIN lines', NEW j \in DOMAIN lines',
               IsEvent(lines'[i]), IsEvent(lines'[j]), i < j
        PROVE  lines'[i].seq < lines'[j].seq
    <3>1. i \in DOMAIN lines
      BY <1>1, <1>2, <2>1
    <3>2. CASE j \in DOMAIN lines
      BY <1>1, <1>2, <2>1, <3>1, <3>2 DEF LogCounts
    <3>3. CASE j = Len(lines) + 1
      BY <1>1, <1>2, <2>1, <3>1, <3>3, NumbersGoOn DEF IsEvent
    <3> QED
      BY <1>1, <1>2, <3>2, <3>3
  <2>2. \E n \in Nat : Numbers' \ {0} = 1..n
    <3>1. CASE line.seq = 0
      BY <1>4, <3>1 DEF LogCounts
    <3>2. CASE line.seq = NextNumber
      <4>1. Numbers' \ {0} = 1..NextNumber
        BY <1>4, <3>2, NumbersGoOn
      <4> QED
        BY <4>1, NumbersGoOn
    <3> QED
      BY <3>1, <3>2
  <2> QED
    BY <2>1, <2>2 DEF LogCounts
<1> QED
  BY <1>2, <1>3, <1>4, <1>5

\* Files that agree up to a line have the same beginning.
LEMMA SameBeginning ==
  ASSUME NEW S, NEW a \in Seq(S), NEW b \in Seq(S), NEW n \in 0..Len(a), n <= Len(b),
         \A i \in 1..n : b[i] = a[i]
  PROVE  SubSeq(b, 1, n) = SubSeq(a, 1, n)
<1>1. \A s \in Seq(S) : n <= Len(s) => SubSeq(s, 1, n) = [i \in 1..n |-> s[i]]
  OBVIOUS
<1> QED
  BY <1>1

\* A line more, whole or torn, is behind everything the viewers have read.
LEMMA AppendKeeps ==
  ASSUME ViewInv, NEW line \in Line, line.seq \in {0, NextNumber}, Longer(line)
  PROVE  ViewInv'
<1>0. ViewsTyped /\ LogCounts
  BY DEF ViewInv
<1>1. /\ ViewsTyped' /\ LogCounts' /\ Numbers' = Numbers \cup {line.seq}
      /\ Len(lines') = Len(lines) + 1
      /\ \A i \in 1..Len(lines) : lines'[i] = lines[i]
      /\ lines'[Len(lines) + 1] = line
  BY <1>0, AppendKeepsLog
<1>2. /\ Len(lines) \in Nat /\ DOMAIN lines = 1..Len(lines) /\ DOMAIN lines' = 1..(Len(lines) + 1)
      /\ stream \in Subscriptions /\ stream.pos \in 1..(Len(lines) + 1)
      /\ copy.size \in 0..Len(lines) /\ copy.pos \in 1..(copy.size + 1)
  <2>1. Len(lines) \in Nat /\ DOMAIN lines = 1..Len(lines) /\ lines' \in Seq(Line)
    BY <1>0, <1>1 DEF ViewsTyped
  <2>2. DOMAIN lines' = 1..(Len(lines) + 1)
    BY <1>1, <2>1
  <2>3. stream \in Subscriptions /\ stream.pos \in 1..(Len(lines) + 1)
    BY <1>0, <2>1 DEF ViewsTyped, Subscriptions
  <2>4. copy.size \in 0..Len(lines) /\ copy.pos \in 1..(copy.size + 1)
    BY <1>0, <2>1 DEF ViewsTyped
  <2> QED
    BY <2>1, <2>2, <2>3, <2>4
<1>3. stream' = stream /\ copy' = copy
  BY DEF Longer
<1>4. \A l : AskedFor(l)' <=> AskedFor(l)
  BY <1>3 DEF AskedFor, Past, MatchesFilter, IsEvent
<1>5. StreamInv'
  <2>1. SentIsAwaited'
    <3> SUFFICES ASSUME stream.phase # "closed" PROVE SentIsAwaited'
      BY <1>3 DEF SentIsAwaited
    <3>1. Awaited(lines)' = Awaited(lines) \cup {n \in {line.seq} : AskedFor(line)}
      BY <1>1, <1>2, <1>4 DEF Awaited
    <3>2. AskedFor(line) => line.seq = NextNumber /\ line.seq >= stream.asked
      BY DEF AskedFor, IsEvent
    <3>3. stream.last \in Numbers => stream.last < NextNumber
      BY <1>0, NumbersGoOn DEF Numbers
    <3>4. AskedFor(line) => stream.last < line.seq
      BY <1>0, <1>2, <3>2, <3>3, NumbersGoOn DEF ViewInv, StreamInv, SentIsAwaited, Subscriptions
    <3>5. {n \in Awaited(lines)' : n <= stream.last} = {n \in Awaited(lines) : n <= stream.last}
      <4>1. line.seq \in Nat /\ stream.last \in Nat
        BY <1>2 DEF Line, Subscriptions
      <4> QED
        BY <3>1, <3>4, <4>1
    <3> QED
      BY <1>1, <1>3, <3>5 DEF ViewInv, StreamInv, SentIsAwaited, Ascending
  <2>2. ReplayKnows'
    <3> SUFFICES ASSUME stream.phase \in {"replay", "replayed"} PROVE ReplayKnows'
      BY <1>3 DEF ReplayKnows
    <3>0. SentIsAwaited /\ ReplayKnows
      BY DEF ViewInv, StreamInv
    <3>1. \A i \in 1..(stream.pos - 1) : lines'[i] = lines[i]
      BY <1>1, <1>2
    <3>2. IsEvent(line) /\ line.seq >= stream.from => line.seq > stream.last
      <4>1. stream.last \in Numbers => stream.last < NextNumber
        BY <1>0, NumbersGoOn DEF Numbers
      <4> QED
        BY <1>0, <1>2, <3>0, <4>1, NumbersGoOn DEF SentIsAwaited, Subscriptions, IsEvent
    <3>3. \A i \in stream.pos..Len(lines') :
            IsEvent(lines'[i]) /\ lines'[i].seq >= stream.from => lines'[i].seq > stream.last
      <4> SUFFICES ASSUME NEW i \in stream.pos..Len(lines')
                   PROVE  IsEvent(lines'[i]) /\ lines'[i].seq >= stream.from => lines'[i].seq > stream.last
        OBVIOUS
      <4>1. CASE i = Len(lines) + 1
        BY <1>1, <3>2, <4>1
      <4>2. CASE i # Len(lines) + 1
        BY <1>1, <1>2, <3>0, <4>2 DEF ReplayKnows
      <4> QED
        BY <4>1, <4>2
    <3>4. \A i \in 1..(stream.pos - 1) : AskedFor(lines[i])' => lines'[i].seq <= stream.last
      <4>1. \A i \in 1..(stream.pos - 1) : AskedFor(lines[i]) => lines[i].seq <= stream.last
        BY <3>0 DEF ReplayKnows
      <4> QED
        BY <1>4, <3>1, <4>1
    <3>5. stream.from <= stream.last + 1
      BY <3>0 DEF ReplayKnows
    <3> QED
      BY <1>3, <3>3, <3>4, <3>5 DEF ReplayKnows, IsEvent
  <2>3. EndIsKept'
    <3>1. SubSeq(lines', 1, stream.pos - 1) = SubSeq(lines, 1, stream.pos - 1)
      <4>1. lines \in Seq(Line) /\ lines' \in Seq(Line)
        BY <1>0, <1>1 DEF ViewsTyped
      <4>2. stream.pos - 1 \in 0..Len(lines) /\ \A i \in 1..(stream.pos - 1) : lines'[i] = lines[i]
        BY <1>1, <1>2
      <4> QED
        BY <1>1, <1>2, <4>1, <4>2, SameBeginning
    <3>2. Awaited(SubSeq(lines, 1, stream.pos - 1))' = Awaited(SubSeq(lines, 1, stream.pos - 1))
      BY <1>3, <1>4, <3>1 DEF Awaited
    <3> QED
      BY <1>3, <3>2 DEF ViewInv, StreamInv, EndIsKept
  <2> QED
    BY <2>1, <2>2, <2>3 DEF StreamInv
<1>6. CopyInv'
  <2>1. \A j \in 1..(copy.pos - 1) : lines'[j] = lines[j]
    BY <1>1, <1>2
  <2> QED
    BY <1>3, <2>1 DEF ViewInv, CopyInv, IsEvent
<1> QED
  BY <1>1, <1>5, <1>6 DEF ViewInv

\* Positions of the log and what stands there.
LEMMA LinesAt ==
  ASSUME ViewsTyped, LogCounts
  PROVE  /\ lines \in Seq(Line) /\ Len(lines) \in Nat /\ DOMAIN lines = 1..Len(lines)
         /\ \A i \in 1..Len(lines) : lines[i] \in Line /\ lines[i].seq \in Nat /\ lines[i].seq \in Numbers
         /\ \A i, j \in 1..Len(lines) :
              IsEvent(lines[i]) /\ IsEvent(lines[j]) /\ lines[i].seq <= lines[j].seq => i <= j
<1>1. lines \in Seq(Line) /\ Len(lines) \in Nat /\ DOMAIN lines = 1..Len(lines)
  BY DEF ViewsTyped
<1>2. \A i \in 1..Len(lines) : lines[i] \in Line
  BY <1>1
<1>3. \A i \in 1..Len(lines) : lines[i].seq \in Nat
  BY <1>2 DEF Line
<1>4. \A i \in 1..Len(lines) : lines[i].seq \in Numbers
  BY <1>1 DEF Numbers
<1>5. ASSUME NEW i \in 1..Len(lines), NEW j \in 1..Len(lines),
             IsEvent(lines[i]), IsEvent(lines[j]), lines[i].seq <= lines[j].seq
      PROVE  i <= j
  <2>1. j < i => lines[j].seq < lines[i].seq
    BY <1>1, <1>5 DEF LogCounts
  <2> QED
    BY <1>1, <1>3, <1>5, <2>1
<1> QED
  BY <1>1, <1>2, <1>3, <1>4, <1>5

\* Sending the next number that is awaited.
LEMMA SendKeeps ==
  ASSUME ViewsTyped, NEW n \in Nat, Ascending(stream.sent), NEW S \in SUBSET Nat, n \in S,
         ToSet(stream.sent) = {m \in S : m <= stream.last}, stream.last < n,
         \A m \in S : m <= n => m <= stream.last \/ m = n,
         stream'.sent = Append(stream.sent, n)
  PROVE  /\ Ascending(stream'.sent)
         /\ ToSet(stream'.sent) = {m \in S : m <= n}
<1> DEFINE s == stream.sent
<1>1. s \in Seq(Nat) /\ Len(s) \in Nat /\ DOMAIN s = 1..Len(s) /\ stream.last \in Nat
  BY DEF ViewsTyped, Subscriptions
<1>2. /\ Append(s, n) \in Seq(Nat) /\ DOMAIN Append(s, n) = 1..(Len(s) + 1)
      /\ \A i \in 1..Len(s) : Append(s, n)[i] = s[i]
      /\ Append(s, n)[Len(s) + 1] = n
  BY <1>1
<1>3. \A i \in 1..Len(s) : s[i] \in Nat /\ s[i] < n
  <2> SUFFICES ASSUME NEW i \in 1..Len(s) PROVE s[i] \in Nat /\ s[i] < n
    OBVIOUS
  <2>1. s[i] \in ToSet(s) /\ s[i] \in Nat
    BY <1>1 DEF ToSet
  <2> QED
    BY <1>1, <2>1
<1>4. Ascending(Append(s, n))
  <2> SUFFICES ASSUME NEW i \in 1..(Len(s) + 1), NEW j \in 1..(Len(s) + 1), i < j
               PROVE  Append(s, n)[i] < Append(s, n)[j]
    BY <1>2 DEF Ascending
  <2>1. i \in 1..Len(s)
    BY <1>1
  <2>2. CASE j = Len(s) + 1
    BY <1>2, <1>3, <2>1, <2>2
  <2>3. CASE j \in 1..Len(s)
    BY <1>1, <1>2, <2>1, <2>3 DEF Ascending
  <2> QED
    BY <1>1, <2>2, <2>3
<1>5. ToSet(Append(s, n)) = ToSet(s) \cup {n}
  <2>1. \A i \in 1..(Len(s) + 1) : i \in 1..Len(s) \/ i = Len(s) + 1
    BY <1>1
  <2>2. \A i \in 1..Len(s) : i \in 1..(Len(s) + 1)
    BY <1>1
  <2>3. Len(s) + 1 \in 1..(Len(s) + 1)
    BY <1>1
  <2> QED
    BY <1>1, <1>2, <2>1, <2>2, <2>3 DEF ToSet
<1>6. {m \in S : m <= n} = {m \in S : m <= stream.last} \cup {n}
  <2>1. ASSUME NEW m \in S
        PROVE  m <= n <=> (m <= stream.last \/ m = n)
    <3>1. m \in Nat /\ (m <= n => m <= stream.last \/ m = n)
      OBVIOUS
    <3> QED
      BY <1>1, <3>1
  <2> QED
    BY <2>1
<1> QED
  BY <1>4, <1>5, <1>6

\* A step of the stream, which leaves the log and what is awaited alone.
Streams ==
  /\ lines' = lines /\ copy' = copy
  /\ stream.phase # "closed"
  /\ stream'.asked = stream.asked /\ stream'.to = stream.to /\ stream'.team = stream.team
  /\ stream' \in Subscriptions

\* What such a step leaves as it was.
LEMMA StreamsFrame ==
  ASSUME ViewInv, Streams
  PROVE  /\ LogCounts' /\ CopyInv' /\ Numbers' = Numbers
         /\ \A l : AskedFor(l)' <=> AskedFor(l)
         /\ \A f : Awaited(f)' = Awaited(f)
         /\ stream'.pos <= Len(lines) + 1 => ViewsTyped'
         /\ Awaited(lines) \in SUBSET Nat
<1>1. \A l : AskedFor(l)' <=> AskedFor(l)
  BY DEF Streams, AskedFor, Past, MatchesFilter, IsEvent
<1>2. \A f : Awaited(f)' = Awaited(f)
  BY <1>1 DEF Awaited
<1>3. LogCounts' /\ CopyInv' /\ Numbers' = Numbers
  BY DEF ViewInv, LogCounts, CopyInv, Numbers, IsEvent, Streams
<1>4. stream'.pos <= Len(lines) + 1 => ViewsTyped'
  BY DEF ViewInv, ViewsTyped, Streams
<1>5. Awaited(lines) \in SUBSET Nat
  BY LinesAt DEF ViewInv, Awaited
<1> QED
  BY <1>1, <1>2, <1>3, <1>4, <1>5

\* A subscription that reads on is one.
LEMMA ReadOn ==
  ASSUME NEW s \in Subscriptions, NEW p \in Nat \ {0}, NEW q \in Seq(Nat), NEW l \in Nat, NEW e \in Nat,
         NEW ph \in {"replay", "replayed"}
  PROVE  [s EXCEPT !.pos = p, !.sent = q, !.last = l, !.emitted = e, !.phase = ph] \in Subscriptions
<1>1. ph \in {"closed", "replay", "replayed", "tail", "ended"}
  OBVIOUS
<1> QED
  BY <1>1 DEF Subscriptions

\* A line is the end, or passed over, or sent.
LEMMA ReplayKeeps == ASSUME ViewInv, Replay PROVE ViewInv'
<1> DEFINE p == stream.pos
           line == lines[p]
<1>0. /\ ViewsTyped /\ LogCounts /\ SentIsAwaited /\ ReplayKnows /\ EndIsKept /\ stream \in Subscriptions
      /\ stream.phase = "replay" /\ p \in Nat \ {0} /\ p <= Len(lines)
  BY DEF ViewInv, StreamInv, ViewsTyped, Subscriptions, Replay
<1>1. p \in 1..Len(lines) /\ line \in Line /\ line.seq \in Nat /\ line.seq \in Numbers
  BY <1>0, LinesAt
<1>2. /\ stream.asked \in Nat /\ stream.from \in Nat /\ stream.last \in Nat /\ stream.to \in Nat
      /\ stream.emitted \in Nat /\ stream.sent \in Seq(Nat)
  BY <1>0 DEF Subscriptions
<1>a. p + 1 \in Nat \ {0} /\ stream.emitted + 1 \in Nat /\ p \in p..Len(lines)
  <2>1. Len(lines) \in Nat
    BY <1>0, LinesAt
  <2>2. p + 1 \in Nat \ {0} /\ p \in p..Len(lines)
    BY <1>0, <2>1
  <2>3. stream.emitted + 1 \in Nat
    BY <1>2
  <2> QED
    BY <2>2, <2>3
<1>3. CASE IsEvent(line) /\ Past(line, stream)
  <2>1. stream' = [stream EXCEPT !.phase = "replayed"]
    BY <1>3 DEF Replay
  <2>2. Streams /\ stream'.phase = "replayed" /\ stream'.pos = p /\ stream'.sent = stream.sent
        /\ stream'.last = stream.last /\ stream'.from = stream.from /\ stream'.reopened = stream.reopened
    BY <1>0, <2>1 DEF Streams, Replay, Subscriptions
  <2> QED
    BY <1>0, <2>2, StreamsFrame DEF ViewInv, StreamInv, SentIsAwaited, ReplayKnows, EndIsKept, ViewsTyped,
       IsEvent, Streams
<1>4. CASE /\ ~(IsEvent(line) /\ Past(line, stream))
           /\ ~(InRange(line, stream) /\ MatchesFilter(line, stream))
  <2>1. stream' = [stream EXCEPT !.pos = @ + 1]
    BY <1>4 DEF Replay
  <2>2. Streams /\ stream'.phase = "replay" /\ stream'.pos = p + 1 /\ stream'.sent = stream.sent
        /\ stream'.last = stream.last /\ stream'.from = stream.from /\ stream'.reopened = stream.reopened
    BY <1>0, <1>a, <2>1 DEF Streams, Replay, Subscriptions
  <2>3. AskedFor(line) => line.seq <= stream.last
    BY <1>0, <1>1, <1>2, <1>4 DEF AskedFor, InRange, ReplayKnows
  <2>4. \A i \in 1..p : AskedFor(lines[i]) => lines[i].seq <= stream.last
    <3> SUFFICES ASSUME NEW i \in 1..p, AskedFor(lines[i]) PROVE lines[i].seq <= stream.last
      OBVIOUS
    <3>1. i = p \/ i \in 1..(p - 1)
      BY <1>0
    <3> QED
      BY <1>0, <2>3, <3>1 DEF ReplayKnows
  <2>5. ReplayKnows'
    <3>1. \A i \in (p + 1)..Len(lines) : i \in p..Len(lines)
      BY <1>1
    <3>2. (p + 1) - 1 = p
      BY <1>1
    <3> QED
      BY <1>0, <2>2, <2>4, <3>1, <3>2, StreamsFrame DEF ReplayKnows, IsEvent, Streams
  <2>6. ViewsTyped'
    BY <1>0, <1>1, <2>2, StreamsFrame, LinesAt
  <2> QED
    BY <1>0, <2>2, <2>5, <2>6, StreamsFrame DEF ViewInv, StreamInv, SentIsAwaited, EndIsKept, Streams
<1>5. CASE IsEvent(line) /\ ~Past(line, stream) /\ InRange(line, stream) /\ MatchesFilter(line, stream)
  <2>1. stream' = [Send([stream EXCEPT !.pos = @ + 1], line) EXCEPT !.emitted = @ + 1,
                     !.phase = IF stream.emitted + 1 >= ReplayCap THEN "replayed" ELSE @]
    BY <1>5 DEF Replay
  <2>2. Streams /\ stream'.phase \in {"replay", "replayed"} /\ stream'.pos = p + 1
        /\ stream'.sent = Append(stream.sent, line.seq)
        /\ stream'.last = line.seq /\ stream'.from = stream.from /\ stream'.reopened = stream.reopened
    <3>1. Append(stream.sent, line.seq) \in Seq(Nat)
      BY <1>1, <1>2
    <3>2. /\ stream'.pos = p + 1 /\ stream'.sent = Append(stream.sent, line.seq)
          /\ stream'.last = line.seq /\ stream'.emitted = stream.emitted + 1
          /\ stream'.phase \in {"replay", "replayed"}
      BY <1>0, <2>1 DEF Send, Subscriptions
    <3>3. stream' \in Subscriptions
      <4>1. \E ph \in {"replay", "replayed"} :
              stream' = [stream EXCEPT !.pos = p + 1, !.sent = Append(stream.sent, line.seq), !.last = line.seq,
                                      !.emitted = stream.emitted + 1, !.phase = ph]
        BY <1>0, <2>1 DEF Send, Subscriptions
      <4>2. PICK ph \in {"replay", "replayed"} :
              stream' = [stream EXCEPT !.pos = p + 1, !.sent = Append(stream.sent, line.seq), !.last = line.seq,
                                      !.emitted = stream.emitted + 1, !.phase = ph]
        BY <4>1
      <4> QED
        BY <1>0, <1>1, <1>a, <3>1, <4>2, ReadOn
    <3> QED
      <4>1. /\ stream'.asked = stream.asked /\ stream'.to = stream.to /\ stream'.team = stream.team
            /\ stream'.from = stream.from /\ stream'.reopened = stream.reopened
        BY <1>0, <2>1 DEF Send, Subscriptions
      <4>2. lines' = lines /\ copy' = copy
        BY DEF Replay
      <4> QED
        BY <1>0, <3>2, <3>3, <4>1, <4>2 DEF Streams
  <2>3. stream.last < line.seq /\ AskedFor(line)
    <3>1. stream.last < line.seq
      BY <1>0, <1>1, <1>2, <1>5, <1>a DEF ReplayKnows, InRange
    <3>2. stream.asked <= stream.from
      BY <1>0 DEF SentIsAwaited
    <3> QED
      BY <1>1, <1>2, <1>5, <3>1, <3>2 DEF AskedFor, InRange
  <2>4. ASSUME NEW i \in 1..Len(lines), AskedFor(lines[i]), lines[i].seq <= line.seq
        PROVE  lines[i].seq <= stream.last \/ lines[i].seq = line.seq
    <3>1. i <= p
      BY <1>0, <1>1, <1>5, <2>4, LinesAt DEF AskedFor
    <3>2. i = p \/ i \in 1..(p - 1)
      BY <1>1, <3>1
    <3> QED
      BY <1>0, <2>4, <3>2 DEF ReplayKnows
  <2>5. \A m \in Awaited(lines) : m <= line.seq => m <= stream.last \/ m = line.seq
    BY <1>0, <2>4, LinesAt DEF Awaited
  <2>6. line.seq \in Awaited(lines)
    BY <1>0, <1>1, <2>3, LinesAt DEF Awaited
  <2>7. Ascending(stream'.sent) /\ ToSet(stream'.sent) = {m \in Awaited(lines) : m <= line.seq}
    BY <1>0, <1>1, <2>2, <2>3, <2>5, <2>6, StreamsFrame, SendKeeps DEF SentIsAwaited
  <2>8. SentIsAwaited'
    <3>1. /\ Awaited(lines)' = Awaited(lines) /\ Numbers' = Numbers
          /\ stream'.asked = stream.asked /\ stream'.to = stream.to /\ stream.phase # "closed"
      BY <2>2, StreamsFrame DEF Streams
    <3>2. stream.asked <= line.seq + 1
      BY <1>1, <1>2, <2>3 DEF AskedFor
    <3>3. /\ stream'.asked <= stream'.from
          /\ stream'.to # 0 \/ ~stream'.reopened => stream'.from = stream'.asked
      BY <1>0, <2>2, <3>1 DEF SentIsAwaited
    <3> QED
      BY <1>1, <2>2, <2>7, <3>1, <3>2, <3>3 DEF SentIsAwaited
  <2>9. ReplayKnows'
    <3>1. stream'.from <= stream'.last + 1
      BY <1>1, <1>2, <1>5, <2>2 DEF InRange
    <3>2. \A i \in 1..p : AskedFor(lines[i]) => lines[i].seq <= line.seq
      <4> SUFFICES ASSUME NEW i \in 1..p, AskedFor(lines[i]) PROVE lines[i].seq <= line.seq
        OBVIOUS
      <4>1. i \in 1..Len(lines) /\ (i = p \/ i < p) /\ lines[i].seq \in Nat
        BY <1>0, <1>1, LinesAt
      <4> QED
        BY <1>0, <1>1, <1>5, <4>1, LinesAt DEF AskedFor, LogCounts
    <3>3. \A i \in (p + 1)..Len(lines) : IsEvent(lines[i]) => lines[i].seq > line.seq
      <4> SUFFICES ASSUME NEW i \in (p + 1)..Len(lines), IsEvent(lines[i]) PROVE lines[i].seq > line.seq
        OBVIOUS
      <4>1. i \in 1..Len(lines) /\ p < i
        BY <1>0, <1>1, LinesAt
      <4> QED
        BY <1>0, <1>1, <1>5, <4>1, LinesAt DEF LogCounts
    <3>4. (p + 1) - 1 = p
      BY <1>1
    <3> QED
      BY <1>0, <2>2, <3>1, <3>2, <3>3, <3>4, StreamsFrame DEF ReplayKnows, IsEvent, Streams
  <2>10. ViewsTyped'
    BY <1>0, <1>1, <2>2, StreamsFrame, LinesAt
  <2>11. EndIsKept'
    BY <2>2 DEF EndIsKept
  <2> QED
    BY <2>2, <2>8, <2>9, <2>10, <2>11, StreamsFrame DEF ViewInv, StreamInv
<1> QED
  BY <1>3, <1>4, <1>5 DEF InRange

\* The end of the file ends the replay.
LEMMA ReplayEndsKeeps == ASSUME ViewInv, ReplayEnds PROVE ViewInv'
<1>0. /\ ViewsTyped /\ SentIsAwaited /\ ReplayKnows /\ stream \in Subscriptions /\ stream.phase = "replay"
      /\ stream.pos <= Len(lines) + 1 /\ stream' = [stream EXCEPT !.phase = "replayed"]
  BY DEF ViewInv, StreamInv, ViewsTyped, ReplayEnds
<1>1. Streams /\ stream'.phase = "replayed" /\ stream'.pos = stream.pos /\ stream'.sent = stream.sent
      /\ stream'.last = stream.last /\ stream'.from = stream.from /\ stream'.reopened = stream.reopened
  BY <1>0 DEF Streams, ReplayEnds, Subscriptions
<1> QED
  BY <1>0, <1>1, StreamsFrame DEF ViewInv, StreamInv, SentIsAwaited, ReplayKnows, EndIsKept, IsEvent, Streams

\* What the replay passed over before the cap is behind what it has sent.
LEMMA BeginTailKeeps == ASSUME ViewInv, BeginTail PROVE ViewInv'
<1>0. /\ ViewsTyped /\ LogCounts /\ SentIsAwaited /\ ReplayKnows /\ EndIsKept
      /\ stream \in Subscriptions /\ stream.phase = "replayed"
      /\ stream.pos <= Len(lines) + 1
  BY DEF ViewInv, StreamInv, ViewsTyped, BeginTail
<1>1. Streams /\ stream'.pos = stream.pos /\ stream'.sent = stream.sent
      /\ stream'.phase = (IF stream.to # 0 THEN "ended" ELSE "tail")
      /\ stream'.last = stream.last /\ stream'.from = stream.from /\ stream'.reopened = stream.reopened
  BY <1>0 DEF Streams, BeginTail, FollowFrom, Subscriptions
<1>2. EndIsKept'
  <2> SUFFICES ASSUME stream.to # 0
               PROVE  ToSet(stream.sent) = Awaited(SubSeq(lines, 1, stream.pos - 1))
    BY <1>0, <1>1, StreamsFrame DEF EndIsKept, Streams
  <2> DEFINE p == stream.pos
             f == SubSeq(lines, 1, p - 1)
  <2>1. p \in Nat \ {0} /\ p - 1 \in 0..Len(lines) /\ Len(lines) \in Nat
    BY <1>0, LinesAt DEF Subscriptions
  <2>2. DOMAIN f = 1..(p - 1) /\ \A i \in 1..(p - 1) : f[i] = lines[i] /\ i \in 1..Len(lines)
    BY <1>0, <2>1, LinesAt
  <2>3. ASSUME NEW i \in 1..Len(lines), AskedFor(lines[i])
        PROVE  lines[i].seq <= stream.last <=> i <= p - 1
    <3>1. lines[i].seq \in Nat /\ IsEvent(lines[i]) /\ lines[i].seq >= stream.asked
      BY <1>0, <2>3, LinesAt DEF AskedFor
    <3>2. i <= p - 1 => lines[i].seq <= stream.last
      BY <1>0, <2>1, <2>3 DEF ReplayKnows
    <3>3. ~(i <= p - 1) => lines[i].seq > stream.last
      <4>1. stream.from = stream.asked
        BY <1>0 DEF SentIsAwaited
      <4>2. ~(i <= p - 1) => i \in p..Len(lines)
        BY <2>1
      <4> QED
        BY <1>0, <3>1, <4>1, <4>2 DEF ReplayKnows
    <3> QED
      BY <1>0, <2>1, <3>1, <3>2, <3>3 DEF Subscriptions
  <2>4. Awaited(f) = {n \in Awaited(lines) : n <= stream.last}
    <3>1. Awaited(f) = {lines[i].seq : i \in {j \in 1..(p - 1) : AskedFor(lines[j])}}
      BY <2>2 DEF Awaited
    <3>2. Awaited(lines) = {lines[i].seq : i \in {j \in 1..Len(lines) : AskedFor(lines[j])}}
      BY <1>0, LinesAt DEF Awaited
    <3>3. \A i \in 1..Len(lines) : i <= p - 1 => i \in 1..(p - 1)
      BY <2>1
    <3> HIDE DEF f, p
    <3>4. \A i \in 1..(p - 1) : i \in 1..Len(lines) /\ i <= p - 1
      BY <2>1, <2>2
    <3> QED
      BY <2>3, <3>1, <3>2, <3>3, <3>4
  <2> QED
    BY <1>0, <2>4 DEF SentIsAwaited
<1>3. ReplayKnows' /\ SentIsAwaited'
  BY <1>0, <1>1, StreamsFrame DEF SentIsAwaited, ReplayKnows, Streams
<1> QED
  BY <1>0, <1>1, <1>2, <1>3, StreamsFrame DEF ViewInv, StreamInv

\* The first line that is fresh is the next number.
LEMMA TailsKeeps == ASSUME ViewInv, Tails PROVE ViewInv'
<1>0. /\ ViewsTyped /\ LogCounts /\ SentIsAwaited /\ EndIsKept
      /\ stream \in Subscriptions /\ stream.phase = "tail" /\ stream.to = 0
  BY DEF ViewInv, StreamInv, ViewsTyped, EndIsKept, Tails
<1>1. PICK i \in Fresh :
        /\ \A j \in Fresh : i <= j
        /\ stream' = IF MatchesFilter(lines[i], stream) THEN Send(stream, lines[i])
                     ELSE [stream EXCEPT !.last = lines[i].seq]
  BY DEF Tails
<1> DEFINE line == lines[i]
<1>2. /\ i \in 1..Len(lines) /\ line.seq \in Nat /\ line.seq \in Numbers
      /\ IsEvent(line) /\ line.seq > stream.last
  BY <1>0, LinesAt DEF Fresh
<1>3. /\ stream.asked \in Nat /\ stream.from \in Nat /\ stream.last \in Nat /\ stream.to \in Nat
      /\ stream.sent \in Seq(Nat) /\ stream.pos <= Len(lines) + 1
  BY <1>0 DEF Subscriptions, ViewsTyped
<1>4. AskedFor(line) <=> MatchesFilter(line, stream)
  BY <1>0, <1>2, <1>3 DEF AskedFor, Past, SentIsAwaited
<1>5. ASSUME NEW m \in Awaited(lines), m <= line.seq
      PROVE  m <= stream.last \/ (m = line.seq /\ AskedFor(line))
  <2>1. PICK j \in 1..Len(lines) : AskedFor(lines[j]) /\ m = lines[j].seq
    BY <1>0, <1>5, LinesAt DEF Awaited
  <2>2. lines[j].seq \in Nat /\ IsEvent(lines[j])
    BY <1>0, <2>1, LinesAt DEF AskedFor
  <2>3. CASE lines[j].seq > stream.last
    <3>1. j \in Fresh
      BY <1>0, <2>2, <2>3, LinesAt DEF Fresh
    <3>2. i <= j /\ j <= i
      BY <1>0, <1>1, <1>2, <1>5, <2>1, <2>2, <3>1, LinesAt
    <3>3. i = j
      BY <1>2, <3>2
    <3> QED
      BY <2>1, <3>3
  <2> QED
    BY <1>3, <2>1, <2>2, <2>3
<1>6. CASE MatchesFilter(line, stream)
  <2>1. Append(stream.sent, line.seq) \in Seq(Nat)
    BY <1>2, <1>3
  <2>2. stream' = [stream EXCEPT !.sent = Append(stream.sent, line.seq), !.last = line.seq]
    BY <1>0, <1>1, <1>6 DEF Send, Subscriptions
  <2>3. stream' \in Subscriptions
    BY <1>0, <1>2, <2>1, <2>2 DEF Subscriptions
  <2>4. Streams /\ stream'.pos = stream.pos /\ stream'.sent = Append(stream.sent, line.seq)
        /\ stream'.phase = "tail" /\ stream'.last = line.seq /\ stream'.from = stream.from
        /\ stream'.reopened = stream.reopened
    BY <1>0, <2>2, <2>3 DEF Streams, Tails, Subscriptions
  <2>5. line.seq \in Awaited(lines)
    BY <1>0, <1>2, <1>4, <1>6, LinesAt DEF Awaited
  <2>6. Ascending(stream'.sent) /\ ToSet(stream'.sent) = {m \in Awaited(lines) : m <= line.seq}
    <3>1. \A m \in Awaited(lines) : m <= line.seq => m <= stream.last \/ m = line.seq
      BY <1>5
    <3> QED
      BY <1>0, <1>2, <2>4, <2>5, <3>1, StreamsFrame, SendKeeps DEF SentIsAwaited
  <2>7. SentIsAwaited'
    BY <1>0, <1>2, <1>3, <2>4, <2>6, StreamsFrame DEF SentIsAwaited, Streams
  <2> QED
    BY <1>0, <1>3, <2>4, <2>7, StreamsFrame DEF ViewInv, StreamInv, ReplayKnows, EndIsKept, Streams
<1>7. CASE ~MatchesFilter(line, stream)
  <2>1. Streams /\ stream'.pos = stream.pos /\ stream'.sent = stream.sent
        /\ stream'.phase = "tail" /\ stream'.last = line.seq /\ stream'.from = stream.from
        /\ stream'.reopened = stream.reopened
    BY <1>0, <1>1, <1>2, <1>7 DEF Streams, Tails, Subscriptions
  <2>2. {m \in Awaited(lines) : m <= line.seq} = {m \in Awaited(lines) : m <= stream.last}
    <3>1. ASSUME NEW m \in Awaited(lines)
          PROVE  m <= line.seq <=> m <= stream.last
      <4>1. m \in Nat
        BY <2>1, StreamsFrame
      <4> QED
        BY <1>2, <1>3, <1>4, <1>5, <1>7, <4>1
    <3> QED
      BY <3>1
  <2>3. SentIsAwaited'
    BY <1>0, <1>2, <1>3, <2>1, <2>2, StreamsFrame DEF SentIsAwaited, Streams
  <2> QED
    BY <1>0, <1>3, <2>1, <2>3, StreamsFrame DEF ViewInv, StreamInv, ReplayKnows, EndIsKept, Streams
<1> QED
  BY <1>6, <1>7

\* A subscription that begins again is one.
LEMMA Reopened ==
  ASSUME NEW s \in Subscriptions, NEW f \in Nat, NEW l \in Nat
  PROVE  [s EXCEPT !.phase = "replay", !.pos = 1, !.emitted = 0, !.reopened = TRUE, !.last = l, !.from = f]
           \in Subscriptions
<1>1. 1 \in Nat \ {0} /\ 0 \in Nat /\ TRUE \in BOOLEAN
      /\ "replay" \in {"closed", "replay", "replayed", "tail", "ended"}
  OBVIOUS
<1> QED
  BY <1>1 DEF Subscriptions

\* A client that asks from after the last it got loses nothing by it.
LEMMA ReconnectKeeps == ASSUME ViewInv, Reconnect PROVE ViewInv'
<1>0. /\ ViewsTyped /\ LogCounts /\ SentIsAwaited /\ stream \in Subscriptions
      /\ stream.phase \in {"replay", "replayed", "tail"} /\ stream.to = 0 /\ stream.reopened = FALSE
  BY DEF ViewInv, StreamInv, ViewsTyped, Subscriptions, Reconnect
<1> DEFINE s == stream.sent
           from == IF s = <<>> THEN stream.from ELSE Last(s) + 1
           last == IF from > 0 THEN from - 1 ELSE 0
<1>1. /\ stream.asked \in Nat /\ stream.from \in Nat /\ stream.last \in Nat
      /\ s \in Seq(Nat) /\ Len(s) \in Nat /\ DOMAIN s = 1..Len(s) /\ stream.from = stream.asked
      /\ Ascending(s) /\ ToSet(s) = {n \in Awaited(lines) : n <= stream.last}
  BY <1>0 DEF Subscriptions, SentIsAwaited
<1>2. /\ from \in Nat /\ last \in Nat /\ from <= last + 1 /\ stream.asked <= last + 1
      /\ stream.asked <= from
      /\ last = 0 \/ last < stream.asked \/ last \in Numbers
      /\ ToSet(s) = {n \in Awaited(lines) : n <= last}
  <2>1. CASE s = <<>>
    <3>1. from = stream.asked /\ ToSet(s) = {}
      BY <1>1, <2>1 DEF ToSet
    <3>2. ASSUME NEW n \in Awaited(lines)
          PROVE  ~(n <= last)
      <4>1. PICK j \in 1..Len(lines) : AskedFor(lines[j]) /\ n = lines[j].seq
        BY <1>0, LinesAt DEF Awaited
      <4>2. n \in Nat /\ n # 0 /\ n >= stream.asked
        BY <1>0, <4>1, LinesAt DEF AskedFor, IsEvent
      <4> QED
        BY <1>1, <3>1, <4>2
    <3> QED
      BY <1>1, <3>1, <3>2
  <2>2. CASE s # <<>>
    <3>1. Len(s) \in 1..Len(s) /\ Last(s) = s[Len(s)] /\ Last(s) \in Nat
      BY <1>1, <2>2 DEF Last
    <3>2. Last(s) \in ToSet(s) /\ from = Last(s) + 1 /\ last = Last(s)
      BY <1>1, <2>2, <3>1 DEF ToSet
    <3>3. PICK j \in 1..Len(lines) : AskedFor(lines[j]) /\ Last(s) = lines[j].seq
      BY <1>0, <1>1, <3>2, LinesAt DEF Awaited
    <3>4. Last(s) \in Numbers /\ Last(s) >= stream.asked /\ Last(s) <= stream.last
      BY <1>0, <1>1, <3>2, <3>3, LinesAt DEF AskedFor
    <3>5. \A n \in ToSet(s) : n <= Last(s)
      <4> SUFFICES ASSUME NEW k \in 1..Len(s) PROVE s[k] <= Last(s)
        BY <1>1 DEF ToSet
      <4>1. k = Len(s) \/ k < Len(s)
        BY <1>1
      <4>2. s[k] \in Nat
        BY <1>1
      <4>3. k < Len(s) => s[k] < s[Len(s)]
        BY <1>1, <3>1 DEF Ascending
      <4> QED
        BY <3>1, <4>1, <4>2, <4>3
    <3>6. ASSUME NEW n \in Awaited(lines)
          PROVE  n <= stream.last <=> n <= Last(s)
      <4>1. n \in Nat
        BY <1>0, LinesAt DEF Awaited
      <4>2. n <= stream.last => n <= Last(s)
        BY <1>1, <3>5
      <4>3. n <= Last(s) => n <= stream.last
        BY <1>1, <3>1, <3>4, <4>1
      <4> QED
        BY <4>2, <4>3
    <3>7. ToSet(s) = {n \in Awaited(lines) : n <= Last(s)}
      BY <1>1, <3>6
    <3>8. last \in Nat /\ from \in Nat /\ from <= last + 1 /\ stream.asked <= last + 1 /\ stream.asked <= from
      BY <1>1, <3>1, <3>2, <3>4
    <3> HIDE DEF from, last
    <3> QED
      BY <3>2, <3>4, <3>7, <3>8
  <2> QED
    BY <2>1, <2>2
<1>3. stream' = [stream EXCEPT !.phase = "replay", !.pos = 1, !.emitted = 0, !.reopened = TRUE,
                   !.last = last, !.from = from]
  BY DEF Reconnect
<1>4. /\ stream' \in Subscriptions /\ stream'.phase = "replay" /\ stream'.pos = 1 /\ stream'.reopened = TRUE
      /\ stream'.last = last /\ stream'.from = from /\ stream'.sent = s
      /\ stream'.asked = stream.asked /\ stream'.to = stream.to /\ stream'.team = stream.team
  <2> HIDE DEF from, last, s
  <2>1. /\ stream'.phase = "replay" /\ stream'.pos = 1 /\ stream'.reopened = TRUE
        /\ stream'.last = last /\ stream'.from = from /\ stream'.sent = stream.sent
        /\ stream'.asked = stream.asked /\ stream'.to = stream.to /\ stream'.team = stream.team
    BY <1>0, <1>3 DEF Subscriptions
  <2>2. last \in Nat /\ from \in Nat
    BY <1>2
  <2>3. stream' \in Subscriptions
    BY <1>0, <1>3, <2>2, Reopened
  <2> QED
    BY <2>1, <2>3 DEF s
<1> HIDE DEF from, last
<1>5. Streams
  BY <1>0, <1>4 DEF Streams, Reconnect
<1>6. SentIsAwaited'
  <2>1. ToSet(stream.sent) = {n \in Awaited(lines) : n <= last}
    BY <1>2
  <2>2. ToSet(stream'.sent) = {n \in Awaited(lines)' : n <= stream'.last} /\ Ascending(stream'.sent)
    BY <1>1, <1>4, <1>5, <2>1, StreamsFrame DEF Streams
  <2> QED
    BY <1>0, <1>2, <1>4, <1>5, <2>2, StreamsFrame DEF SentIsAwaited, Streams
<1>7. ReplayKnows'
  <2>1. \A i \in 1..(stream'.pos - 1) : FALSE
    BY <1>4
  <2>2. ASSUME NEW i \in 1..Len(lines), IsEvent(lines[i]), lines[i].seq >= from
        PROVE  lines[i].seq > last
    BY <1>0, <1>2, <1>3, <2>2, LinesAt DEF IsEvent, from, last
  <2>3. lines' = lines
    BY <1>5 DEF Streams
  <2> QED
    BY <1>2, <1>4, <2>1, <2>2, <2>3 DEF ReplayKnows, IsEvent
<1>8. EndIsKept'
  BY <1>4 DEF EndIsKept
<1>9. ViewsTyped'
  BY <1>0, <1>4, <1>5, StreamsFrame, LinesAt
<1> QED
  BY <1>5, <1>6, <1>7, <1>8, <1>9, StreamsFrame DEF ViewInv, StreamInv

\* A subscription begins with nothing sent and all that it asked for ahead.
LEMMA SubscribeKeeps == ASSUME ViewInv, Subscribe PROVE ViewInv'
<1>0. ViewsTyped /\ LogCounts /\ stream = NoStream /\ lines' = lines /\ copy' = copy
  BY DEF ViewInv, Subscribe
<1>1. PICK r \in Ranges, t \in Teams \cup {"any"} :
        stream' = [NoStream EXCEPT !.phase = "replay", !.asked = r[1], !.from = r[1], !.to = r[2], !.team = t,
                     !.last = IF r[1] > 0 THEN r[1] - 1 ELSE 0]
  BY DEF Subscribe
<1>2. r[1] \in Nat /\ r[2] \in Nat
  BY RangesAssumption
<1> DEFINE last == IF r[1] > 0 THEN r[1] - 1 ELSE 0
<1>3. last \in Nat /\ r[1] <= last + 1 /\ (last = 0 \/ last < r[1])
  BY <1>2
<1>4. /\ stream'.phase = "replay" /\ stream'.pos = 1 /\ stream'.reopened = FALSE /\ stream'.last = last
      /\ stream'.from = r[1] /\ stream'.asked = r[1] /\ stream'.sent = <<>> /\ stream' \in Subscriptions
  <2>1. stream' = [phase |-> "replay", asked |-> r[1], from |-> r[1], to |-> r[2], team |-> t, pos |-> 1,
                   emitted |-> 0, sent |-> <<>>, last |-> last, reopened |-> FALSE]
    BY <1>1 DEF NoStream
  <2>2. <<>> \in Seq(Nat)
    OBVIOUS
  <2> HIDE DEF last
  <2> QED
    BY <1>2, <1>3, <2>1, <2>2 DEF Subscriptions
<1>5. ASSUME NEW i \in 1..Len(lines), IsEvent(lines[i]), lines[i].seq >= r[1]
      PROVE  lines[i].seq > last
  BY <1>0, <1>2, <1>5, LinesAt DEF IsEvent
<1> HIDE DEF last
<1>6. SentIsAwaited'
  <2>1. ToSet(<<>>) = {} /\ Ascending(<<>>)
    BY DEF ToSet, Ascending
  <2>2. ASSUME NEW n \in Awaited(lines)'
        PROVE  ~(n <= last)
    <3>1. PICK j \in 1..Len(lines) : AskedFor(lines[j])' /\ n = lines[j].seq
      BY <1>0, LinesAt DEF Awaited
    <3>2. IsEvent(lines[j]) /\ lines[j].seq >= r[1] /\ n \in Nat
      BY <1>0, <1>4, <3>1, LinesAt DEF AskedFor, IsEvent
    <3> QED
      BY <1>3, <1>5, <3>1, <3>2
  <2>3. {n \in Awaited(lines)' : n <= last} = {}
    BY <2>2
  <2>4. r[1] <= r[1]
    BY <1>2
  <2> QED
    BY <1>3, <1>4, <2>1, <2>3, <2>4 DEF SentIsAwaited
<1>7. ReplayKnows'
  <2>1. \A i \in 1..(stream'.pos - 1) : FALSE
    BY <1>4
  <2> QED
    BY <1>0, <1>3, <1>4, <1>5, <2>1 DEF ReplayKnows, IsEvent
<1>8. EndIsKept'
  BY <1>4 DEF EndIsKept
<1>9. ViewsTyped'
  BY <1>0, <1>4, LinesAt DEF ViewsTyped
<1>10. LogCounts' /\ CopyInv'
  BY <1>0 DEF ViewInv, LogCounts, CopyInv, Numbers, IsEvent
<1> QED
  BY <1>6, <1>7, <1>8, <1>9, <1>10 DEF ViewInv, StreamInv

\* A download is no concern of the stream.
LEMMA StreamStays ==
  ASSUME ViewInv, lines' = lines, stream' = stream
  PROVE  LogCounts' /\ StreamInv'
<1>1. LogCounts'
  BY DEF ViewInv, LogCounts, Numbers, IsEvent
<1>2. \A l : AskedFor(l)' <=> AskedFor(l)
  BY DEF AskedFor, Past, MatchesFilter, IsEvent
<1>3. \A f : Awaited(f)' = Awaited(f)
  BY <1>2 DEF Awaited
<1>4. SentIsAwaited'
  BY <1>3 DEF ViewInv, StreamInv, SentIsAwaited, Numbers
<1>5. ReplayKnows'
  BY <1>2 DEF ViewInv, StreamInv, ReplayKnows, IsEvent
<1>6. EndIsKept'
  BY <1>3 DEF ViewInv, StreamInv, EndIsKept
<1> QED
  BY <1>1, <1>4, <1>5, <1>6 DEF StreamInv

\* A download goes on by one line.
LEMMA CopyGoesOn ==
  ASSUME ViewsTyped, copy.pos <= copy.size, NEW h \in Seq(Nat), lines' = lines, stream' = stream,
         copy' = [copy EXCEPT !.pos = copy.pos + 1, !.got = h]
  PROVE  ViewsTyped' /\ copy'.pos = copy.pos + 1 /\ copy'.got = h /\ copy'.size = copy.size
<1>1. /\ copy \in [size : Nat, pos : Nat \ {0}, got : Seq(Nat), open : BOOLEAN]
      /\ copy.pos \in Nat \ {0} /\ copy.size \in Nat
  BY DEF ViewsTyped
<1>2. copy'.pos = copy.pos + 1 /\ copy'.got = h /\ copy'.size = copy.size
  BY <1>1
<1>3. copy.pos + 1 \in Nat \ {0} /\ copy.pos + 1 <= copy.size + 1
  BY <1>1
<1>4. copy' \in [size : Nat, pos : Nat \ {0}, got : Seq(Nat), open : BOOLEAN]
  BY <1>1, <1>3
<1> QED
  BY <1>2, <1>3, <1>4 DEF ViewsTyped

\* A download begins with nothing read.
LEMMA OpenDownloadKeeps == ASSUME ViewInv, OpenDownload PROVE ViewInv'
<1>1. /\ copy' = [size |-> Len(lines), pos |-> 1, got |-> <<>>, open |-> TRUE]
      /\ lines' = lines /\ stream' = stream
  BY DEF OpenDownload, NoCopy
<1>2. ViewsTyped /\ Len(lines) \in Nat /\ <<>> \in Seq(Nat)
  BY LinesAt DEF ViewInv
<1>3. ViewsTyped'
  BY <1>1, <1>2 DEF ViewsTyped
<1>4. CopyInv'
  <2>1. 1..(1 - 1) = {}
    OBVIOUS
  <2> QED
    BY <1>1, <2>1 DEF CopyInv, ToSet, IsEvent
<1> QED
  BY <1>1, <1>3, <1>4, StreamStays DEF ViewInv

\* A download reads on by one line.
LEMMA DownloadKeeps == ASSUME ViewInv, Download PROVE ViewInv'
<1> DEFINE p == copy.pos
           line == lines[p]
           g == copy.got
<1>0. /\ ViewsTyped /\ LogCounts /\ CopyInv /\ lines' = lines /\ stream' = stream /\ p <= copy.size
      /\ copy' = [copy EXCEPT !.pos = p + 1, !.got = IF IsEvent(line) THEN Append(g, line.seq) ELSE g]
  BY DEF ViewInv, Download
<1>1. /\ p \in 1..Len(lines) /\ line.seq \in Nat /\ g \in Seq(Nat) /\ Len(g) \in Nat /\ DOMAIN g = 1..Len(g)
      /\ copy.size \in Nat /\ copy.size <= Len(lines)
  BY <1>0, LinesAt DEF ViewsTyped
<1>2. \A i \in 1..p : i = p \/ i \in 1..(p - 1)
  BY <1>1
<1>3. CASE ~IsEvent(line)
  <2>1. copy'.pos = p + 1 /\ copy'.got = g /\ copy'.size = copy.size /\ ViewsTyped'
    BY <1>0, <1>1, <1>3, CopyGoesOn
  <2>3. CopyInv'
    <3>1. {j \in 1..p : IsEvent(lines[j])} = {j \in 1..(p - 1) : IsEvent(lines[j])}
      BY <1>1, <1>2, <1>3
    <3>2. (p + 1) - 1 = p
      BY <1>1
    <3> QED
      BY <1>0, <2>1, <3>1, <3>2 DEF CopyInv, IsEvent
  <2> QED
    BY <1>0, <2>1, <2>3, StreamStays DEF ViewInv
<1>4. CASE IsEvent(line)
  <2>1. Append(g, line.seq) \in Seq(Nat) /\ DOMAIN Append(g, line.seq) = 1..(Len(g) + 1)
        /\ (\A i \in 1..Len(g) : Append(g, line.seq)[i] = g[i])
        /\ Append(g, line.seq)[Len(g) + 1] = line.seq
    BY <1>1
  <2>2. copy'.pos = p + 1 /\ copy'.got = Append(g, line.seq) /\ copy'.size = copy.size /\ ViewsTyped'
    BY <1>0, <1>4, <2>1, CopyGoesOn
  <2>4. ToSet(g) = 1..Len(g)
    BY <1>0, <1>1 DEF CopyInv, ToSet
  <2>5. \A n : n \in ToSet(g) <=> \E j \in 1..(p - 1) : IsEvent(lines[j]) /\ n = lines[j].seq
    BY <1>0 DEF CopyInv
  <2>6. PICK n \in Nat : Numbers \ {0} = 1..n
    BY <1>0 DEF LogCounts
  <2>7. line.seq \in 1..n
    BY <1>0, <1>1, <1>4, <2>6, LinesAt DEF IsEvent
  <2>8. \A k \in 1..Len(g) : k < line.seq
    <3> SUFFICES ASSUME NEW k \in 1..Len(g) PROVE k < line.seq
      OBVIOUS
    <3>1. PICK j \in 1..(p - 1) : IsEvent(lines[j]) /\ k = lines[j].seq
      BY <2>4, <2>5
    <3>2. j \in 1..Len(lines) /\ j < p
      BY <1>1
    <3> QED
      BY <1>0, <1>1, <1>4, <3>1, <3>2, LinesAt DEF LogCounts
  <2>9. \A k \in 1..(line.seq - 1) : k \in 1..Len(g)
    <3> SUFFICES ASSUME NEW k \in 1..(line.seq - 1) PROVE k \in 1..Len(g)
      OBVIOUS
    <3>1. k \in 1..n /\ k < line.seq /\ k \in Nat
      BY <1>1, <2>7
    <3>2. PICK j \in 1..Len(lines) : k = lines[j].seq /\ IsEvent(lines[j])
      BY <1>0, <2>6, <3>1, LinesAt DEF Numbers, IsEvent
    <3>3. j <= p /\ j # p
      BY <1>0, <1>1, <1>4, <3>1, <3>2, LinesAt
    <3>4. j \in 1..(p - 1)
      BY <1>1, <3>3
    <3> QED
      BY <2>4, <2>5, <3>2, <3>4
  <2>10. line.seq = Len(g) + 1
    <3>1. Len(g) < line.seq
      <4>1. Len(g) = 0 \/ Len(g) \in 1..Len(g)
        BY <1>1
      <4> QED
        BY <1>1, <2>7, <2>8, <4>1
    <3>2. line.seq - 1 <= Len(g)
      <4>1. line.seq = 1 \/ line.seq - 1 \in 1..(line.seq - 1)
        BY <1>1, <2>7
      <4> QED
        BY <1>1, <2>9, <4>1
    <3> QED
      BY <1>1, <3>1, <3>2
  <2>11. CopyInv'
    <3>1. \A i \in DOMAIN copy'.got : copy'.got[i] = i
      <4> SUFFICES ASSUME NEW i \in 1..(Len(g) + 1) PROVE Append(g, line.seq)[i] = i
        BY <2>1, <2>2
      <4>1. i = Len(g) + 1 \/ i \in 1..Len(g)
        BY <1>1
      <4> QED
        <5>1. CASE i = Len(g) + 1
          BY <1>1, <2>1, <2>10, <5>1
        <5>2. CASE i \in 1..Len(g)
          <6>1. Append(g, line.seq)[i] = g[i] /\ g[i] = i
            BY <1>0, <1>1, <2>1, <5>2 DEF CopyInv
          <6> QED
            BY <6>1
        <5> QED
          BY <4>1, <5>1, <5>2
    <3>2. ToSet(copy'.got) = ToSet(g) \cup {line.seq}
      <4>1. \A i \in 1..(Len(g) + 1) : i = Len(g) + 1 \/ i \in 1..Len(g)
        BY <1>1
      <4>2. \A i \in 1..Len(g) : i \in 1..(Len(g) + 1)
        BY <1>1
      <4>3. Len(g) + 1 \in 1..(Len(g) + 1)
        BY <1>1
      <4>4. ToSet(copy'.got) = {Append(g, line.seq)[i] : i \in 1..(Len(g) + 1)}
        BY <2>1, <2>2 DEF ToSet
      <4>5. ToSet(g) = {g[i] : i \in 1..Len(g)}
        BY <1>1 DEF ToSet
      <4> QED
        BY <2>1, <4>1, <4>2, <4>3, <4>4, <4>5
    <3>3. {lines[i].seq : i \in {j \in 1..p : IsEvent(lines[j])}} = ToSet(g) \cup {line.seq}
      <4>1. \A i \in 1..(p - 1) : i \in 1..p
        BY <1>1
      <4>2. p \in 1..p
        BY <1>1
      <4>3. \A m : m \in {lines[i].seq : i \in {j \in 1..p : IsEvent(lines[j])}} <=>
                   \E i \in 1..p : IsEvent(lines[i]) /\ m = lines[i].seq
        OBVIOUS
      <4> HIDE DEF g
      <4> QED
        BY <1>2, <1>4, <2>5, <4>1, <4>2, <4>3
    <3>4. (p + 1) - 1 = p
      BY <1>1
    <3> QED
      BY <1>0, <2>2, <3>1, <3>2, <3>3, <3>4 DEF CopyInv, IsEvent
  <2> QED
    BY <1>0, <2>2, <2>11, StreamStays DEF ViewInv
<1> QED
  BY <1>3, <1>4

\* The invariant of the viewers.
LEMMA ViewInvHolds == StreamSpec => []ViewInv
<1>1. StreamInit => ViewInv
  <2> SUFFICES ASSUME StreamInit PROVE ViewInv
    OBVIOUS
  <2>1. lines = <<>> /\ stream = NoStream /\ copy = NoCopy
    BY DEF StreamInit
  <2>2. ViewsTyped
    BY <2>1 DEF ViewsTyped, Subscriptions, NoStream, NoCopy
  <2>3. LogCounts
    <3>1. Numbers \ {0} = 1..0
      BY <2>1 DEF Numbers
    <3> QED
      BY <2>1, <3>1 DEF LogCounts
  <2>4. StreamInv
    BY <2>1 DEF StreamInv, SentIsAwaited, ReplayKnows, EndIsKept, NoStream
  <2>5. CopyInv
    <3>1. 1..(1 - 1) = {}
      OBVIOUS
    <3> QED
      BY <2>1, <3>1 DEF CopyInv, NoCopy, ToSet
  <2> QED
    BY <2>2, <2>3, <2>4, <2>5 DEF ViewInv
<1>2. ViewInv /\ [StreamNext]_streamVars => ViewInv'
  <2> SUFFICES ASSUME ViewInv, [StreamNext]_streamVars PROVE ViewInv'
    OBVIOUS
  <2>1. ASSUME AppendEvent \/ AppendIsKilled PROVE ViewInv'
    <3>1. PICK line :
            /\ line \in {[seq |-> NextNumber, team |-> t] : t \in Teams} \cup {[seq |-> 0, team |-> "all"]}
            /\ Longer(line)
      BY <2>1 DEF AppendEvent, AppendIsKilled, Longer
    <3>2. line \in Line /\ line.seq \in {0, NextNumber}
      BY <3>1, NumbersGoOn DEF ViewInv, Line
    <3> QED
      BY <3>1, <3>2, AppendKeeps
  <2>2. CASE UNCHANGED streamVars
    <3>1. lines' = lines /\ stream' = stream /\ copy' = copy
      BY <2>2 DEF streamVars
    <3> QED
      BY <3>1, StreamStays DEF ViewInv, ViewsTyped, CopyInv, IsEvent
  <2> QED
    BY <2>1, <2>2, SubscribeKeeps, ReplayKeeps, ReplayEndsKeeps, BeginTailKeeps, TailsKeeps,
       ReconnectKeeps, OpenDownloadKeeps, DownloadKeeps DEF StreamNext
<1> QED
  BY <1>1, <1>2, PTL DEF StreamSpec

\* Over the replay, its cap, the tail and a reconnection a subscriber is sent
\* each event that matches once, in order and without a gap, and a download is
\* what the file held: for every number of teams, lines and ranges and any cap.
THEOREM ViewersMissNothingHolds == StreamSpec => []ViewersMissNothing
<1>1. ViewInv => ViewersMissNothing
  <2> SUFFICES ASSUME ViewInv PROVE ViewersMissNothing
    OBVIOUS
  <2>0. ViewsTyped /\ LogCounts /\ SentIsAwaited /\ EndIsKept /\ CopyInv /\ stream.last \in Nat
    BY DEF ViewInv, StreamInv, ViewsTyped, Subscriptions
  <2>1. Awaited(lines) \in SUBSET Nat
    BY <2>0, LinesAt DEF Awaited
  <2>2. stream.phase # "closed" =>
          Ascending(stream.sent) /\ Beginning(ToSet(stream.sent), Awaited(lines))
    <3> SUFFICES ASSUME stream.phase # "closed"
                 PROVE  Ascending(stream.sent) /\ Beginning(ToSet(stream.sent), Awaited(lines))
      OBVIOUS
    <3>1. Ascending(stream.sent) /\ ToSet(stream.sent) = {n \in Awaited(lines) : n <= stream.last}
      BY <2>0 DEF SentIsAwaited
    <3>2. \A n \in Awaited(lines), m \in ToSet(stream.sent) : n <= m => n <= stream.last
      BY <2>0, <2>1, <3>1
    <3> QED
      BY <3>1, <3>2 DEF Beginning
  <2>3. stream.phase = "tail" /\ Fresh = {} => ToSet(stream.sent) = Awaited(lines)
    <3> SUFFICES ASSUME stream.phase = "tail", Fresh = {} PROVE ToSet(stream.sent) = Awaited(lines)
      OBVIOUS
    <3>1. ASSUME NEW i \in 1..Len(lines), AskedFor(lines[i])
          PROVE  lines[i].seq <= stream.last
      <4>1. i \in DOMAIN lines /\ lines[i].seq \in Nat
        BY <2>0, LinesAt
      <4> QED
        BY <2>0, <3>1, <4>1 DEF Fresh, AskedFor
    <3>2. \A n \in Awaited(lines) : n <= stream.last
      BY <2>0, <3>1, LinesAt DEF Awaited
    <3> QED
      BY <2>0, <3>2 DEF SentIsAwaited
  <2>4. copy.pos > copy.size =>
          ToSet(copy.got) = {lines[i].seq : i \in {j \in 1..copy.size : IsEvent(lines[j])}}
    <3>1. copy.pos > copy.size => copy.pos - 1 = copy.size
      BY <2>0 DEF ViewsTyped
    <3> QED
      BY <2>0, <3>1 DEF CopyInv
  <2> QED
    BY <2>0, <2>2, <2>3, <2>4 DEF ViewersMissNothing, EndIsKept, CopyInv
<1> QED
  BY <1>1, ViewInvHolds, PTL

-----------------------------------------------------------------------------
(* Induction over an interval, and functions defined along one.            *)

\* What holds of 0 and is handed on holds of every number of an interval.
LEMMA IntervalInduction ==
  ASSUME NEW n \in Nat, NEW S, 0 \in S, \A i \in 0..(n - 1) : i \in S => i + 1 \in S
  PROVE  0..n \subseteq S
<1> SUFFICES ASSUME NEW m \in 0..n, m \notin S PROVE FALSE
  OBVIOUS
<1> DEFINE B == {i \in 0..m : i \in S}
           f == [i \in B |-> i + 1]
<1>1. IsFiniteSet(B)
  <2>1. IsFiniteSet(0..m)
    BY FS_Interval
  <2> QED
    BY <2>1, FS_Subset
<1>2. 0 \in B
  OBVIOUS
<1>3. IsFiniteSet(B \ {0}) /\ Cardinality(B \ {0}) = Cardinality(B) - 1
  BY <1>1, <1>2, FS_RemoveElement
<1>4. \A i \in B : i \in 0..(n - 1) /\ i + 1 \in 0..m /\ i + 1 # 0
  OBVIOUS
<1>5. f \in [B -> B \ {0}]
  BY <1>4
<1>6. Cardinality(B) \in Nat
  BY <1>1, FS_CardinalityType
<1>7. PICK i \in B, j \in B : i # j /\ f[i] = f[j]
  <2> HIDE DEF B, f
  <2>1. Cardinality(B \ {0}) < Cardinality(B)
    BY <1>3, <1>6
  <2> QED
    BY <1>1, <1>3, <1>5, <2>1, FS_PigeonHole
<1> QED
  BY <1>7

\* Functions along an interval whose value at i comes from that at i - 1.
FoldsOf(n, V, c, step) == {f \in [0..n -> V] : f[0] = c /\ \A i \in 1..n : f[i] = step[i][f[i - 1]]}

\* There is one for each start and each step.
LEMMA FoldExists ==
  ASSUME NEW n \in Nat, NEW V, NEW c \in V, NEW step \in [1..n -> [V -> V]]
  PROVE  FoldsOf(n, V, c, step) # {}
<1> DEFINE S == {m \in 0..n : \E f \in [0..m -> V] : f[0] = c /\ \A i \in 1..m : f[i] = step[i][f[i - 1]]}
<1>1. 0 \in S
  <2> DEFINE g == [i \in 0..0 |-> c]
  <2>1. g \in [0..0 -> V] /\ g[0] = c /\ \A i \in 1..0 : g[i] = step[i][g[i - 1]]
    OBVIOUS
  <2>2. 0 \in 0..n
    OBVIOUS
  <2> HIDE DEF g
  <2> QED
    BY <2>1, <2>2
<1>2. ASSUME NEW m \in 0..(n - 1), m \in S PROVE m + 1 \in S
  <2>1. PICK f \in [0..m -> V] : f[0] = c /\ \A i \in 1..m : f[i] = step[i][f[i - 1]]
    BY <1>2
  <2> DEFINE g == [i \in 0..(m + 1) |-> IF i = m + 1 THEN step[m + 1][f[m]] ELSE f[i]]
  <2>2. m + 1 \in 1..n /\ m \in 0..m /\ \A i \in 0..(m + 1) : i = m + 1 \/ i \in 0..m
    OBVIOUS
  <2>3. g \in [0..(m + 1) -> V]
    BY <2>2
  <2>4. g[0] = c
    BY <2>1
  <2>5. ASSUME NEW i \in 1..(m + 1)
        PROVE  g[i] = step[i][g[i - 1]]
    <3>1. i - 1 \in 0..m /\ i - 1 # m + 1 /\ i - 1 \in 0..(m + 1) /\ i \in 0..(m + 1)
      OBVIOUS
    <3>2. g[i - 1] = f[i - 1]
      BY <3>1
    <3>3. CASE i = m + 1
      BY <3>1, <3>2, <3>3
    <3>4. CASE i # m + 1
      <4>1. i \in 1..m
        BY <3>4
      <4>2. g[i] = f[i]
        BY <3>1, <3>4
      <4> HIDE DEF g
      <4> QED
        BY <2>1, <3>2, <4>1, <4>2
    <3> QED
      BY <3>3, <3>4
  <2>6. m + 1 \in 0..n
    OBVIOUS
  <2> HIDE DEF g
  <2> QED
    BY <2>3, <2>4, <2>5, <2>6
<1>3. 0..n \subseteq S
  <2> HIDE DEF S
  <2> QED
    BY <1>1, <1>2, IntervalInduction
<1>4. n \in S
  BY <1>3
<1>5. PICK f \in [0..n -> V] : f[0] = c /\ \A i \in 1..n : f[i] = step[i][f[i - 1]]
  BY <1>4
<1> QED
  BY <1>5 DEF FoldsOf

-----------------------------------------------------------------------------
(* Replace.                                                                *)

\* One step of the scan.
Scanned(text, needle, b, i) ==
  IF i < b.next THEN b
  ELSE IF Occurs(text, needle, i) THEN [out |-> Append(b.out, 0), next |-> i + Len(needle)]
  ELSE [out |-> Append(b.out, text[i]), next |-> i + 1]
Scans == [out : Seq(Nat), next : Nat]

\* The scan goes from the left to the right and Replace is where it ends.
LEMMA ScanGoesRight ==
  ASSUME NEW text \in Seq(Nat), NEW needle \in Seq(Nat)
  PROVE  \E scan \in [0..Len(text) -> Scans] :
           /\ Replace(text, needle) = scan[Len(text)].out
           /\ scan[0] = [out |-> <<>>, next |-> 1]
           /\ \A i \in 1..Len(text) : scan[i] = Scanned(text, needle, scan[i - 1], i)
<1> DEFINE n == Len(text)
           Follows(f) == f = [i \in 0..n |->
             IF i = 0 THEN [out |-> <<>>, next |-> 1]
             ELSE IF i < f[i - 1].next THEN f[i - 1]
             ELSE IF Occurs(text, needle, i) THEN [out |-> Append(f[i - 1].out, 0), next |-> i + Len(needle)]
             ELSE [out |-> Append(f[i - 1].out, text[i]), next |-> i + 1]]
           step == [i \in 1..n |-> [b \in Scans |-> Scanned(text, needle, b, i)]]
           start == [out |-> <<>>, next |-> 1]
<1>1. n \in Nat /\ Len(needle) \in Nat /\ \A i \in 1..n : text[i] \in Nat
  OBVIOUS
<1>2. start \in Scans
  BY DEF Scans
<1>3. \A i \in 1..n, b \in Scans : Scanned(text, needle, b, i) \in Scans
  <2> SUFFICES ASSUME NEW i \in 1..n, NEW b \in Scans PROVE Scanned(text, needle, b, i) \in Scans
    OBVIOUS
  <2>1. i \in Nat /\ i + 1 \in Nat /\ i + Len(needle) \in Nat /\ text[i] \in Nat /\ b.out \in Seq(Nat)
    BY <1>1 DEF Scans
  <2>2. Append(b.out, 0) \in Seq(Nat) /\ Append(b.out, text[i]) \in Seq(Nat)
    BY <2>1
  <2> QED
    BY <2>1, <2>2 DEF Scanned, Scans
<1>4. step \in [1..n -> [Scans -> Scans]]
  BY <1>3
<1>5. PICK f \in [0..n -> Scans] : f[0] = start /\ \A i \in 1..n : f[i] = step[i][f[i - 1]]
  <2> HIDE DEF n, step, start
  <2>1. FoldsOf(n, Scans, start, step) # {}
    BY <1>1, <1>2, <1>4, FoldExists
  <2> QED
    BY <2>1 DEF FoldsOf
<1>6. \A i \in 1..n : step[i][f[i - 1]] = Scanned(text, needle, f[i - 1], i)
  <2> SUFFICES ASSUME NEW i \in 1..n PROVE step[i][f[i - 1]] = Scanned(text, needle, f[i - 1], i)
    OBVIOUS
  <2>1. i - 1 \in 0..n
    BY <1>1
  <2>2. f[i - 1] \in Scans
    BY <2>1
  <2> QED
    BY <2>2
<1>7. Follows(f)
  <2> DEFINE h == [i \in 0..n |->
             IF i = 0 THEN [out |-> <<>>, next |-> 1]
             ELSE IF i < f[i - 1].next THEN f[i - 1]
             ELSE IF Occurs(text, needle, i) THEN [out |-> Append(f[i - 1].out, 0), next |-> i + Len(needle)]
             ELSE [out |-> Append(f[i - 1].out, text[i]), next |-> i + 1]]
  <2>1. \A i \in 0..n : i = 0 \/ i \in 1..n
    BY <1>1
  <2> HIDE DEF step
  <2>2. \A i \in 1..n : h[i] = Scanned(text, needle, f[i - 1], i)
    BY <1>1 DEF Scanned
  <2>3. h[0] = start
    BY <1>1
  <2>6. \A i \in 0..n : f[i] = h[i]
    BY <1>5, <1>6, <2>1, <2>2, <2>3
  <2>7. DOMAIN f = 0..n /\ DOMAIN h = 0..n
    BY <1>5
  <2> QED
    BY <1>5, <2>6, <2>7
<1> DEFINE scan == CHOOSE g : Follows(g)
<1>8. Follows(scan)
  <2> HIDE DEF Follows
  <2> QED
    BY <1>7
<1>9. Replace(text, needle) = scan[n].out
  BY DEF Replace
<1>10. scan[0] = start /\ \A i \in 1..n : scan[i] = Scanned(text, needle, scan[i - 1], i)
  <2>1. 0 \in 0..n /\ \A i \in 1..n : i \in 0..n /\ i # 0
    BY <1>1
  <2> HIDE DEF scan
  <2>2. scan[0] = start
    BY <1>8, <2>1
  <2>3. \A i \in 1..n : scan[i] = Scanned(text, needle, scan[i - 1], i)
    <3> SUFFICES ASSUME NEW i \in 1..n PROVE scan[i] = Scanned(text, needle, scan[i - 1], i)
      OBVIOUS
    <3> HIDE DEF n
    <3> QED
      BY <1>8, <2>1 DEF Scanned
  <2> QED
    BY <2>2, <2>3
<1>11. scan \in [0..n -> Scans]
  <2> DEFINE S == {i \in 0..n : scan[i] \in Scans}
  <2>1. 0 \in S
    <3>1. 0 \in 0..n
      BY <1>1
    <3>2. scan[0] = start
      <4> HIDE DEF scan, start, n
      <4> QED
        BY <1>10
    <3> HIDE DEF scan, start, n
    <3> QED
      BY <1>2, <3>1, <3>2
  <2>2. ASSUME NEW i \in 0..(n - 1), i \in S PROVE i + 1 \in S
    <3>1. i + 1 \in 1..n /\ i + 1 \in 0..n /\ (i + 1) - 1 = i
      BY <1>1
    <3>2. scan[i] \in Scans
      BY <2>2
    <3> HIDE DEF scan
    <3>3. scan[i + 1] = Scanned(text, needle, scan[i], i + 1)
      BY <1>10, <3>1
    <3> QED
      BY <1>3, <3>1, <3>2, <3>3
  <2>3. 0..n \subseteq S
    <3> HIDE DEF S
    <3> QED
      BY <1>1, <2>1, <2>2, IntervalInduction
  <2>4. DOMAIN scan = 0..n /\ scan = [i \in DOMAIN scan |-> scan[i]]
    <3> HIDE DEF scan
    <3> QED
      BY <1>8
  <2> HIDE DEF scan
  <2> QED
    BY <2>3, <2>4
<1> HIDE DEF scan
<1> QED
  BY <1>9, <1>10, <1>11

\* A text is cut into pieces that lie side by side: those in marked are the
\* needle and become the mark, the others are one character and stay.
Cuts(text, needle, out, next, pos, marked) ==
  /\ pos[1] = 1 /\ pos[Len(out) + 1] = next
  /\ \A k \in marked : /\ Occurs(text, needle, pos[k]) /\ out[k] = 0
                       /\ pos[k + 1] = pos[k] + Len(needle)
  /\ \A k \in (1..Len(out)) \ marked : /\ ~Occurs(text, needle, pos[k]) /\ out[k] = text[pos[k]]
                                       /\ pos[k + 1] = pos[k] + 1
IsCut(text, needle, out, next) ==
  \E pos \in [1..(Len(out) + 1) -> Nat], marked \in SUBSET (1..Len(out)) :
    Cuts(text, needle, out, next, pos, marked)

\* One more piece.
LEMMA CutGrows ==
  ASSUME NEW text \in Seq(Nat), NEW needle \in Seq(Nat), NEW out \in Seq(Nat), NEW next \in Nat,
         IsCut(text, needle, out, next), NEW c \in Nat, NEW to \in Nat,
         \/ Occurs(text, needle, next) /\ c = 0 /\ to = next + Len(needle)
         \/ ~Occurs(text, needle, next) /\ c = text[next] /\ to = next + 1
  PROVE  IsCut(text, needle, Append(out, c), to)
<1> DEFINE n == Len(out)
           longer == Append(out, c)
<1>1. PICK pos \in [1..(n + 1) -> Nat], marked \in SUBSET (1..n) :
        Cuts(text, needle, out, next, pos, marked)
  BY DEF IsCut
<1>2. /\ n \in Nat /\ longer \in Seq(Nat) /\ Len(longer) = n + 1
      /\ longer[n + 1] = c /\ \A k \in 1..n : longer[k] = out[k]
  OBVIOUS
<1> DEFINE pos2 == [k \in 1..(n + 2) |-> IF k = n + 2 THEN to ELSE pos[k]]
           marked2 == IF Occurs(text, needle, next) THEN marked \cup {n + 1} ELSE marked
<1>3. pos2 \in [1..((n + 1) + 1) -> Nat] /\ marked2 \in SUBSET (1..(n + 1))
  <2>1. \A k \in 1..((n + 1) + 1) : k \in 1..(n + 2) /\ (k # n + 2 => k \in 1..(n + 1))
    BY <1>2
  <2>2. \A k \in 1..(n + 2) : k \in 1..((n + 1) + 1)
    BY <1>2
  <2>3. pos2 \in [1..((n + 1) + 1) -> Nat]
    BY <2>1, <2>2
  <2>4. n + 1 \in 1..(n + 1) /\ \A k \in 1..n : k \in 1..(n + 1)
    BY <1>2
  <2> QED
    BY <2>3, <2>4
<1>4. pos2[(n + 1) + 1] = to /\ \A k \in 1..(n + 1) : pos2[k] = pos[k]
  BY <1>2
<1>5. \A k \in 1..n : k \in 1..(n + 1) /\ k + 1 \in 1..(n + 1)
  BY <1>2
<1>6. 1 \in 1..(n + 1) /\ n + 1 \in 1..(n + 1) /\ n + 1 \notin 1..n
  BY <1>2
<1>7. pos2[1] = 1 /\ pos2[n + 1] = next
  BY <1>1, <1>4, <1>6 DEF Cuts
<1> HIDE DEF pos2
<1>8. ASSUME NEW k \in marked2
      PROVE  Occurs(text, needle, pos2[k]) /\ longer[k] = 0 /\ pos2[k + 1] = pos2[k] + Len(needle)
  <2>1. CASE k \in marked
    <3>1. k \in 1..n
      BY <2>1
    <3>2. Occurs(text, needle, pos[k]) /\ out[k] = 0 /\ pos[k + 1] = pos[k] + Len(needle)
      BY <1>1, <2>1 DEF Cuts
    <3> HIDE DEF longer
    <3> QED
      BY <1>2, <1>4, <1>5, <3>1, <3>2
  <2>2. CASE k = n + 1 /\ Occurs(text, needle, next)
    <3> HIDE DEF longer
    <3> QED
      BY <1>2, <1>4, <1>7, <2>2
  <2> QED
    BY <2>1, <2>2
<1>9. ASSUME NEW k \in (1..(n + 1)) \ marked2
      PROVE  ~Occurs(text, needle, pos2[k]) /\ longer[k] = text[pos2[k]] /\ pos2[k + 1] = pos2[k] + 1
  <2>1. CASE k \in (1..n) \ marked
    <3>1. ~Occurs(text, needle, pos[k]) /\ out[k] = text[pos[k]] /\ pos[k + 1] = pos[k] + 1
      BY <1>1, <2>1 DEF Cuts
    <3> HIDE DEF longer
    <3> QED
      BY <1>2, <1>4, <1>5, <2>1, <3>1
  <2>2. CASE k = n + 1 /\ ~Occurs(text, needle, next)
    <3> HIDE DEF longer
    <3> QED
      BY <1>2, <1>4, <1>7, <2>2
  <2>3. k \in 1..n \/ k = n + 1
    <3>1. k \in 1..(n + 1)
      OBVIOUS
    <3> HIDE DEF n
    <3> QED
      BY <1>2, <3>1
  <2> QED
    BY <2>1, <2>2, <2>3
<1>10. Cuts(text, needle, longer, to, pos2, marked2)
  <2> HIDE DEF longer, marked2
  <2> QED
    BY <1>2, <1>4, <1>7, <1>8, <1>9 DEF Cuts
<1> HIDE DEF longer, marked2
<1> QED
  BY <1>2, <1>3, <1>10 DEF IsCut, longer

\* Where the scan is, the text before it is cut.
LEMMA ScanCuts ==
  ASSUME NEW text \in Seq(Nat), NEW needle \in Seq(Nat), needle # <<>>,
         NEW b \in Scans, NEW i \in 1..Len(text),
         IsCut(text, needle, b.out, b.next), i <= b.next, b.next <= Len(text) + 1
  PROVE  LET c == Scanned(text, needle, b, i) IN
         /\ c \in Scans /\ IsCut(text, needle, c.out, c.next)
         /\ i + 1 <= c.next /\ c.next <= Len(text) + 1
<1> DEFINE c == Scanned(text, needle, b, i)
<1>1. /\ b.out \in Seq(Nat) /\ b.next \in Nat /\ Len(text) \in Nat /\ i \in Nat /\ text[i] \in Nat
      /\ Len(needle) \in Nat \ {0}
  BY DEF Scans
<1>2. CASE i < b.next
  BY <1>1, <1>2 DEF Scanned
<1>3. CASE i = b.next /\ Occurs(text, needle, i)
  <2>1. c = [out |-> Append(b.out, 0), next |-> i + Len(needle)]
    BY <1>1, <1>3 DEF Scanned
  <2>2. IsCut(text, needle, Append(b.out, 0), i + Len(needle))
    <3>1. IsCut(text, needle, b.out, i) /\ 0 \in Nat /\ i + Len(needle) \in Nat
      BY <1>1, <1>3
    <3> HIDE DEF c
    <3> QED
      BY <1>1, <1>3, <3>1, CutGrows
  <2>3. i + Len(needle) - 1 <= Len(text)
    BY <1>3 DEF Occurs
  <2>4. Append(b.out, 0) \in Seq(Nat) /\ i + Len(needle) \in Nat
    BY <1>1
  <2>5. i + 1 <= i + Len(needle) /\ i + Len(needle) <= Len(text) + 1
    BY <1>1, <2>3
  <2> HIDE DEF c
  <2> QED
    BY <2>1, <2>2, <2>4, <2>5 DEF Scans, c
<1>4. CASE i = b.next /\ ~Occurs(text, needle, i)
  <2>1. c = [out |-> Append(b.out, text[i]), next |-> i + 1]
    BY <1>1, <1>4 DEF Scanned
  <2>2. IsCut(text, needle, Append(b.out, text[i]), i + 1)
    <3>1. IsCut(text, needle, b.out, i) /\ i + 1 \in Nat
      BY <1>1, <1>4
    <3> HIDE DEF c
    <3> QED
      BY <1>1, <1>4, <3>1, CutGrows
  <2>3. Append(b.out, text[i]) \in Seq(Nat) /\ i + 1 \in Nat /\ i + 1 <= Len(text) + 1
    BY <1>1
  <2> HIDE DEF c
  <2> QED
    BY <2>1, <2>2, <2>3 DEF Scans, c
<1> QED
  BY <1>1, <1>2, <1>3, <1>4

\* What Replace returns is a cut of the whole text.
LEMMA ReplaceCuts ==
  ASSUME NEW text \in Seq(Nat), NEW needle \in Seq(Nat), needle # <<>>
  PROVE  /\ Replace(text, needle) \in Seq(Nat)
         /\ IsCut(text, needle, Replace(text, needle), Len(text) + 1)
<1> DEFINE n == Len(text)
<1>1. PICK scan \in [0..n -> Scans] :
           /\ Replace(text, needle) = scan[n].out
           /\ scan[0] = [out |-> <<>>, next |-> 1]
           /\ \A i \in 1..n : scan[i] = Scanned(text, needle, scan[i - 1], i)
  BY ScanGoesRight
<1> DEFINE S == {i \in 0..n : /\ scan[i] \in Scans /\ IsCut(text, needle, scan[i].out, scan[i].next)
                             /\ i + 1 <= scan[i].next /\ scan[i].next <= n + 1}
<1>2. n \in Nat
  OBVIOUS
<1>3. 0 \in S
  <2>1. IsCut(text, needle, <<>>, 1)
    <3> DEFINE pos == [k \in 1..1 |-> 1]
    <3>1. Len(<<>>) = 0 /\ <<>> \in Seq(Nat)
      OBVIOUS
    <3>2. pos \in [1..(0 + 1) -> Nat] /\ {} \in SUBSET (1..0) /\ 1..0 = {}
      OBVIOUS
    <3>3. pos[1] = 1 /\ pos[0 + 1] = 1
      OBVIOUS
    <3> HIDE DEF pos
    <3>4. Cuts(text, needle, <<>>, 1, pos, {})
      BY <3>1, <3>2, <3>3 DEF Cuts
    <3> QED
      BY <3>1, <3>2, <3>4 DEF IsCut
  <2>2. 0 \in 0..n
    BY <1>2
  <2>3. scan[0].out = <<>> /\ scan[0].next = 1
    BY <1>1
  <2>4. scan[0] \in Scans
    <3> HIDE DEF n
    <3> QED
      BY <2>2
  <2> QED
    BY <1>2, <2>1, <2>2, <2>3, <2>4
<1>4. ASSUME NEW i \in 0..(n - 1), i \in S PROVE i + 1 \in S
  <2>1. i + 1 \in 1..n /\ i + 1 \in 0..n /\ (i + 1) - 1 = i
    BY <1>2
  <2>2. scan[i + 1] = Scanned(text, needle, scan[i], i + 1)
    BY <1>1, <2>1
  <2>3. /\ scan[i] \in Scans /\ IsCut(text, needle, scan[i].out, scan[i].next)
        /\ i + 1 <= scan[i].next /\ scan[i].next <= n + 1
    BY <1>4
  <2>4. /\ scan[i + 1] \in Scans /\ IsCut(text, needle, scan[i + 1].out, scan[i + 1].next)
        /\ (i + 1) + 1 <= scan[i + 1].next /\ scan[i + 1].next <= n + 1
    BY <2>1, <2>2, <2>3, ScanCuts
  <2> QED
    BY <2>1, <2>4
<1>5. n \in S
  <2> HIDE DEF S
  <2>1. 0..n \subseteq S
    BY <1>2, <1>3, <1>4, IntervalInduction
  <2> QED
    BY <1>2, <2>1
<1>6. scan[n].next = n + 1
  <2>1. scan[n].next \in Nat
    BY <1>5 DEF Scans
  <2> QED
    BY <1>2, <1>5, <2>1
<1> QED
  BY <1>1, <1>5, <1>6 DEF Scans

\* A text, a needle, and the cut of the text that Replace has made.
CutOf(text, needle, out, pos, marked) ==
  /\ text \in Seq(Nat) /\ needle \in Seq(Nat) /\ needle # <<>> /\ out \in Seq(Nat)
  /\ pos \in [1..(Len(out) + 1) -> Nat] /\ marked \in SUBSET (1..Len(out))
  /\ Cuts(text, needle, out, Len(text) + 1, pos, marked)

\* The pieces follow one another.
LEMMA PiecesAscend ==
  ASSUME NEW text, NEW needle, NEW out, NEW pos, NEW marked, CutOf(text, needle, out, pos, marked)
  PROVE  /\ \A k \in 1..Len(out) : pos[k] \in Nat /\ pos[k + 1] \in Nat /\ pos[k] < pos[k + 1]
         /\ \A k, l \in 1..(Len(out) + 1) : k < l => pos[k] < pos[l]
<1> DEFINE n == Len(out)
<1>1. n \in Nat /\ Len(needle) \in Nat \ {0} /\ pos \in [1..(n + 1) -> Nat]
  BY DEF CutOf
<1>2. ASSUME NEW k \in 1..n
      PROVE  pos[k] \in Nat /\ pos[k + 1] \in Nat /\ pos[k] < pos[k + 1]
  <2>1. k \in 1..(n + 1) /\ k + 1 \in 1..(n + 1)
    BY <1>1
  <2>2. pos[k] \in Nat /\ pos[k + 1] \in Nat
    BY <1>1, <2>1
  <2>3. pos[k + 1] = pos[k] + Len(needle) \/ pos[k + 1] = pos[k] + 1
    BY DEF CutOf, Cuts
  <2> QED
    BY <1>1, <2>2, <2>3
<1>3. ASSUME NEW k \in 1..(n + 1), NEW l \in 1..(n + 1), k < l
      PROVE  pos[k] < pos[l]
  <2> DEFINE S == {j \in 0..(n + 1) : k < j => pos[k] < pos[j]}
  <2>1. 0 \in S
    BY <1>1
  <2>2. ASSUME NEW j \in 0..((n + 1) - 1), j \in S PROVE j + 1 \in S
    <3>1. j + 1 \in 0..(n + 1) /\ (k < j + 1 => j \in 1..n /\ (k = j \/ k < j))
      BY <1>1
    <3>2. k < j + 1 => pos[k] < pos[j + 1]
      <4> SUFFICES ASSUME k < j + 1 PROVE pos[k] < pos[j + 1]
        OBVIOUS
      <4>1. pos[j] \in Nat /\ pos[j + 1] \in Nat /\ pos[j] < pos[j + 1]
        BY <1>2, <3>1
      <4>2. k < j => pos[k] < pos[j]
        BY <2>2
      <4>3. pos[k] \in Nat
        BY <1>1
      <4> QED
        BY <3>1, <4>1, <4>2, <4>3
    <3> QED
      BY <3>1, <3>2
  <2>3. 0..(n + 1) \subseteq S
    <3> HIDE DEF S
    <3>1. n + 1 \in Nat
      BY <1>1
    <3> QED
      BY <2>1, <2>2, <3>1, IntervalInduction
  <2>4. l \in 0..(n + 1)
    BY <1>1
  <2> QED
    BY <1>3, <2>3, <2>4
<1> QED
  BY <1>2, <1>3

\* Each character of the text is in one piece.
LEMMA PiecesCover ==
  ASSUME NEW text, NEW needle, NEW out, NEW pos, NEW marked, CutOf(text, needle, out, pos, marked),
         NEW p \in 1..Len(text)
  PROVE  \E k \in 1..Len(out) : pos[k] <= p /\ p < pos[k + 1]
<1> DEFINE n == Len(out)
           S == {j \in 0..n : p < pos[j + 1] => \E k \in 1..n : pos[k] <= p /\ p < pos[k + 1]}
<1>1. n \in Nat /\ Len(text) \in Nat /\ pos[1] = 1 /\ pos[n + 1] = Len(text) + 1
  BY DEF CutOf, Cuts
<1>2. 0 \in S
  BY <1>1
<1>3. ASSUME NEW j \in 0..(n - 1), j \in S PROVE j + 1 \in S
  <2>1. j + 1 \in 1..n /\ j + 1 \in 0..n
    BY <1>1
  <2>2. pos[j + 1] \in Nat
    BY <2>1, PiecesAscend
  <2>3. p < pos[j + 1] \/ pos[j + 1] <= p
    BY <1>1, <2>2
  <2>4. p < pos[j + 1] => \E k \in 1..n : pos[k] <= p /\ p < pos[k + 1]
    BY <1>3
  <2> QED
    BY <2>1, <2>3, <2>4
<1>4. 0..n \subseteq S
  <2> HIDE DEF S, n
  <2> QED
    BY <1>1, <1>2, <1>3, IntervalInduction
<1>5. n \in S
  BY <1>1, <1>4
<1>6. p < pos[n + 1]
  BY <1>1
<1> QED
  BY <1>5, <1>6

\* ... and in no other.
LEMMA PiecesAreApart ==
  ASSUME NEW text, NEW needle, NEW out, NEW pos, NEW marked, CutOf(text, needle, out, pos, marked),
         NEW k \in 1..Len(out), NEW l \in 1..Len(out), NEW p \in Nat,
         pos[k] <= p, p < pos[k + 1], pos[l] <= p, p < pos[l + 1]
  PROVE  k = l
<1>1. Len(out) \in Nat
  BY DEF CutOf
<1>2. /\ k + 1 \in 1..(Len(out) + 1) /\ l + 1 \in 1..(Len(out) + 1)
      /\ k \in 1..(Len(out) + 1) /\ l \in 1..(Len(out) + 1)
  BY <1>1
<1>3. /\ pos[k] \in Nat /\ pos[l] \in Nat /\ pos[k + 1] \in Nat /\ pos[l + 1] \in Nat
  BY PiecesAscend
<1>4. \A i, j \in 1..(Len(out) + 1) : i < j => pos[i] < pos[j]
  BY PiecesAscend
<1>5. CASE k < l
  <2>1. k + 1 = l \/ k + 1 < l
    BY <1>1, <1>5
  <2>2. k + 1 < l => pos[k + 1] < pos[l]
    BY <1>2, <1>4
  <2>3. pos[k + 1] <= pos[l]
    BY <1>3, <2>1, <2>2
  <2> QED
    BY <1>3, <2>3
<1>6. CASE l < k
  <2>1. l + 1 = k \/ l + 1 < k
    BY <1>1, <1>6
  <2>2. l + 1 < k => pos[l + 1] < pos[k]
    BY <1>2, <1>4
  <2>3. pos[l + 1] <= pos[k]
    BY <1>3, <2>1, <2>2
  <2> QED
    BY <1>3, <2>3
<1> QED
  BY <1>1, <1>5, <1>6

\* An occurrence in the result of what has no mark in it was one in the text,
\* side by side, and not one of the needle.
LEMMA OccurrenceWas ==
  ASSUME NEW text, NEW needle, NEW out, NEW pos, NEW marked, CutOf(text, needle, out, pos, marked),
         NEW s \in PlainTexts \ {<<>>}, NEW k \in 1..Len(out), Occurs(out, s, k)
  PROVE  /\ Occurs(text, s, pos[k]) /\ s # needle /\ pos[k] \in 1..Len(text)
         /\ \A j \in 0..Len(s) : k + j \in 1..(Len(out) + 1) /\ pos[k + j] = pos[k] + j
<1> DEFINE n == Len(out)
           m == Len(s)
           a == pos[k]
<1>1. /\ n \in Nat /\ m \in Nat \ {0} /\ Len(text) \in Nat /\ k + m - 1 <= n
      /\ s \in Seq(Nat \ {0}) /\ DOMAIN s = 1..m
  BY DEF CutOf, Occurs, PlainTexts
<1>2. \A j \in 1..m : k + j - 1 \in 1..n /\ out[k + j - 1] = s[j] /\ s[j] \in Nat \ {0}
  BY <1>1 DEF Occurs
<1>3. \A l \in marked : out[l] = 0
  BY DEF CutOf, Cuts
<1>4. \A l \in (1..n) \ marked : ~Occurs(text, needle, pos[l]) /\ out[l] = text[pos[l]] /\ pos[l + 1] = pos[l] + 1
  BY DEF CutOf, Cuts
<1>5. \A j \in 1..m : k + j - 1 \in (1..n) \ marked
  BY <1>2, <1>3
<1>6. a \in Nat /\ a \in 1..Len(text)
  <2>1. /\ pos[1] = 1 /\ pos[n + 1] = Len(text) + 1 /\ 1 \in 1..(n + 1) /\ n + 1 \in 1..(n + 1)
        /\ k \in 1..(n + 1) /\ k < n + 1 /\ (k = 1 \/ 1 < k)
    BY <1>1 DEF CutOf, Cuts
  <2>2. a \in Nat
    BY PiecesAscend
  <2>3. a < pos[n + 1] /\ (1 < k => pos[1] < a)
    BY <2>1, PiecesAscend
  <2> QED
    BY <1>1, <2>1, <2>2, <2>3
<1> DEFINE S == {j \in 0..m : k + j \in 1..(n + 1) /\ pos[k + j] = a + j}
<1>7. 0 \in S
  BY <1>1, <1>6
<1>8. ASSUME NEW j \in 0..(m - 1), j \in S PROVE j + 1 \in S
  <2>1. j + 1 \in 1..m /\ j + 1 \in 0..m /\ k + (j + 1) - 1 = k + j /\ (k + j) + 1 = k + (j + 1)
    BY <1>1
  <2>2. k + j \in (1..n) \ marked
    BY <1>5, <2>1
  <2>3. pos[k + j] = a + j /\ pos[(k + j) + 1] = pos[k + j] + 1
    BY <1>4, <1>8, <2>2
  <2>4. (k + j) + 1 \in 1..(n + 1)
    BY <1>1, <2>2
  <2>5. pos[k + (j + 1)] = a + (j + 1)
    BY <1>6, <2>1, <2>3
  <2> QED
    BY <2>1, <2>4, <2>5
<1>9. \A j \in 0..m : k + j \in 1..(n + 1) /\ pos[k + j] = a + j
  <2> HIDE DEF S
  <2>1. 0..m \subseteq S
    BY <1>1, <1>7, <1>8, IntervalInduction
  <2> QED
    BY <2>1 DEF S
<1>10. a + m <= Len(text) + 1
  <2>a. pos[n + 1] = Len(text) + 1
    BY DEF CutOf, Cuts
  <2>b. m \in 0..m /\ n + 1 \in 1..(n + 1)
    BY <1>1
  <2>c. k + m \in 1..(n + 1) /\ pos[k + m] = a + m
    BY <1>9, <2>b
  <2>d. k + m = n + 1 \/ k + m < n + 1
    <3> HIDE DEF n, m, a
    <3> QED
      BY <1>1, <2>c
  <2>1. /\ pos[n + 1] = Len(text) + 1 /\ k + m \in 1..(n + 1) /\ n + 1 \in 1..(n + 1)
        /\ pos[k + m] = a + m /\ (k + m = n + 1 \/ k + m < n + 1)
    BY <2>a, <2>b, <2>c, <2>d
  <2>2. k + m < n + 1 => pos[k + m] < pos[n + 1]
    BY <2>1, PiecesAscend
  <2> QED
    BY <1>1, <1>6, <2>1, <2>2
<1>11. ASSUME NEW j \in 1..m
       PROVE  text[a + j - 1] = s[j]
  <2>1. j - 1 \in 0..m /\ k + (j - 1) = k + j - 1 /\ a + (j - 1) = a + j - 1
    BY <1>1, <1>6
  <2>2. pos[k + j - 1] = a + j - 1
    BY <1>9, <2>1
  <2> QED
    BY <1>2, <1>4, <1>5, <2>2
<1>12. Occurs(text, s, a)
  BY <1>1, <1>6, <1>10, <1>11 DEF Occurs
<1>13. ~Occurs(text, needle, a)
  <2>1. 1 \in 1..m /\ k + 1 - 1 = k
    BY <1>1
  <2> QED
    BY <1>4, <1>5, <2>1
<1> HIDE DEF S, n, m, a
<1> QED
  BY <1>6, <1>9, <1>12, <1>13 DEF n, m, a

\* An occurrence in the text no part of which is in a marked piece stays.
LEMMA OccurrenceStays ==
  ASSUME NEW text, NEW needle, NEW out, NEW pos, NEW marked, CutOf(text, needle, out, pos, marked),
         NEW s \in PlainTexts \ {<<>>}, NEW a \in 1..Len(text), Occurs(text, s, a),
         \A k \in marked, p \in a..(a + Len(s) - 1) : ~(pos[k] <= p /\ p < pos[k + 1])
  PROVE  \E b \in 1..Len(out) : /\ Occurs(out, s, b)
                               /\ \A j \in 0..(Len(s) - 1) : b + j \in 1..Len(out) /\ pos[b + j] = a + j
<1> DEFINE n == Len(out)
           m == Len(s)
<1>1. /\ n \in Nat /\ m \in Nat \ {0} /\ Len(text) \in Nat /\ a + m - 1 <= Len(text)
      /\ pos[n + 1] = Len(text) + 1
  BY DEF CutOf, Cuts, Occurs, PlainTexts
<1>2. PICK b \in 1..n : pos[b] <= a /\ a < pos[b + 1]
  BY PiecesCover
<1>3. \A l \in (1..n) \ marked : out[l] = text[pos[l]] /\ pos[l + 1] = pos[l] + 1
  BY DEF CutOf, Cuts
<1>4. \A k \in 1..n : pos[k] \in Nat /\ pos[k + 1] \in Nat /\ pos[k] < pos[k + 1]
  BY PiecesAscend
<1> DEFINE S == {j \in 0..(m - 1) : b + j \in (1..n) \ marked /\ pos[b + j] = a + j}
<1>5. 0 \in S
  <2>1. a \in a..(a + m - 1)
    BY <1>1
  <2>2. b \notin marked
    BY <1>2, <2>1
  <2>3. pos[b + 1] = pos[b] + 1
    BY <1>3, <2>2
  <2>4. pos[b] = a /\ b + 0 = b /\ a + 0 = a /\ 0 \in 0..(m - 1)
    BY <1>1, <1>2, <1>4, <2>3
  <2> QED
    BY <2>2, <2>4
<1>6. ASSUME NEW j \in 0..((m - 1) - 1), j \in S PROVE j + 1 \in S
  <2>1. /\ j + 1 \in 0..(m - 1) /\ (b + j) + 1 = b + (j + 1) /\ (a + j) + 1 = a + (j + 1)
        /\ a + (j + 1) \in a..(a + m - 1) /\ a + (j + 1) <= Len(text)
    BY <1>1
  <2>2. b + j \in (1..n) \ marked /\ pos[b + j] = a + j
    BY <1>6
  <2>3. pos[b + (j + 1)] = a + (j + 1)
    BY <1>3, <2>1, <2>2
  <2>4. b + (j + 1) \in 1..n
    <3>1. b + (j + 1) # n + 1
      BY <1>1, <2>1, <2>3
    <3> QED
      BY <1>1, <2>2, <3>1
  <2>5. b + (j + 1) \notin marked
    <3>1. pos[b + (j + 1)] <= a + (j + 1) /\ a + (j + 1) < pos[(b + (j + 1)) + 1]
      BY <1>4, <2>3, <2>4
    <3> QED
      BY <2>1, <3>1
  <2> QED
    BY <2>1, <2>3, <2>4, <2>5
<1>7. \A j \in 0..(m - 1) : b + j \in (1..n) \ marked /\ pos[b + j] = a + j
  <2>1. m - 1 \in Nat
    BY <1>1
  <2> HIDE DEF S
  <2>2. 0..(m - 1) \subseteq S
    BY <1>5, <1>6, <2>1, IntervalInduction
  <2> QED
    BY <2>2 DEF S
<1>8. ASSUME NEW j \in 1..m
      PROVE  out[b + j - 1] = s[j]
  <2>1. j - 1 \in 0..(m - 1) /\ b + (j - 1) = b + j - 1 /\ a + (j - 1) = a + j - 1
    BY <1>1
  <2>2. out[b + j - 1] = text[a + j - 1]
    BY <1>3, <1>7, <2>1
  <2> QED
    BY <2>2 DEF Occurs
<1>9. b + m - 1 <= n
  <2>1. m - 1 \in 0..(m - 1) /\ b + (m - 1) = b + m - 1
    BY <1>1
  <2>2. b + (m - 1) \in 1..n
    BY <1>7, <2>1
  <2> HIDE DEF n, m
  <2> QED
    BY <1>1, <2>1, <2>2
<1>10. Occurs(out, s, b)
  BY <1>8, <1>9 DEF Occurs
<1> HIDE DEF S, n, m
<1> QED
  BY <1>7, <1>10 DEF n, m

\* Occurrences that were nested or apart are so in the result.
LEMMA LaminarStays ==
  ASSUME NEW text, NEW needle, NEW out, NEW pos, NEW marked, CutOf(text, needle, out, pos, marked),
         NEW N \in SUBSET (PlainTexts \ {<<>>}), Laminar(text, N)
  PROVE  Laminar(out, N)
<1> DEFINE n == Len(out)
<1>1. /\ n \in Nat /\ DOMAIN out = 1..n /\ Len(text) \in Nat /\ DOMAIN text = 1..Len(text)
  BY DEF CutOf
<1> SUFFICES ASSUME NEW s \in N, NEW t \in N, NEW k \in 1..n, NEW l \in 1..n, Occurs(out, s, k), Occurs(out, t, l)
             PROVE  Nested(k, s, l, t) \/ Nested(l, t, k, s) \/ Apart(k, s, l) \/ Apart(l, t, k)
  BY <1>1 DEF Laminar
<1> DEFINE a == pos[k]
           b == pos[l]
           u == Len(s)
           v == Len(t)
<1>2. /\ Occurs(text, s, a) /\ a \in 1..Len(text)
      /\ \A j \in 0..u : k + j \in 1..(n + 1) /\ pos[k + j] = a + j
  BY OccurrenceWas
<1>3. /\ Occurs(text, t, b) /\ b \in 1..Len(text)
      /\ \A j \in 0..v : l + j \in 1..(n + 1) /\ pos[l + j] = b + j
  BY OccurrenceWas
<1>4. Nested(a, s, b, t) \/ Nested(b, t, a, s) \/ Apart(a, s, b) \/ Apart(b, t, a)
  BY <1>1, <1>2, <1>3 DEF Laminar
<1>5. u \in Nat \ {0} /\ v \in Nat \ {0}
  BY DEF PlainTexts
<1>6. \A i, j \in 1..(n + 1) : i < j => pos[i] < pos[j]
  BY PiecesAscend
<1>7. \A i \in 1..(n + 1) : pos[i] \in Nat
  BY DEF CutOf
<1>8. \A i, j \in 1..(n + 1) : pos[i] <= pos[j] => i <= j
  <2> SUFFICES ASSUME NEW i \in 1..(n + 1), NEW j \in 1..(n + 1), pos[i] <= pos[j], j < i PROVE FALSE
    BY <1>1
  <2> QED
    BY <1>6, <1>7
<1>9. /\ k \in 1..(n + 1) /\ l \in 1..(n + 1) /\ k + u \in 1..(n + 1) /\ l + v \in 1..(n + 1)
      /\ pos[k + u] = a + u /\ pos[l + v] = b + v
  <2>1. u \in 0..u /\ v \in 0..v /\ k \in 1..(n + 1) /\ l \in 1..(n + 1)
    BY <1>1, <1>5
  <2> QED
    BY <1>2, <1>3, <2>1
<1> HIDE DEF n, u, v
<1>10. CASE Nested(a, s, b, t)
  BY <1>8, <1>9, <1>10 DEF Nested, u, v
<1>11. CASE Nested(b, t, a, s)
  BY <1>8, <1>9, <1>11 DEF Nested, u, v
<1>12. CASE Apart(a, s, b)
  BY <1>8, <1>9, <1>12 DEF Apart, u
<1>13. CASE Apart(b, t, a)
  BY <1>8, <1>9, <1>13 DEF Apart, v
<1> QED
  BY <1>4, <1>10, <1>11, <1>12, <1>13

\* Each letter that is left stands in an occurrence of one of the other needles,
\* none of which is longer: had one of these lost a part to the needle, the
\* needle would be part of it.
LEMMA CoverStays ==
  ASSUME NEW text, NEW needle, NEW out, NEW pos, NEW marked, CutOf(text, needle, out, pos, marked),
         NEW N \in SUBSET (PlainTexts \ {<<>>}), needle \in N, \A s \in N : Len(s) <= Len(needle),
         NEW letters \in SUBSET (Nat \ {0}), Covered(text, letters, N), Laminar(text, N)
  PROVE  Covered(out, letters, N \ {needle})
<1> DEFINE n == Len(out)
<1>1. /\ n \in Nat /\ DOMAIN out = 1..n /\ Len(text) \in Nat /\ DOMAIN text = 1..Len(text)
      /\ Len(needle) \in Nat \ {0}
  BY DEF CutOf
<1> SUFFICES ASSUME NEW k \in 1..n, out[k] \in letters
             PROVE  \E s \in N \ {needle}, b \in 1..k : Occurs(out, s, b) /\ k < b + Len(s)
  BY <1>1 DEF Covered
<1> DEFINE p == pos[k]
<1>2. k \notin marked
  BY DEF CutOf, Cuts
<1>3. out[k] = text[p] /\ pos[k + 1] = p + 1
  BY <1>2 DEF CutOf, Cuts
<1>4. \A i \in 1..n : pos[i] \in Nat /\ pos[i + 1] \in Nat /\ pos[i] < pos[i + 1]
  BY PiecesAscend
<1>5. \A i, j \in 1..(n + 1) : i < j => pos[i] < pos[j]
  BY PiecesAscend
<1>6. p \in 1..Len(text)
  <2>1. /\ pos[1] = 1 /\ pos[n + 1] = Len(text) + 1 /\ 1 \in 1..(n + 1) /\ n + 1 \in 1..(n + 1)
        /\ k \in 1..(n + 1) /\ k < n + 1 /\ (k = 1 \/ 1 < k)
    BY <1>1 DEF CutOf, Cuts
  <2>2. p < pos[n + 1] /\ (1 < k => pos[1] < p)
    BY <1>5, <2>1
  <2> QED
    BY <1>1, <1>4, <2>1, <2>2
<1>7. PICK s \in N, a \in 1..p : Occurs(text, s, a) /\ p < a + Len(s)
  BY <1>1, <1>3, <1>6 DEF Covered
<1> DEFINE m == Len(s)
<1>8. m \in Nat \ {0} /\ m <= Len(needle) /\ a \in Nat /\ a \in 1..Len(text) /\ p \in a..(a + m - 1)
  <2>1. m \in Nat \ {0} /\ m <= Len(needle)
    BY DEF PlainTexts
  <2>2. p \in Nat /\ p <= Len(text)
    BY <1>1, <1>6
  <2> HIDE DEF m, p
  <2> QED
    BY <1>1, <1>7, <2>1, <2>2 DEF m
<1>9. ASSUME NEW l \in marked, NEW q \in a..(a + m - 1), pos[l] <= q, q < pos[l + 1]
      PROVE  FALSE
  <2> DEFINE b == pos[l]
  <2>1. l \in 1..n /\ Occurs(text, needle, b) /\ pos[l + 1] = b + Len(needle)
    BY DEF CutOf, Cuts
  <2>2. b \in Nat /\ b \in 1..Len(text)
    <3>1. b \in Nat /\ b + Len(needle) - 1 <= Len(text)
      BY <1>4, <2>1 DEF Occurs
    <3>2. pos[1] = 1 /\ 1 \in 1..(n + 1) /\ l \in 1..(n + 1) /\ (l = 1 \/ 1 < l)
      BY <1>1, <2>1 DEF CutOf, Cuts
    <3>3. 1 < l => pos[1] < b
      BY <1>5, <3>2
    <3> QED
      BY <1>1, <3>1, <3>2, <3>3
  <2>3. Nested(a, s, b, needle) \/ Nested(b, needle, a, s) \/ Apart(a, s, b) \/ Apart(b, needle, a)
    BY <1>1, <1>7, <1>8, <2>1, <2>2 DEF Laminar
  <2>4. ~(b <= p /\ p < b + Len(needle))
    <3> SUFFICES ASSUME b <= p, p < b + Len(needle) PROVE FALSE
      OBVIOUS
    <3>1. p \in Nat /\ pos[l] <= p /\ p < pos[l + 1] /\ pos[k] <= p /\ p < pos[k + 1]
      BY <1>3, <1>4, <2>1
    <3>2. l = k
      BY <2>1, <3>1, PiecesAreApart
    <3> QED
      BY <1>2, <3>2
  <2>5. b <= q /\ q < b + Len(needle) /\ q \in Nat /\ a <= q /\ q < a + m
    BY <1>8, <1>9, <2>1
  <2>6. p \in Nat /\ a <= p /\ p < a + m
    BY <1>8
  <2> HIDE DEF b, p, m
  <2> QED
    BY <1>1, <1>8, <2>2, <2>3, <2>4, <2>5, <2>6 DEF Nested, Apart, m
<1>10. PICK b \in 1..n : /\ Occurs(out, s, b)
                         /\ \A j \in 0..(m - 1) : b + j \in 1..n /\ pos[b + j] = a + j
  BY <1>7, <1>8, <1>9, OccurrenceStays
<1>11. s # needle
  BY <1>10, OccurrenceWas
<1>12. k = b + (p - a) /\ p - a \in 0..(m - 1)
  <2>1. p - a \in 0..(m - 1) /\ a + (p - a) = p
    BY <1>8
  <2>2. b + (p - a) \in 1..n /\ pos[b + (p - a)] = p
    <3> HIDE DEF p, m
    <3> QED
      BY <1>10, <2>1
  <2>3. \A i \in 1..n : i \in 1..(n + 1)
    BY <1>1
  <2>4. pos[k] = p /\ ~(p < p)
    BY <1>8
  <2> DEFINE i == b + (p - a)
  <2>5. ~(k < i) /\ ~(i < k)
    <3> HIDE DEF i
    <3>1. i \in 1..n /\ pos[i] = pos[k]
      BY <2>2, <2>4 DEF i
    <3> QED
      BY <1>4, <1>5, <2>3, <3>1
  <2> QED
    BY <1>1, <2>1, <2>2, <2>5
<1>13. b \in 1..k /\ k < b + m
  <2> HIDE DEF p, m
  <2> QED
    BY <1>1, <1>8, <1>12
<1> QED
  BY <1>10, <1>11, <1>13

\* Replacing the longest needle.
LEMMA ReplaceHides ==
  ASSUME NEW text \in Seq(Nat), NEW N \in SUBSET (PlainTexts \ {<<>>}), NEW needle \in N,
         \A s \in N : Len(s) <= Len(needle),
         NEW letters \in SUBSET (Nat \ {0}), Covered(text, letters, N), Laminar(text, N)
  PROVE  /\ Replace(text, needle) \in Seq(Nat)
         /\ Covered(Replace(text, needle), letters, N \ {needle}) /\ Laminar(Replace(text, needle), N)
<1> DEFINE out == Replace(text, needle)
<1>1. needle \in Seq(Nat) /\ needle # <<>>
  BY DEF PlainTexts
<1>2. out \in Seq(Nat) /\ IsCut(text, needle, out, Len(text) + 1)
  BY <1>1, ReplaceCuts
<1>3. PICK pos \in [1..(Len(out) + 1) -> Nat], marked \in SUBSET (1..Len(out)) :
        Cuts(text, needle, out, Len(text) + 1, pos, marked)
  BY <1>2 DEF IsCut
<1> HIDE DEF out
<1>4. CutOf(text, needle, out, pos, marked)
  BY <1>1, <1>2, <1>3 DEF CutOf
<1>5. Covered(out, letters, N \ {needle})
  BY <1>4, CoverStays
<1>6. Laminar(out, N)
  BY <1>4, LaminarStays
<1> QED
  BY <1>2, <1>5, <1>6 DEF out

\* A text without an occurrence of the needle stays as it is; so does the mark.
LEMMA MarkStays ==
  ASSUME NEW needle \in PlainTexts \ {<<>>}
  PROVE  Replace(Mark, needle) = Mark
<1> DEFINE out == Replace(Mark, needle)
<1>1. /\ needle \in Seq(Nat) /\ needle # <<>> /\ Mark \in Seq(Nat) /\ Len(Mark) = 1 /\ Mark[1] = 0
      /\ Len(needle) \in Nat \ {0} /\ needle[1] # 0
  BY DEF PlainTexts, Mark
<1>2. out \in Seq(Nat) /\ IsCut(Mark, needle, out, 2)
  <2>1. out \in Seq(Nat) /\ IsCut(Mark, needle, out, Len(Mark) + 1)
    BY <1>1, ReplaceCuts
  <2> QED
    BY <1>1, <2>1
<1>3. PICK pos \in [1..(Len(out) + 1) -> Nat], marked \in SUBSET (1..Len(out)) :
        Cuts(Mark, needle, out, 2, pos, marked)
  BY <1>2 DEF IsCut
<1> HIDE DEF out
<1>4. CutOf(Mark, needle, out, pos, marked)
  BY <1>1, <1>2, <1>3 DEF CutOf
<1>5. Len(out) \in Nat /\ pos[1] = 1 /\ pos[Len(out) + 1] = 2
  BY <1>2, <1>3 DEF Cuts
<1>6. Len(out) # 0
  BY <1>5
<1>7. 1 \in 1..Len(out) /\ 1 \in 1..(Len(out) + 1) /\ 2 \in 1..(Len(out) + 1) /\ Len(out) + 1 \in 1..(Len(out) + 1)
  BY <1>5, <1>6
<1>8. ~Occurs(Mark, needle, 1)
  BY <1>1 DEF Occurs
<1>9. 1 \notin marked
  BY <1>3, <1>5, <1>8 DEF Cuts
<1>10. out[1] = 0 /\ pos[2] = 2
  BY <1>1, <1>3, <1>5, <1>7, <1>9 DEF Cuts
<1>11. Len(out) = 1
  <2> SUFFICES ASSUME Len(out) # 1 PROVE FALSE
    OBVIOUS
  <2>a. \A l \in Nat : l = 0 \/ l = 1 \/ 2 < l + 1
    OBVIOUS
  <2>1. 2 < Len(out) + 1
    BY <1>5, <1>6, <2>a
  <2>2. pos[2] < pos[Len(out) + 1]
    BY <1>4, <1>7, <2>1, PiecesAscend
  <2> QED
    BY <1>5, <1>10, <2>2
<1>12. out = Mark
  BY <1>1, <1>2, <1>10, <1>11 DEF Mark
<1> QED
  BY <1>12 DEF out

\* Untainted replaces one needle after the other.
LEMMA UntaintedGoesOn ==
  ASSUME NEW text \in Seq(Nat), NEW needles \in Seq(PlainTexts \ {<<>>})
  PROVE  \E after \in [0..Len(needles) -> Seq(Nat)] :
           /\ Untainted(text, needles) = after[Len(needles)]
           /\ after[0] = text
           /\ \A i \in 1..Len(needles) : after[i] = Replace(after[i - 1], needles[i])
<1> DEFINE n == Len(needles)
           T == Seq(Nat)
           Follows(f) == f = [i \in 0..n |-> IF i = 0 THEN text ELSE Replace(f[i - 1], needles[i])]
           step == [i \in 1..n |-> [t \in T |-> Replace(t, needles[i])]]
<1>1. n \in Nat /\ \A i \in 1..n : needles[i] \in Seq(Nat) /\ needles[i] # <<>>
  BY DEF PlainTexts
<1>2. \A i \in 1..n, t \in T : Replace(t, needles[i]) \in T
  BY <1>1, ReplaceCuts
<1>3. step \in [1..n -> [T -> T]]
  BY <1>2
<1>4. PICK f \in [0..n -> T] : f[0] = text /\ \A i \in 1..n : f[i] = step[i][f[i - 1]]
  <2>1. text \in T
    OBVIOUS
  <2> HIDE DEF n, step, T
  <2>2. FoldsOf(n, T, text, step) # {}
    BY <1>1, <1>3, <2>1, FoldExists
  <2> QED
    BY <2>2 DEF FoldsOf
<1>5. \A i \in 1..n : f[i] = Replace(f[i - 1], needles[i])
  <2> SUFFICES ASSUME NEW i \in 1..n PROVE step[i][f[i - 1]] = Replace(f[i - 1], needles[i])
    BY <1>4
  <2>1. i - 1 \in 0..n
    BY <1>1
  <2>2. f[i - 1] \in T
    BY <2>1
  <2> QED
    BY <2>2
<1>6. Follows(f)
  <2> DEFINE h == [i \in 0..n |-> IF i = 0 THEN text ELSE Replace(f[i - 1], needles[i])]
  <2>1. \A i \in 0..n : i = 0 \/ i \in 1..n
    BY <1>1
  <2> HIDE DEF step, T
  <2>2. \A i \in 0..n : f[i] = h[i]
    BY <1>4, <1>5, <2>1
  <2>3. DOMAIN f = 0..n /\ DOMAIN h = 0..n
    BY <1>4
  <2> QED
    BY <1>4, <2>2, <2>3
<1> DEFINE after == CHOOSE g : Follows(g)
<1>7. Follows(after)
  <2> HIDE DEF Follows
  <2> QED
    BY <1>6
<1>8. Untainted(text, needles) = after[n]
  BY DEF Untainted
<1>9. after[0] = text /\ \A i \in 1..n : after[i] = Replace(after[i - 1], needles[i])
  <2>1. 0 \in 0..n /\ \A i \in 1..n : i \in 0..n /\ i # 0
    BY <1>1
  <2> HIDE DEF after, n
  <2> QED
    BY <1>7, <2>1
<1>10. after \in [0..n -> T]
  <2> DEFINE S == {i \in 0..n : after[i] \in T}
  <2>1. 0 \in S
    BY <1>1, <1>9
  <2>2. ASSUME NEW i \in 0..(n - 1), i \in S PROVE i + 1 \in S
    <3>1. i + 1 \in 1..n /\ i + 1 \in 0..n /\ (i + 1) - 1 = i
      BY <1>1
    <3>2. after[i] \in T
      BY <2>2
    <3> HIDE DEF after
    <3>3. after[i + 1] = Replace(after[i], needles[i + 1])
      BY <1>9, <3>1
    <3> QED
      BY <1>2, <3>1, <3>2, <3>3
  <2>3. 0..n \subseteq S
    <3> HIDE DEF S
    <3> QED
      BY <1>1, <2>1, <2>2, IntervalInduction
  <2>4. DOMAIN after = 0..n /\ after = [i \in DOMAIN after |-> after[i]]
    <3> HIDE DEF after
    <3> QED
      BY <1>7
  <2> HIDE DEF after, T
  <2> QED
    BY <2>3, <2>4
<1> HIDE DEF after
<1> QED
  BY <1>8, <1>9, <1>10

\* What is the mark stays the mark.
LEMMA MarkStaysUntainted ==
  ASSUME NEW needles \in Seq(PlainTexts \ {<<>>})
  PROVE  Untainted(Mark, needles) = Mark
<1> DEFINE n == Len(needles)
<1>1. Mark \in Seq(Nat) /\ n \in Nat /\ \A i \in 1..n : needles[i] \in PlainTexts \ {<<>>}
  BY DEF Mark
<1>2. PICK after \in [0..n -> Seq(Nat)] :
           /\ Untainted(Mark, needles) = after[n]
           /\ after[0] = Mark
           /\ \A i \in 1..n : after[i] = Replace(after[i - 1], needles[i])
  BY <1>1, UntaintedGoesOn
<1> DEFINE S == {i \in 0..n : after[i] = Mark}
<1>3. 0 \in S
  BY <1>1, <1>2
<1>4. ASSUME NEW i \in 0..(n - 1), i \in S PROVE i + 1 \in S
  <2>1. i + 1 \in 1..n /\ i + 1 \in 0..n /\ (i + 1) - 1 = i
    BY <1>1
  <2>2. after[i + 1] = Replace(Mark, needles[i + 1])
    BY <1>2, <1>4, <2>1
  <2> QED
    BY <1>1, <2>1, <2>2, MarkStays
<1>5. n \in S
  <2> HIDE DEF S
  <2>1. 0..n \subseteq S
    BY <1>1, <1>3, <1>4, IntervalInduction
  <2> QED
    BY <1>1, <2>1
<1> QED
  BY <1>2, <1>5

\* The order the secrets are looked for in holds each of them.
LEMMA NeedlesAre ==
  ASSUME NEW secrets \in SUBSET (PlainTexts \ {<<>>}), IsFiniteSet(secrets), NEW needles \in Needles(secrets)
  PROVE  /\ needles \in Seq(PlainTexts \ {<<>>}) /\ needles \in Seq(secrets) /\ ToSet(needles) = secrets
         /\ \A i, j \in 1..Len(needles) : i < j => Len(needles[i]) >= Len(needles[j])
<1>1. Cardinality(secrets) \in Nat
  BY FS_CardinalityType
<1>2. needles \in [1..Cardinality(secrets) -> secrets]
  BY DEF Needles
<1>3. needles \in Seq(secrets) /\ DOMAIN needles = 1..Len(needles)
  BY <1>1, <1>2
<1>4. needles \in Seq(PlainTexts \ {<<>>})
  BY <1>3
<1> QED
  BY <1>3, <1>4 DEF Needles

\* The longer secrets first: no letter is left of what stands in whole secrets.
LEMMA UntaintedHides ==
  ASSUME NEW text \in PlainTexts, NEW secrets \in SUBSET (PlainTexts \ {<<>>}), IsFiniteSet(secrets),
         NEW needles \in Needles(secrets), Covered(text, LettersOf(secrets), secrets), Laminar(text, secrets)
  PROVE  /\ Untainted(text, needles) \in Seq(Nat)
         /\ ToSet(Untainted(text, needles)) \cap LettersOf(secrets) = {}
<1> DEFINE n == Len(needles)
           letters == LettersOf(secrets)
           Rest(i) == {needles[j] : j \in (i + 1)..n}
<1>1. /\ needles \in Seq(PlainTexts \ {<<>>}) /\ needles \in Seq(secrets) /\ ToSet(needles) = secrets
      /\ \A i, j \in 1..n : i < j => Len(needles[i]) >= Len(needles[j])
      /\ n \in Nat /\ DOMAIN needles = 1..n
  BY NeedlesAre
<1>2. letters \in SUBSET (Nat \ {0})
  <2> SUFFICES ASSUME NEW s \in secrets, NEW c \in ToSet(s) PROVE c \in Nat \ {0}
    BY DEF LettersOf
  <2>1. s \in Seq(Nat \ {0})
    BY DEF PlainTexts
  <2> QED
    BY <2>1 DEF ToSet
<1>3. text \in Seq(Nat)
  BY DEF PlainTexts
<1>4. PICK after \in [0..n -> Seq(Nat)] :
           /\ Untainted(text, needles) = after[n]
           /\ after[0] = text
           /\ \A i \in 1..n : after[i] = Replace(after[i - 1], needles[i])
  BY <1>1, <1>3, UntaintedGoesOn
<1> DEFINE S == {i \in 0..n : Covered(after[i], letters, Rest(i)) /\ Laminar(after[i], Rest(i))}
<1>5. 0 \in S
  <2>1. Rest(0) = secrets
    BY <1>1 DEF ToSet
  <2>2. 0 \in 0..n
    BY <1>1
  <2> HIDE DEF Rest, letters, n
  <2> QED
    BY <1>4, <2>1, <2>2 DEF letters
<1>6. ASSUME NEW i \in 0..(n - 1), i \in S PROVE i + 1 \in S
  <2>1. i + 1 \in 1..n /\ i + 1 \in 0..n /\ (i + 1) - 1 = i /\ i \in 0..n /\ i + 1 \in (i + 1)..n
    BY <1>1
  <2>2. after[i + 1] = Replace(after[i], needles[i + 1])
    BY <1>4, <2>1
  <2> DEFINE t == needles[i + 1]
             N == Rest(i)
  <2>3. Covered(after[i], letters, N) /\ Laminar(after[i], N) /\ after[i] \in Seq(Nat)
    BY <1>6, <2>1
  <2>4. \A j \in (i + 1)..n : j \in 1..n /\ (j = i + 1 \/ i + 1 < j)
    BY <1>1
  <2>5. t \in N /\ N \in SUBSET (PlainTexts \ {<<>>})
    <3>1. \A j \in 1..n : needles[j] \in PlainTexts \ {<<>>}
      BY <1>1
    <3> HIDE DEF n
    <3> QED
      BY <2>1, <2>4, <3>1
  <2>6. ASSUME NEW s \in N
        PROVE  Len(s) <= Len(t)
    <3>1. PICK j \in (i + 1)..n : s = needles[j]
      OBVIOUS
    <3>2. j = i + 1 \/ Len(t) >= Len(s)
      BY <1>1, <2>1, <2>4, <3>1
    <3>3. Len(t) \in Nat /\ Len(s) \in Nat
      <4>1. t \in Seq(Nat \ {0}) /\ s \in Seq(Nat \ {0})
        BY <2>5 DEF PlainTexts
      <4> QED
        BY <4>1
    <3> QED
      BY <3>1, <3>2, <3>3
  <2>7. N \ {t} \subseteq Rest(i + 1) /\ Rest(i + 1) \subseteq N
    <3>1. \A j \in (i + 1)..n : j = i + 1 \/ j \in ((i + 1) + 1)..n
      BY <1>1
    <3>2. \A j \in ((i + 1) + 1)..n : j \in (i + 1)..n
      BY <1>1
    <3> HIDE DEF n
    <3> QED
      BY <3>1, <3>2
  <2> HIDE DEF N, t, Rest, letters
  <2>8. /\ Covered(Replace(after[i], t), letters, N \ {t}) /\ Laminar(Replace(after[i], t), N)
    BY <1>2, <2>3, <2>5, <2>6, ReplaceHides
  <2>9. Covered(after[i + 1], letters, Rest(i + 1))
    BY <2>2, <2>7, <2>8 DEF Covered, t
  <2>10. Laminar(after[i + 1], Rest(i + 1))
    BY <2>2, <2>7, <2>8 DEF Laminar, t
  <2> QED
    BY <2>1, <2>9, <2>10
<1>7. n \in S
  <2> HIDE DEF S
  <2>1. 0..n \subseteq S
    BY <1>1, <1>5, <1>6, IntervalInduction
  <2> QED
    BY <1>1, <2>1
<1>8. Covered(after[n], letters, {})
  <2>1. Rest(n) = {}
    BY <1>1
  <2>2. Covered(after[n], letters, Rest(n))
    BY <1>7
  <2> QED
    BY <2>1, <2>2
<1> QED
  BY <1>4, <1>8 DEF Covered, ToSet

\* Whatever the text, and however the secrets overlap in it: none of them is
\* left as a whole.
THEOREM NoSecretIsLeft ==
  ASSUME NEW text \in Seq(Nat), NEW needles \in Seq(PlainTexts \ {<<>>}), NEW s \in ToSet(needles)
  PROVE  \A k \in DOMAIN Untainted(text, needles) : ~Occurs(Untainted(text, needles), s, k)
<1> DEFINE n == Len(needles)
<1>1. n \in Nat /\ DOMAIN needles = 1..n /\ s \in PlainTexts \ {<<>>} /\ \A i \in 1..n : needles[i] \in PlainTexts \ {<<>>}
  BY DEF ToSet
<1>2. PICK after \in [0..n -> Seq(Nat)] :
           /\ Untainted(text, needles) = after[n]
           /\ after[0] = text
           /\ \A i \in 1..n : after[i] = Replace(after[i - 1], needles[i])
  BY UntaintedGoesOn
<1>3. PICK m \in 1..n : s = needles[m]
  BY <1>1 DEF ToSet
<1> DEFINE Left(t) == \E k \in DOMAIN t : Occurs(t, s, k)
           S == {i \in 0..n : i >= m => ~Left(after[i])}
<1>4. 0 \in S
  BY <1>1
<1>5. ASSUME NEW i \in 0..(n - 1), i \in S PROVE i + 1 \in S
  <2>1. /\ i + 1 \in 1..n /\ i + 1 \in 0..n /\ (i + 1) - 1 = i /\ i \in 0..n
        /\ i + 1 >= m => i >= m \/ i + 1 = m
    BY <1>1
  <2> DEFINE before == after[i]
             t == needles[i + 1]
             out == Replace(before, t)
  <2>2. after[i + 1] = out
    BY <1>2, <2>1
  <2>3. before \in Seq(Nat) /\ t \in Seq(Nat) /\ t # <<>>
    <3>1. t \in PlainTexts \ {<<>>}
      BY <1>1, <2>1
    <3>2. \A needle \in PlainTexts \ {<<>>} : needle \in Seq(Nat) /\ needle # <<>>
      BY DEF PlainTexts
    <3> HIDE DEF n
    <3>3. before \in Seq(Nat)
      BY <2>1
    <3>4. t \in Seq(Nat) /\ t # <<>>
      <4> HIDE DEF t
      <4> QED
        BY <3>1, <3>2
    <3> QED
      BY <3>3, <3>4
  <2>4. out \in Seq(Nat) /\ IsCut(before, t, out, Len(before) + 1)
    BY <2>3, ReplaceCuts
  <2> HIDE DEF before, t, out
  <2>5. PICK pos \in [1..(Len(out) + 1) -> Nat], marked \in SUBSET (1..Len(out)) :
          Cuts(before, t, out, Len(before) + 1, pos, marked)
    BY <2>4 DEF IsCut
  <2>6. CutOf(before, t, out, pos, marked)
    BY <2>3, <2>4, <2>5 DEF CutOf
  <2>7. ASSUME NEW k \in DOMAIN out, Occurs(out, s, k)
        PROVE  s # t /\ Left(before)
    <3>1. k \in 1..Len(out) /\ DOMAIN before = 1..Len(before)
      BY <2>3, <2>4
    <3>2. Occurs(before, s, pos[k]) /\ s # t /\ pos[k] \in 1..Len(before)
      BY <1>1, <2>6, <2>7, <3>1, OccurrenceWas
    <3> QED
      BY <3>1, <3>2
  <2> QED
    BY <1>3, <1>5, <2>1, <2>2, <2>7 DEF t, before
<1>6. n \in S
  <2> HIDE DEF S
  <2>1. 0..n \subseteq S
    BY <1>1, <1>4, <1>5, IntervalInduction
  <2> QED
    BY <1>1, <2>1
<1> QED
  BY <1>1, <1>2, <1>6

-----------------------------------------------------------------------------
(* What is written.                                                        *)

\* The secrets of a set are texts.
LEMMA SecretsAre ==
  ASSUME NEW c \in DOMAIN Credentials
  PROVE  /\ Credentials[c] \in SUBSET (PlainTexts \ {<<>>}) /\ IsFiniteSet(Credentials[c])
         /\ \A raw \in RawEvents[c] : Emits(raw, Credentials[c])
BY CredentialsAssumption, RawAssumption

\* The layers work on each field of its own, whatever there is of them.
Denylisted(k, v) == IF DenylistHides(k, v) THEN Redacted(v) ELSE v
Vaulted(v) == IF VaultHides(v) THEN Redacted(v) ELSE v
Cleaned(v, needles) == [v EXCEPT !.s = Untainted(v.s, needles)]

\* A value under its key, in the end.
LEMMA ValueIsClean ==
  ASSUME NEW k \in ResultKeys, NEW v \in Values, NEW secrets \in SUBSET (PlainTexts \ {<<>>}), IsFiniteSet(secrets),
         NEW needles \in Needles(secrets), Covered(v.s, LettersOf(secrets), secrets), Laminar(v.s, secrets)
  PROVE  LET w == Cleaned(Vaulted(Denylisted(k, v)), needles) IN
         /\ ToSet(w.s) \cap LettersOf(secrets) = {}
         /\ w.kind = "text" /\ k \in Denied => w.s = Mark
         /\ w.kind \in {"vault", "inline"} => w.s = Mark
         /\ w.kind = "env" /\ w.secret => w.s = Mark
<1> DEFINE d == Denylisted(k, v)
           u == Vaulted(d)
           w == Cleaned(u, needles)
<1>1. v.s \in PlainTexts /\ v.kind \in {"text", "vault", "inline", "env"}
  BY DEF Values
<1>2. /\ Redacted(v).s = Mark /\ Redacted(v).kind = v.kind
      /\ v.kind = "env" => Redacted(v).secret = v.secret
      /\ Redacted(Redacted(v)) = Redacted(v)
  BY DEF Values, Redacted
<1>3. /\ d = v \/ d = Redacted(v)
      /\ v.kind = "text" /\ k \in Denied => d = Redacted(v)
      /\ v.kind = "env" /\ v.secret => d = Redacted(v)
  BY DEF Denylisted, DenylistHides
<1>4. /\ u = v \/ u = Redacted(v)
      /\ v.kind \in {"vault", "inline"} => u = Redacted(v) \/ u.s = Mark
      /\ d = Redacted(v) => u = Redacted(v)
  BY <1>2, <1>3 DEF Vaulted, VaultHides
<1>5. /\ w.s = Untainted(u.s, needles) /\ w.kind = u.kind /\ (u.kind = "env" => w.secret = u.secret)
  <2>1. CASE u = v
    BY <2>1 DEF Cleaned, Values
  <2>2. CASE u = Redacted(v)
    BY <2>2 DEF Cleaned, Values, Redacted
  <2> QED
    BY <1>4, <2>1, <2>2
<1>6. u.kind = v.kind /\ (v.kind = "env" => u.secret = v.secret)
  BY <1>2, <1>4
<1>7. needles \in Seq(PlainTexts \ {<<>>})
  BY NeedlesAre
<1>8. Untainted(Mark, needles) = Mark
  BY <1>7, MarkStaysUntainted
<1>9. u.s = Mark => w.s = Mark
  BY <1>5, <1>8
<1>10. u.s = Mark \/ u.s = v.s
  BY <1>2, <1>4
<1>11. ToSet(w.s) \cap LettersOf(secrets) = {}
  <2>1. CASE u.s = Mark
    <3>1. 0 \notin LettersOf(secrets)
      <4> SUFFICES ASSUME NEW s \in secrets, 0 \in ToSet(s) PROVE FALSE
        BY DEF LettersOf
      <4>1. s \in Seq(Nat \ {0})
        BY DEF PlainTexts
      <4> QED
        BY <4>1 DEF ToSet
    <3>2. ToSet(Mark) = {0}
      BY DEF ToSet, Mark
    <3> QED
      BY <1>9, <2>1, <3>1, <3>2
  <2>2. CASE u.s = v.s
    BY <1>1, <1>5, <2>2, UntaintedHides
  <2> QED
    BY <1>10, <2>1, <2>2
<1>12. u = Redacted(v) => w.s = Mark
  BY <1>2, <1>9
<1> HIDE DEF d, u, w
<1>13. /\ w.kind = "text" /\ k \in Denied => w.s = Mark
       /\ w.kind \in {"vault", "inline"} => w.s = Mark
       /\ w.kind = "env" /\ w.secret => w.s = Mark
  BY <1>3, <1>4, <1>5, <1>6, <1>9, <1>12
<1> QED
  BY <1>11, <1>13 DEF w, u, d

\* A translated event.
Event(ev) == ev = [type |-> ev.type, text |-> ev.text, res |-> ev.res]

\* A layer works on each value of its own.
LEMMA DenylistByField ==
  ASSUME NEW ev, Event(ev)
  PROVE  LET x == DenylistLayer(ev) IN
         /\ Event(x) /\ x.type = ev.type /\ x.text = ev.text /\ DOMAIN x.res = DOMAIN ev.res
         /\ \A k \in DOMAIN ev.res : x.res[k] = Denylisted(k, ev.res[k])
BY DEF Event, DenylistLayer, Denylisted

\* The same of the second layer ...
LEMMA VaultByField ==
  ASSUME NEW ev, Event(ev)
  PROVE  LET x == VaultLayer(ev) IN
         /\ Event(x) /\ x.type = ev.type /\ x.text = ev.text /\ DOMAIN x.res = DOMAIN ev.res
         /\ \A k \in DOMAIN ev.res : x.res[k] = Vaulted(ev.res[k])
BY DEF Event, VaultLayer, Vaulted

\* ... and of the third, which also works on the text.
LEMMA TaintedByField ==
  ASSUME NEW ev, Event(ev), NEW needles
  PROVE  LET x == TaintedLayer(ev, needles) IN
         /\ Event(x) /\ x.type = ev.type /\ x.text = Untainted(ev.text, needles) /\ DOMAIN x.res = DOMAIN ev.res
         /\ \A k \in DOMAIN ev.res : x.res[k] = Cleaned(ev.res[k], needles)
<1> DEFINE x == TaintedLayer(ev, needles)
           r == [k \in DOMAIN ev.res |-> [ev.res[k] EXCEPT !.s = Untainted(@, needles)]]
<1>1. DOMAIN ev = {"type", "text", "res"}
  BY DEF Event
<1>2. x = [ev EXCEPT !.text = Untainted(ev.text, needles), !.res = r]
  BY DEF TaintedLayer
<1>3. DOMAIN r = DOMAIN ev.res /\ \A k \in DOMAIN ev.res : r[k] = Cleaned(ev.res[k], needles)
  BY DEF Cleaned
<1> HIDE DEF r, x
<1>4. x.type = ev.type /\ x.text = Untainted(ev.text, needles) /\ x.res = r
  BY <1>1, <1>2
<1>5. Event(x)
  BY <1>1, <1>2 DEF Event
<1> QED
  BY <1>3, <1>4, <1>5 DEF x

\* Of a raw event nothing but its text and its values reaches the layers.
LEMMA Translated ==
  ASSUME NEW raw, NEW secrets, Emits(raw, secrets)
  PROVE  LET x == Translate(raw) IN
         /\ Event(x) /\ \E D \in SUBSET ResultKeys : x.res \in [D -> Values]
         /\ \A text \in Texts(x) :
              text \in PlainTexts /\ Covered(text, LettersOf(secrets), secrets) /\ Laminar(text, secrets)
<1> DEFINE x == Translate(raw)
<1>1. PICK keys \in SUBSET ResultKeys : raw.res \in [keys -> Values]
  BY DEF Emits
<1>2. \A text \in {raw.stdout} \cup {raw.res[k].s : k \in DOMAIN raw.res} :
        text \in PlainTexts /\ Covered(text, LettersOf(secrets), secrets) /\ Laminar(text, secrets)
  BY DEF Emits
<1>3. <<>> \in PlainTexts /\ Covered(<<>>, LettersOf(secrets), secrets) /\ Laminar(<<>>, secrets)
  <2>1. <<>> \in Seq(Nat \ {0}) /\ DOMAIN <<>> = {}
    OBVIOUS
  <2> QED
    BY <2>1 DEF PlainTexts, Covered, Laminar
<1>4. <<>> \in [{} -> Values] /\ {} \in SUBSET ResultKeys /\ DOMAIN <<>> = {}
  OBVIOUS
<1>5. Event(x) /\ x.text \in {raw.stdout, <<>>} /\ x.res \in {raw.res, <<>>}
  BY DEF Translate, Event
<1> HIDE DEF x
<1>6. \E D \in SUBSET ResultKeys : x.res \in [D -> Values]
  BY <1>1, <1>4, <1>5
<1>7. \A text \in Texts(x) : text \in {raw.stdout, <<>>} \cup {raw.res[k].s : k \in DOMAIN raw.res}
  BY <1>4, <1>5 DEF Texts
<1> QED
  BY <1>2, <1>3, <1>5, <1>6, <1>7 DEF x

\* What a cut leaves was there.
LEMMA CutIsBeginning ==
  ASSUME NEW text \in Seq(Nat)
  PROVE  Cut(text) \in Seq(Nat) /\ ToSet(Cut(text)) \subseteq ToSet(text) /\ Len(Cut(text)) <= MaxText
<1> DEFINE l == IF Len(text) < MaxText THEN Len(text) ELSE MaxText
<1>1. Len(text) \in Nat /\ MaxText \in Nat /\ l \in Nat /\ l <= Len(text) /\ l <= MaxText
  BY MaxTextAssumption
<1>2. Cut(text) = SubSeq(text, 1, l)
  BY DEF Cut
<1> HIDE DEF l
<1>3. /\ SubSeq(text, 1, l) \in Seq(Nat) /\ Len(SubSeq(text, 1, l)) = l
      /\ \A i \in 1..l : SubSeq(text, 1, l)[i] = text[i]
  BY <1>1
<1>4. \A i \in 1..l : i \in 1..Len(text)
  BY <1>1
<1>5. ToSet(SubSeq(text, 1, l)) \subseteq ToSet(text)
  BY <1>1, <1>3, <1>4 DEF ToSet
<1> QED
  BY <1>1, <1>2, <1>3, <1>5

\* What is hidden of a value is audited under its key.
LEMMA HiddenIsAudited ==
  ASSUME NEW e0, NEW e1, NEW e2, NEW e3, NEW k \in DOMAIN e0.res,
         DOMAIN e1.res = DOMAIN e0.res, DOMAIN e2.res = DOMAIN e0.res,
         e0.res[k] # e3.res[k]
  PROVE  \E row \in ChangedFields("config_denylist", e0, e1) \cup ChangedFields("vault_tagged", e1, e2)
                      \cup ChangedFields("tainted_string", e2, e3) : row[2] = k
<1>1. e0.res[k] # e1.res[k] \/ e1.res[k] # e2.res[k] \/ e2.res[k] # e3.res[k]
  OBVIOUS
<1>2. ASSUME NEW layer, NEW before, NEW after, k \in DOMAIN before.res, before.res[k] # after.res[k]
      PROVE  \E row \in ChangedFields(layer, before, after) : row[2] = k
  <2>1. <<layer, k>> \in ChangedFields(layer, before, after)
    BY <1>2 DEF ChangedFields
  <2> QED
    BY <2>1
<1>3. CASE e0.res[k] # e1.res[k]
  BY <1>2, <1>3
<1>4. CASE e1.res[k] # e2.res[k]
  BY <1>2, <1>4
<1>5. CASE e2.res[k] # e3.res[k]
  BY <1>2, <1>5
<1> QED
  BY <1>1, <1>3, <1>4, <1>5

\* What an event shows, with the secrets it was cleaned of.
Clean(ev, rows, secrets) ==
  /\ \A text \in Texts(ev) :
       ToSet(text) \cap LettersOf(secrets) = {} /\ (ev.type = "log_line" => Len(text) <= MaxText)
  /\ \A k \in DOMAIN ev.res :
       /\ ev.res[k].kind = "text" /\ k \in Denied => ev.res[k].s = Mark
       /\ ev.res[k].kind \in {"vault", "inline"} => ev.res[k].s = Mark
       /\ ev.res[k].kind = "env" /\ ev.res[k].secret => ev.res[k].s = Mark
       /\ 0 \in ToSet(ev.res[k].s) => \E row \in rows : row[2] = k

\* An event that is written.
LEMMA WrittenIsClean ==
  ASSUME NEW secrets \in SUBSET (PlainTexts \ {<<>>}), IsFiniteSet(secrets), NEW needles \in Needles(secrets),
         NEW raw, Emits(raw, secrets)
  PROVE  LET translated == Translate(raw)
             denied == DenylistLayer(translated)
             vaulted == VaultLayer(denied)
             clean == TaintedLayer(vaulted, needles)
             written == IF clean.type = "log_line" THEN [clean EXCEPT !.text = Cut(@)] ELSE clean
             rows == ChangedFields("config_denylist", translated, denied) \cup ChangedFields("vault_tagged", denied, vaulted)
                       \cup ChangedFields("tainted_string", vaulted, clean) IN
         Clean(written, rows, secrets)
<1> DEFINE e0 == Translate(raw)
           e1 == DenylistLayer(e0)
           e2 == VaultLayer(e1)
           e3 == TaintedLayer(e2, needles)
           w == IF e3.type = "log_line" THEN [e3 EXCEPT !.text = Cut(@)] ELSE e3
           rows == ChangedFields("config_denylist", e0, e1) \cup ChangedFields("vault_tagged", e1, e2)
                     \cup ChangedFields("tainted_string", e2, e3)
<1>0. /\ Event(e0) /\ \E D \in SUBSET ResultKeys : e0.res \in [D -> Values]
      /\ \A text \in Texts(e0) :
           text \in PlainTexts /\ Covered(text, LettersOf(secrets), secrets) /\ Laminar(text, secrets)
  BY Translated
<1> HIDE DEF e0
<1>1. /\ Event(e1) /\ e1.type = e0.type /\ e1.text = e0.text /\ DOMAIN e1.res = DOMAIN e0.res
      /\ \A k \in DOMAIN e0.res : e1.res[k] = Denylisted(k, e0.res[k])
  BY <1>0, DenylistByField
<1> HIDE DEF e1
<1>2. /\ Event(e2) /\ e2.type = e1.type /\ e2.text = e1.text /\ DOMAIN e2.res = DOMAIN e1.res
      /\ \A k \in DOMAIN e1.res : e2.res[k] = Vaulted(e1.res[k])
  BY <1>1, VaultByField
<1> HIDE DEF e2
<1>3. /\ Event(e3) /\ e3.type = e2.type /\ e3.text = Untainted(e2.text, needles) /\ DOMAIN e3.res = DOMAIN e2.res
      /\ \A k \in DOMAIN e2.res : e3.res[k] = Cleaned(e2.res[k], needles)
  BY <1>2, TaintedByField
<1> HIDE DEF e3
<1>4. PICK D \in SUBSET ResultKeys : e0.res \in [D -> Values]
  BY <1>0
<1>5. \A k \in D : k \in ResultKeys /\ e0.res[k] \in Values
  BY <1>4
<1>6. \A k \in D : e3.res[k] = Cleaned(Vaulted(Denylisted(k, e0.res[k])), needles)
  BY <1>1, <1>2, <1>3, <1>4
<1>7. \A k \in D : Covered(e0.res[k].s, LettersOf(secrets), secrets) /\ Laminar(e0.res[k].s, secrets)
  <2>1. \A k \in D : e0.res[k].s \in Texts(e0)
    BY <1>4 DEF Texts
  <2> QED
    BY <1>0, <2>1
<1>8. ASSUME NEW k \in D
      PROVE  LET v == e3.res[k] IN
             /\ ToSet(v.s) \cap LettersOf(secrets) = {}
             /\ v.kind = "text" /\ k \in Denied => v.s = Mark
             /\ v.kind \in {"vault", "inline"} => v.s = Mark
             /\ v.kind = "env" /\ v.secret => v.s = Mark
  BY <1>5, <1>6, <1>7, ValueIsClean
<1>9. ASSUME NEW k \in D, 0 \in ToSet(e3.res[k].s)
      PROVE  \E row \in rows : row[2] = k
  <2>1. e0.res[k].s \in Seq(Nat \ {0})
    BY <1>5 DEF Values, PlainTexts
  <2>2. 0 \notin ToSet(e0.res[k].s)
    BY <2>1 DEF ToSet
  <2>3. e0.res[k] # e3.res[k]
    BY <1>9, <2>2
  <2>4. k \in DOMAIN e0.res /\ DOMAIN e1.res = DOMAIN e0.res /\ DOMAIN e2.res = DOMAIN e0.res
    BY <1>1, <1>2, <1>4
  <2> QED
    BY <2>3, <2>4, HiddenIsAudited
<1>10. e3.text \in Seq(Nat) /\ ToSet(e3.text) \cap LettersOf(secrets) = {}
  <2>1. e3.text = Untainted(e0.text, needles)
    BY <1>1, <1>2, <1>3
  <2>2. e0.text \in PlainTexts /\ Covered(e0.text, LettersOf(secrets), secrets) /\ Laminar(e0.text, secrets)
    BY <1>0 DEF Texts
  <2> QED
    BY <2>1, <2>2, UntaintedHides
<1>11. Cut(e3.text) \in Seq(Nat) /\ ToSet(Cut(e3.text)) \subseteq ToSet(e3.text) /\ Len(Cut(e3.text)) <= MaxText
  BY <1>10, CutIsBeginning
<1>12. /\ w.res = e3.res /\ w.type = e3.type
       /\ w.text = IF e3.type = "log_line" THEN Cut(e3.text) ELSE e3.text
  BY <1>3 DEF Event
<1>13. DOMAIN e3.res = D
  BY <1>1, <1>2, <1>3, <1>4
<1> HIDE DEF w, rows
<1>14. e3.type = "log_line" => D = {}
  BY <1>1, <1>2, <1>3, <1>4 DEF e0, Translate
<1>15. ToSet(w.text) \cap LettersOf(secrets) = {} /\ (w.type = "log_line" => Len(w.text) <= MaxText)
  BY <1>10, <1>11, <1>12
<1>16. ASSUME NEW text \in Texts(w)
       PROVE  ToSet(text) \cap LettersOf(secrets) = {} /\ (w.type = "log_line" => Len(text) <= MaxText)
  <2>1. text = w.text \/ \E k \in D : text = e3.res[k].s
    BY <1>12, <1>13 DEF Texts
  <2>2. ASSUME NEW k \in D, text = e3.res[k].s
        PROVE  ToSet(text) \cap LettersOf(secrets) = {} /\ (w.type = "log_line" => Len(text) <= MaxText)
    BY <1>8, <1>12, <1>14, <2>2
  <2> QED
    BY <1>15, <2>1, <2>2
<1>17. Clean(w, rows, secrets)
  BY <1>8, <1>9, <1>12, <1>13, <1>16 DEF Clean
<1> QED
  BY <1>17 DEF w, rows, e3, e2, e1, e0

-----------------------------------------------------------------------------
(* The specification.                                                      *)

\* Who watches knows the secrets the attempt was started with.
RedactionInv ==
  /\ current \in DOMAIN Credentials /\ context \in {0} \cup DOMAIN Credentials /\ known \in {0, context}
  /\ context = 0 => shown = Nothing
  /\ context # 0 => Clean(shown, audited, Credentials[context])

\* Before the first event there is nothing to hide.
LEMMA NothingIsClean ==
  ASSUME NEW rows, NEW secrets
  PROVE  Clean(Nothing, rows, secrets)
<1>1. Nothing.text = <<>> /\ Nothing.res = <<>> /\ Nothing.type = "none" /\ DOMAIN <<>> = {}
  BY DEF Nothing
<1>2. Texts(Nothing) = {<<>>}
  BY <1>1 DEF Texts
<1>3. ToSet(<<>>) = {}
  BY <1>1 DEF ToSet
<1> QED
  BY <1>1, <1>2, <1>3 DEF Clean

\* A watcher that recovers works with the secrets of the attempt again.
LEMMA RedactionInvHolds == RedactionSpec => []RedactionInv
<1>1. RedactionInit => RedactionInv
  <2>1. 1 \in DOMAIN Credentials
    BY CredentialsAssumption
  <2> QED
    BY <2>1 DEF RedactionInit, RedactionInv
<1>2. RedactionInv /\ [RedactionNext]_redactionVars => RedactionInv'
  <2> SUFFICES ASSUME RedactionInv, [RedactionNext]_redactionVars PROVE RedactionInv'
    OBVIOUS
  <2>0. /\ current \in DOMAIN Credentials /\ context \in {0} \cup DOMAIN Credentials /\ known \in {0, context}
        /\ context = 0 => shown = Nothing
        /\ context # 0 => Clean(shown, audited, Credentials[context])
    BY DEF RedactionInv
  <2>a. DOMAIN Credentials = 1..Len(Credentials) /\ Len(Credentials) \in Nat
    BY CredentialsAssumption
  <2>1. CASE StartWatched
    <3>1. /\ context' = current /\ known' = current /\ current' = current /\ shown' = Nothing /\ context' # 0
      BY <2>0, <2>1, <2>a DEF StartWatched
    <3>2. Clean(shown', audited', Credentials[context'])
      BY <3>1, NothingIsClean
    <3> QED
      BY <2>0, <3>1, <3>2 DEF RedactionInv, Clean
  <2>2. CASE Rotate
    <3>1. current' \in DOMAIN Credentials
      BY <2>0, <2>2, <2>a DEF Rotate
    <3>2. UNCHANGED <<context, known, shown, audited>>
      BY <2>2 DEF Rotate
    <3> QED
      BY <2>0, <3>1, <3>2 DEF RedactionInv
  <2>3. CASE Restart
    <3>1. known' = 0 /\ UNCHANGED <<current, context, shown, audited>>
      BY <2>3 DEF Restart
    <3> QED
      BY <2>0, <3>1 DEF RedactionInv
  <2>4. CASE RecoverWatcher
    <3>1. known' = context /\ UNCHANGED <<current, context, shown, audited>>
      BY <2>4 DEF RecoverWatcher, RecoveredContext
    <3> QED
      BY <2>0, <3>1 DEF RedactionInv
  <2>5. CASE WriteEvent
    <3>1. known = context /\ context \in DOMAIN Credentials /\ context # 0
      BY <2>0, <2>5 DEF WriteEvent
    <3> DEFINE secrets == Credentials[context]
               written(raw, needles) == LET clean == TaintedLayer(VaultLayer(DenylistLayer(Translate(raw))), needles) IN
                 IF clean.type = "log_line" THEN [clean EXCEPT !.text = Cut(@)] ELSE clean
               rows(raw, needles) ==
                 LET translated == Translate(raw)
                     denied == DenylistLayer(translated)
                     vaulted == VaultLayer(denied)
                     clean == TaintedLayer(vaulted, needles) IN
                 ChangedFields("config_denylist", translated, denied) \cup ChangedFields("vault_tagged", denied, vaulted)
                   \cup ChangedFields("tainted_string", vaulted, clean)
    <3>2. PICK raw \in RawEvents[context], needles \in Needles(secrets) :
            shown' = written(raw, needles) /\ audited' = rows(raw, needles)
      BY <2>5, <3>1 DEF WriteEvent
    <3>3. secrets \in SUBSET (PlainTexts \ {<<>>}) /\ IsFiniteSet(secrets) /\ Emits(raw, secrets)
      BY <3>1, SecretsAre
    <3> HIDE DEF secrets
    <3>4. Clean(written(raw, needles), rows(raw, needles), secrets)
      BY <3>2, <3>3, WrittenIsClean
    <3> HIDE DEF written, rows
    <3>5. UNCHANGED <<current, context, known>>
      BY <2>5 DEF WriteEvent
    <3>6. Clean(shown', audited', secrets)
      BY <3>2, <3>4
    <3> QED
      BY <2>0, <3>1, <3>5, <3>6 DEF RedactionInv, secrets
  <2>6. CASE UNCHANGED redactionVars
    BY <2>0, <2>6 DEF RedactionInv, redactionVars
  <2> QED
    BY <2>1, <2>2, <2>3, <2>4, <2>5, <2>6 DEF RedactionNext
<1> QED
  BY <1>1, <1>2, PTL DEF RedactionSpec

\* For all secrets and any number of rotations, restarts and events: no letter
\* of a secret that was in force when the attempt began is in the log, nothing
\* under a denied key, of a vault or of a secret variable, and what was hidden
\* is audited by field.
THEOREM NothingSecretIsShownHolds == RedactionSpec => []NothingSecretIsShown
<1>1. RedactionInv => NothingSecretIsShown
  <2> SUFFICES ASSUME RedactionInv PROVE NothingSecretIsShown
    OBVIOUS
  <2>1. CASE context = 0
    <3>1. shown = Nothing
      BY <2>1 DEF RedactionInv
    <3>2. Clean(Nothing, audited, Credentials[1])
      BY NothingIsClean
    <3> QED
      BY <2>1, <3>1, <3>2 DEF NothingSecretIsShown, Letters, Clean
  <2>2. CASE context # 0
    BY <2>2 DEF RedactionInv, NothingSecretIsShown, Letters, Clean
  <2> QED
    BY <2>1, <2>2
<1> QED
  BY <1>1, RedactionInvHolds, PTL
=============================================================================
