---------------------------- MODULE EventLogProofs ----------------------------
(* Theorems of EventLog for every set of attempts, every number of event   *)
(* files and every length of the log.  CopiesInv says what a watcher knows *)
(* of the log; EndInv adds who works on a row and what a drain has copied; *)
(* StreamKnows says which lines a subscriber has received.                 *)
EXTENDS EventLog, FiniteSetTheorems, TLAPS

-----------------------------------------------------------------------------
(* The invariants.                                                         *)

NoGarbage(f) == \A i \in DOMAIN f : f[i] # Garbage

\* The pass works on a row that is under way, or was when the pass read it.
PassHasRow ==
  /\ phase[Recovery] \in {"none", "queued", "drained", "open", "cleaned", "ending"}
  /\ phase[Recovery] # "none" => taken \in Att /\ taken \in finished \cup {active}
  /\ phase[Recovery] = "ending" => taken \in finished
  /\ \A a \in Att : phase[a] # "queued"

TypesHold == TypeOK /\ PassHasRow

\* A watcher that still copies knows every copy in the log; while the log is
\* whole it knows no other file.
Copying(a) ==
  \/ phase[a] \in {"watching", "stopping"} /\ a \notin blind
  \/ phase[a] \in {"adopted", "orphaned"}
SeenIsCopied ==
  \A a \in Att : Copying(a) =>
    /\ Receipts(file, a) \subseteq seen[a]
    /\ NoGarbage(file) => seen[a] \subseteq Receipts(file, a)

\* What a watcher that failed, or a launch that was refused, leaves out.
GivenUp ==
  /\ blind \subseteq lossy
  /\ \A a \in Att : /\ phase[a] = "stopping" => a \notin blind
                    /\ phase[a] \in {"refused", "broken"} => a \in lossy

CopiesInv == TypesHold /\ GivenUp /\ SeenIsCopied /\ CopiedOnce /\ NothingLost

\* A task works on the row that is under way.
Done == {"none", "failed", "ending"}
TaskHasRow ==
  \A a \in Att :
    /\ phase[a] \notin Done => active = a /\ a \notin finished
    /\ phase[a] \in {"failed", "ending"} => a \in finished
    /\ a \notin finished \cup {active} => a \notin published
    /\ phase[a] \in {"setup", "started", "spawned"} => a \notin published

\* Nobody but the pass works on the row that it recovers.
PassAlone ==
  phase[Recovery] \notin {"none", "queued"} => phase[taken] \in {"none", "failed"}

\* Once its end is near, an identified runner does not run.
Closing == {"undrained", "drained", "open", "cleaned", "ending"}
RunnerStopped(a) ==
  \/ a \in finished
  \/ phase[a] \in Closing \cup {"stopping", "orphaned", "refused", "broken", "dropped", "failing"}
  \/ phase[Recovery] \in Closing /\ taken = a
StoppedIsDead == \A a \in published : RunnerStopped(a) => runner[a] # "live"

\* redaction.json is there as long as somebody still copies.
ContextKept ==
  /\ \A a \in Att :
       phase[a] \in {"spawned", "launched", "watching", "adopted", "stopping", "orphaned",
                     "undrained"} => a \in context
  /\ \A a \in published : runner[a] = "live" => a \in context

Complete(a) == NoGarbage(file) => 1..emitted[a] \subseteq Receipts(file, a)

\* What a closing sequence has drained is complete, and so is what no longer
\* can be drained.
Drained(a) ==
  \/ phase[a] \in Closing \ {"undrained"}
  \/ phase[Recovery] \in Closing /\ taken = a
  \/ a \notin context /\ (active = a \/ (phase[Recovery] # "none" /\ taken = a))
DrainedIsComplete == \A a \in published \ lossy : Drained(a) => Complete(a)

\* attempt_end is the last line of its attempt wherever the log is whole.
EndsAreLast ==
  \A i \in DOMAIN file : file[i].kind = "end" =>
    /\ file[i].att \in finished
    /\ file[i].att \in published \ lossy /\ (\A k \in 1..i : file[k] # Garbage) =>
         1..emitted[file[i].att] \subseteq Receipts(SubSeq(file, 1, i), file[i].att)

Owners == TaskHasRow /\ PassAlone /\ StoppedIsDead /\ ContextKept
EndInv == CopiesInv /\ Owners /\ DrainedIsComplete /\ EndsAreLast

\* A subscriber has received every line up to the last number, and only those.
Received(f, n) == {i \in Readable(f) : f[i].seq <= n}
StreamKnows ==
  /\ \A i \in Readable(file) : file[i].seq >= 1
  /\ \/ subscriber.last = 0
     \/ \E i \in Readable(file) : subscriber.last = file[i].seq
  /\ Identifying => subscriber.got = InOrder(Received(file, subscriber.last))

-----------------------------------------------------------------------------
(* Sets of numbers in order.                                               *)

\* How many members of a set are below a number.
Below(S, x) == {y \in S : y < x}
Rank(S, x) == Cardinality(Below(S, x))

\* Smaller members have smaller ranks.
LEMMA RankGrows ==
  ASSUME NEW S \in SUBSET Nat, IsFiniteSet(S)
  PROVE  \A x, z \in S : x < z => /\ Rank(S, x) \in Nat /\ Rank(S, z) \in Nat
                                 /\ Rank(S, x) < Rank(S, z)
                                 /\ Rank(S, z) < Cardinality(S)
<1> SUFFICES ASSUME NEW x \in S, NEW z \in S, x < z
             PROVE  /\ Rank(S, x) \in Nat /\ Rank(S, z) \in Nat
                    /\ Rank(S, x) < Rank(S, z) /\ Rank(S, z) < Cardinality(S)
  OBVIOUS
<1>0. x \in Nat /\ z \in Nat
  OBVIOUS
<1>1. IsFiniteSet(Below(S, x)) /\ IsFiniteSet(Below(S, z))
  BY FS_Subset DEF Below
<1>2. Below(S, x) \cup {x} \subseteq Below(S, z)
  <2>1. ASSUME NEW y \in S, y < x
        PROVE  y < z
    <3>1. y \in Nat
      OBVIOUS
    <3> QED
      BY <1>0, <2>1, <3>1
  <2> QED
    BY <2>1 DEF Below
<1>3. Below(S, z) \cup {z} \subseteq S
  BY DEF Below
<1>4. x \notin Below(S, x) /\ z \notin Below(S, z)
  BY DEF Below
<1>5. /\ Cardinality(Below(S, x) \cup {x}) = Rank(S, x) + 1
      /\ Cardinality(Below(S, z) \cup {z}) = Rank(S, z) + 1
  BY <1>1, <1>4, FS_AddElement DEF Rank
<1>6. Cardinality(Below(S, x) \cup {x}) <= Rank(S, z)
  BY <1>1, <1>2, FS_Subset DEF Rank
<1>7. Cardinality(Below(S, z) \cup {z}) <= Cardinality(S)
  BY <1>3, FS_Subset
<1>8. Rank(S, x) \in Nat /\ Rank(S, z) \in Nat /\ Cardinality(S) \in Nat
  BY <1>1, FS_CardinalityType DEF Rank
<1> QED
  BY <1>5, <1>6, <1>7, <1>8

\* The ranks of n members lie between 0 and n - 1.
LEMMA RankRange ==
  ASSUME NEW S \in SUBSET Nat, IsFiniteSet(S)
  PROVE  \A x \in S : Rank(S, x) \in 0..(Cardinality(S) - 1)
<1> SUFFICES ASSUME NEW x \in S
             PROVE  Rank(S, x) \in 0..(Cardinality(S) - 1)
  OBVIOUS
<1>1. IsFiniteSet(Below(S, x)) /\ Below(S, x) \cup {x} \subseteq S /\ x \notin Below(S, x)
  BY FS_Subset DEF Below
<1>2. Cardinality(Below(S, x) \cup {x}) = Rank(S, x) + 1
  BY <1>1, FS_AddElement DEF Rank
<1>3. Cardinality(Below(S, x) \cup {x}) <= Cardinality(S)
  BY <1>1, FS_Subset
<1>4. Rank(S, x) \in Nat /\ Cardinality(S) \in Nat
  BY <1>1, FS_CardinalityType DEF Rank
<1> QED
  BY <1>2, <1>3, <1>4

\* Every rank below the size of a set is taken, by one member.
LEMMA RankIsTaken ==
  ASSUME NEW S \in SUBSET Nat, IsFiniteSet(S)
  PROVE  \A k \in 0..(Cardinality(S) - 1) : \E x \in S : Rank(S, x) = k
<1> DEFINE f == [x \in S |-> Rank(S, x)]
           T == 0..(Cardinality(S) - 1)
<1>1. Cardinality(S) \in Nat
  BY FS_CardinalityType
<1>2. IsFiniteSet(T) /\ Cardinality(T) = Cardinality(S)
  <2>1. PICK b \in Int : b = Cardinality(S) - 1
    BY <1>1
  <2>2. IsFiniteSet(0..b) /\ Cardinality(0..b) = IF 0 > b THEN 0 ELSE b - 0 + 1
    BY FS_Interval
  <2> QED
    BY <1>1, <2>1, <2>2
<1>3. f \in [S -> T]
  BY RankRange
<1>4. ASSUME NEW x \in S, NEW z \in S, f[x] = f[z]
      PROVE  x = z
  <2>0. x \in Nat /\ z \in Nat
    OBVIOUS
  <2>1. x < z \/ z < x \/ x = z
    BY <2>0
  <2>2. Rank(S, x) = Rank(S, z)
    BY <1>4
  <2>5. Rank(S, x) \in Nat
    BY RankRange
  <2>3. ~(x < z)
    BY <2>2, <2>5, RankGrows
  <2>4. ~(z < x)
    BY <2>2, <2>5, RankGrows
  <2> QED
    BY <2>1, <2>3, <2>4
<1>5. f \in Injection(S, T)
  BY <1>3, <1>4 DEF Injection, IsInjective
<1>6. f \in Surjection(S, T)
  BY <1>2, <1>5, FS_Injection
<1> QED
  BY <1>6 DEF Surjection

\* InOrder lists a set: each member once, in ascending order.
LEMMA InOrderLists ==
  ASSUME NEW S \in SUBSET Nat, IsFiniteSet(S)
  PROVE  /\ Cardinality(S) \in Nat
         /\ InOrder(S) \in [1..Cardinality(S) -> S]
         /\ \A x \in S : \E i \in 1..Cardinality(S) : InOrder(S)[i] = x
         /\ \A i, j \in 1..Cardinality(S) : i < j => InOrder(S)[i] < InOrder(S)[j]
<1> DEFINE n == Cardinality(S)
<1>1. n \in Nat
  BY FS_CardinalityType
<1>2. ASSUME NEW i \in 1..n
      PROVE  InOrder(S)[i] \in S /\ Rank(S, InOrder(S)[i]) = i - 1
  <2>1. PICK x \in S : Rank(S, x) = i - 1
    BY <1>1, RankIsTaken
  <2>2. InOrder(S)[i] = CHOOSE z \in S : Rank(S, z) = i - 1
    BY DEF InOrder, Rank, Below
  <2> QED
    BY <2>1, <2>2
<1>3. InOrder(S) \in [1..n -> S]
  BY <1>2 DEF InOrder
<1>4. ASSUME NEW x \in S
      PROVE  \E i \in 1..n : InOrder(S)[i] = x
  <2>1. Rank(S, x) \in 0..(n - 1)
    BY RankRange
  <2>2. Rank(S, x) + 1 \in 1..n
    BY <1>1, <2>1
  <2>3. PICK i \in 1..n : i = Rank(S, x) + 1
    BY <2>2
  <2>8. PICK z \in S : z = InOrder(S)[i] /\ Rank(S, z) = i - 1
    BY <1>2
  <2>5. Rank(S, x) \in Nat /\ x \in Nat /\ z \in Nat
    BY <2>1
  <2>4. z = InOrder(S)[i] /\ Rank(S, z) = Rank(S, x)
    BY <2>3, <2>5, <2>8
  <2>6. ~(z < x)
    BY <2>4, <2>5, RankGrows
  <2>7. ~(x < z)
    BY <2>4, <2>5, RankGrows
  <2> QED
    BY <2>4, <2>5, <2>6, <2>7
<1>5. ASSUME NEW i \in 1..n, NEW j \in 1..n, i < j
      PROVE  InOrder(S)[i] < InOrder(S)[j]
  <2>1. PICK x \in S : x = InOrder(S)[i] /\ Rank(S, x) = i - 1
    BY <1>2
  <2>2. PICK z \in S : z = InOrder(S)[j] /\ Rank(S, z) = j - 1
    BY <1>2
  <2>3. i \in Nat /\ j \in Nat /\ x \in Nat /\ z \in Nat
    BY <1>1
  <2>4. ~(z < x)
    BY <1>5, <2>1, <2>2, <2>3, RankGrows
  <2>5. z # x
    BY <1>5, <2>1, <2>2, <2>3
  <2> QED
    BY <2>1, <2>2, <2>3, <2>4, <2>5
<1> QED
  BY <1>1, <1>3, <1>4, <1>5

\* Max takes the greatest member.
LEMMA MaxIsMember ==
  ASSUME NEW S \in SUBSET Nat, IsFiniteSet(S), S # {}
  PROVE  Max(S) \in S /\ \A x \in S : Max(S) >= x
<1> DEFINE n == Cardinality(S)
<1>1. n \in Nat \ {0}
  BY FS_CardinalityType, FS_EmptySet
<1>2. PICK x \in S : Rank(S, x) = n - 1
  BY <1>1, RankIsTaken
<1>3. \A z \in S : x >= z
  <2> SUFFICES ASSUME NEW z \in S, x < z
               PROVE  FALSE
    OBVIOUS
  <2> QED
    BY <1>1, <1>2, RankGrows
<1> QED
  BY <1>3 DEF Max

-----------------------------------------------------------------------------
(* Writing lines.                                                          *)

\* What the kinds of lines have in common.
LEMMA LineKinds ==
  ASSUME NEW line \in Lines
  PROVE  /\ line.seq \in Nat
         /\ line.kind = "runner" => line.n \in Files
         /\ line = Garbage <=> line.kind = "garbage"
         /\ line # Garbage => line.att \in Att
BY BoundAssumption DEF Lines, Garbage

\* The highest number in a log is a number.
LEMMA LastSeqIsNumber ==
  ASSUME NEW f \in Seq(Lines)
  PROVE  LastSeq(f) \in Nat
<1> DEFINE seqs == {f[i].seq : i \in DOMAIN f}
           g == [i \in DOMAIN f |-> f[i].seq]
<1>1. DOMAIN f = 1..Len(f) /\ Len(f) \in Nat
  OBVIOUS
<1>2. IsFiniteSet(DOMAIN f)
  BY <1>1, FS_Interval
<1>3. g \in Surjection(DOMAIN f, seqs)
  BY DEF Surjection
<1>4. IsFiniteSet(seqs) /\ IsFiniteSet({0})
  BY <1>2, <1>3, FS_Surjection, FS_Singleton
<1>5. IsFiniteSet({0} \cup seqs)
  BY <1>4, FS_Union
<1>6. seqs \subseteq Nat
  BY LineKinds
<1>7. {0} \cup seqs \in SUBSET Nat /\ {0} \cup seqs # {}
  BY <1>6
<1>8. Max({0} \cup seqs) \in {0} \cup seqs
  BY <1>5, <1>7, MaxIsMember
<1> QED
  BY <1>7, <1>8 DEF LastSeq

\* The lines that are written follow the ones that are there.
Follows(ls) ==
  /\ file' \in Seq(Lines) /\ Len(file') = Len(file) + Len(ls)
  /\ \A i \in 1..Len(file) : file'[i] = file[i]
  /\ \A k \in 1..Len(ls) :
       file'[Len(file) + k] = IF partial /\ k = 1 THEN Garbage ELSE ls[k]

\* Written appends the lines; an unfinished last line swallows the first.
LEMMA WrittenFollows ==
  ASSUME file \in Seq(Lines), NEW ls \in Seq(Lines), file' = Written(ls)
  PROVE  Follows(ls)
<1>1. CASE ls = <<>>
  BY <1>1 DEF Written, Follows
<1>2. CASE ls # <<>> /\ ~partial
  BY <1>2 DEF Written, Follows
<1>3. CASE ls # <<>> /\ partial
  <2> DEFINE new == <<Garbage>> \o Tail(ls)
  <2>1. Garbage \in Lines
    BY DEF Lines
  <2>2. new \in Seq(Lines) /\ Len(new) = Len(ls) /\ new[1] = Garbage
    BY <1>3, <2>1
  <2>3. \A k \in 2..Len(ls) : new[k] = ls[k]
    BY <1>3, <2>1
  <2>4. file' = file \o new
    BY <1>3 DEF Written
  <2> HIDE DEF new
  <2>5. file' \in Seq(Lines) /\ Len(file') = Len(file) + Len(ls)
    <3>1. file \o new \in Seq(Lines) /\ Len(file \o new) = Len(file) + Len(new)
      BY <2>2
    <3> QED
      BY <2>2, <2>4, <3>1
  <2>6. \A i \in 1..Len(file) : file'[i] = file[i]
    BY <2>2, <2>4
  <2>7. ASSUME NEW k \in 1..Len(ls)
        PROVE  file'[Len(file) + k] = IF k = 1 THEN Garbage ELSE ls[k]
    <3>1. file'[Len(file) + k] = new[k]
      BY <2>2, <2>4
    <3> QED
      BY <2>2, <2>3, <3>1
  <2> QED
    BY <1>3, <2>5, <2>6, <2>7 DEF Follows
<1> QED
  BY <1>1, <1>2, <1>3

\* Sets of event files are finite sets of numbers.
LEMMA FilesAreFinite ==
  ASSUME NEW S \in SUBSET Files
  PROVE  IsFiniteSet(S) /\ S \in SUBSET Nat
<1>1. IsFiniteSet(1..MaxEvents)
  BY BoundAssumption, FS_Interval
<1>2. S \in SUBSET (1..MaxEvents)
  BY DEF Files
<1>3. IsFiniteSet(S)
  BY <1>1, <1>2, FS_Subset
<1> QED
  BY <1>2, <1>3, BoundAssumption

\* A batch has one line for each of the files.
LEMMA BatchHolds ==
  ASSUME NEW a \in Att, NEW new \in SUBSET Files, NEW s \in Nat
  PROVE  /\ Cardinality(new) \in Nat
         /\ Batch(a, new, s) \in Seq(Lines)
         /\ Len(Batch(a, new, s)) = Cardinality(new)
         /\ \A i \in 1..Cardinality(new) :
              Batch(a, new, s)[i] = Event(a, "runner", InOrder(new)[i], s + i)
         /\ \A i \in 1..Cardinality(new) : InOrder(new)[i] \in new
         /\ \A x \in new : \E i \in 1..Cardinality(new) : InOrder(new)[i] = x
         /\ \A i, j \in 1..Cardinality(new) : i < j => InOrder(new)[i] < InOrder(new)[j]
<1> DEFINE n == Cardinality(new)
<1>1. IsFiniteSet(new) /\ new \in SUBSET Nat
  BY FilesAreFinite
<1>2. /\ n \in Nat
      /\ InOrder(new) \in [1..n -> new]
      /\ \A x \in new : \E i \in 1..n : InOrder(new)[i] = x
      /\ \A i, j \in 1..n : i < j => InOrder(new)[i] < InOrder(new)[j]
  BY <1>1, InOrderLists
<1>3. Len(InOrder(new)) = n
  BY <1>2
<1>4. Batch(a, new, s) = [i \in 1..n |-> Event(a, "runner", InOrder(new)[i], s + i)]
  BY <1>3 DEF Batch
<1>5. ASSUME NEW i \in 1..n
      PROVE  Event(a, "runner", InOrder(new)[i], s + i) \in Lines
  <2>1. InOrder(new)[i] \in Files /\ s + i \in Nat
    <3>1. InOrder(new)[i] \in new
      BY <1>2
    <3>2. InOrder(new)[i] \in Files
      BY <3>1
    <3>3. i \in Nat
      BY <1>2
    <3> QED
      BY <3>2, <3>3, BoundAssumption DEF Files
  <2> QED
    BY <2>1 DEF Event, Lines
<1>6. Batch(a, new, s) \in Seq(Lines) /\ Len(Batch(a, new, s)) = n
  BY <1>2, <1>4, <1>5
<1>7. \A i \in 1..n : Batch(a, new, s)[i] = Event(a, "runner", InOrder(new)[i], s + i)
  BY <1>4
<1> QED
  BY <1>2, <1>6, <1>7

\* The log keeps its lines; NewLines are the positions of the others.
Grows ==
  /\ file' \in Seq(Lines) /\ Len(file) <= Len(file')
  /\ \A i \in 1..Len(file) : file'[i] = file[i]
NewLines == (Len(file) + 1)..Len(file')

\* A line of an attempt is added, or is lost with an unfinished one.
Adds(line) ==
  /\ Grows
  /\ \A i \in NewLines :
       i = Len(file) + 1 /\ (file'[i] = Garbage \/ (file'[i] = line /\ ~partial))

\* Files of an attempt are copied, none twice; Whole says that all of them are.
Copies(a, new) ==
  /\ Grows
  /\ \A i \in NewLines : file'[i] # Garbage =>
       file'[i].att = a /\ file'[i].kind = "runner" /\ file'[i].n \in new /\ file'[i].seq >= 1
  /\ \A i, j \in NewLines :
       file'[i] # Garbage /\ file'[j] # Garbage /\ file'[i].n = file'[j].n => i = j
Whole(a, new) == NoGarbage(file') => new \subseteq Receipts(file', a)

\* Appending keeps the lines before, and says what each position after gets.
LEMMA FollowsGrows ==
  ASSUME file \in Seq(Lines), NEW ls \in Seq(Lines), file' = Written(ls)
  PROVE  /\ Grows
         /\ \A i \in NewLines : i - Len(file) \in 1..Len(ls)
         /\ \A i \in NewLines : i \in Nat /\ i - Len(file) \in Nat
         /\ \A i \in NewLines :
              file'[i] = IF partial /\ i = Len(file) + 1 THEN Garbage ELSE ls[i - Len(file)]
<1>1. Follows(ls)
  BY WrittenFollows
<1>2. Len(ls) \in Nat /\ Len(file) \in Nat
  OBVIOUS
<1>3. Grows
  BY <1>1, <1>2 DEF Follows, Grows
<1>4. ASSUME NEW i \in NewLines
      PROVE  /\ i - Len(file) \in 1..Len(ls) /\ i \in Nat /\ i - Len(file) \in Nat
             /\ file'[i] = IF partial /\ i = Len(file) + 1 THEN Garbage ELSE ls[i - Len(file)]
  <2>1. i - Len(file) \in 1..Len(ls) /\ i \in Nat
    BY <1>1, <1>2 DEF Follows, NewLines
  <2>2. PICK k \in 1..Len(ls) : k = i - Len(file)
    BY <2>1
  <2>3. i = Len(file) + k
    BY <1>2, <2>1, <2>2
  <2>4. file'[Len(file) + k] = IF partial /\ k = 1 THEN Garbage ELSE ls[k]
    BY <1>1 DEF Follows
  <2>5. k = 1 <=> i = Len(file) + 1
    BY <1>2, <2>2, <2>3
  <2> QED
    BY <1>2, <2>1, <2>2, <2>3, <2>4, <2>5
<1> QED
  BY <1>3, <1>4

\* A boundary line is added whole, or is lost in an append that fails.
LEMMA BoundaryAdds ==
  ASSUME TypeOK, NEW line \in Lines, WriteBoundary(line) \/ WriteFails(<<line>>, 1)
  PROVE  Adds(line) /\ partial' \in BOOLEAN /\ synced' \in synced..Len(file')
<1>0. file \in Seq(Lines) /\ synced \in 0..Len(file) /\ partial \in BOOLEAN
  BY DEF TypeOK
<1>1. SubSeq(<<line>>, 1, 1) = <<line>> /\ SubSeq(<<line>>, 1, 1 - 1) = <<>>
  <2> DEFINE one == <<line>>
  <2>1. one \in Seq(Lines) /\ Len(one) = 1
    OBVIOUS
  <2> HIDE DEF one
  <2>2. SubSeq(one, 1, 1) = one
    BY <2>1
  <2>3. SubSeq(one, 1, 1 - 1) = <<>>
    BY <2>1
  <2> QED
    BY <2>2, <2>3 DEF one
<1>2. PICK ls \in Seq(Lines) : ls \in {<<>>, <<line>>} /\ file' = Written(ls)
  <2>1. <<line>> \in Seq(Lines) /\ <<>> \in Seq(Lines)
    OBVIOUS
  <2>2. CASE WriteBoundary(line)
    BY <2>1, <2>2 DEF WriteBoundary, Write
  <2>3. CASE WriteFails(<<line>>, 1)
    <3>1. file' = Written(SubSeq(<<line>>, 1, 1)) \/ file' = Written(SubSeq(<<line>>, 1, 1 - 1))
      BY <2>3 DEF WriteFails
    <3> QED
      BY <1>1, <2>1, <3>1
  <2> QED
    BY <2>2, <2>3
<1>3. /\ Grows
      /\ \A i \in NewLines : i - Len(file) \in 1..Len(ls)
      /\ \A i \in NewLines : i \in Nat /\ i - Len(file) \in Nat
      /\ \A i \in NewLines :
           file'[i] = IF partial /\ i = Len(file) + 1 THEN Garbage ELSE ls[i - Len(file)]
  BY <1>0, <1>2, FollowsGrows
<1>4. Adds(line)
  <2> SUFFICES ASSUME NEW i \in NewLines
               PROVE  i = Len(file) + 1 /\ (file'[i] = Garbage \/ (file'[i] = line /\ ~partial))
    BY <1>3 DEF Adds
  <2>1. ls = <<line>> /\ i - Len(file) = 1
    BY <1>2, <1>3
  <2>2. i = Len(file) + 1
    BY <1>0, <1>3, <2>1
  <2> QED
    BY <1>3, <2>1, <2>2
<1>5. partial' \in BOOLEAN
  BY <1>0 DEF WriteBoundary, Write, WriteFails
<1>6. synced' \in synced..Len(file')
  <2>1. Len(file') \in Nat /\ Len(file) <= Len(file')
    BY <1>3 DEF Grows
  <2>2. synced' = Len(file') \/ synced' = synced
    BY DEF WriteBoundary, WriteFails
  <2> QED
    BY <1>0, <2>1, <2>2
<1> QED
  BY <1>4, <1>5, <1>6

\* The first k lines of a batch.
LEMMA BatchCopies ==
  ASSUME TypeOK, NEW a \in Att, NEW new \in SUBSET Files, NEW s \in Nat,
         NEW k \in 0..Cardinality(new), file' = Written(SubSeq(Batch(a, new, s), 1, k))
  PROVE  Copies(a, new) /\ (k = Cardinality(new) => Whole(a, new))
<1> DEFINE batch == Batch(a, new, s)
           ls == SubSeq(batch, 1, k)
           n == Cardinality(new)
<1>0. file \in Seq(Lines)
  BY DEF TypeOK
<1>1. /\ n \in Nat /\ batch \in Seq(Lines) /\ Len(batch) = n
      /\ \A i \in 1..n : batch[i] = Event(a, "runner", InOrder(new)[i], s + i)
      /\ \A i \in 1..n : InOrder(new)[i] \in new
      /\ \A x \in new : \E i \in 1..n : InOrder(new)[i] = x
      /\ \A i, j \in 1..n : i < j => InOrder(new)[i] < InOrder(new)[j]
  BY BatchHolds
<1> HIDE DEF batch
<1>2. ls \in Seq(Lines) /\ Len(ls) = k /\ \A i \in 1..k : ls[i] = batch[i]
  BY <1>1
<1>3. file' = Written(ls)
  BY DEF batch
<1> HIDE DEF ls
<1>4. /\ Grows
      /\ \A i \in NewLines : i - Len(file) \in 1..k
      /\ \A i \in NewLines : i \in Nat /\ i - Len(file) \in Nat
      /\ \A i \in NewLines :
           file'[i] = IF partial /\ i = Len(file) + 1 THEN Garbage ELSE ls[i - Len(file)]
  BY <1>0, <1>2, <1>3, FollowsGrows
<1>5. ASSUME NEW m \in 1..k
      PROVE  /\ ls[m].att = a /\ ls[m].kind = "runner" /\ ls[m].n = InOrder(new)[m]
             /\ ls[m].n \in new /\ ls[m].seq >= 1
  <2>1. m \in 1..n
    BY <1>1
  <2>2. ls[m] = Event(a, "runner", InOrder(new)[m], s + m)
    BY <1>1, <1>2, <2>1
  <2>3. s + m >= 1
    BY <2>1
  <2> QED
    BY <1>1, <2>1, <2>2, <2>3 DEF Event
<1>6. ASSUME NEW i \in NewLines, file'[i] # Garbage
      PROVE  file'[i] = ls[i - Len(file)] /\ i - Len(file) \in 1..k
  BY <1>4, <1>6
<1>7. ASSUME NEW i \in NewLines, NEW j \in NewLines,
             file'[i] # Garbage, file'[j] # Garbage, file'[i].n = file'[j].n
      PROVE  i = j
  <2>1. PICK p \in 1..k : p = i - Len(file) /\ file'[i] = ls[p]
    BY <1>6, <1>7
  <2>2. PICK q \in 1..k : q = j - Len(file) /\ file'[j] = ls[q]
    BY <1>6, <1>7
  <2>3. InOrder(new)[p] = InOrder(new)[q]
    BY <1>5, <1>7, <2>1, <2>2
  <2>4. p \in 1..n /\ q \in 1..n /\ p \in Nat /\ q \in Nat
    BY <1>1
  <2>5. new \in SUBSET Nat
    BY FilesAreFinite
  <2>6. InOrder(new)[p] \in Nat
    BY <1>1, <2>4, <2>5
  <2>7. ~(p < q) /\ ~(q < p)
    BY <1>1, <2>3, <2>4, <2>6
  <2>8. p = q
    BY <2>4, <2>7
  <2> QED
    BY <1>0, <1>4, <2>1, <2>2, <2>8
<1>8. Copies(a, new)
  BY <1>4, <1>5, <1>6, <1>7 DEF Copies
<1>9. ASSUME k = n, NoGarbage(file'), NEW x \in new
      PROVE  x \in Receipts(file', a)
  <2>1. PICK m \in 1..n : InOrder(new)[m] = x
    BY <1>1
  <2>2. ls[m].att = a /\ ls[m].kind = "runner" /\ ls[m].n = x
    BY <1>5, <1>9, <2>1
  <2>3. Follows(ls)
    BY <1>0, <1>2, <1>3, WrittenFollows
  <2>4. PICK i \in 1..Len(file') : i = Len(file) + m
    BY <1>0, <1>1, <1>2, <1>9, <2>3 DEF Follows
  <2>5. file'[i] = Garbage \/ file'[i] = ls[m]
    BY <1>2, <1>9, <2>3, <2>4 DEF Follows
  <2>6. DOMAIN file' = 1..Len(file')
    BY <1>4 DEF Grows
  <2>7. file'[i] # Garbage
    BY <1>9, <2>6 DEF NoGarbage
  <2> QED
    BY <2>2, <2>5, <2>6, <2>7 DEF Receipts
<1> QED
  BY <1>8, <1>9 DEF Whole

\* A batch that is written copies each of its files once.
LEMMA ScanCopies ==
  ASSUME TypeOK, NEW a \in Att, NEW new \in SUBSET Files, NEW s \in Nat,
         Write(Batch(a, new, s))
  PROVE  Copies(a, new) /\ Whole(a, new) /\ partial' \in BOOLEAN
<1>1. /\ Cardinality(new) \in Nat /\ Batch(a, new, s) \in Seq(Lines)
      /\ Len(Batch(a, new, s)) = Cardinality(new)
  BY BatchHolds
<1>2. SubSeq(Batch(a, new, s), 1, Cardinality(new)) = Batch(a, new, s)
  BY <1>1
<1>3. file' = Written(SubSeq(Batch(a, new, s), 1, Cardinality(new)))
  BY <1>2 DEF Write
<1>4. Cardinality(new) \in 0..Cardinality(new)
  BY <1>1
<1>5. partial' \in BOOLEAN
  BY DEF Write, TypeOK
<1> QED
  BY <1>3, <1>4, <1>5, BatchCopies

\* A batch whose write fails copies some of its files, none twice.
LEMMA FailureCopies ==
  ASSUME TypeOK, NEW a \in Att, NEW new \in SUBSET Files, NEW s \in Nat,
         NEW j \in 1..Cardinality(new), WriteFails(Batch(a, new, s), j)
  PROVE  Copies(a, new) /\ partial' \in BOOLEAN /\ synced' = synced
<1>1. Cardinality(new) \in Nat
  BY BatchHolds
<1>2. PICK k \in 0..Cardinality(new) : file' = Written(SubSeq(Batch(a, new, s), 1, k))
  <2>1. j \in 0..Cardinality(new) /\ j - 1 \in 0..Cardinality(new)
    BY <1>1
  <2> QED
    BY <2>1 DEF WriteFails
<1>3. partial' \in BOOLEAN /\ synced' = synced
  BY DEF WriteFails, TypeOK
<1> QED
  BY <1>2, <1>3, BatchCopies

-----------------------------------------------------------------------------
(* What growth of the log keeps.                                           *)

\* A log that grows keeps its copies, its prefixes and its garbage.
LEMMA GrowthKeeps ==
  ASSUME TypeOK, Grows
  PROVE  /\ \A a \in Att : Receipts(file, a) \subseteq Receipts(file', a)
         /\ \A i \in 0..Len(file) : SubSeq(file', 1, i) = SubSeq(file, 1, i)
         /\ NoGarbage(file') => NoGarbage(file)
         /\ DOMAIN file = 1..Len(file) /\ DOMAIN file' = 1..Len(file')
         /\ Len(file) \in Nat /\ Len(file') \in Nat
         /\ \A i \in DOMAIN file' : i \in DOMAIN file \/ i \in NewLines
<1>1. file \in Seq(Lines)
  BY DEF TypeOK
<1>2. /\ DOMAIN file = 1..Len(file) /\ DOMAIN file' = 1..Len(file')
      /\ Len(file) \in Nat /\ Len(file') \in Nat
  BY <1>1 DEF Grows
<1>3. \A i \in DOMAIN file : i \in DOMAIN file' /\ file'[i] = file[i]
  BY <1>2 DEF Grows
<1>4. \A a \in Att : Receipts(file, a) \subseteq Receipts(file', a)
  BY <1>3 DEF Receipts
<1>5. NoGarbage(file') => NoGarbage(file)
  BY <1>3 DEF NoGarbage
<1>6. ASSUME NEW i \in 0..Len(file)
      PROVE  SubSeq(file', 1, i) = SubSeq(file, 1, i)
  <2>1. i \in Nat /\ i <= Len(file) /\ i <= Len(file')
    BY <1>2 DEF Grows
  <2>2. SubSeq(file', 1, i) \in Seq(Lines) /\ SubSeq(file, 1, i) \in Seq(Lines)
    BY <1>1, <2>1 DEF Grows
  <2>3. Len(SubSeq(file', 1, i)) = i /\ Len(SubSeq(file, 1, i)) = i
    BY <1>1, <2>1 DEF Grows
  <2>4. \A k \in 1..i : SubSeq(file', 1, i)[k] = file'[k] /\ SubSeq(file, 1, i)[k] = file[k]
    BY <1>1, <2>1 DEF Grows
  <2>5. \A k \in 1..i : SubSeq(file', 1, i)[k] = SubSeq(file, 1, i)[k]
    BY <1>2, <1>3, <2>1, <2>4
  <2> QED
    BY <2>2, <2>3, <2>5
<1>7. \A i \in DOMAIN file' : i \in DOMAIN file \/ i \in NewLines
  BY <1>2 DEF NewLines
<1> QED
  BY <1>2, <1>4, <1>5, <1>6, <1>7

\* Copies of an attempt that are found in a part of the log are in the log.
LEMMA PrefixReceipts ==
  ASSUME NEW f \in Seq(Lines), NEW m \in 0..Len(f), NEW n \in 0..m, NEW a
  PROVE  /\ Receipts(SubSeq(f, 1, n), a) \subseteq Receipts(SubSeq(f, 1, m), a)
         /\ Receipts(SubSeq(f, 1, m), a) \subseteq Receipts(f, a)
<1> DEFINE g == SubSeq(f, 1, n)
           h == SubSeq(f, 1, m)
<1>1. m \in Nat /\ m <= Len(f) /\ n \in Nat /\ n <= m /\ n <= Len(f)
  OBVIOUS
<1>2. DOMAIN g = 1..n /\ \A k \in 1..n : g[k] = f[k]
  BY <1>1
<1>3. DOMAIN h = 1..m /\ \A k \in 1..m : h[k] = f[k]
  BY <1>1
<1>4. \A k \in DOMAIN g : k \in DOMAIN h /\ g[k] = h[k]
  BY <1>1, <1>2, <1>3
<1>5. \A k \in DOMAIN h : k \in DOMAIN f /\ h[k] = f[k]
  BY <1>1, <1>3
<1> HIDE DEF g, h
<1>6. Receipts(g, a) \subseteq Receipts(h, a) /\ Receipts(h, a) \subseteq Receipts(f, a)
  BY <1>4, <1>5 DEF Receipts
<1> QED
  BY <1>6 DEF g, h

\* Boundary lines are no copies.
LEMMA AddedIsQuiet ==
  ASSUME TypeOK, NEW line \in Lines, line.kind # "runner", Adds(line)
  PROVE  /\ \A a \in Att : Receipts(file', a) = Receipts(file, a)
         /\ CopiedOnce => CopiedOnce'
<1>1. Grows
  BY DEF Adds
<1>2. \A i \in NewLines : file'[i].kind # "runner"
  BY DEF Adds, Garbage
<1>3. \A i \in DOMAIN file' : file'[i].kind = "runner" => i \in DOMAIN file /\ file'[i] = file[i]
  BY <1>1, <1>2, GrowthKeeps DEF Grows
<1>4. \A a \in Att : Receipts(file', a) \subseteq Receipts(file, a)
  BY <1>3 DEF Receipts
<1>5. CopiedOnce => CopiedOnce'
  BY <1>3 DEF CopiedOnce
<1> QED
  BY <1>1, <1>4, <1>5, GrowthKeeps

\* Copying adds receipts of one attempt only, and none twice if all are new.
LEMMA CopiesAreNew ==
  ASSUME TypeOK, NEW a \in Att, NEW new \in SUBSET Files, Copies(a, new)
  PROVE  /\ Receipts(file', a) \subseteq Receipts(file, a) \cup new
         /\ \A b \in Att \ {a} : Receipts(file', b) = Receipts(file, b)
         /\ CopiedOnce /\ new \cap Receipts(file, a) = {} => CopiedOnce'
<1>1. Grows
  BY DEF Copies
<1>2. ASSUME NEW i \in DOMAIN file', file'[i].kind = "runner"
      PROVE  \/ i \in DOMAIN file /\ file'[i] = file[i]
             \/ i \in NewLines /\ file'[i] # Garbage /\ file'[i].att = a /\ file'[i].n \in new
  <2>1. file'[i] # Garbage
    BY <1>2 DEF Garbage
  <2> QED
    BY <1>1, <2>1, GrowthKeeps DEF Grows, Copies
<1>3. Receipts(file', a) \subseteq Receipts(file, a) \cup new
  BY <1>2 DEF Receipts
<1>4. \A b \in Att \ {a} : Receipts(file', b) \subseteq Receipts(file, b)
  BY <1>2 DEF Receipts
<1>5. ASSUME CopiedOnce, new \cap Receipts(file, a) = {},
             NEW i \in DOMAIN file', NEW j \in DOMAIN file',
             file'[i].kind = "runner", file'[j].kind = "runner",
             file'[i].att = file'[j].att, file'[i].n = file'[j].n
      PROVE  i = j
  <2>1. CASE i \in DOMAIN file /\ file'[i] = file[i] /\ j \in DOMAIN file /\ file'[j] = file[j]
    BY <1>5, <2>1 DEF CopiedOnce
  <2>2. CASE i \in NewLines /\ j \in NewLines
    BY <1>5, <1>2, <2>2 DEF Copies, Garbage
  <2>3. \A k \in DOMAIN file : file[k].kind = "runner" /\ file[k].att = a => file[k].n \in Receipts(file, a)
    BY DEF Receipts
  <2>4. CASE i \in DOMAIN file /\ file'[i] = file[i] /\ file'[j].att = a /\ file'[j].n \in new
    BY <1>5, <2>3, <2>4
  <2>5. CASE j \in DOMAIN file /\ file'[j] = file[j] /\ file'[i].att = a /\ file'[i].n \in new
    BY <1>5, <2>3, <2>5
  <2> QED
    BY <1>2, <1>5, <2>1, <2>2, <2>4, <2>5
<1>6. CopiedOnce /\ new \cap Receipts(file, a) = {} => CopiedOnce'
  BY <1>5 DEF CopiedOnce
<1> QED
  BY <1>1, <1>3, <1>4, <1>6, GrowthKeeps

\* Nothing is lost as long as the log grows and the files stay.
LEMMA GrowthLosesNothing ==
  ASSUME TypeOK, NothingLost, Grows, synced' \in synced..Len(file'),
         emitted' = emitted, \A a \in Att : raw[a] \subseteq raw'[a]
  PROVE  NothingLost'
<1>0. file \in Seq(Lines) /\ file' \in Seq(Lines) /\ synced \in 0..Len(file) /\ synced' \in Nat
      /\ synced' <= Len(file') /\ synced <= synced' /\ synced \in Nat
  BY DEF TypeOK, Grows
<1>1. SubSeq(file', 1, synced) = SubSeq(file, 1, synced)
  BY <1>0, GrowthKeeps
<1>2. \A a : Receipts(SubSeq(file', 1, synced), a) \subseteq Receipts(SubSeq(file', 1, synced'), a)
  BY <1>0, PrefixReceipts
<1> QED
  BY <1>1, <1>2 DEF NothingLost

-----------------------------------------------------------------------------
(* The steps that write.                                                   *)

LogTyped == file \in Seq(Lines) /\ partial \in BOOLEAN /\ synced \in 0..Len(file)
StreamTyped == subscriber \in [last : Nat, got : Seq(1..Len(file))]

\* The four things that a step does to the log, apart from a power loss.
Stays == file' = file /\ partial' = partial /\ synced' \in synced..Len(file)
AddsOne == \E line \in Lines :
  line.kind # "runner" /\ line.seq >= 1 /\ Adds(line) /\ synced' \in synced..Len(file')
CopiesSome(a, known) ==
  /\ Unread(a, known) \in SUBSET Files
  /\ Unread(a, known) \cap Receipts(file, a) = {}
  /\ Copies(a, Unread(a, known)) /\ synced' = synced
CopiesAny == \E a \in Att, new \in SUBSET Files :
  new \cap Receipts(file, a) = {} /\ Copies(a, new) /\ synced' = synced
LogStep == LogTyped' /\ (Stays \/ AddsOne \/ CopiesAny)

\* What a task does not know of has no copy, if it knows all copies.
LEMMA UnreadIsNew ==
  ASSUME TypeOK, NEW a \in Att, NEW known, Receipts(file, a) \subseteq known
  PROVE  Unread(a, known) \in SUBSET Files /\ Unread(a, known) \cap Receipts(file, a) = {}
BY DEF Unread, TypeOK

\* Copying the unread files is a step of the log.
LEMMA CopyingIsAStep ==
  ASSUME TypeOK, NEW a \in Att, NEW known, CopiesSome(a, known), partial' \in BOOLEAN
  PROVE  LogStep /\ CopiesAny
<1>1. Grows
  BY DEF CopiesSome, Copies
<1>2. synced' \in 0..Len(file') /\ file' \in Seq(Lines)
  BY <1>1 DEF Grows, CopiesSome, TypeOK
<1> QED
  BY <1>2 DEF CopiesSome, CopiesAny, LogStep, LogTyped

\* So is a scan, which copies all of them,
LEMMA ScanIsAStep ==
  ASSUME TypeOK, NEW a \in Att, NEW next, Receipts(file, a) \subseteq seen[a], Scan(a, next)
  PROVE  CopiesSome(a, seen[a]) /\ Whole(a, Unread(a, seen[a])) /\ LogStep /\ CopiesAny
<1>1. Unread(a, seen[a]) \in SUBSET Files /\ Unread(a, seen[a]) \cap Receipts(file, a) = {}
  BY UnreadIsNew
<1>2. Write(Batch(a, Unread(a, seen[a]), writer[a])) /\ synced' = synced
  BY DEF Scan
<1>3. writer[a] \in Nat
  BY DEF TypeOK, Proc
<1>4. /\ Copies(a, Unread(a, seen[a])) /\ Whole(a, Unread(a, seen[a]))
      /\ partial' \in BOOLEAN
  BY <1>1, <1>2, <1>3, ScanCopies
<1> QED
  BY <1>1, <1>2, <1>4, CopyingIsAStep DEF CopiesSome

\* a scan that fails,
LEMMA ScanFailsIsAStep ==
  ASSUME TypeOK, NEW a \in Att, NEW next, Receipts(file, a) \subseteq seen[a], ScanFails(a, next)
  PROVE  CopiesSome(a, seen[a]) /\ LogStep /\ CopiesAny
<1>1. Unread(a, seen[a]) \in SUBSET Files /\ Unread(a, seen[a]) \cap Receipts(file, a) = {}
  BY UnreadIsNew
<1>2. PICK j \in 1..Cardinality(Unread(a, seen[a])) :
        WriteFails(Batch(a, Unread(a, seen[a]), writer[a]), j)
  BY DEF ScanFails
<1>3. writer[a] \in Nat
  BY DEF TypeOK, Proc
<1>4. Copies(a, Unread(a, seen[a])) /\ partial' \in BOOLEAN /\ synced' = synced
  BY <1>1, <1>2, <1>3, FailureCopies
<1> QED
  BY <1>1, <1>4, CopyingIsAStep DEF CopiesSome

\* a drain, which takes its receipts from the log,
LEMMA DrainIsAStep ==
  ASSUME TypeOK, NEW p \in Proc, NEW a \in Att, DrainTo(p, a) \/ DrainFails(p, a)
  PROVE  /\ CopiesSome(a, Receipts(file, a)) /\ LogStep /\ CopiesAny
         /\ DrainTo(p, a) => Whole(a, Unread(a, Receipts(file, a)))
<1> DEFINE new == Unread(a, Receipts(file, a))
<1>1. new \in SUBSET Files /\ new \cap Receipts(file, a) = {}
  BY UnreadIsNew
<1>2. LastSeq(file) \in Nat
  BY LastSeqIsNumber DEF TypeOK
<1>3. CASE DrainTo(p, a)
  <2>1. Write(Batch(a, new, LastSeq(file))) /\ synced' = synced
    BY <1>3 DEF DrainTo
  <2>2. Copies(a, new) /\ Whole(a, new) /\ partial' \in BOOLEAN
    BY <1>1, <1>2, <2>1, ScanCopies
  <2> QED
    BY <1>1, <2>1, <2>2, CopyingIsAStep DEF CopiesSome
<1>4. CASE DrainFails(p, a) /\ ~DrainTo(p, a)
  <2>1. PICK j \in 1..Cardinality(new) : WriteFails(Batch(a, new, LastSeq(file)), j)
    BY <1>4 DEF DrainFails
  <2>2. Copies(a, new) /\ partial' \in BOOLEAN /\ synced' = synced
    BY <1>1, <1>2, <2>1, FailureCopies
  <2> QED
    BY <1>1, <1>4, <2>2, CopyingIsAStep DEF CopiesSome
<1> QED
  BY <1>3, <1>4

\* and a boundary line.
LEMMA BoundaryIsAStep ==
  ASSUME TypeOK, NEW a \in Att, NEW kind \in {"start", "end", "failure"}, NEW s \in Nat,
         \/ WriteBoundary(Event(a, kind, 0, s + 1))
         \/ WriteFails(<<Event(a, kind, 0, s + 1)>>, 1)
  PROVE  /\ LogStep /\ AddsOne /\ Event(a, kind, 0, s + 1) \in Lines
         /\ Adds(Event(a, kind, 0, s + 1))
<1> DEFINE line == Event(a, kind, 0, s + 1)
<1>1. line \in Lines
  BY BoundAssumption DEF Event, Lines
<1>2. line.kind # "runner" /\ line.seq >= 1
  BY DEF Event
<1>3. Adds(line) /\ partial' \in BOOLEAN /\ synced' \in synced..Len(file')
  BY <1>1, BoundaryAdds
<1>4. LogTyped'
  BY <1>3 DEF Adds, Grows, LogTyped, TypeOK
<1> QED
  BY <1>1, <1>2, <1>3, <1>4 DEF LogStep, AddsOne

\* Whatever a step writes, the log grows.
LEMMA StepGrows ==
  ASSUME TypeOK, LogStep
  PROVE  Grows /\ synced' \in synced..Len(file')
<1>1. CASE Stays
  BY <1>1 DEF Stays, Grows, TypeOK
<1>2. CASE AddsOne
  BY <1>2 DEF AddsOne, Adds
<1>3. CASE CopiesAny
  <2>1. Grows
    BY <1>3 DEF CopiesAny, Copies
  <2> QED
    BY <1>3, <2>1 DEF CopiesAny, Grows, TypeOK
<1> QED
  BY <1>1, <1>2, <1>3 DEF LogStep

\* A step of the log copies nothing twice.
LEMMA StepCopiesOnce ==
  ASSUME TypeOK, LogStep, CopiedOnce
  PROVE  CopiedOnce'
<1>1. CASE Stays
  BY <1>1 DEF Stays, CopiedOnce
<1>2. CASE AddsOne
  BY <1>2, AddedIsQuiet DEF AddsOne
<1>3. CASE CopiesAny
  BY <1>3, CopiesAreNew DEF CopiesAny
<1> QED
  BY <1>1, <1>2, <1>3 DEF LogStep

\* A sequence over a set is one over a larger set.
LEMMA WiderSeq ==
  ASSUME NEW S, NEW T, S \subseteq T, NEW s \in Seq(S)
  PROVE  s \in Seq(T)
OBVIOUS

\* The positions that a subscriber has stay positions of the log.
LEMMA StreamStaysTyped ==
  ASSUME TypeOK, Grows, subscriber' = subscriber
  PROVE  StreamTyped'
<1>1. Len(file) \in Nat /\ Len(file') \in Nat /\ Len(file) <= Len(file')
  BY DEF TypeOK, Grows
<1>2. 1..Len(file) \subseteq 1..Len(file')
  BY <1>1
<1>3. subscriber.got \in Seq(1..Len(file))
  BY DEF TypeOK
<1>4. subscriber.got \in Seq(1..Len(file'))
  BY <1>2, <1>3, WiderSeq
<1> QED
  BY <1>4 DEF StreamTyped, TypeOK

\* A step may leave the log alone.
LEMMA LogStaysIsAStep ==
  ASSUME TypeOK, UNCHANGED log
  PROVE  LogStep /\ Stays
BY DEF TypeOK, LogStep, LogTyped, Stays, log

\* Every step but a power loss only adds to the log.
LEMMA StepsOfTheLog ==
  ASSUME TypesHold, GivenUp, SeenIsCopied, Next, ~PowerLoss
  PROVE  LogStep
<1>0. TypeOK /\ PassHasRow
  BY DEF TypesHold
<1> USE <1>0
<1>1. CASE UNCHANGED log
  BY <1>1, LogStaysIsAStep
<1>2. ASSUME NEW a \in Att, NEW kind \in {"start", "end", "failure"}, NEW s \in Nat,
             \/ WriteBoundary(Event(a, kind, 0, s + 1))
             \/ WriteFails(<<Event(a, kind, 0, s + 1)>>, 1)
      PROVE  LogStep
  BY <1>2, BoundaryIsAStep
<1>3. LastSeq(file) \in Nat
  BY LastSeqIsNumber DEF TypeOK
<1>4. ASSUME NEW a \in Att, Work(a)
      PROVE  LogStep
  <2>1. CASE StartEvent(a) \/ StartEventFails(a)
    BY <1>2, <1>3, <2>1 DEF StartEvent, StartEventFails
  <2>2. CASE FailureEvent(a)
    BY <1>2, <1>3, <2>2 DEF FailureEvent
  <2>3. CASE SetupFails(a) \/ Spawn(a) \/ Publish(a) \/ Watch(a) \/ LaunchRefused(a)
             \/ RunnerObserved(a)
    BY <1>1, <2>3 DEF SetupFails, Spawn, Publish, Watch, LaunchRefused, RunnerObserved
  <2>4. Copying(a) => Receipts(file, a) \subseteq seen[a]
    BY DEF SeenIsCopied
  <2>5. CASE Poll(a)
    BY <2>4, <2>5, ScanIsAStep DEF Poll, Copying
  <2>6. CASE FinalScan(a)
    BY <2>4, <2>6, ScanIsAStep DEF FinalScan, Copying, GivenUp
  <2>7. CASE WatcherFails(a)
    BY <2>4, <2>7, ScanFailsIsAStep DEF WatcherFails, Copying
  <2>8. CASE Drain(a)
    BY <2>8, DrainIsAStep DEF Drain, Proc
  <2> QED
    BY <1>4, <2>1, <2>2, <2>3, <2>5, <2>6, <2>7, <2>8 DEF Work
<1>5. ASSUME NEW p \in Proc, Close(p)
      PROVE  LogStep
  <2>1. CASE OpenWriter(p) \/ FinishRow(p)
    BY <1>1, <2>1 DEF OpenWriter, FinishRow
  <2>2. CASE CleanOutput(p)
    <3>1. file' = file /\ partial' = partial
      BY <2>2 DEF CleanOutput
    <3>2. synced' = synced \/ synced' = Len(file)
      BY <2>2 DEF CleanOutput, RemoveRaw
    <3> QED
      BY <3>1, <3>2 DEF LogStep, LogTyped, Stays, TypeOK
  <2>3. CASE EndEvent(p)
    <3>1. Subject(p) \in Att /\ writer[p] \in Nat
      BY <2>3 DEF EndEvent, Subject, PassHasRow, Proc, TypeOK
    <3> QED
      BY <1>2, <2>3, <3>1 DEF EndEvent
  <2> QED
    BY <1>5, <2>1, <2>2, <2>3 DEF Close
<1>6. CASE PassRecovers
  <2>1. taken \in Att /\ Recovery \in Proc
    BY <1>6 DEF PassRecovers, PassHasRow, Proc
  <2> QED
    BY <1>6, <2>1, DrainIsAStep DEF PassRecovers
<1>7. CASE PassSelects \/ PassSkips \/ PassAdopts \/ Stream \/ Crash
  BY <1>1, <1>7 DEF PassSelects, PassSkips, PassAdopts, Stream, Crash
<1>8. CASE \E a \in Att : Reserve(a) \/ RunnerEmits(a) \/ RunnerExits(a)
  BY <1>1, <1>8 DEF Reserve, RunnerEmits, RunnerExits
<1> QED
  BY <1>4, <1>5, <1>6, <1>7, <1>8 DEF Next, Pass

-----------------------------------------------------------------------------
(* Types.                                                                  *)

\* The processes, the rows and the host.
RestTyped ==
  /\ raw \in [Att -> SUBSET Files] /\ emitted \in [Att -> 0..MaxEvents]
  /\ runner \in [Att -> {"none", "live", "dead"}]
  /\ context \subseteq Att /\ published \subseteq Att /\ blind \subseteq Att
  /\ active \in Att \cup {Null} /\ finished \subseteq Att /\ lossy \subseteq Att
  /\ phase \in [Proc -> Phases] /\ writer \in [Proc -> Nat]
  /\ seen \in [Att -> SUBSET Files] /\ taken \in Att \cup {Null}

\* The types of the log, of the subscriber and of the rest.
LEMMA TypesSplit == TypesHold <=> LogTyped /\ StreamTyped /\ RestTyped /\ PassHasRow
BY DEF TypesHold, TypeOK, LogTyped, StreamTyped, RestTyped

\* The processes, the rows and the host keep their types in every step.
LEMMA RestStaysTyped ==
  ASSUME TypesHold, GivenUp, SeenIsCopied, Next
  PROVE  RestTyped' /\ PassHasRow'
<1> USE ProcAssumption, BoundAssumption
<1>0. RestTyped /\ PassHasRow /\ LogTyped /\ TypeOK
  BY TypesSplit DEF TypesHold
<1>1. LastSeq(file) \in Nat
  BY LastSeqIsNumber DEF TypeOK, TypesHold
<1>2. \A a \in Att : Receipts(file, a) \in SUBSET Files
  BY <1>0, LineKinds DEF Receipts, LogTyped
<1>3. ASSUME NEW a \in Att, Reserve(a)
      PROVE  RestTyped' /\ PassHasRow'
  BY <1>0, <1>3 DEF Reserve, Go, RestTyped, PassHasRow, Proc, Phases, log, host, faults
<1>4. ASSUME NEW a \in Att, RunnerEmits(a) \/ RunnerExits(a)
      PROVE  RestTyped' /\ PassHasRow'
  <2>1. CASE RunnerEmits(a)
    <3>1. emitted[a] + 1 \in Files /\ emitted[a] + 1 \in 0..MaxEvents
      BY <1>0, <2>1 DEF RunnerEmits, RestTyped, Files
    <3> QED
      BY <1>0, <2>1, <3>1 DEF RunnerEmits, RestTyped, PassHasRow, rows, memory, faults
  <2>2. CASE RunnerExits(a)
    BY <1>0, <2>2 DEF RunnerExits, RestTyped, PassHasRow, rows, memory, faults
  <2> QED
    BY <1>4, <2>1, <2>2
<1>5. ASSUME NEW a \in Att, NEW next \in Phases \ {"queued"}, Go(a, next)
      PROVE  /\ phase' \in [Proc -> Phases]
             /\ taken' = taken /\ finished' = finished /\ active' = active => PassHasRow'
  BY <1>0, <1>5 DEF Go, RestTyped, PassHasRow, Proc
<1>6. ASSUME NEW a \in Att, Work(a)
      PROVE  RestTyped' /\ PassHasRow'
  <2>1. CASE StartEvent(a) \/ StartEventFails(a) \/ FailureEvent(a)
    BY <1>0, <1>1, <1>5, <2>1 DEF StartEvent, StartEventFails, FailureEvent, RestTyped, Proc,
       Phases, host, rows, faults
  <2>2. CASE SetupFails(a) \/ Spawn(a) \/ Publish(a)
    BY <1>0, <1>5, <2>2 DEF SetupFails, Spawn, Publish, RestTyped, Phases, rows, faults
  <2>3. CASE Watch(a)
    BY <1>0, <1>2, <1>5, <2>3 DEF Watch, RestTyped, Phases, host, rows, faults
  <2>4. CASE LaunchRefused(a)
    BY <1>0, <1>5, <2>4 DEF LaunchRefused, RestTyped, Phases, rows
  <2>5. CASE RunnerObserved(a)
    BY <1>0, <1>5, <2>5 DEF RunnerObserved, RestTyped, Phases, host, rows, faults
  <2>6. Unread(a, seen[a]) \in SUBSET Files /\ Cardinality(Unread(a, seen[a])) \in Nat
    <3>1. Unread(a, seen[a]) \in SUBSET Files
      BY <1>0 DEF Unread, RestTyped
    <3> QED
      BY <3>1, FilesAreFinite, FS_CardinalityType
  <2>7. ASSUME NEW next \in {"watching", "adopted", "open", "undrained"}, Scan(a, next)
        PROVE  RestTyped' /\ PassHasRow'
    BY <1>0, <1>5, <2>6, <2>7 DEF Scan, RestTyped, Phases, Proc, host, rows, faults
  <2>8. CASE Poll(a) \/ FinalScan(a)
    BY <2>7, <2>8 DEF Poll, FinalScan
  <2>9. ASSUME NEW next \in {"watching", "open", "none"}, ScanFails(a, next),
               blind' \subseteq Att, lossy' \subseteq Att
        PROVE  RestTyped' /\ PassHasRow'
    <3>1. PICK j \in 1..Cardinality(Unread(a, seen[a])) : writer' = [writer EXCEPT ![a] = @ + j]
      BY <2>9 DEF ScanFails
    <3> QED
      BY <1>0, <1>5, <2>6, <2>9, <3>1 DEF ScanFails, RestTyped, Phases, Proc, host, rows
  <2>10. CASE WatcherFails(a)
    BY <1>0, <2>9, <2>10 DEF WatcherFails, RestTyped, faults
  <2>11. CASE Drain(a)
    BY <1>0, <1>5, <2>11 DEF Drain, DrainTo, DrainFails, Leave, RestTyped, PassHasRow, Phases,
       Proc, host, rows, faults
  <2> QED
    BY <1>6, <2>1, <2>2, <2>3, <2>4, <2>5, <2>8, <2>10, <2>11 DEF Work
<1>7. ASSUME NEW p \in Proc, Close(p)
      PROVE  RestTyped' /\ PassHasRow'
  <2>1. CASE OpenWriter(p)
    BY <1>0, <1>1, <2>1 DEF OpenWriter, Go, RestTyped, PassHasRow, Phases, Proc, host, rows, faults
  <2>2. CASE CleanOutput(p)
    <3>1. raw' \in [Att -> SUBSET Files]
      <4> DEFINE a == Subject(p)
      <4>1. raw' = raw \/ raw' = [raw EXCEPT ![a] = raw[a] \ Receipts(file, a)]
        BY <2>2 DEF CleanOutput, RemoveRaw
      <4>2. raw \in [Att -> SUBSET Files]
        BY <1>0 DEF RestTyped
      <4> HIDE DEF a
      <4> QED
        BY <4>1, <4>2
    <3>2. PICK next \in {"cleaned", "failing", "dropped"} :
            /\ (phase[p] = "open" /\ next = "cleaned") \/ phase[p] \in {"broken", "refused"}
            /\ Go(p, next)
      BY <2>2 DEF CleanOutput
    <3>3. phase' \in [Proc -> Phases] /\ PassHasRow'
      BY <1>0, <2>2, <3>2 DEF CleanOutput, Go, RestTyped, PassHasRow, Phases, Proc, rows
    <3>4. context' \subseteq Att
      BY <1>0, <2>2 DEF CleanOutput, RestTyped
    <3>5. UNCHANGED <<emitted, runner, published, rows, writer, seen, faults, taken>>
      BY <2>2 DEF CleanOutput
    <3> QED
      BY <1>0, <3>1, <3>3, <3>4, <3>5 DEF RestTyped, rows, faults
  <2>3. CASE FinishRow(p)
    <3>1. Subject(p) \in Att
      BY <1>0, <2>3 DEF FinishRow, Subject, PassHasRow, Proc
    <3> QED
      BY <1>0, <2>3, <3>1 DEF FinishRow, Subject, Go, RestTyped, PassHasRow, Phases, Proc, host,
         faults
  <2>4. CASE EndEvent(p)
    BY <1>0, <2>4 DEF EndEvent, Leave, Go, RestTyped, PassHasRow, Phases, Proc, host, rows, faults
  <2> QED
    BY <1>7, <2>1, <2>2, <2>3, <2>4 DEF Close
<1>8. CASE PassSelects
  BY <1>0, <1>8 DEF PassSelects, Go, RestTyped, PassHasRow, Phases, Proc, host, rows, faults
<1>9. CASE PassSkips
  BY <1>0, <1>9 DEF PassSkips, Leave, Go, RestTyped, PassHasRow, Phases, Proc, host, rows, faults
<1>10. CASE PassAdopts
  BY <1>0, <1>1, <1>2, <1>10 DEF PassAdopts, RestTyped, PassHasRow, Phases, Proc, host, rows, faults
<1>11. CASE PassRecovers
  BY <1>0, <1>11 DEF PassRecovers, DrainTo, DrainFails, Leave, Go, RestTyped, PassHasRow, Phases,
     Proc, host, rows, faults
<1>12. CASE Stream
  BY <1>0, <1>12 DEF Stream, RestTyped, PassHasRow, host, rows, memory, faults
<1>13. CASE Crash
  BY <1>0, <1>13 DEF Crash, Forget, RestTyped, PassHasRow, Phases, Proc, host, rows
<1>14. CASE PowerLoss
  BY <1>0, <1>14 DEF PowerLoss, Forget, RestTyped, PassHasRow, Phases, Proc, rows
<1> QED
  BY <1>3, <1>4, <1>6, <1>7, <1>8, <1>9, <1>10, <1>11, <1>12, <1>13, <1>14 DEF Next, Pass

\* The last of a list in order is the greatest.
LEMMA LastOfOrder ==
  ASSUME NEW f \in Seq(Lines), NEW S \in SUBSET DOMAIN f, S # {}
  PROVE  /\ IsFiniteSet(S) /\ S \in SUBSET Nat
         /\ InOrder(S) \in Seq(1..Len(f)) /\ InOrder(S) # <<>>
         /\ Last(InOrder(S)) \in S
         /\ \A x \in S : x <= Last(InOrder(S))
<1> DEFINE n == Cardinality(S)
<1>1. DOMAIN f = 1..Len(f) /\ Len(f) \in Nat
  OBVIOUS
<1>2. S \in SUBSET (1..Len(f)) /\ S \in SUBSET Nat
  BY <1>1
<1>3. IsFiniteSet(1..Len(f))
  BY <1>1, FS_Interval
<1>4. IsFiniteSet(S)
  BY <1>2, <1>3, FS_Subset
<1>5. /\ n \in Nat /\ InOrder(S) \in [1..n -> S]
      /\ \A x \in S : \E i \in 1..n : InOrder(S)[i] = x
      /\ \A i, j \in 1..n : i < j => InOrder(S)[i] < InOrder(S)[j]
  BY <1>2, <1>4, InOrderLists
<1>6. n # 0
  BY <1>4, FS_EmptySet
<1>7. Len(InOrder(S)) = n /\ InOrder(S) \in Seq(S)
  BY <1>5
<1>8. Last(InOrder(S)) = InOrder(S)[n] /\ n \in 1..n
  BY <1>5, <1>6, <1>7 DEF Last
<1>9. ASSUME NEW x \in S
      PROVE  x <= Last(InOrder(S))
  <2>1. PICK i \in 1..n : InOrder(S)[i] = x
    BY <1>5
  <2>2. PICK y \in S : y = InOrder(S)[n]
    BY <1>5, <1>8
  <2>3. i < n \/ i = n
    BY <1>5
  <2>4. x < y \/ x = y
    BY <1>5, <1>8, <2>1, <2>2, <2>3
  <2>5. x \in Nat /\ y \in Nat
    BY <1>2
  <2> QED
    BY <1>8, <2>2, <2>4, <2>5
<1>10. InOrder(S) \in Seq(1..Len(f))
  BY <1>2, <1>7, WiderSeq
<1> QED
  BY <1>2, <1>4, <1>5, <1>6, <1>7, <1>8, <1>9, <1>10

\* A subscriber that reads on gets positions of the log.
LEMMA StreamIsTyped ==
  ASSUME TypeOK, Stream
  PROVE  StreamTyped'
<1> DEFINE new == {i \in Readable(file) : file[i].seq > subscriber.last}
           batch == InOrder(new)
<1>0. file \in Seq(Lines) /\ file' = file
  BY DEF TypeOK, Stream, log
<1>1. new \in SUBSET DOMAIN file /\ new # {}
  BY DEF Stream, Readable
<1>2. subscriber' = [last |-> file[Last(batch)].seq, got |-> subscriber.got \o batch]
  BY DEF Stream
<1> HIDE DEF new
<1>3. batch \in Seq(1..Len(file)) /\ Last(batch) \in DOMAIN file
  BY <1>0, <1>1, LastOfOrder
<1>4. file[Last(batch)] \in Lines
  BY <1>0, <1>3
<1>5. file[Last(batch)].seq \in Nat
  BY <1>4, LineKinds
<1>6. subscriber.got \in Seq(1..Len(file))
  BY DEF TypeOK
<1>7. subscriber.got \o batch \in Seq(1..Len(file))
  BY <1>3, <1>6
<1> QED
  BY <1>0, <1>2, <1>5, <1>7 DEF StreamTyped

\* What a power loss leaves is a part of the log that has all that was flushed.
LEMMA PowerLossKeeps ==
  ASSUME TypeOK, PowerLoss
  PROVE  \E n \in synced..Len(file) :
           /\ n \in Nat /\ n <= Len(file) /\ file' = SubSeq(file, 1, n)
           /\ file' \in Seq(Lines) /\ Len(file') = n
           /\ DOMAIN file = 1..Len(file) /\ DOMAIN file' = 1..n
           /\ \A i \in 1..n : i \in DOMAIN file /\ file'[i] = file[i]
           /\ \A i \in 0..n : SubSeq(file', 1, i) = SubSeq(file, 1, i)
           /\ partial' \in BOOLEAN /\ synced' = synced
<1>0. file \in Seq(Lines) /\ synced \in 0..Len(file) /\ partial \in BOOLEAN
  BY DEF TypeOK
<1>1. PICK n \in synced..Len(file) :
        /\ file' = SubSeq(file, 1, n)
        /\ partial' \in {FALSE, partial \/ (n < Len(file) /\ n < MaxLines)}
  BY DEF PowerLoss
<1>2. n \in Nat /\ n <= Len(file) /\ Len(file) \in Nat
  BY <1>0
<1>3. file' \in Seq(Lines) /\ Len(file') = n /\ \A i \in 1..n : file'[i] = file[i]
  BY <1>0, <1>1, <1>2
<1>4. DOMAIN file = 1..Len(file) /\ DOMAIN file' = 1..n
  BY <1>0, <1>3
<1>5. ASSUME NEW i \in 0..n
      PROVE  SubSeq(file', 1, i) = SubSeq(file, 1, i)
  <2>1. i \in Nat /\ i <= n /\ i <= Len(file)
    BY <1>2
  <2>2. /\ SubSeq(file', 1, i) \in Seq(Lines) /\ Len(SubSeq(file', 1, i)) = i
        /\ \A k \in 1..i : SubSeq(file', 1, i)[k] = file'[k]
    BY <1>3, <2>1
  <2>3. /\ SubSeq(file, 1, i) \in Seq(Lines) /\ Len(SubSeq(file, 1, i)) = i
        /\ \A k \in 1..i : SubSeq(file, 1, i)[k] = file[k]
    BY <1>0, <2>1
  <2>4. \A k \in 1..i : SubSeq(file', 1, i)[k] = SubSeq(file, 1, i)[k]
    BY <1>2, <1>3, <2>1, <2>2, <2>3
  <2> QED
    BY <2>2, <2>3, <2>4
<1>6. partial' \in BOOLEAN /\ synced' = synced
  BY <1>0, <1>1 DEF PowerLoss
<1>7. \A i \in 1..n : i \in DOMAIN file /\ file'[i] = file[i]
  BY <1>2, <1>3, <1>4
<1> QED
  BY <1>1, <1>2, <1>3, <1>4, <1>5, <1>6, <1>7

\* Only these steps touch the subscriber.
LEMMA SubscriberSteps ==
  ASSUME Next, ~PowerLoss
  PROVE  Stream \/ Crash \/ subscriber' = subscriber
<1>1. ASSUME NEW a \in Att, Work(a)
      PROVE  subscriber' = subscriber
  BY <1>1 DEF Work, StartEvent, StartEventFails, SetupFails, Spawn, Publish, Watch,
     LaunchRefused, FailureEvent, Poll, RunnerObserved, FinalScan, WatcherFails, Drain, Scan,
     ScanFails, DrainTo, DrainFails
<1>2. ASSUME NEW p \in Proc, Close(p)
      PROVE  subscriber' = subscriber
  BY <1>2 DEF Close, OpenWriter, CleanOutput, FinishRow, EndEvent
<1>3. ASSUME PassSelects \/ Pass
      PROVE  subscriber' = subscriber
  BY <1>3 DEF PassSelects, Pass, PassSkips, PassAdopts, PassRecovers, DrainTo, DrainFails
<1>4. ASSUME NEW a \in Att, Reserve(a) \/ RunnerEmits(a) \/ RunnerExits(a)
      PROVE  subscriber' = subscriber
  BY <1>4 DEF Reserve, RunnerEmits, RunnerExits
<1> QED
  BY <1>1, <1>2, <1>3, <1>4 DEF Next

\* All types hold after every step.
LEMMA TypesStay ==
  ASSUME TypesHold, GivenUp, SeenIsCopied, Next
  PROVE  TypesHold'
<1>0. TypeOK /\ RestTyped' /\ PassHasRow'
  BY RestStaysTyped DEF TypesHold
<1>1. ASSUME RestTyped', PassHasRow', LogTyped', StreamTyped'
      PROVE  TypesHold'
  BY <1>1 DEF RestTyped, PassHasRow, LogTyped, StreamTyped, TypesHold, TypeOK
<1>2. NoStream \in [last : Nat, got : Seq(1..Len(file'))]
  BY DEF NoStream
<1>3. CASE PowerLoss
  <2>1. LogTyped'
    <3>1. synced \in Nat
      BY <1>0 DEF TypeOK
    <3> QED
      BY <1>0, <1>3, <3>1, PowerLossKeeps DEF LogTyped
  <2>2. StreamTyped'
    BY <1>2, <1>3 DEF PowerLoss, Forget, StreamTyped
  <2> QED
    BY <1>0, <1>1, <2>1, <2>2
<1>4. CASE ~PowerLoss
  <2>1. LogStep /\ Grows
    BY <1>0, <1>4, StepsOfTheLog, StepGrows
  <2>2. CASE Stream
    BY <1>0, <1>1, <2>1, <2>2, StreamIsTyped DEF LogStep
  <2>3. CASE Crash
    <3>1. StreamTyped'
      BY <1>2, <2>3 DEF Crash, Forget, StreamTyped
    <3> QED
      BY <1>0, <1>1, <2>1, <3>1 DEF LogStep
  <2>4. CASE subscriber' = subscriber
    BY <1>0, <1>1, <2>1, <2>4, StreamStaysTyped DEF LogStep
  <2>5. Stream \/ Crash \/ subscriber' = subscriber
    BY <1>4, SubscriberSteps
  <2> QED
    BY <2>2, <2>3, <2>4, <2>5
<1> QED
  BY <1>3, <1>4

-----------------------------------------------------------------------------
(* No copy twice, and nothing lost.                                        *)

SeenOf(a) == Copying(a) => /\ Receipts(file, a) \subseteq seen[a]
                           /\ NoGarbage(file) => seen[a] \subseteq Receipts(file, a)

\* An attempt that a step leaves alone still knows its copies.
LEMMA OthersStaySeen ==
  ASSUME TypeOK, Grows, NEW a \in Att, SeenOf(a), Receipts(file', a) = Receipts(file, a),
         seen'[a] = seen[a], Copying(a)' => Copying(a)
  PROVE  SeenOf(a)'
BY GrowthKeeps DEF SeenOf

\* A watcher that copies knows the copies after every step.
LEMMA SeenStays ==
  ASSUME TypesHold, GivenUp, SeenIsCopied, Next
  PROVE  SeenIsCopied'
<1>0. TypeOK /\ PassHasRow /\ phase \in [Proc -> Phases] /\ seen \in [Att -> SUBSET Files]
  BY DEF TypesHold, TypeOK
<1>1. SeenIsCopied <=> \A a \in Att : SeenOf(a)
  BY DEF SeenIsCopied, SeenOf
<1>2. SeenIsCopied' <=> \A a \in Att : SeenOf(a)'
  BY DEF SeenIsCopied, SeenOf
<1>3. CASE Crash \/ PowerLoss
  <2>1. \A a \in Att : phase'[a] = "none"
    BY <1>3 DEF Crash, PowerLoss, Forget, Proc
  <2> QED
    BY <2>1 DEF SeenIsCopied, Copying
<1>4. CASE ~(Crash \/ PowerLoss)
  <2>0. LogStep /\ Grows
    BY <1>0, <1>4, StepsOfTheLog, StepGrows
  \* A step that keeps receipts and what the watchers know.
  <2>1. ASSUME \A b \in Att : Receipts(file', b) = Receipts(file, b),
               seen' = seen, \A b \in Att : Copying(b)' => Copying(b)
        PROVE  SeenIsCopied'
    BY <1>0, <1>1, <1>2, <2>0, <2>1, OthersStaySeen
  <2>2. ASSUME Stays
        PROVE  \A b \in Att : Receipts(file', b) = Receipts(file, b)
    BY <2>2 DEF Stays
  <2>3. ASSUME UNCHANGED log
        PROVE  \A b \in Att : Receipts(file', b) = Receipts(file, b)
    BY <2>3 DEF log
  <2>4. ASSUME NEW a \in Att, NEW next, Go(a, next), blind \subseteq blind',
               next \in Phases \ {"watching", "stopping", "adopted", "orphaned"}
        PROVE  \A b \in Att : Copying(b)' => Copying(b)
    BY <1>0, <2>4 DEF Go, Copying, Proc
  <2>5. ASSUME NEW a \in Att, NEW kind \in {"start", "end", "failure"}, NEW s \in Nat,
               \/ WriteBoundary(Event(a, kind, 0, s + 1))
               \/ WriteFails(<<Event(a, kind, 0, s + 1)>>, 1)
        PROVE  \A b \in Att : Receipts(file', b) = Receipts(file, b)
    <3>1. Event(a, kind, 0, s + 1) \in Lines /\ Adds(Event(a, kind, 0, s + 1))
      BY <1>0, <2>5, BoundaryIsAStep
    <3>2. Event(a, kind, 0, s + 1).kind # "runner"
      BY DEF Event
    <3> QED
      BY <1>0, <3>1, <3>2, AddedIsQuiet
  <2>6. LastSeq(file) \in Nat
    BY <1>0, LastSeqIsNumber DEF TypeOK
  \* A step that copies files of one attempt.
  <2>7. ASSUME NEW a \in Att, NEW known, CopiesSome(a, known), seen' = seen,
               \A b \in Att : Copying(b)' => Copying(b), ~Copying(a)'
        PROVE  SeenIsCopied'
    <3>1. \A b \in Att \ {a} : Receipts(file', b) = Receipts(file, b)
      BY <1>0, <2>7, CopiesAreNew DEF CopiesSome
    <3>2. \A b \in Att \ {a} : SeenOf(b)'
      BY <1>0, <1>1, <2>0, <2>7, <3>1, OthersStaySeen
    <3>3. SeenOf(a)'
      BY <2>7 DEF SeenOf
    <3> QED
      BY <1>2, <3>2, <3>3
  <2>8. ASSUME NEW a \in Att, Copying(a), NEW next, Scan(a, next), next \in Phases,
               next \in {"watching", "stopping", "adopted", "orphaned"} => next = phase[a]
        PROVE  SeenIsCopied'
    <3> DEFINE new == Unread(a, seen[a])
    <3>1. Receipts(file, a) \subseteq seen[a]
          /\ (NoGarbage(file) => seen[a] \subseteq Receipts(file, a))
      BY <2>8 DEF SeenIsCopied
    <3>2. Copies(a, new) /\ Whole(a, new) /\ new \in SUBSET Files
      BY <1>0, <2>8, <3>1, ScanIsAStep DEF CopiesSome
    <3>3. /\ Receipts(file', a) \subseteq Receipts(file, a) \cup new
          /\ \A b \in Att \ {a} : Receipts(file', b) = Receipts(file, b)
      BY <1>0, <3>2, CopiesAreNew
    <3>4. seen'[a] = seen[a] \cup new /\ \A b \in Att \ {a} : seen'[b] = seen[b]
      BY <1>0, <2>8 DEF Scan
    <3>5. \A b \in Att \ {a} : Copying(b)' => Copying(b)
      BY <1>0, <2>8 DEF Scan, Go, Copying, faults, Proc
    <3>6. \A b \in Att \ {a} : SeenOf(b)'
      BY <1>0, <1>1, <2>0, <3>3, <3>4, <3>5, OthersStaySeen
    <3>7. SeenOf(a)'
      <4>1. Receipts(file', a) \subseteq seen'[a]
        BY <3>1, <3>3, <3>4
      <4>2. NoGarbage(file') => seen'[a] \subseteq Receipts(file', a)
        BY <1>0, <2>0, <3>1, <3>2, <3>4, GrowthKeeps DEF Whole
      <4> QED
        BY <4>1, <4>2 DEF SeenOf
    <3> QED
      BY <1>2, <3>6, <3>7
  <2>9. ASSUME NEW a \in Att, Copying(a), NEW next, ScanFails(a, next),
               \/ blind' = blind \cup {a} /\ phase[a] \in {"watching", "stopping"}
                  /\ next \in {"watching", "open"}
               \/ next = "none" /\ blind' = blind
        PROVE  SeenIsCopied'
    <3>1. CopiesSome(a, seen[a])
      BY <1>0, <2>9, ScanFailsIsAStep DEF SeenIsCopied
    <3>2. seen' = seen /\ phase' = [phase EXCEPT ![a] = next]
      BY <2>9 DEF ScanFails, Go
    <3>3. (\A b \in Att : Copying(b)' => Copying(b)) /\ ~Copying(a)'
      BY <1>0, <2>9, <3>2 DEF Copying, Proc
    <3> QED
      BY <2>7, <3>1, <3>2, <3>3
  <2>10. ASSUME NEW a \in Att, Work(a)
         PROVE  SeenIsCopied'
    <3>1. CASE StartEvent(a) \/ StartEventFails(a)
      BY <1>0, <2>1, <2>4, <2>5, <2>6, <3>1 DEF StartEvent, StartEventFails, Phases, faults
    <3>2. CASE FailureEvent(a)
      BY <1>0, <2>1, <2>4, <2>5, <2>6, <3>2 DEF FailureEvent, Phases, faults
    <3>3. CASE SetupFails(a) \/ Spawn(a) \/ Publish(a)
      BY <2>1, <2>3, <2>4, <3>3 DEF SetupFails, Spawn, Publish, Phases, faults
    <3>4. CASE Watch(a)
      <4>1. seen' = [seen EXCEPT ![a] = Receipts(file, a)] /\ file' = file
        BY <3>4 DEF Watch, log
      <4>2. \A b \in Att \ {a} : Copying(b)' => Copying(b)
        BY <1>0, <3>4 DEF Watch, Go, Copying, faults, Proc
      <4>3. \A b \in Att \ {a} : SeenOf(b)'
        BY <1>0, <1>1, <2>0, <4>1, <4>2, OthersStaySeen
      <4>4. SeenOf(a)'
        BY <1>0, <4>1 DEF SeenOf
      <4> QED
        BY <1>2, <4>3, <4>4
    <3>5. CASE LaunchRefused(a)
      BY <2>1, <2>3, <2>4, <3>5 DEF LaunchRefused, Phases
    <3>6. CASE RunnerObserved(a)
      <4>1. \A b \in Att : Copying(b)' => Copying(b)
        BY <1>0, <3>6 DEF RunnerObserved, Go, Copying, faults, Proc
      <4> QED
        BY <2>1, <2>3, <3>6, <4>1 DEF RunnerObserved
    <3>7. CASE Poll(a)
      BY <1>0, <2>8, <3>7 DEF Poll, Copying, Phases
    <3>8. CASE FinalScan(a)
      BY <1>0, <2>8, <3>8 DEF FinalScan, Copying, Phases, GivenUp
    <3>9. CASE WatcherFails(a)
      BY <2>9, <3>9 DEF WatcherFails, Copying, faults
    <3>10. CASE Drain(a)
      <4>1. CopiesSome(a, Receipts(file, a))
        BY <1>0, <3>10, DrainIsAStep DEF Drain, Proc
      <4>2. seen' = seen /\ blind' = blind /\ (Go(a, "drained") \/ Go(a, "none"))
        BY <3>10 DEF Drain, DrainTo, DrainFails, Leave, faults
      <4>3. (\A b \in Att : Copying(b)' => Copying(b)) /\ ~Copying(a)'
        BY <1>0, <4>2 DEF Go, Copying, Proc
      <4> QED
        BY <2>7, <4>1, <4>2, <4>3
    <3> QED
      BY <2>10, <3>1, <3>2, <3>3, <3>4, <3>5, <3>6, <3>7, <3>8, <3>9, <3>10 DEF Work
  \* The closing steps of a task or of the pass.
  <2>11. ASSUME NEW p \in Proc, NEW next, phase' = [phase EXCEPT ![p] = next], blind' = blind,
                next \in Phases \ {"watching", "stopping", "adopted", "orphaned"}
         PROVE  \A b \in Att : Copying(b)' => Copying(b)
    BY <1>0, <2>11 DEF Copying, Proc
  <2>12. ASSUME NEW p \in Proc, Close(p)
         PROVE  SeenIsCopied'
    <3>1. CASE OpenWriter(p)
      BY <2>1, <2>3, <2>11, <3>1 DEF OpenWriter, Go, Phases, faults
    <3>2. CASE CleanOutput(p)
      <4>1. file' = file /\ seen' = seen
        BY <3>2 DEF CleanOutput
      <4> QED
        BY <2>1, <2>11, <3>2, <4>1 DEF CleanOutput, Go, Phases, faults
    <3>3. CASE FinishRow(p)
      BY <2>1, <2>3, <2>11, <3>3 DEF FinishRow, Go, Phases, faults
    <3>4. CASE EndEvent(p)
      <4>1. Subject(p) \in Att /\ writer[p] \in Nat
        BY <1>0, <3>4 DEF EndEvent, Subject, PassHasRow, Proc, TypeOK
      <4> QED
        BY <2>1, <2>5, <2>11, <3>4, <4>1 DEF EndEvent, Leave, Go, Phases, faults
    <3> QED
      BY <2>12, <3>1, <3>2, <3>3, <3>4 DEF Close
  <2>13. Recovery \in Proc
    BY DEF Proc
  <2>14. CASE PassSelects \/ PassSkips
    BY <2>1, <2>3, <2>11, <2>13, <2>14 DEF PassSelects, PassSkips, Leave, Go, Phases, faults
  <2>15. CASE PassAdopts
    <3>1. taken \in Att
      BY <1>0, <2>15 DEF PassAdopts, PassHasRow
    <3>2. seen' = [seen EXCEPT ![taken] = Receipts(file, taken)] /\ file' = file
      BY <2>15 DEF PassAdopts, log
    <3>3. \A b \in Att \ {taken} : Copying(b)' => Copying(b)
      BY <1>0, <2>15, ProcAssumption DEF PassAdopts, Copying, faults, Proc
    <3>4. \A b \in Att \ {taken} : SeenOf(b)'
      BY <1>0, <1>1, <2>0, <3>2, <3>3, OthersStaySeen
    <3>5. PICK t \in Att : t = taken
      BY <3>1
    <3>6. seen'[t] = Receipts(file', t)
      BY <1>0, <3>2, <3>5
    <3>7. SeenOf(t)'
      BY <3>6 DEF SeenOf
    <3> QED
      BY <1>2, <3>4, <3>5, <3>7
  <2>16. CASE PassRecovers
    <3>1. PICK t \in Att : t = taken
      BY <1>0, <2>16 DEF PassRecovers, PassHasRow
    <3>2. ~Copying(t)
      BY <2>16, <3>1 DEF PassRecovers, Tracked, Copying
    <3>3. CopiesSome(t, Receipts(file, t))
      BY <1>0, <2>13, <2>16, <3>1, DrainIsAStep DEF PassRecovers
    <3>4. seen' = seen /\ blind' = blind /\ (Go(Recovery, "drained") \/ Go(Recovery, "none"))
      BY <2>16 DEF PassRecovers, DrainTo, DrainFails, Leave, faults
    <3>5. \A b \in Att : Copying(b)' => Copying(b)
      BY <2>11, <2>13, <3>4 DEF Go, Phases
    <3> QED
      BY <2>7, <3>2, <3>3, <3>4, <3>5
  <2>17. CASE Stream
    <3>1. \A b \in Att : Copying(b)' => Copying(b)
      BY <2>17 DEF Stream, memory, faults, Copying
    <3> QED
      BY <2>1, <2>3, <2>17, <3>1 DEF Stream, memory
  <2>18. ASSUME NEW a \in Att, Reserve(a) \/ RunnerEmits(a) \/ RunnerExits(a)
         PROVE  SeenIsCopied'
    <3>1. CASE Reserve(a)
      BY <2>1, <2>3, <2>4, <3>1 DEF Reserve, Phases, faults
    <3>2. CASE RunnerEmits(a) \/ RunnerExits(a)
      <4>1. \A b \in Att : Copying(b)' => Copying(b)
        BY <3>2 DEF RunnerEmits, RunnerExits, memory, faults, Copying
      <4> QED
        BY <2>1, <2>3, <3>2, <4>1 DEF RunnerEmits, RunnerExits, memory
    <3> QED
      BY <2>18, <3>1, <3>2
  <2> QED
    BY <1>4, <2>10, <2>12, <2>14, <2>15, <2>16, <2>17, <2>18 DEF Next, Pass
<1> QED
  BY <1>3, <1>4

\* A failed watcher and a refused launch stay on record.
LEMMA GivenUpStays ==
  ASSUME TypesHold, GivenUp, Next
  PROVE  GivenUp'
<1> USE ProcAssumption
<1>0. PassHasRow /\ phase \in [Proc -> Phases] /\ blind \subseteq Att /\ lossy \subseteq Att
  BY DEF TypesHold, TypeOK
<1>1. ASSUME NEW a \in Att, Work(a)
      PROVE  GivenUp'
  <2>1. CASE StartEvent(a) \/ StartEventFails(a) \/ SetupFails(a) \/ Spawn(a) \/ Publish(a)
    BY <1>0, <2>1 DEF StartEvent, StartEventFails, SetupFails, Spawn, Publish, Go, GivenUp, faults,
       Proc
  <2>2. CASE Watch(a) \/ LaunchRefused(a) \/ FailureEvent(a) \/ RunnerObserved(a)
    BY <1>0, <2>2 DEF Watch, LaunchRefused, FailureEvent, RunnerObserved, Go, GivenUp, faults, Proc
  <2>3. CASE Poll(a) \/ FinalScan(a) \/ Drain(a)
    BY <1>0, <2>3 DEF Poll, FinalScan, Drain, Scan, DrainTo, DrainFails, Leave, Go, GivenUp,
       faults, Proc
  <2>4. CASE WatcherFails(a)
    BY <1>0, <2>4 DEF WatcherFails, ScanFails, Go, GivenUp, faults, Proc
  <2> QED
    BY <1>1, <2>1, <2>2, <2>3, <2>4 DEF Work
<1>2. ASSUME NEW p \in Proc, Close(p)
      PROVE  GivenUp'
  BY <1>0, <1>2 DEF Close, OpenWriter, CleanOutput, FinishRow, EndEvent, Leave, Go, GivenUp,
     faults, Proc
<1>3. CASE PassSelects \/ PassSkips \/ PassRecovers
  BY <1>0, <1>3 DEF PassSelects, PassSkips, PassRecovers, DrainTo, DrainFails, Leave, Go, GivenUp,
     faults, Proc
<1>4. CASE PassAdopts
  BY <1>0, <1>4 DEF PassAdopts, PassHasRow, GivenUp, faults, Proc
<1>5. CASE Stream
  BY <1>5 DEF Stream, GivenUp, memory, faults
<1>6. CASE Crash \/ PowerLoss
  BY <1>6 DEF Crash, PowerLoss, Forget, GivenUp, Proc
<1>7. ASSUME NEW a \in Att, Reserve(a) \/ RunnerEmits(a) \/ RunnerExits(a)
      PROVE  GivenUp'
  BY <1>0, <1>7 DEF Reserve, RunnerEmits, RunnerExits, Go, GivenUp, memory, faults, Proc
<1> QED
  BY <1>1, <1>2, <1>3, <1>4, <1>5, <1>6, <1>7 DEF Next, Pass

\* No step copies a file a second time.
LEMMA OnceStays ==
  ASSUME TypesHold, GivenUp, SeenIsCopied, CopiedOnce, Next
  PROVE  CopiedOnce'
<1>0. TypeOK
  BY DEF TypesHold
<1>1. CASE PowerLoss
  <2>1. PICK n \in synced..Len(file) : \A i \in DOMAIN file' : i \in DOMAIN file /\ file'[i] = file[i]
    BY <1>0, <1>1, PowerLossKeeps
  <2> QED
    BY <2>1 DEF CopiedOnce
<1>2. CASE ~PowerLoss
  BY <1>0, <1>2, StepsOfTheLog, StepCopiesOnce
<1> QED
  BY <1>1, <1>2

\* No step removes a raw file whose copy is not on the disk.
LEMMA NothingGetsLost ==
  ASSUME TypesHold, GivenUp, SeenIsCopied, NothingLost, Next
  PROVE  NothingLost'
<1>0. /\ TypeOK /\ PassHasRow /\ file \in Seq(Lines) /\ synced \in 0..Len(file)
      /\ synced \in Nat /\ synced <= Len(file) /\ Len(file) \in Nat
      /\ raw \in [Att -> SUBSET Files] /\ emitted \in [Att -> 0..MaxEvents]
  BY DEF TypesHold, TypeOK
<1>1. CASE PowerLoss
  <2>1. PICK n \in synced..Len(file) :
          /\ n \in Nat /\ \A i \in 0..n : SubSeq(file', 1, i) = SubSeq(file, 1, i)
          /\ synced' = synced
    BY <1>0, <1>1, PowerLossKeeps
  <2>2. SubSeq(file', 1, synced') = SubSeq(file, 1, synced)
    BY <1>0, <2>1
  <2>3. raw' = raw /\ emitted' = emitted
    BY <1>1 DEF PowerLoss
  <2> QED
    BY <2>2, <2>3 DEF NothingLost
<1>2. ASSUME NEW a \in Att, RunnerEmits(a)
      PROVE  NothingLost'
  <2>1. /\ emitted' = [emitted EXCEPT ![a] = @ + 1] /\ file' = file /\ synced' = synced
        /\ raw' = [raw EXCEPT ![a] = @ \cup {emitted[a] + 1}]
    BY <1>2 DEF RunnerEmits, log
  <2>2. 1..(emitted[a] + 1) = (1..emitted[a]) \cup {emitted[a] + 1}
    <3>1. emitted[a] \in Nat
      BY <1>0
    <3> QED
      BY <3>1
  <2> QED
    BY <1>0, <2>1, <2>2 DEF NothingLost
<1>3. ASSUME NEW p \in Proc, CleanOutput(p)
      PROVE  NothingLost'
  <2>1. file' = file /\ emitted' = emitted
    BY <1>3 DEF CleanOutput
  <2>2. CASE UNCHANGED <<synced, raw>>
    BY <2>1, <2>2 DEF NothingLost
  <2>3. CASE synced' = Len(file) /\ raw' = [raw EXCEPT ![Subject(p)] = @ \ Receipts(file, Subject(p))]
    <3>1. SubSeq(file', 1, synced') = file
      BY <1>0, <2>1, <2>3
    <3>2. \A b \in Att : Receipts(SubSeq(file, 1, synced), b) \subseteq Receipts(file, b)
      <4>1. synced \in 0..synced
        BY <1>0
      <4> QED
        BY <1>0, <4>1, PrefixReceipts
    <3>3. \A b \in Att : raw[b] \subseteq raw'[b] \cup Receipts(file, b)
      BY <1>0, <2>3
    <3> QED
      BY <2>1, <3>1, <3>2, <3>3 DEF NothingLost
  <2> QED
    BY <1>3, <2>2, <2>3 DEF CleanOutput, RemoveRaw
<1>4. CASE raw' = raw /\ emitted' = emitted /\ ~PowerLoss
  <2>1. Grows /\ synced' \in synced..Len(file')
    BY <1>0, <1>4, StepsOfTheLog, StepGrows
  <2> QED
    BY <1>0, <1>4, <2>1, GrowthLosesNothing
<1>5. ASSUME NEW a \in Att, Work(a)
      PROVE  raw' = raw /\ emitted' = emitted
  BY <1>5 DEF Work, StartEvent, StartEventFails, SetupFails, Spawn, Publish, Watch,
     LaunchRefused, FailureEvent, Poll, RunnerObserved, FinalScan, WatcherFails, Drain, Scan,
     ScanFails, DrainTo, DrainFails, host
<1>6. ASSUME NEW p \in Proc, Close(p), ~CleanOutput(p)
      PROVE  raw' = raw /\ emitted' = emitted
  BY <1>6 DEF Close, OpenWriter, FinishRow, EndEvent, host
<1>7. ASSUME PassSelects \/ Pass \/ Stream \/ Crash
      PROVE  raw' = raw /\ emitted' = emitted
  BY <1>7 DEF PassSelects, Pass, PassSkips, PassAdopts, PassRecovers, DrainTo, DrainFails, Stream,
     Crash, host
<1>8. ASSUME NEW a \in Att, Reserve(a) \/ RunnerExits(a)
      PROVE  raw' = raw /\ emitted' = emitted
  BY <1>8 DEF Reserve, RunnerExits, host
<1> QED
  BY <1>1, <1>2, <1>3, <1>4, <1>5, <1>6, <1>7, <1>8 DEF Next

\* The invariant of the copies.
LEMMA CopiesInvHolds == Spec => []CopiesInv
<1>1. Init => CopiesInv
  <2> SUFFICES ASSUME Init
               PROVE  CopiesInv
    OBVIOUS
  <2>1. TypesHold
    <3>1. LogTyped
      <4>1. file = <<>> /\ partial = FALSE /\ synced = 0
        BY DEF Init
      <4>2. file \in Seq(Lines) /\ Len(file) = 0
        BY <4>1
      <4>3. synced \in 0..Len(file)
        BY <4>1, <4>2
      <4>4. partial \in BOOLEAN
        BY <4>1
      <4> QED
        BY <4>2, <4>3, <4>4 DEF LogTyped
    <3>2. StreamTyped
      BY DEF Init, StreamTyped, NoStream
    <3>3. RestTyped /\ PassHasRow
      BY BoundAssumption, ProcAssumption DEF Init, RestTyped, PassHasRow, Proc, Phases
    <3> QED
      BY <3>1, <3>2, <3>3, TypesSplit
  <2>2. GivenUp /\ SeenIsCopied
    BY DEF Init, GivenUp, SeenIsCopied, Copying, Proc
  <2>3. CopiedOnce /\ NothingLost
    BY DEF Init, CopiedOnce, NothingLost
  <2> QED
    BY <2>1, <2>2, <2>3 DEF CopiesInv
<1>2. CopiesInv /\ [Next]_vars => CopiesInv'
  <2> SUFFICES ASSUME CopiesInv, [Next]_vars
               PROVE  CopiesInv'
    OBVIOUS
  <2>1. CASE Next
    BY <2>1, TypesStay, GivenUpStays, SeenStays, OnceStays, NothingGetsLost DEF CopiesInv
  <2>2. CASE UNCHANGED vars
    BY <2>2 DEF CopiesInv, TypesHold, TypeOK, PassHasRow, GivenUp, SeenIsCopied, Copying,
       CopiedOnce, NothingLost, vars, log, host, rows, memory, faults
  <2> QED
    BY <2>1, <2>2
<1> QED
  BY <1>1, <1>2, PTL DEF Spec

\* What a runner emitted is in the log once, and its file stays until that is
\* durable, whatever watchers take turns and wherever the host fails.
THEOREM CopiesAreAlwaysExact == Spec => []CopiesAreExact
<1>1. CopiesInv => CopiesAreExact
  BY DEF CopiesInv, TypesHold, CopiesAreExact
<1> QED
  BY <1>1, CopiesInvHolds, PTL

-----------------------------------------------------------------------------
(* Who works on a row.                                                     *)

\* After every step one task, or the pass, works on a row.
LEMMA OwnersStay ==
  ASSUME TypesHold, Owners, Next
  PROVE  Owners'
<1> USE ProcAssumption
<1>0. /\ PassHasRow /\ phase \in [Proc -> Phases] /\ active \in Att \cup {Null}
      /\ finished \subseteq Att /\ published \subseteq Att /\ context \subseteq Att
      /\ runner \in [Att -> {"none", "live", "dead"}]
  BY DEF TypesHold, TypeOK
<1>1. ASSUME NEW a \in Att, StartEvent(a)
      PROVE  Owners'
  BY <1>0, <1>1 DEF StartEvent, Go, host, rows, faults, Owners, TaskHasRow, PassAlone, StoppedIsDead, RunnerStopped, Closing, ContextKept, Done,
     PassHasRow, Proc
<1>2. ASSUME NEW a \in Att, StartEventFails(a)
      PROVE  Owners'
  BY <1>0, <1>2 DEF StartEventFails, Go, host, rows, faults, Owners, TaskHasRow, PassAlone, StoppedIsDead, RunnerStopped, Closing, ContextKept, Done,
     PassHasRow, Proc
<1>3. ASSUME NEW a \in Att, SetupFails(a)
      PROVE  Owners'
  BY <1>0, <1>3 DEF SetupFails, Go, host, rows, faults, Owners, TaskHasRow, PassAlone, StoppedIsDead, RunnerStopped, Closing, ContextKept, Done,
     PassHasRow, Proc
<1>4. ASSUME NEW a \in Att, Spawn(a)
      PROVE  Owners'
  BY <1>0, <1>4 DEF Spawn, Go, host, rows, faults, Owners, TaskHasRow, PassAlone, StoppedIsDead, RunnerStopped, Closing, ContextKept, Done,
     PassHasRow, Proc
<1>5. ASSUME NEW a \in Att, Publish(a)
      PROVE  Owners'
  BY <1>0, <1>5 DEF Publish, Go, host, rows, faults, Owners, TaskHasRow, PassAlone, StoppedIsDead, RunnerStopped, Closing, ContextKept, Done,
     PassHasRow, Proc
<1>6. ASSUME NEW a \in Att, Watch(a)
      PROVE  Owners'
  BY <1>0, <1>6 DEF Watch, Go, host, rows, faults, Owners, TaskHasRow, PassAlone, StoppedIsDead, RunnerStopped, Closing, ContextKept, Done,
     PassHasRow, Proc
<1>7. ASSUME NEW a \in Att, LaunchRefused(a)
      PROVE  Owners'
  BY <1>0, <1>7 DEF LaunchRefused, Go, host, rows, faults, Owners, TaskHasRow, PassAlone, StoppedIsDead, RunnerStopped, Closing, ContextKept, Done,
     PassHasRow, Proc
<1>8. ASSUME NEW a \in Att, FailureEvent(a)
      PROVE  Owners'
  BY <1>0, <1>8 DEF FailureEvent, Go, host, rows, faults, Owners, TaskHasRow, PassAlone, StoppedIsDead, RunnerStopped, Closing, ContextKept, Done,
     PassHasRow, Proc
<1>9. ASSUME NEW a \in Att, RunnerObserved(a)
      PROVE  Owners'
  BY <1>0, <1>9 DEF RunnerObserved, Go, host, rows, faults, Owners, TaskHasRow, PassAlone, StoppedIsDead, RunnerStopped, Closing, ContextKept, Done,
     PassHasRow, Proc
<1>10. ASSUME NEW a \in Att, Poll(a)
      PROVE  Owners'
  BY <1>0, <1>10 DEF Poll, Scan, Go, host, rows, faults, Owners, TaskHasRow, PassAlone, StoppedIsDead, RunnerStopped, Closing, ContextKept, Done,
     PassHasRow, Proc
<1>11. ASSUME NEW a \in Att, FinalScan(a)
      PROVE  Owners'
  BY <1>0, <1>11 DEF FinalScan, Scan, Go, host, rows, faults, Owners, TaskHasRow, PassAlone, StoppedIsDead, RunnerStopped, Closing, ContextKept, Done,
     PassHasRow, Proc
<1>12. ASSUME NEW a \in Att, WatcherFails(a)
      PROVE  Owners'
  BY <1>0, <1>12 DEF WatcherFails, ScanFails, Go, host, rows, faults, Owners, TaskHasRow, PassAlone, StoppedIsDead, RunnerStopped, Closing, ContextKept, Done,
     PassHasRow, Proc
<1>13. ASSUME NEW a \in Att, Drain(a)
      PROVE  Owners'
  BY <1>0, <1>13 DEF Drain, DrainTo, DrainFails, Leave, Go, host, rows, faults, Owners, TaskHasRow, PassAlone, StoppedIsDead, RunnerStopped, Closing, ContextKept, Done,
     PassHasRow, Proc
<1>14. ASSUME NEW a \in Att, Reserve(a)
      PROVE  Owners'
  BY <1>0, <1>14 DEF Reserve, Go, host, rows, faults, Owners, TaskHasRow, PassAlone, StoppedIsDead, RunnerStopped, Closing, ContextKept, Done,
     PassHasRow, Proc
<1>15. ASSUME NEW a \in Att, RunnerEmits(a)
      PROVE  Owners'
  BY <1>0, <1>15 DEF RunnerEmits, memory, host, rows, faults, Owners, TaskHasRow, PassAlone, StoppedIsDead, RunnerStopped, Closing, ContextKept, Done,
     PassHasRow, Proc
<1>16. ASSUME NEW a \in Att, RunnerExits(a)
      PROVE  Owners'
  BY <1>0, <1>16 DEF RunnerExits, memory, host, rows, faults, Owners, TaskHasRow, PassAlone, StoppedIsDead, RunnerStopped, Closing, ContextKept, Done,
     PassHasRow, Proc
<1>17. ASSUME NEW p \in Proc, OpenWriter(p)
      PROVE  Owners'
  BY <1>0, <1>17 DEF OpenWriter, Go, host, rows, faults, Owners, TaskHasRow, PassAlone, StoppedIsDead, RunnerStopped, Closing, ContextKept, Done,
     PassHasRow, Proc
<1>18. ASSUME NEW p \in Proc, CleanOutput(p)
      PROVE  Owners'
  BY <1>0, <1>18 DEF CleanOutput, Subject, Go, host, rows, faults, Owners, TaskHasRow, PassAlone, StoppedIsDead, RunnerStopped, Closing, ContextKept, Done,
     PassHasRow, Proc
<1>19. ASSUME NEW p \in Proc, FinishRow(p)
      PROVE  Owners'
  BY <1>0, <1>19 DEF FinishRow, Subject, Go, host, rows, faults, Owners, TaskHasRow, PassAlone, StoppedIsDead, RunnerStopped, Closing, ContextKept, Done,
     PassHasRow, Proc
<1>20. ASSUME NEW p \in Proc, EndEvent(p)
      PROVE  Owners'
  BY <1>0, <1>20 DEF EndEvent, Leave, Go, host, rows, faults, Owners, TaskHasRow, PassAlone, StoppedIsDead, RunnerStopped, Closing, ContextKept, Done,
     PassHasRow, Proc
<1>21. CASE PassSelects
  BY <1>0, <1>21 DEF PassSelects, Go, host, rows, faults, Owners, TaskHasRow, PassAlone, StoppedIsDead, RunnerStopped, Closing, ContextKept, Done,
     PassHasRow, Proc
<1>22. CASE PassSkips
  BY <1>0, <1>22 DEF PassSkips, Leave, Go, host, rows, faults, Owners, TaskHasRow, PassAlone, StoppedIsDead, RunnerStopped, Closing, ContextKept, Done,
     PassHasRow, Proc
<1>23. CASE PassAdopts
  BY <1>0, <1>23 DEF PassAdopts, Tracked, host, rows, faults, Owners, TaskHasRow, PassAlone, StoppedIsDead, RunnerStopped, Closing, ContextKept, Done,
     PassHasRow, Proc
<1>24. CASE PassRecovers
  BY <1>0, <1>24 DEF PassRecovers, Tracked, DrainTo, DrainFails, Leave, Go, host, rows, faults, Owners, TaskHasRow, PassAlone, StoppedIsDead, RunnerStopped, Closing, ContextKept, Done,
     PassHasRow, Proc
<1>25. CASE Stream
  BY <1>0, <1>25 DEF Stream, memory, host, rows, faults, Owners, TaskHasRow, PassAlone, StoppedIsDead, RunnerStopped, Closing, ContextKept, Done,
     PassHasRow, Proc
<1>26. CASE Crash
  BY <1>0, <1>26 DEF Crash, Forget, host, rows, faults, Owners, TaskHasRow, PassAlone, StoppedIsDead, RunnerStopped, Closing, ContextKept, Done,
     PassHasRow, Proc
<1>27. CASE PowerLoss
  BY <1>0, <1>27 DEF PowerLoss, Forget, host, rows, faults, Owners, TaskHasRow, PassAlone, StoppedIsDead, RunnerStopped, Closing, ContextKept, Done,
     PassHasRow, Proc
<1> QED
  BY <1>1, <1>2, <1>3, <1>4, <1>5, <1>6, <1>7, <1>8, <1>9, <1>10, <1>11, <1>12, <1>13, <1>14, <1>15, <1>16, <1>17, <1>18, <1>19, <1>20, <1>21, <1>22, <1>23, <1>24, <1>25, <1>26, <1>27 DEF Next, Pass, Work, Close

-----------------------------------------------------------------------------
(* What is drained is complete.                                            *)

\* A complete attempt stays complete while it emits nothing.
LEMMA CompleteStays ==
  ASSUME TypeOK, Grows, NEW a \in Att, Complete(a), emitted'[a] = emitted[a]
  PROVE  Complete(a)'
BY GrowthKeeps DEF Complete

\* A scan with redaction.json that starts from the copies of the log.
LEMMA DrainCompletes ==
  ASSUME TypeOK, NothingLost, Grows, NEW a \in Att, a \in context, NEW known,
         NoGarbage(file) => known \subseteq Receipts(file, a),
         Whole(a, Unread(a, known)), emitted'[a] = emitted[a]
  PROVE  Complete(a)'
<1> SUFFICES ASSUME NoGarbage(file')
             PROVE  1..emitted[a] \subseteq Receipts(file', a)
  BY DEF Complete
<1>1. NoGarbage(file) /\ Receipts(file, a) \subseteq Receipts(file', a)
  BY GrowthKeeps
<1>2. Unread(a, known) \subseteq Receipts(file', a)
  BY DEF Whole
<1>3. raw[a] \subseteq Unread(a, known) \cup known
  BY DEF Unread
<1>4. Receipts(SubSeq(file, 1, synced), a) \subseteq Receipts(file, a)
  <2>1. synced \in 0..Len(file) /\ synced \in 0..synced
    BY DEF TypeOK
  <2> QED
    BY <2>1, PrefixReceipts DEF TypeOK
<1> QED
  BY <1>1, <1>2, <1>3, <1>4 DEF NothingLost

\* A runner that has written since is not drained.
LEMMA LiveIsNotDrained ==
  ASSUME TypesHold, Owners, NEW a \in published, runner[a] = "live"
  PROVE  ~Drained(a) /\ a \notin finished
<1>1. a \in context /\ ~RunnerStopped(a)
  BY DEF Owners, ContextKept, StoppedIsDead
<1> QED
  BY <1>1 DEF Drained, RunnerStopped, Closing

DrainedOf(a) == a \in published \ lossy /\ Drained(a) => Complete(a)

\* The steps of an attempt or a pass that write nothing.
LEMMA DrainedFrame ==
  ASSUME TypeOK, Grows, NEW a \in Att, DrainedOf(a), emitted'[a] = emitted[a],
         a \in published' \ lossy' /\ Drained(a)' => a \in published \ lossy /\ Drained(a)
  PROVE  DrainedOf(a)'
BY CompleteStays DEF DrainedOf

\* What has been drained is complete after every step.
LEMMA DrainedStays ==
  ASSUME CopiesInv, Owners, DrainedIsComplete, Next
  PROVE  DrainedIsComplete'
<1> USE ProcAssumption
<1>0. /\ TypeOK /\ PassHasRow /\ TypesHold /\ GivenUp /\ SeenIsCopied /\ NothingLost
      /\ phase \in [Proc -> Phases] /\ active \in Att \cup {Null}
      /\ published \subseteq Att /\ context \subseteq Att
  BY DEF CopiesInv, TypesHold, TypeOK
<1>1. DrainedIsComplete => \A a \in Att : DrainedOf(a)
  BY DEF DrainedIsComplete, DrainedOf
<1>2. (\A a \in Att : DrainedOf(a)') => DrainedIsComplete'
  <2>1. TypesHold'
    BY <1>0, TypesStay
  <2>2. published' \subseteq Att
    BY <2>1 DEF TypesHold, TypeOK
  <2> QED
    BY <2>2 DEF DrainedIsComplete, DrainedOf
<1>3. CASE PowerLoss
  <2>1. \A b \in Att : Drained(b)' => b \notin context /\ active = b
    BY <1>3 DEF PowerLoss, Forget, rows, Drained, Closing, Proc
  <2>2. \A b \in Att : b \notin context /\ active = b => b \in lossy'
    BY <1>3 DEF PowerLoss
  <2> QED
    BY <1>2, <2>1, <2>2 DEF DrainedOf
<1>4. CASE ~PowerLoss
  <2>0. LogStep /\ Grows
    BY <1>0, <1>4, StepsOfTheLog, StepGrows
  <2>1. ASSUME emitted' = emitted,
               \A b \in Att : b \in published' \ lossy' /\ Drained(b)' =>
                                b \in published \ lossy /\ Drained(b)
        PROVE  DrainedIsComplete'
    BY <1>0, <1>1, <1>2, <2>0, <2>1, DrainedFrame
  \* The same, but for an attempt that a scan completes.
  <2>2. ASSUME emitted' = emitted, NEW a \in Att, Complete(a)',
               \A b \in Att \ {a} : b \in published' \ lossy' /\ Drained(b)' =>
                                      b \in published \ lossy /\ Drained(b)
        PROVE  DrainedIsComplete'
    <3>1. \A b \in Att \ {a} : DrainedOf(b)'
      BY <1>0, <1>1, <2>0, <2>2, DrainedFrame
    <3>2. DrainedOf(a)'
      BY <2>2 DEF DrainedOf
    <3> QED
      BY <1>2, <3>1, <3>2
  <2>3. ASSUME NEW a \in Att, StartEvent(a) \/ StartEventFails(a) \/ SetupFails(a)
        PROVE  DrainedIsComplete'
    <3>1. \A b \in Att : b \in published' \ lossy' /\ Drained(b)' => b \in published \ lossy /\ Drained(b)
      BY <1>0, <2>3 DEF StartEvent, StartEventFails, SetupFails, Go, host, rows, faults, Drained,
         Closing, Owners, TaskHasRow, Proc
    <3> QED
      BY <2>1, <2>3, <3>1 DEF StartEvent, StartEventFails, SetupFails, host
  <2>4. ASSUME NEW a \in Att, Spawn(a) \/ Publish(a) \/ Watch(a) \/ LaunchRefused(a) \/ FailureEvent(a)
        PROVE  DrainedIsComplete'
    <3>1. \A b \in Att : b \in published' \ lossy' /\ Drained(b)' => b \in published \ lossy /\ Drained(b)
      BY <1>0, <2>4 DEF Spawn, Publish, Watch, LaunchRefused, FailureEvent, Go, host, rows, faults,
         Drained, Closing, Owners, TaskHasRow, PassAlone, ContextKept, PassHasRow, Proc
    <3> QED
      BY <2>1, <2>4, <3>1 DEF Spawn, Publish, Watch, LaunchRefused, FailureEvent, host
  <2>5. ASSUME NEW a \in Att, RunnerObserved(a)
        PROVE  DrainedIsComplete'
    <3>1. \A b \in Att : b \in published' \ lossy' /\ Drained(b)' => b \in published \ lossy /\ Drained(b)
      BY <1>0, <2>5 DEF RunnerObserved, Go, host, rows, faults, Drained, Closing, GivenUp, Proc
    <3> QED
      BY <2>1, <2>5, <3>1 DEF RunnerObserved, host
  <2>6. ASSUME NEW a \in Att, Poll(a) \/ WatcherFails(a)
        PROVE  DrainedIsComplete'
    <3>1. \A b \in Att : b \in published' \ lossy' /\ Drained(b)' => b \in published \ lossy /\ Drained(b)
      BY <1>0, <2>6 DEF Poll, WatcherFails, Scan, ScanFails, Go, host, rows, faults, Drained,
         Closing, Proc
    <3> QED
      BY <2>1, <2>6, <3>1 DEF Poll, WatcherFails, Scan, ScanFails, host
  <2>7. ASSUME NEW a \in Att, FinalScan(a)
        PROVE  DrainedIsComplete'
    <3>1. a \in context /\ Copying(a)
      BY <1>0, <2>7 DEF FinalScan, Owners, ContextKept, Copying, GivenUp
    <3>2. Receipts(file, a) \subseteq seen[a] /\ (NoGarbage(file) => seen[a] \subseteq Receipts(file, a))
      BY <1>0, <3>1 DEF SeenIsCopied
    <3>3. Whole(a, Unread(a, seen[a]))
      BY <1>0, <2>7, <3>2, ScanIsAStep DEF FinalScan
    <3>4. emitted' = emitted
      BY <2>7 DEF FinalScan, Scan, host
    <3>5. Complete(a)'
      BY <1>0, <2>0, <3>1, <3>2, <3>3, <3>4, DrainCompletes
    <3>6. \A b \in Att \ {a} : b \in published' \ lossy' /\ Drained(b)' => b \in published \ lossy /\ Drained(b)
      BY <1>0, <2>7 DEF FinalScan, Scan, Go, host, rows, faults, Drained, Closing, Proc
    <3> QED
      BY <2>2, <3>4, <3>5, <3>6
  \* A drain by a task or the pass: what it cannot copy any more is complete.
  <2>8. ASSUME NEW p \in Proc, NEW a \in Att, DrainTo(p, a),
               DrainedOf(a), a \in context \/ Drained(a)
        PROVE  a \in published \ lossy => Complete(a)'
    <3>1. Whole(a, Unread(a, Receipts(file, a)))
      BY <1>0, <2>8, DrainIsAStep
    <3>2. emitted' = emitted
      BY <2>8 DEF DrainTo, host
    <3>3. CASE a \in context
      BY <1>0, <2>0, <3>1, <3>2, <3>3, DrainCompletes
    <3>4. CASE a \notin context
      BY <1>0, <2>0, <2>8, <3>2, <3>4, CompleteStays DEF DrainedOf
    <3> QED
      BY <3>3, <3>4
  <2>9. ASSUME NEW a \in Att, Drain(a)
        PROVE  DrainedIsComplete'
    <3>1. emitted' = emitted
      BY <2>9 DEF Drain, DrainTo, DrainFails, host
    <3>2. \A b \in Att \ {a} : b \in published' \ lossy' /\ Drained(b)' => b \in published \ lossy /\ Drained(b)
      BY <1>0, <2>9 DEF Drain, DrainTo, DrainFails, Leave, Go, host, rows, faults, Drained, Closing,
         Proc
    <3>3. CASE DrainTo(a, a)
      <4>1. a \in context
        BY <2>9 DEF Drain, Owners, ContextKept
      <4>2. a \in published \ lossy => Complete(a)'
        BY <1>1, <2>8, <3>3, <4>1 DEF Proc
      <4>3. published' = published /\ lossy' = lossy
        BY <3>3 DEF DrainTo, host, faults
      <4>4. CASE a \in published \ lossy
        BY <2>2, <3>1, <3>2, <4>2, <4>4
      <4>5. CASE a \notin published \ lossy
        BY <2>1, <3>1, <3>2, <4>3, <4>5
      <4> QED
        BY <4>4, <4>5
    <3>4. CASE DrainFails(a, a)
      <4>1. published' = published /\ lossy' = lossy /\ (Drained(a)' => Drained(a))
        BY <1>0, <3>4 DEF DrainFails, Leave, Go, host, rows, faults, Drained, Closing, Proc
      <4> QED
        BY <2>1, <3>1, <3>2, <4>1
    <3> QED
      BY <2>9, <3>3, <3>4 DEF Drain
  <2>10. CASE PassRecovers
    <3>1. PICK t \in Att : t = taken
      BY <1>0, <2>10 DEF PassRecovers, PassHasRow
    <3>2. emitted' = emitted /\ published' = published /\ lossy' = lossy
      BY <2>10 DEF PassRecovers, DrainTo, DrainFails, host, faults
    <3>3. \A b \in Att \ {t} : Drained(b)' => Drained(b)
      BY <1>0, <2>10, <3>1 DEF PassRecovers, DrainTo, DrainFails, Leave, Go, host, rows, Drained,
         Closing, Proc
    <3>4. CASE DrainTo(Recovery, t)
      <4>1. t \in context \/ Drained(t)
        BY <2>10, <3>1 DEF PassRecovers, Drained
      <4>2. t \in published \ lossy => Complete(t)'
        BY <1>1, <2>8, <3>4, <4>1 DEF Proc
      <4>3. CASE t \in published \ lossy
        BY <2>2, <3>2, <3>3, <4>2, <4>3
      <4>4. CASE t \notin published \ lossy
        BY <2>1, <3>2, <3>3, <4>4
      <4> QED
        BY <4>3, <4>4
    <3>5. CASE DrainFails(Recovery, t)
      <4>1. Drained(t)' => Drained(t)
        BY <1>0, <2>10, <3>1, <3>5 DEF PassRecovers, DrainFails, Leave, Go, host, rows, Drained, Closing,
           Tracked, Proc
      <4> QED
        BY <2>1, <3>2, <3>3, <4>1
    <3> QED
      BY <2>10, <3>1, <3>4, <3>5 DEF PassRecovers
  <2>11. ASSUME NEW p \in Proc, Close(p)
         PROVE  DrainedIsComplete'
    <3>1. \A b \in Att : b \in published' \ lossy' /\ Drained(b)' => b \in published \ lossy /\ Drained(b)
      <4>1. CASE OpenWriter(p) \/ EndEvent(p)
        BY <1>0, <4>1 DEF OpenWriter, EndEvent, Leave, Go, host, rows, faults, Drained, Closing, PassHasRow, Proc
      <4>2. CASE CleanOutput(p)
        BY <1>0, <4>2 DEF CleanOutput, Subject, Go, rows, faults, Drained, Closing, GivenUp, PassHasRow, Proc
      <4>3. CASE FinishRow(p)
        BY <1>0, <4>3 DEF FinishRow, Subject, Go, host, faults, Drained, Closing, PassHasRow, Proc
      <4> QED
        BY <2>11, <4>1, <4>2, <4>3 DEF Close
    <3>2. emitted' = emitted
      BY <2>11 DEF Close, OpenWriter, CleanOutput, FinishRow, EndEvent, host
    <3> QED
      BY <2>1, <3>1, <3>2
  <2>12. CASE PassSelects \/ PassSkips \/ PassAdopts
    <3>1. \A b \in Att : b \in published' \ lossy' /\ Drained(b)' => b \in published \ lossy /\ Drained(b)
      BY <1>0, <2>12 DEF PassSelects, PassSkips, PassAdopts, Leave, Go, host, rows, faults, Drained,
         Closing, PassHasRow, Proc
    <3> QED
      BY <2>1, <2>12, <3>1 DEF PassSelects, PassSkips, PassAdopts, host
  <2>13. CASE Stream \/ Crash
    <3>1. \A b \in Att : b \in published' \ lossy' /\ Drained(b)' => b \in published \ lossy /\ Drained(b)
      BY <1>0, <2>13 DEF Stream, Crash, Forget, host, rows, memory, faults, Drained, Closing, Proc
    <3> QED
      BY <2>1, <2>13, <3>1 DEF Stream, Crash, host
  <2>14. ASSUME NEW a \in Att, Reserve(a) \/ RunnerExits(a)
         PROVE  DrainedIsComplete'
    <3>1. \A b \in Att : b \in published' \ lossy' /\ Drained(b)' => b \in published \ lossy /\ Drained(b)
      BY <1>0, <2>14 DEF Reserve, RunnerExits, Go, host, rows, memory, faults, Drained, Closing,
         Owners, TaskHasRow, Proc
    <3> QED
      BY <2>1, <2>14, <3>1 DEF Reserve, RunnerExits, host
  <2>15. ASSUME NEW a \in Att, RunnerEmits(a)
         PROVE  DrainedIsComplete'
    <3>1. \A b \in Att : b \in published' \ lossy' /\ Drained(b)' <=> b \in published \ lossy /\ Drained(b)
      BY <2>15 DEF RunnerEmits, rows, memory, faults, Drained
    <3>2. \A b \in Att \ {a} : emitted'[b] = emitted[b]
      BY <2>15 DEF RunnerEmits
    <3>3. \A b \in Att \ {a} : DrainedOf(b)'
      BY <1>0, <1>1, <2>0, <3>1, <3>2, DrainedFrame
    <3>4. DrainedOf(a)'
      BY <1>0, <2>15, <3>1, LiveIsNotDrained DEF DrainedOf, RunnerEmits
    <3> QED
      BY <1>2, <3>3, <3>4
  <2> QED
    BY <1>4, <2>3, <2>4, <2>5, <2>6, <2>7, <2>9, <2>10, <2>11, <2>12, <2>13, <2>14, <2>15
       DEF Next, Work, Pass
<1> QED
  BY <1>3, <1>4

-----------------------------------------------------------------------------
(* attempt_end is the last line of its attempt.                            *)

\* One position of the log.
EndAt(i) == file[i].kind = "end" =>
  /\ file[i].att \in finished
  /\ file[i].att \in published \ lossy /\ (\A k \in 1..i : file[k] # Garbage) =>
       1..emitted[file[i].att] \subseteq Receipts(SubSeq(file, 1, i), file[i].att)

\* What has been written of finished attempts stays as it is.
LEMMA OldEndsStay ==
  ASSUME TypesHold, Owners, EndsAreLast, Next
  PROVE  /\ finished \subseteq finished'
         /\ \A a \in finished : a \in published' \ lossy' =>
              a \in published \ lossy /\ emitted'[a] = emitted[a]
<1>0. finished \subseteq Att /\ published \subseteq Att /\ emitted \in [Att -> 0..MaxEvents]
  BY DEF TypesHold, TypeOK
<1>1. ASSUME NEW a \in Att, RunnerEmits(a)
      PROVE  /\ finished' = finished /\ published' = published /\ lossy' = lossy
             /\ \A b \in finished \cap published : emitted'[b] = emitted[b]
  <2>1. /\ finished' = finished /\ published' = published /\ lossy' = lossy
        /\ runner[a] = "live" /\ emitted' = [emitted EXCEPT ![a] = @ + 1]
    BY <1>1 DEF RunnerEmits, rows, memory, faults
  <2>2. a \notin finished \cap published
    BY <2>1, LiveIsNotDrained
  <2> QED
    BY <1>0, <2>1, <2>2
<1>2. ASSUME NEW a \in Att, Publish(a)
      PROVE  /\ finished' = finished /\ lossy' = lossy /\ emitted' = emitted
             /\ published' = published \cup {a} /\ a \notin finished
  BY <1>2 DEF Publish, rows, faults, Owners, TaskHasRow, Done
<1>3. ASSUME NEW a \in Att, Work(a), ~Publish(a)
      PROVE  finished' = finished /\ lossy \subseteq lossy' /\ emitted' = emitted
             /\ published' = published
  BY <1>3 DEF Work, StartEvent, StartEventFails, SetupFails, Spawn, Watch, LaunchRefused,
     FailureEvent, Poll, RunnerObserved, FinalScan, WatcherFails, Drain, Scan, ScanFails, DrainTo,
     DrainFails, host, rows, faults
<1>4. ASSUME NEW p \in Proc, Close(p)
      PROVE  finished \subseteq finished' /\ lossy' = lossy /\ emitted' = emitted
             /\ published' = published
  BY <1>4 DEF Close, OpenWriter, CleanOutput, FinishRow, EndEvent, host, rows, faults
<1>5. ASSUME PassSelects \/ Pass \/ Stream \/ Crash \/ PowerLoss
      PROVE  finished' = finished /\ lossy \subseteq lossy' /\ emitted' = emitted
             /\ published' = published
  BY <1>5 DEF PassSelects, Pass, PassSkips, PassAdopts, PassRecovers, DrainTo, DrainFails, Stream,
     Crash, PowerLoss, Forget, host, rows, memory, faults
<1>6. ASSUME NEW a \in Att, Reserve(a) \/ RunnerExits(a)
      PROVE  finished' = finished /\ lossy' = lossy /\ emitted' = emitted
             /\ published' = published
  BY <1>6 DEF Reserve, RunnerExits, host, rows, memory, faults
<1> QED
  BY <1>1, <1>2, <1>3, <1>4, <1>5, <1>6 DEF Next

\* A position that keeps its line keeps its promise.
LEMMA OldEndStays ==
  ASSUME TypesHold, Owners, EndsAreLast, Next, NEW i \in DOMAIN file, i \in DOMAIN file',
         \A k \in 1..i : file'[k] = file[k], SubSeq(file', 1, i) = SubSeq(file, 1, i)
  PROVE  EndAt(i)'
<1>1. i \in 1..i
  BY DEF TypesHold, TypeOK
<1>2. file'[i] = file[i] /\ EndAt(i)
  BY <1>1 DEF EndsAreLast, EndAt
<1>3. /\ finished \subseteq finished'
      /\ \A a \in finished : a \in published' \ lossy' =>
           a \in published \ lossy /\ emitted'[a] = emitted[a]
  BY OldEndsStay
<1> QED
  BY <1>2, <1>3 DEF EndAt

\* Only attempt_end itself adds a line of that kind.
LEMMA NewEndIsWritten ==
  ASSUME TypesHold, GivenUp, SeenIsCopied, Next, ~PowerLoss,
         NEW i \in NewLines, file'[i].kind = "end"
  PROVE  \E p \in Proc : EndEvent(p)
<1>0. TypeOK /\ PassHasRow /\ LogStep
  BY StepsOfTheLog DEF TypesHold
<1>1. CASE file' = file
  BY <1>0, <1>1 DEF NewLines, TypeOK
<1>2. CASE CopiesAny
  BY <1>2 DEF CopiesAny, Copies, Garbage
<1>3. ASSUME NEW a \in Att, NEW kind \in {"start", "failure"}, NEW s \in Nat,
             \/ WriteBoundary(Event(a, kind, 0, s + 1))
             \/ WriteFails(<<Event(a, kind, 0, s + 1)>>, 1)
      PROVE  FALSE
  <2>1. Adds(Event(a, kind, 0, s + 1))
    BY <1>0, <1>3, BoundaryIsAStep
  <2> QED
    BY <2>1 DEF Adds, Event, Garbage
<1>4. LastSeq(file) \in Nat
  BY <1>0, LastSeqIsNumber DEF TypeOK
<1>5. ASSUME NEW a \in Att, Work(a)
      PROVE  FALSE
  <2>1. CASE StartEvent(a) \/ StartEventFails(a) \/ FailureEvent(a)
    BY <1>3, <1>4, <2>1 DEF StartEvent, StartEventFails, FailureEvent
  <2>2. CASE SetupFails(a) \/ Spawn(a) \/ Publish(a) \/ Watch(a) \/ LaunchRefused(a)
             \/ RunnerObserved(a)
    <3>1. file' = file
      BY <2>2 DEF SetupFails, Spawn, Publish, Watch, LaunchRefused, RunnerObserved, log
    <3>2. FALSE
      BY <1>1, <3>1 DEF NewLines, TypesHold, TypeOK
    <3> QED
      BY <3>2
  <2>3. Copying(a) => Receipts(file, a) \subseteq seen[a]
    BY DEF SeenIsCopied
  <2>4. CopiesAny => FALSE
    BY DEF CopiesAny, Copies, Garbage
  <2>5. CASE Poll(a)
    BY <1>0, <2>3, <2>4, <2>5, ScanIsAStep DEF Poll, Copying
  <2>6. CASE FinalScan(a)
    BY <1>0, <2>3, <2>4, <2>6, ScanIsAStep DEF FinalScan, Copying, GivenUp
  <2>7. CASE WatcherFails(a)
    BY <1>0, <2>3, <2>4, <2>7, ScanFailsIsAStep DEF WatcherFails, Copying
  <2>8. CASE Drain(a)
    BY <1>0, <2>4, <2>8, DrainIsAStep DEF Drain, Proc
  <2> QED
    BY <1>5, <2>1, <2>2, <2>5, <2>6, <2>7, <2>8 DEF Work
<1>6. file' # file
  BY DEF NewLines, TypesHold, TypeOK
<1>7. CASE PassRecovers
  <2>1. taken \in Att /\ Recovery \in Proc
    BY <1>0, <1>7 DEF PassRecovers, PassHasRow, Proc
  <2>2. CopiesAny
    BY <1>0, <1>7, <2>1, DrainIsAStep DEF PassRecovers
  <2> QED
    BY <1>2, <2>2
<1> QED
  BY <1>5, <1>6, <1>7 DEF Next, Pass, Close, PassSelects, PassSkips, PassAdopts, Stream, Crash,
     OpenWriter, CleanOutput, FinishRow, Reserve, RunnerEmits, RunnerExits, log

\* attempt_end follows a drained attempt.
LEMMA NewEndIsLast ==
  ASSUME CopiesInv, Owners, DrainedIsComplete, NEW p \in Proc, EndEvent(p), NEW i \in NewLines
  PROVE  EndAt(i)'
<1>0. TypeOK /\ PassHasRow /\ file \in Seq(Lines)
  BY DEF CopiesInv, TypesHold, TypeOK
<1>1. PICK a \in Att : a = Subject(p)
  BY <1>0 DEF EndEvent, Subject, PassHasRow, Proc
<1>2. writer[p] \in Nat
  BY <1>0 DEF TypeOK
<1>3. Adds(Event(a, "end", 0, writer[p] + 1))
  BY <1>0, <1>1, <1>2, BoundaryIsAStep DEF EndEvent
<1>4. Grows /\ i = Len(file) + 1
  BY <1>3 DEF Adds
<1>5. SUFFICES ASSUME file'[i] # Garbage
               PROVE  EndAt(i)'
  BY DEF EndAt, Garbage
<1>6. file'[i].att = a
  BY <1>3, <1>5 DEF Adds, Event
<1>7. a \in finished
  BY <1>0, <1>1 DEF EndEvent, Subject, PassHasRow, Owners, TaskHasRow, Proc
<1>8. /\ finished' = finished /\ published' = published /\ lossy' = lossy
      /\ emitted' = emitted
  BY DEF EndEvent, host, rows, faults
<1>9. ASSUME a \in published \ lossy, \A k \in 1..i : file'[k] # Garbage
      PROVE  1..emitted[a] \subseteq Receipts(SubSeq(file', 1, i), a)
  <2>1. Drained(a)
    <3>1. CASE p = Recovery
      BY <1>1, <3>1 DEF EndEvent, Subject, Drained, Closing
    <3>2. CASE p # Recovery
      BY <1>1, <3>2 DEF EndEvent, Subject, Drained, Closing
    <3> QED
      BY <3>1, <3>2
  <2>2. Complete(a)
    BY <1>9, <2>1 DEF DrainedIsComplete
  <2>3. Len(file) \in Nat /\ Len(file') \in Nat /\ i \in Nat /\ i <= Len(file')
    BY <1>0, <1>4 DEF Grows, NewLines
  <2>4. NoGarbage(file)
    BY <1>0, <1>4, <1>9, <2>3 DEF NoGarbage, Grows
  <2>5. SubSeq(file', 1, Len(file)) = file
    <3>1. Len(file) \in 0..Len(file)
      BY <2>3
    <3>2. SubSeq(file', 1, Len(file)) = SubSeq(file, 1, Len(file))
      BY <1>0, <1>4, <3>1, GrowthKeeps
    <3> QED
      BY <1>0, <3>2
  <2>6. Receipts(SubSeq(file', 1, Len(file)), a) \subseteq Receipts(SubSeq(file', 1, i), a)
    <3>1. i \in 0..Len(file') /\ Len(file) \in 0..i
      BY <1>4, <2>3
    <3> QED
      BY <1>4, <3>1, PrefixReceipts DEF Grows
  <2> QED
    BY <2>2, <2>4, <2>5, <2>6 DEF Complete
<1> QED
  BY <1>6, <1>7, <1>8, <1>9 DEF EndAt

\* The end lines are last after every step, old ones and a new one.
LEMMA EndsStay ==
  ASSUME CopiesInv, Owners, DrainedIsComplete, EndsAreLast, Next
  PROVE  EndsAreLast'
<1>0. TypeOK /\ TypesHold /\ GivenUp /\ SeenIsCopied /\ file \in Seq(Lines)
  BY DEF CopiesInv, TypesHold, TypeOK
<1>1. (\A i \in DOMAIN file' : EndAt(i)') => EndsAreLast'
  BY DEF EndsAreLast, EndAt
<1>2. CASE PowerLoss
  <2>1. PICK n \in synced..Len(file) :
          /\ n \in Nat /\ DOMAIN file' = 1..n
          /\ \A i \in 1..n : i \in DOMAIN file /\ file'[i] = file[i]
          /\ \A i \in 0..n : SubSeq(file', 1, i) = SubSeq(file, 1, i)
    BY <1>0, <1>2, PowerLossKeeps
  <2>2. ASSUME NEW i \in DOMAIN file'
        PROVE  EndAt(i)'
    <3>1. i \in 0..n /\ i \in DOMAIN file /\ \A k \in 1..i : file'[k] = file[k]
      BY <2>1
    <3> QED
      BY <1>0, <2>1, <3>1, OldEndStays
  <2> QED
    BY <1>1, <2>2
<1>3. CASE ~PowerLoss
  <2>1. Grows
    BY <1>0, <1>3, StepsOfTheLog, StepGrows
  <2>2. ASSUME NEW i \in DOMAIN file'
        PROVE  EndAt(i)'
    <3>1. CASE i \in DOMAIN file
      <4>1. i \in 0..Len(file) /\ \A k \in 1..i : file'[k] = file[k]
        BY <1>0, <2>1, <3>1 DEF Grows
      <4>2. SubSeq(file', 1, i) = SubSeq(file, 1, i)
        BY <1>0, <2>1, <4>1, GrowthKeeps
      <4> QED
        BY <1>0, <2>2, <3>1, <4>1, <4>2, OldEndStays
    <3>2. CASE i \in NewLines
      <4>1. CASE file'[i].kind = "end"
        BY <1>0, <1>3, <3>2, <4>1, NewEndIsWritten, NewEndIsLast
      <4>2. CASE file'[i].kind # "end"
        BY <4>2 DEF EndAt
      <4> QED
        BY <4>1, <4>2
    <3> QED
      BY <1>0, <2>1, <2>2, <3>1, <3>2, GrowthKeeps
  <2> QED
    BY <1>1, <2>2
<1> QED
  BY <1>2, <1>3

\* The invariant of the ends.
LEMMA EndInvHolds == Spec => []EndInv
<1>1. Init => Owners /\ DrainedIsComplete /\ EndsAreLast
  BY DEF Init, Owners, TaskHasRow, PassAlone, StoppedIsDead, ContextKept, Done, Proc,
     DrainedIsComplete, EndsAreLast
<1>2. EndInv /\ Next => Owners' /\ DrainedIsComplete' /\ EndsAreLast'
  BY OwnersStay, DrainedStays, EndsStay DEF EndInv, CopiesInv
<1>3. EndInv /\ UNCHANGED vars => Owners' /\ DrainedIsComplete' /\ EndsAreLast'
  BY DEF EndInv, Owners, TaskHasRow, PassAlone, StoppedIsDead, RunnerStopped, ContextKept, Done,
     DrainedIsComplete, Drained, Complete, NoGarbage, EndsAreLast, vars, log, host, rows, memory,
     faults
<1>4. EndInv <=> CopiesInv /\ Owners /\ DrainedIsComplete /\ EndsAreLast
  BY DEF EndInv
<1> QED
  BY <1>1, <1>2, <1>3, <1>4, CopiesInvHolds, PTL DEF Spec

\* attempt_end comes after everything the identified runner wrote, unless the
\* attempt gave up its event files or the log is damaged.
THEOREM EndIsAlwaysLast == Spec => []EndIsLast
<1>1. EndInv => EndIsLast
  <2> SUFFICES ASSUME EndInv, Intact, NEW i \in DOMAIN file, file[i].kind = "end",
                      file[i].att \in published \ lossy
               PROVE  1..emitted[file[i].att] \subseteq Receipts(SubSeq(file, 1, i), file[i].att)
    BY DEF EndIsLast
  <2>1. \A k \in 1..i : k \in DOMAIN file
    BY DEF EndInv, CopiesInv, TypesHold, TypeOK
  <2> QED
    BY <2>1 DEF EndInv, EndsAreLast, Intact
<1> QED
  BY <1>1, EndInvHolds, PTL

-----------------------------------------------------------------------------
(* The stream.                                                             *)

\* The member of rank i - 1 stands at place i.
LEMMA InOrderAt ==
  ASSUME NEW S \in SUBSET Nat, IsFiniteSet(S), NEW i \in 1..Cardinality(S),
         NEW x \in S, Rank(S, x) = i - 1
  PROVE  InOrder(S)[i] = x
<1>1. InOrder(S)[i] = CHOOSE z \in S : Rank(S, z) = i - 1
  BY DEF InOrder, Rank, Below
<1>2. PICK z \in S : z = InOrder(S)[i] /\ Rank(S, z) = Rank(S, x)
  BY <1>1
<1>3. x \in Nat /\ z \in Nat /\ Rank(S, x) \in Nat
  BY RankRange
<1>4. ~(x < z) /\ ~(z < x)
  BY <1>2, <1>3, RankGrows
<1> QED
  BY <1>2, <1>3, <1>4

\* Two sequences joined, place by place.
LEMMA JoinedSeq ==
  ASSUME NEW s \in Seq(Nat), NEW t \in Seq(Nat)
  PROVE  /\ s \o t \in Seq(Nat) /\ Len(s \o t) = Len(s) + Len(t)
         /\ \A k \in 1..(Len(s) + Len(t)) :
              (s \o t)[k] = IF k <= Len(s) THEN s[k] ELSE t[k - Len(s)]
OBVIOUS

\* Sequences that agree everywhere are equal.
LEMMA SameSeq ==
  ASSUME NEW s \in Seq(Nat), NEW t \in Seq(Nat), Len(s) = Len(t),
         \A k \in 1..Len(s) : s[k] = t[k]
  PROVE  s = t
OBVIOUS

\* A list that goes on where another ends is the two joined.
LEMMA ListsJoin ==
  ASSUME NEW m \in Nat, NEW n \in Nat, NEW s \in [1..m -> Nat], NEW t \in [1..n -> Nat],
         NEW u \in [1..(m + n) -> Nat],
         \A i \in 1..m : u[i] = s[i], \A j \in 1..n : u[m + j] = t[j]
  PROVE  u = s \o t /\ IsPrefix(s, u)
<1>1. s \in Seq(Nat) /\ Len(s) = m
  OBVIOUS
<1>2. t \in Seq(Nat) /\ Len(t) = n
  OBVIOUS
<1>3. u \in Seq(Nat) /\ Len(u) = m + n
  OBVIOUS
<1>4. /\ s \o t \in Seq(Nat) /\ Len(s \o t) = m + n
      /\ \A k \in 1..(m + n) : (s \o t)[k] = IF k <= m THEN s[k] ELSE t[k - m]
  BY <1>1, <1>2, JoinedSeq
<1>5. ASSUME NEW k \in 1..(m + n)
      PROVE  (s \o t)[k] = u[k]
  <2>1. CASE k <= m
    <3>1. k \in 1..m
      BY <2>1
    <3>2. (s \o t)[k] = s[k]
      BY <1>4, <2>1
    <3> QED
      BY <3>1, <3>2
  <2>2. CASE ~(k <= m)
    <3>1. k - m \in 1..n /\ k = m + (k - m)
      BY <2>2
    <3>2. PICK j \in 1..n : k = m + j /\ j = k - m
      BY <3>1
    <3>3. (s \o t)[k] = t[k - m]
      BY <1>4, <2>2
    <3> QED
      BY <3>2, <3>3
  <2> QED
    BY <2>1, <2>2
<1>6. u = s \o t
  BY <1>3, <1>4, <1>5, SameSeq
<1>7. SubSeq(s, 1, m) = s
  BY <1>1
<1>8. /\ SubSeq(u, 1, m) \in Seq(Nat) /\ Len(SubSeq(u, 1, m)) = m
      /\ \A i \in 1..m : SubSeq(u, 1, m)[i] = u[i]
  BY <1>3
<1>9. SubSeq(u, 1, m) = s
  BY <1>1, <1>8
<1>10. IsPrefix(s, u)
  BY <1>1, <1>3, <1>7, <1>9 DEF IsPrefix
<1> QED
  BY <1>6, <1>10

\* A list in order is continued by the list of what is greater.
LEMMA InOrderContinues ==
  ASSUME NEW S \in SUBSET Nat, IsFiniteSet(S), NEW T \in SUBSET Nat, IsFiniteSet(T),
         \A x \in S, y \in T : x < y
  PROVE  /\ InOrder(S \cup T) = InOrder(S) \o InOrder(T)
         /\ IsPrefix(InOrder(S), InOrder(S \cup T))
<1> DEFINE U == S \cup T
           m == Cardinality(S)
           n == Cardinality(T)
<1>1. IsFiniteSet(U) /\ U \in SUBSET Nat
  BY FS_Union
<1>2. S \cap T = {}
  <2> SUFFICES ASSUME NEW x \in S, x \in T
               PROVE  FALSE
    OBVIOUS
  <2>1. x < x /\ x \in Nat
    OBVIOUS
  <2> QED
    BY <2>1
<1>3. Cardinality(U) = m + n /\ m \in Nat /\ n \in Nat
  <2>1. m \in Nat /\ n \in Nat
    BY FS_CardinalityType
  <2>2. Cardinality(S \cap T) = 0
    BY <1>2, FS_EmptySet
  <2>3. Cardinality(U) = m + n - 0
    BY <2>2, FS_Union
  <2> QED
    BY <2>1, <2>3
<1>4. InOrder(S) \in [1..m -> S] /\ InOrder(T) \in [1..n -> T] /\ InOrder(U) \in [1..(m + n) -> U]
  BY <1>1, <1>3, InOrderLists
<1>5. ASSUME NEW i \in 1..m
      PROVE  InOrder(U)[i] = InOrder(S)[i]
  <2>1. PICK k \in 0..(m - 1) : k = i - 1
    BY <1>3
  <2>2. PICK x \in S : Rank(S, x) = i - 1
    BY <2>1, RankIsTaken
  <2>3. Below(U, x) = Below(S, x)
    <3>1. \A y \in T : ~(y < x)
      <4> SUFFICES ASSUME NEW y \in T, y < x
                   PROVE  FALSE
        OBVIOUS
      <4>1. x < y /\ x \in Nat /\ y \in Nat
        OBVIOUS
      <4> QED
        BY <4>1
    <3> QED
      BY <3>1 DEF Below
  <2>4. Rank(U, x) = i - 1
    BY <2>2, <2>3 DEF Rank
  <2>5. i \in 1..Cardinality(U) /\ x \in U
    BY <1>3
  <2> QED
    BY <1>1, <2>2, <2>4, <2>5, InOrderAt
<1>6. ASSUME NEW j \in 1..n
      PROVE  InOrder(U)[m + j] = InOrder(T)[j]
  <2>1. PICK k \in 0..(n - 1) : k = j - 1
    BY <1>3
  <2>2. PICK y \in T : Rank(T, y) = j - 1
    BY <2>1, RankIsTaken
  <2>3. Below(U, y) = S \cup Below(T, y)
    BY DEF Below
  <2>4. S \cap Below(T, y) = {} /\ IsFiniteSet(Below(T, y))
    BY <1>2, FS_Subset DEF Below
  <2>5. Cardinality(S \cup Below(T, y)) = m + (j - 1)
    <3>1. Cardinality(S \cap Below(T, y)) = 0
      BY <2>4, FS_EmptySet
    <3>2. Cardinality(S \cup Below(T, y)) = m + Cardinality(Below(T, y)) - 0
      BY <2>4, <3>1, FS_Union
    <3>3. Cardinality(Below(T, y)) = j - 1
      BY <2>2 DEF Rank
    <3> QED
      BY <1>3, <3>2, <3>3
  <2>6. PICK i \in 1..Cardinality(U) : i = m + j
    BY <1>3
  <2>7. Rank(U, y) = i - 1 /\ y \in U
    BY <1>3, <2>3, <2>5, <2>6 DEF Rank
  <2>8. InOrder(U)[i] = y
    BY <1>1, <2>7, InOrderAt
  <2>9. InOrder(T)[j] = y
    BY <2>2, InOrderAt
  <2> QED
    BY <2>6, <2>8, <2>9
<1>7. InOrder(S) \in [1..m -> Nat] /\ InOrder(T) \in [1..n -> Nat]
      /\ InOrder(U) \in [1..(m + n) -> Nat]
  BY <1>1, <1>4
<1> QED
  BY <1>3, <1>5, <1>6, <1>7, ListsJoin

NumbersCount == \A i \in Readable(file) : file[i].seq >= 1

\* Lines that are readable keep a number of at least 1.
LEMMA NumbersStayCounted ==
  ASSUME TypeOK, LogStep, NumbersCount
  PROVE  NumbersCount'
<1>1. Grows
  BY StepGrows
<1>2. ASSUME NEW i \in Readable(file')
      PROVE  file'[i].seq >= 1
  <2>1. i \in DOMAIN file' /\ file'[i].kind # "garbage" /\ file'[i] # Garbage
    BY <1>2 DEF Readable, Garbage
  <2>2. CASE i \in DOMAIN file
    <3>1. file'[i] = file[i]
      BY <1>1, <2>2, GrowthKeeps DEF Grows
    <3> QED
      BY <2>1, <2>2, <3>1 DEF NumbersCount, Readable
  <2>3. CASE i \in NewLines
    <3>1. CASE Stays
      BY <2>3, <3>1 DEF Stays, NewLines, TypeOK
    <3>2. CASE AddsOne
      BY <2>1, <2>3, <3>2 DEF AddsOne, Adds
    <3>3. CASE CopiesAny
      BY <2>1, <2>3, <3>3 DEF CopiesAny, Copies
    <3> QED
      BY <3>1, <3>2, <3>3 DEF LogStep
  <2> QED
    BY <1>1, <2>1, <2>2, <2>3, GrowthKeeps
<1> QED
  BY <1>2 DEF NumbersCount

\* A line that is added while numbers identify is above all that is received.
LEMMA ReceivedStays ==
  ASSUME TypesHold, LogStep, StreamKnows, subscriber' = subscriber
  PROVE  StreamKnows'
<1> DEFINE n == subscriber.last
<1>0. TypeOK /\ file \in Seq(Lines) /\ n \in Nat /\ Grows
  BY StepGrows DEF TypesHold, TypeOK
<1>1. NumbersCount'
  BY <1>0, NumbersStayCounted DEF StreamKnows, NumbersCount
<1>2. \A i \in Readable(file) : i \in Readable(file') /\ file'[i] = file[i]
  BY <1>0, GrowthKeeps DEF Readable, Grows
<1>3. n = 0 \/ \E i \in Readable(file') : n = file'[i].seq
  BY <1>2 DEF StreamKnows
<1>4. ASSUME Identifying'
      PROVE  subscriber.got = InOrder(Received(file', n))
  <2>1. Identifying
    BY <1>2, <1>4 DEF Identifying
  <2>2. ASSUME NEW i \in Received(file', n)
        PROVE  i \in Received(file, n)
    <3>1. i \in Readable(file') /\ file'[i].seq <= n /\ i \in DOMAIN file'
      BY DEF Received, Readable
    <3>2. CASE i \in DOMAIN file
      BY <1>0, <3>1, <3>2 DEF Received, Readable, Grows
    <3>3. CASE i \in NewLines
      <4>1. file'[i].seq >= 1 /\ file'[i] \in Lines
        BY <1>0, <1>1, <3>1 DEF NumbersCount, Grows
      <4>2. file'[i].seq \in Nat
        BY <4>1, LineKinds
      <4>3. PICK k \in Readable(file) : n = file[k].seq
        BY <1>0, <3>1, <4>1, <4>2 DEF StreamKnows
      <4>4. k < i
        BY <1>0, <3>3 DEF Readable, NewLines
      <4>5. file'[k].seq < file'[i].seq /\ file'[k].seq = n
        BY <1>2, <1>4, <3>1, <4>3, <4>4 DEF Identifying
      <4> QED
        BY <1>0, <3>1, <4>2, <4>5
    <3> QED
      BY <1>0, <3>1, <3>2, <3>3, GrowthKeeps
  <2>3. Received(file', n) = Received(file, n)
    BY <1>2, <2>2 DEF Received
  <2> QED
    BY <2>1, <2>3 DEF StreamKnows
<1> QED
  BY <1>1, <1>3, <1>4 DEF StreamKnows, NumbersCount

\* A subscriber that reads on gets the lines with higher numbers, in order.
LEMMA StreamTakes ==
  ASSUME TypesHold, Stream, StreamKnows
  PROVE  StreamKnows'
<1> DEFINE n == subscriber.last
           new == {i \in Readable(file) : file[i].seq > n}
           old == Received(file, n)
           top == Last(InOrder(new))
<1>0. TypeOK /\ file \in Seq(Lines) /\ n \in Nat /\ file' = file
  BY DEF TypesHold, TypeOK, Stream, log
<1>1. new \in SUBSET DOMAIN file /\ new # {} /\ old \in SUBSET DOMAIN file
  BY DEF Stream, Readable, Received
<1>2. subscriber' = [last |-> file[top].seq, got |-> subscriber.got \o InOrder(new)]
  BY DEF Stream
<1>3. /\ IsFiniteSet(new) /\ new \in SUBSET Nat /\ top \in new
      /\ \A x \in new : x <= top
  BY <1>0, <1>1, LastOfOrder
<1>4. IsFiniteSet(old) /\ old \in SUBSET Nat
  <2>1. CASE old = {}
    BY <2>1, FS_EmptySet
  <2>2. CASE old # {}
    BY <1>0, <1>1, <2>2, LastOfOrder
  <2> QED
    BY <2>1, <2>2
<1>5. \A i \in Readable(file) : i \in Nat /\ file[i].seq \in Nat
  <2>1. \A i \in DOMAIN file : i \in Nat /\ file[i] \in Lines
    BY <1>0
  <2> QED
    BY <2>1, LineKinds DEF Readable
<1>6. top \in Readable(file)
  BY <1>3
<1>7. ASSUME Identifying
      PROVE  subscriber.got \o InOrder(new) = InOrder(Received(file, file[top].seq))
  <2>1. \A x \in old, y \in new : x < y
    <3> SUFFICES ASSUME NEW x \in old, NEW y \in new
                 PROVE  x < y
      OBVIOUS
    <3>1. /\ x \in Readable(file) /\ y \in Readable(file)
          /\ file[x].seq <= n /\ file[y].seq > n
      BY DEF Received
    <3>2. x \in Nat /\ y \in Nat /\ file[x].seq \in Nat /\ file[y].seq \in Nat
      BY <1>5, <3>1
    <3>3. ~(y < x) /\ y # x
      BY <1>0, <1>7, <3>1, <3>2 DEF Identifying
    <3> QED
      BY <3>2, <3>3
  <2>2. InOrder(old \cup new) = InOrder(old) \o InOrder(new)
    BY <1>3, <1>4, <2>1, InOrderContinues
  <2>3. old \cup new = Readable(file)
    BY <1>0, <1>5 DEF Received
  <2>4. ASSUME NEW i \in Readable(file)
        PROVE  file[i].seq <= file[top].seq
    <3>1. CASE i \in new
      <4>1. i <= top /\ i \in Nat /\ top \in Nat
        BY <1>3, <1>5, <1>6, <3>1
      <4>2. i = top \/ file[i].seq < file[top].seq
        BY <1>6, <1>7, <4>1 DEF Identifying
      <4> QED
        BY <1>5, <1>6, <4>2
    <3>2. CASE i \in old
      <4>1. file[i].seq <= n /\ file[top].seq > n
        BY <1>3, <3>2 DEF Received
      <4> QED
        BY <1>0, <1>5, <1>6, <4>1
    <3> QED
      BY <2>3, <3>1, <3>2
  <2>5. Received(file, file[top].seq) = Readable(file)
    BY <2>4 DEF Received
  <2>6. subscriber.got = InOrder(old)
    BY <1>7 DEF StreamKnows
  <2> QED
    BY <2>2, <2>3, <2>5, <2>6
<1> HIDE DEF new, top
<1>8. subscriber'.last = file[top].seq /\ subscriber'.got = subscriber.got \o InOrder(new)
  BY <1>2
<1>9. Identifying' => Identifying
  BY <1>0 DEF Identifying
<1> QED
  BY <1>0, <1>6, <1>7, <1>8, <1>9 DEF StreamKnows

\* A new subscriber has received nothing.
LEMMA NewStream ==
  ASSUME file' \in Seq(Lines), NumbersCount', subscriber' = NoStream
  PROVE  StreamKnows'
<1>1. subscriber'.last = 0 /\ subscriber'.got = <<>>
  BY DEF NoStream
<1>2. Received(file', 0) = {}
  <2> SUFFICES ASSUME NEW i \in Readable(file'), file'[i].seq <= 0
               PROVE  FALSE
    BY DEF Received
  <2>1. file'[i] \in Lines
    BY DEF Readable
  <2>2. file'[i].seq \in Nat /\ file'[i].seq >= 1
    BY <2>1, LineKinds DEF NumbersCount
  <2> QED
    BY <2>2
<1>3. InOrder({}) = <<>>
  <2>1. InOrder({}) \in [1..0 -> {}]
    BY FS_EmptySet, InOrderLists
  <2> QED
    BY <2>1
<1> QED
  BY <1>1, <1>2, <1>3 DEF StreamKnows, NumbersCount

\* The invariant of the stream.
LEMMA StreamKnowsHolds == Spec => []StreamKnows
<1>1. Init => StreamKnows
  <2> SUFFICES ASSUME Init
               PROVE  StreamKnows
    OBVIOUS
  <2>1. Readable(file) = {} /\ subscriber.last = 0 /\ subscriber.got = <<>>
    BY DEF Init, Readable, NoStream
  <2>2. Received(file, 0) = {}
    BY <2>1 DEF Received
  <2>3. InOrder({}) = <<>>
    <3>1. InOrder({}) \in [1..0 -> {}]
      BY FS_EmptySet, InOrderLists
    <3> QED
      BY <3>1
  <2> QED
    BY <2>1, <2>2, <2>3 DEF StreamKnows
<1>2. CopiesInv /\ StreamKnows /\ Next => StreamKnows'
  <2> SUFFICES ASSUME CopiesInv, StreamKnows, Next
               PROVE  StreamKnows'
    OBVIOUS
  <2>0. TypeOK /\ TypesHold /\ GivenUp /\ SeenIsCopied /\ NumbersCount
    BY DEF CopiesInv, TypesHold, StreamKnows, NumbersCount
  <2>1. CASE PowerLoss
    <3>1. PICK m \in synced..Len(file) :
            /\ file' \in Seq(Lines) /\ DOMAIN file' = 1..m
            /\ \A i \in 1..m : i \in DOMAIN file /\ file'[i] = file[i]
      BY <2>0, <2>1, PowerLossKeeps
    <3>2. NumbersCount'
      BY <2>0, <3>1 DEF NumbersCount, Readable
    <3>3. subscriber' = NoStream
      BY <2>1 DEF PowerLoss, Forget
    <3> QED
      BY <3>1, <3>2, <3>3, NewStream
  <2>2. CASE ~PowerLoss
    <3>1. LogStep
      BY <2>0, <2>2, StepsOfTheLog
    <3>2. CASE Stream
      BY <2>0, <3>2, StreamTakes
    <3>3. CASE Crash
      BY <2>0, <3>1, <3>3, NumbersStayCounted, NewStream DEF Crash, Forget, LogStep, LogTyped
    <3>4. CASE subscriber' = subscriber
      BY <2>0, <3>1, <3>4, ReceivedStays
    <3> QED
      BY <2>2, <3>2, <3>3, <3>4, SubscriberSteps
  <2> QED
    BY <2>1, <2>2
<1>3. StreamKnows /\ UNCHANGED vars => StreamKnows'
  BY DEF StreamKnows, Readable, Received, Identifying, vars, log
<1> QED
  BY <1>1, <1>2, <1>3, CopiesInvHolds, PTL DEF Spec

\* While numbers identify events, a subscriber has received a prefix of the
\* log: its cursor neither skips nor repeats one across replay and tail.
THEOREM StreamIsAlwaysPrefix == Spec => []StreamIsPrefix
<1>1. CopiesInv /\ StreamKnows => StreamIsPrefix
  <2> SUFFICES ASSUME CopiesInv, StreamKnows, Identifying
               PROVE  IsPrefix(subscriber.got, InOrder(Readable(file)))
    BY DEF StreamIsPrefix
  <2> DEFINE n == subscriber.last
             old == Received(file, n)
             rest == {i \in Readable(file) : file[i].seq > n}
  <2>1. file \in Seq(Lines) /\ n \in Nat
    BY DEF CopiesInv, TypesHold, TypeOK
  <2>2. \A i \in Readable(file) : i \in Nat /\ file[i].seq \in Nat
    <3>1. \A i \in DOMAIN file : i \in Nat /\ file[i] \in Lines
      BY <2>1
    <3> QED
      BY <3>1, LineKinds DEF Readable
  <2>3. IsFiniteSet(Readable(file))
    <3>1. DOMAIN file = 1..Len(file) /\ Len(file) \in Nat
      BY <2>1
    <3>2. IsFiniteSet(1..Len(file))
      BY <3>1, FS_Interval
    <3>3. Readable(file) \in SUBSET (1..Len(file))
      BY <3>1 DEF Readable
    <3> QED
      BY <3>2, <3>3, FS_Subset
  <2>4. /\ old \in SUBSET Readable(file) /\ rest \in SUBSET Readable(file)
        /\ old \cup rest = Readable(file)
    BY <2>1, <2>2 DEF Received
  <2>5. /\ IsFiniteSet(old) /\ old \in SUBSET Nat
        /\ IsFiniteSet(rest) /\ rest \in SUBSET Nat
    BY <2>2, <2>3, <2>4, FS_Subset
  <2>6. \A x \in old, y \in rest : x < y
    <3> SUFFICES ASSUME NEW x \in old, NEW y \in rest
                 PROVE  x < y
      OBVIOUS
    <3>1. /\ x \in Readable(file) /\ y \in Readable(file)
          /\ file[x].seq <= n /\ file[y].seq > n
      BY DEF Received
    <3>2. x \in Nat /\ y \in Nat /\ file[x].seq \in Nat /\ file[y].seq \in Nat
      BY <2>2, <3>1
    <3>3. ~(y < x) /\ y # x
      BY <2>1, <3>1, <3>2 DEF Identifying
    <3> QED
      BY <3>2, <3>3
  <2>7. IsPrefix(InOrder(old), InOrder(old \cup rest))
    BY <2>5, <2>6, InOrderContinues
  <2> QED
    BY <2>4, <2>7 DEF StreamKnows
<1> QED
  BY <1>1, CopiesInvHolds, StreamKnowsHolds, PTL

===============================================================================
