----------------------------- MODULE EventStream -----------------------------
(***************************************************************************)
(* Readers of a deployment's event log: a server-sent stream that replays  *)
(* the file and then follows it, with a filter, a range and a cap, and the *)
(* download of what is there.  The file grows while it is read; a writer   *)
(* that is killed leaves half a line, which the next one ends.             *)
(*                                                                         *)
(* Numbers ascend in one log (EventLog shows when they do not).  A line    *)
(* that is being written is seen as a whole or not at all.                 *)
(***************************************************************************)
EXTENDS Naturals, Sequences, SequencesExt, FiniteSets

CONSTANTS
  Teams,     \* events of a team, and those of nobody ("all")
  ReplayCap, \* REPLAY_CAP, 5000 in the code
  MaxLines,  \* bound on the file
  Ranges     \* bound: from and to (0: no end) of a subscription

ASSUME RangesAssumption == Ranges \subseteq Nat \X Nat

VARIABLES
  lines,  \* the file: events, and "torn" lines that are not JSON
  stream, \* the subscription and what it has been sent
  copy    \* the download
streamVars == <<lines, stream, copy>>

NoStream == [phase |-> "closed", asked |-> 0, from |-> 0, to |-> 0, team |-> "any", pos |-> 1,
             emitted |-> 0, sent |-> <<>>, last |-> 0, reopened |-> FALSE]
NoCopy == [size |-> 0, pos |-> 1, got |-> <<>>, open |-> FALSE]

StreamInit == lines = <<>> /\ stream = NoStream /\ copy = NoCopy

-----------------------------------------------------------------------------
(* The log.                                                                *)

IsEvent(line) == line.seq # 0
Numbers == {lines[i].seq : i \in DOMAIN lines}
NextNumber == 1 + Cardinality(Numbers \ {0})

AppendEvent == \E t \in Teams :
  /\ Len(lines) < MaxLines
  /\ lines' = Append(lines, [seq |-> NextNumber, team |-> t])
  /\ UNCHANGED <<stream, copy>>

AppendIsKilled ==
  /\ Len(lines) < MaxLines
  /\ lines' = Append(lines, [seq |-> 0, team |-> "all"])
  /\ UNCHANGED <<stream, copy>>

-----------------------------------------------------------------------------
(* The stream.                                                             *)

\* _filter_event: an event of no team matches no team that is asked for.
MatchesFilter(line, s) == s.team \in {"any", line.team}

\* read_range: what is no event is skipped, the first event past the end ends it.
InRange(line, s) == IsEvent(line) /\ line.seq >= s.from
Past(line, s) == s.to # 0 /\ line.seq > s.to

Send(s, line) == [s EXCEPT !.sent = Append(@, line.seq), !.last = line.seq]

Subscribe == \E r \in Ranges, t \in Teams \cup {"any"} :
  /\ stream = NoStream
  /\ stream' = [NoStream EXCEPT !.phase = "replay", !.asked = r[1], !.from = r[1], !.to = r[2], !.team = t,
                  !.last = IF r[1] > 0 THEN r[1] - 1 ELSE 0]
  /\ UNCHANGED <<lines, copy>>

\* The file is read line by line, between two lines it may grow.
Replay ==
  /\ stream.phase = "replay" /\ stream.pos <= Len(lines)
  /\ LET line == lines[stream.pos]
         passed == [stream EXCEPT !.pos = @ + 1] IN
       stream' = IF IsEvent(line) /\ Past(line, stream) THEN [stream EXCEPT !.phase = "replayed"]
                 ELSE IF ~(InRange(line, stream) /\ MatchesFilter(line, stream)) THEN passed
                 ELSE [Send(passed, line) EXCEPT !.emitted = @ + 1,
                         !.phase = IF stream.emitted + 1 >= ReplayCap THEN "replayed" ELSE @]
  /\ UNCHANGED <<lines, copy>>

ReplayEnds ==
  /\ stream.phase = "replay" /\ stream.pos > Len(lines)
  /\ stream' = [stream EXCEPT !.phase = "replayed"]
  /\ UNCHANGED <<lines, copy>>

\* Fault: the tail begins with the last event sent.
FollowFromLast(s) == IF s.last = 0 THEN 0 ELSE s.last - 1

\* Only what was sent counts; what the filter dropped is read again.
FollowFrom(s) == s.last

\* An end that was asked for ends the stream.
BeginTail ==
  /\ stream.phase = "replayed"
  /\ stream' = IF stream.to # 0 THEN [stream EXCEPT !.phase = "ended"]
               ELSE [stream EXCEPT !.phase = "tail", !.last = FollowFrom(stream)]
  /\ UNCHANGED <<lines, copy>>

\* tail_events: all events after the last one that was read, filtered or not.
Fresh == {i \in DOMAIN lines : IsEvent(lines[i]) /\ lines[i].seq > stream.last}
Tails ==
  /\ stream.phase = "tail"
  /\ \E i \in Fresh :
       /\ \A j \in Fresh : i <= j
       /\ stream' = IF MatchesFilter(lines[i], stream) THEN Send(stream, lines[i])
                    ELSE [stream EXCEPT !.last = lines[i].seq]
  /\ UNCHANGED <<lines, copy>>

\* A client that was cut off asks again, from after the last one it got.
Reconnect ==
  /\ stream.phase \in {"replay", "replayed", "tail"} /\ ~stream.reopened /\ stream.to = 0
  /\ LET from == IF stream.sent = <<>> THEN stream.from ELSE Last(stream.sent) + 1 IN
       stream' = [stream EXCEPT !.phase = "replay", !.pos = 1, !.emitted = 0, !.reopened = TRUE,
                    !.last = IF from > 0 THEN from - 1 ELSE 0,
                    !.from = from]
  /\ UNCHANGED <<lines, copy>>

-----------------------------------------------------------------------------
(* The download.                                                           *)

OpenDownload ==
  /\ ~copy.open
  /\ copy' = [NoCopy EXCEPT !.open = TRUE, !.size = Len(lines)]
  /\ UNCHANGED <<lines, stream>>

\* Complete lines that were there when it was opened, never a live tail.
Download ==
  /\ copy.open /\ copy.pos <= copy.size
  /\ LET line == lines[copy.pos] IN
       copy' = [copy EXCEPT !.pos = @ + 1, !.got = IF IsEvent(line) THEN Append(@, line.seq) ELSE @]
  /\ UNCHANGED <<lines, stream>>

StreamNext ==
  \/ AppendEvent \/ AppendIsKilled \/ Subscribe \/ Replay \/ ReplayEnds \/ BeginTail \/ Tails \/ Reconnect
  \/ OpenDownload \/ Download

StreamSpec == StreamInit /\ [][StreamNext]_streamVars

-----------------------------------------------------------------------------
\* The numbers of the events in a file that a subscriber waits for.
AskedFor(line) == IsEvent(line) /\ line.seq >= stream.asked /\ ~Past(line, stream) /\ MatchesFilter(line, stream)
Awaited(file) == {file[i].seq : i \in {j \in DOMAIN file : AskedFor(file[j])}}

Ascending(s) == \A i, j \in DOMAIN s : i < j => s[i] < s[j]

\* Some of the set, without a gap below the greatest.
Beginning(part, whole) ==
  part \subseteq whole /\ \A n \in whole, m \in part : n <= m => n \in part

\* Over the replay, its cap, the tail and a reconnection, a subscriber is sent
\* each event that matches once, in order and without a gap: all there are
\* once nothing is left to be sent, and, if an end was given, all up to where
\* the file ended or the cap was reached.  A download is what the file held
\* when it was opened, or the beginning of that.
ViewersMissNothing ==
  /\ stream.phase # "closed" =>
       Ascending(stream.sent) /\ Beginning(ToSet(stream.sent), Awaited(lines))
  /\ stream.phase = "tail" /\ Fresh = {} => ToSet(stream.sent) = Awaited(lines)
  /\ stream.phase = "ended" => ToSet(stream.sent) = Awaited(SubSeq(lines, 1, stream.pos - 1))
  /\ \A i \in DOMAIN copy.got : copy.got[i] = i
  /\ copy.pos > copy.size =>
       ToSet(copy.got) = {lines[i].seq : i \in {j \in 1..copy.size : IsEvent(lines[j])}}
=============================================================================
