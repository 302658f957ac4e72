---------------------------- MODULE RuntimeProofs ----------------------------
(***************************************************************************)
(* Theorems of what an attempt is given to run and what is read from a     *)
(* cluster before: RuntimeReadings for every set of clusters and forms,    *)
(* PinnedScenario and NativeWorkflow for every set of commits and trees.   *)
(***************************************************************************)
EXTENDS RuntimeReadings, NativeWorkflow, RuntimeApply, SequenceTheorems, FiniteSetTheorems, TLAPS

-----------------------------------------------------------------------------
(* RuntimeReadings.                                                        *)

Requests == {"switch", "inventory", "vacancy", "ours", "other", "options", "sdn", "pending", "active",
             "permissions", "nodes", "interfaces"} \cup Places

ReadingTypeOK ==
  /\ cluster \in ClusterStates /\ past \in SUBSET ClusterStates
  /\ reading.kind \in {"none"} \cup DOMAIN Order
  /\ reading \in [kind : {"none"} \cup DOMAIN Order, asked : Seq(Requests), shifts : Nat]

\* An answer was true at a moment of the reading, and only what was asked has one.
AnswersWereTrue ==
  /\ DOMAIN seen \subseteq Asked
  /\ \A r \in DOMAIN seen : \E c \in past : ~Refuses(r, c) /\ seen[r] = AnswerTo(r, c)

\* The cluster as it is belongs to the reading; what a token sees and whether
\* the node is alone do not change.
PastIsOfReading ==
  /\ reading.kind # "none" => cluster \in past
  /\ reading.kind = "none" => past = {}
  /\ \A c, d \in past : c.visible = d.visible /\ c.alone = d.alone

ReadingInv == ReadingTypeOK /\ AnswersWereTrue /\ PastIsOfReading

\* What the next step asks is asked as well, and nothing else.
LEMMA AskedGrows ==
  ASSUME ReadingTypeOK, NEW r \in Requests, reading' = [reading EXCEPT !.asked = Append(@, r)]
  PROVE  Asked' = Asked \cup {r}
<1>1. /\ reading.asked \in Seq(Requests) /\ reading'.asked = Append(reading.asked, r)
  BY DEF ReadingTypeOK
<1> DEFINE s == reading.asked
<1>2. /\ Len(Append(s, r)) = Len(s) + 1 /\ DOMAIN Append(s, r) = 1..(Len(s) + 1) /\ DOMAIN s = 1..Len(s)
      /\ Len(s) \in Nat
      /\ \A i \in 1..Len(s) : Append(s, r)[i] = s[i]
      /\ Append(s, r)[Len(s) + 1] = r
  BY <1>1
<1>3. QED
  BY <1>1, <1>2 DEF Asked

\* Of some of eight numbers one is the least.
LEMMA LeastOfEight ==
  ASSUME NEW T \in SUBSET (1..8), T # {}
  PROVE  (CHOOSE i \in T : \A j \in T : i <= j) \in T
<1> SUFFICES ASSUME ~ \E i \in T : \A j \in T : i <= j
             PROVE  FALSE
  OBVIOUS
<1>1. 1 \notin T
  OBVIOUS
<1>2. 2 \notin T
  BY <1>1
<1>3. 3 \notin T
  BY <1>1, <1>2
<1>4. 4 \notin T
  BY <1>1, <1>2, <1>3
<1>5. 5 \notin T
  BY <1>1, <1>2, <1>3, <1>4
<1>6. 6 \notin T
  BY <1>1, <1>2, <1>3, <1>4, <1>5
<1>7. 7 \notin T
  BY <1>1, <1>2, <1>3, <1>4, <1>5, <1>6
<1>8. 8 \notin T
  BY <1>1, <1>2, <1>3, <1>4, <1>5, <1>6, <1>7
<1>9. \A i \in 1..8 : i \notin T
  BY <1>1, <1>2, <1>3, <1>4, <1>5, <1>6, <1>7, <1>8
<1>10. QED
  BY <1>9

\* The references are read place by place.
LEMMA ReferencesInOrder ==
  /\ Len(Order["references"]) = 7
  /\ \A k \in 1..7 : Order["references"][k] \in Requests
  /\ \A r \in Places \cup {"permissions", "inventory"} : \E k \in 1..7 : Order["references"][k] = r
<1>1. Len(Order["references"]) = 7 /\ \A k \in 1..7 : Order["references"][k] \in Requests
  BY DEF Order, Requests, Places
<1>2. /\ Order["references"][1] = "rules" /\ Order["references"][2] = "permissions"
      /\ Order["references"][3] = "inventory" /\ Order["references"][4] = "node rules"
      /\ Order["references"][5] = "ours rules" /\ Order["references"][6] = "other rules"
      /\ Order["references"][7] = "group rules"
  BY DEF Order
<1>3. ASSUME NEW r \in Places \cup {"permissions", "inventory"}
      PROVE  \E k \in 1..7 : Order["references"][k] = r
  <2> DEFINE order == Order["references"]
  <2> HIDE DEF order
  <2>1. r = order[1] \/ r = order[2] \/ r = order[3] \/ r = order[4] \/ r = order[5] \/ r = order[6] \/ r = order[7]
    BY <1>2 DEF order, Places
  <2>2. \E k \in 1..7 : order[k] = r
    BY <2>1
  <2>3. QED
    BY <2>2 DEF order
<1>4. QED
  BY <1>1, <1>3

\* A reading asks a request that it knows and has not asked before.
LEMMA NextRequest ==
  ASSUME ReadingTypeOK, reading.kind # "none", ~Complete
  PROVE  LET r == Order[reading.kind][CHOOSE i \in Todo : \A j \in Todo : i <= j] IN
         r \in Requests /\ r \notin Asked
<1> DEFINE i == CHOOSE i \in Todo : \A j \in Todo : i <= j
           order == Order[reading.kind]
<1>1. reading.kind \in {"status", "lifecycle", "references"}
  BY DEF ReadingTypeOK, Order
<1>2. Len(order) \in 1..8 /\ \A k \in 1..Len(order) : order[k] \in Requests
  <2>1. CASE reading.kind = "status"
    BY <2>1 DEF Order, Requests
  <2>2. CASE reading.kind = "lifecycle"
    BY <2>2 DEF Order, Requests
  <2>3. CASE reading.kind = "references"
    <3>1. order = Order["references"]
      BY <2>3
    <3>2. QED
      BY <3>1, ReferencesInOrder
  <2>4. QED
    BY <1>1, <2>1, <2>2, <2>3
<1>3. Todo \in SUBSET (1..8) /\ Todo # {}
  BY <1>2 DEF Todo, Complete
<1>4. i \in Todo
  BY <1>3, LeastOfEight
<1>5. QED
  BY <1>2, <1>4 DEF Todo

\* What others change keeps the shape of the cluster, a token's permissions
\* and the nodes.
Keeps(c, d) == d \in ClusterStates /\ d.visible = c.visible /\ d.alone = c.alone

\* A change of the cluster keeps what the reading takes as fixed.
LEMMA ShiftsKeep ==
  ASSUME reading.kind \in DOMAIN Order, NEW c \in ClusterStates, NEW d \in Shifted(c)
  PROVE  Keeps(c, d)
<1>1. \/ \E h \in ReadGuests, g \in GuestForms : d = [c EXCEPT !.guest[h] = g]
      \/ \E v \in VnetForms : d = [c EXCEPT !.vnet = v]
      \/ \E p \in Places : d = [c EXCEPT !.refs = (c.refs \ {p}) \cup ({p} \ c.refs)]
      \/ d = [c EXCEPT !.switch = ~c.switch]
      \/ d = [c EXCEPT !.pending = ~c.pending]
      \/ d = [c EXCEPT !.overlap = ~c.overlap]
  <2>1. CASE reading.kind = "status"
    BY <2>1 DEF Shifted, ReadGuests
  <2>2. CASE reading.kind = "lifecycle"
    BY <2>2 DEF Shifted
  <2>3. CASE reading.kind = "references"
    BY <2>3 DEF Shifted
  <2>4. QED
    BY <2>1, <2>2, <2>3 DEF Order
<1> USE FormsAssumption DEF ClusterStates, ReadGuests, Keeps
<1>2. CASE \E h \in ReadGuests, g \in GuestForms : d = [c EXCEPT !.guest[h] = g]
  BY <1>2
<1>3. CASE \E v \in VnetForms : d = [c EXCEPT !.vnet = v]
  BY <1>3
<1>4. CASE \E p \in Places : d = [c EXCEPT !.refs = (c.refs \ {p}) \cup ({p} \ c.refs)]
  BY <1>4
<1>5. CASE \/ d = [c EXCEPT !.switch = ~c.switch]
           \/ d = [c EXCEPT !.pending = ~c.pending]
           \/ d = [c EXCEPT !.overlap = ~c.overlap]
  BY <1>5
<1>6. QED
  BY <1>1, <1>2, <1>3, <1>4, <1>5, Zenon

\* Every step of a reading keeps the invariant.
LEMMA ReadingInductive ==
  ASSUME ReadingInv, [ReadingNext]_readingVars
  PROVE  ReadingInv'
<1> USE DEF ReadingInv, ReadingTypeOK
<1>1. ASSUME NEW k \in DOMAIN Order, Begin(k)
      PROVE  ReadingInv'
  <2>1. reading.kind = "none" /\ reading' = [reading EXCEPT !.kind = k] /\ past' = {cluster} /\ UNCHANGED <<cluster, seen>>
    BY <1>1 DEF Begin
  <2>2. Asked' = Asked
    BY <2>1 DEF Asked
  <2>3. DOMAIN seen = {}
    BY <2>1 DEF AnswersWereTrue, PastIsOfReading
  <2>4. k # "none"
    BY DEF Order
  <2>5. QED
    BY <2>1, <2>2, <2>3, <2>4 DEF AnswersWereTrue, PastIsOfReading
<1>2. CASE AskCluster
  <2> DEFINE r == Order[reading.kind][CHOOSE i \in Todo : \A j \in Todo : i <= j]
  <2>1. /\ reading.kind # "none" /\ ~Complete
        /\ reading' = [reading EXCEPT !.asked = Append(@, r)]
        /\ UNCHANGED <<cluster, past>>
    BY <1>2 DEF AskCluster
  <2>2. \/ ~Refuses(r, cluster) /\ seen' = [q \in DOMAIN seen \cup {r} |-> IF q = r THEN AnswerTo(r, cluster) ELSE seen[q]]
        \/ UNCHANGED seen
    BY <1>2 DEF AskCluster
  <2>3. r \in Requests /\ r \notin Asked
    BY <2>1, NextRequest
  <2>4. Asked' = Asked \cup {r}
    BY <2>1, <2>3, AskedGrows
  <2>5. ReadingTypeOK' /\ PastIsOfReading'
    <3>1. Append(reading.asked, r) \in Seq(Requests)
      BY <2>3
    <3> HIDE DEF r
    <3>2. reading'.kind = reading.kind /\ reading' \in [kind : {"none"} \cup DOMAIN Order, asked : Seq(Requests), shifts : Nat]
      BY <2>1, <3>1
    <3>3. QED
      BY <2>1, <3>2 DEF PastIsOfReading
  <2>6. AnswersWereTrue'
    <3>1. cluster \in past
      BY <2>1 DEF PastIsOfReading
    <3>2. CASE UNCHANGED seen
      BY <2>1, <2>4, <3>2 DEF AnswersWereTrue
    <3>3. CASE ~Refuses(r, cluster) /\ seen' = [q \in DOMAIN seen \cup {r} |-> IF q = r THEN AnswerTo(r, cluster) ELSE seen[q]]
      <4> HIDE DEF r
      <4>1. r \notin DOMAIN seen
        BY <2>3 DEF AnswersWereTrue
      <4>2. DOMAIN seen' = DOMAIN seen \cup {r} /\ seen'[r] = AnswerTo(r, cluster)
            /\ \A q \in DOMAIN seen : seen'[q] = seen[q]
        BY <3>3, <4>1
      <4>3. QED
        BY <2>1, <2>4, <3>1, <3>3, <4>2 DEF AnswersWereTrue
    <3>4. QED
      BY <2>2, <3>2, <3>3
  <2>7. QED
    BY <2>5, <2>6
<1>3. CASE Shift
  <2>1. /\ reading.kind # "none" /\ cluster' \in Shifted(cluster) /\ past' = past \cup {cluster'}
        /\ reading' = [reading EXCEPT !.shifts = @ + 1] /\ UNCHANGED seen
    BY <1>3 DEF Shift
  <2>2. cluster' \in ClusterStates /\ cluster'.visible = cluster.visible /\ cluster'.alone = cluster.alone
    BY <2>1, ShiftsKeep DEF Keeps
  <2>3. Asked' = Asked
    BY <2>1 DEF Asked
  <2>4. QED
    BY <2>1, <2>2, <2>3 DEF AnswersWereTrue, PastIsOfReading
<1>4. CASE UNCHANGED readingVars
  BY <1>4 DEF readingVars, AnswersWereTrue, PastIsOfReading, Asked
<1>5. QED
  BY <1>1, <1>2, <1>3, <1>4 DEF ReadingNext

\* What single requests are told.
LEMMA Answers ==
  ASSUME NEW c
  PROVE  /\ AnswerTo("switch", c) = c.switch
         /\ AnswerTo("inventory", c) = Listed(c)
         /\ AnswerTo("vacancy", c) = ~Holds(c, "ours")
         /\ AnswerTo("ours", c) = c.guest["ours"]
         /\ AnswerTo("other", c) = c.guest["other"]
         /\ AnswerTo("sdn", c) = [vnet |-> c.vnet, pending |-> c.pending]
         /\ AnswerTo("pending", c) = c.pending
         /\ AnswerTo("active", c) = c.vnet.active
         /\ AnswerTo("permissions", c) = (c.visible = ReadGuests)
         /\ AnswerTo("nodes", c) = c.alone
         /\ AnswerTo("interfaces", c) = c.overlap
BY DEF AnswerTo, ReadGuests, Places

\* What the question about a place is answered with.
LEMMA PlaceAnswers ==
  ASSUME NEW c, NEW r \in Places
  PROVE  AnswerTo(r, c) = (r \in c.refs)
BY DEF AnswerTo, ReadGuests, Places

\* What the reports are computed from: at the end of a reading an answer is
\* there unless it was not needed or failed, and each was true once.
LEMMA CompleteHasAnswers ==
  ASSUME ReadingInv, Complete, NEW i \in 1..Len(Order[reading.kind]), Needed(Order[reading.kind][i]),
         ~Failed(Order[reading.kind][i]), ~Stops
  PROVE  HasAnswered(Order[reading.kind][i])
BY DEF Complete, Todo, Failed, HasAnswered

\* A status that is complete has an answer to what it needed.
LEMMA StatusHasAnswers ==
  ASSUME ReadingInv, reading.kind = "status", Complete,
         NEW r \in {"switch", "inventory", "vacancy", "ours", "options", "sdn", "pending", "active"},
         Needed(r), ~Failed(r)
  PROVE  HasAnswered(r)
<1>1. ~Stops
  BY DEF Stops
<1>2. PICK i \in 1..8 : Order["status"][i] = r
  BY DEF Order
<1>3. Len(Order["status"]) = 8
  BY DEF Order
<1>4. QED
  BY <1>1, <1>2, <1>3, CompleteHasAnswers

\* The answer about the SDN was that of one moment.
LEMMA SdnAnswered ==
  ASSUME \A r \in DOMAIN seen : \E c \in past : ~Refuses(r, c) /\ seen[r] = AnswerTo(r, c), HasAnswered("sdn")
  PROVE  \E c \in past : seen["sdn"].vnet = c.vnet /\ seen["sdn"].pending = c.pending
<1>1. PICK c \in past : seen["sdn"] = AnswerTo("sdn", c)
  BY DEF HasAnswered
<1>2. seen["sdn"] = [vnet |-> c.vnet, pending |-> c.pending]
  BY <1>1, Answers
<1>3. QED
  BY <1>2

\* What a status claims was true.
LEMMA StatusIsHonest ==
  ASSUME ReadingInv
  PROVE  HonestStatus
<1> SUFFICES ASSUME reading.kind = "status", Complete
             PROVE  /\ GuestStatus = "owned" => \E c \in past : c.guest["ours"].kind = "own"
                    /\ GuestStatus = "missing" => \E c \in past : ~Holds(c, "ours")
                    /\ GuestStatus = "conflict" => \E c \in past : c.guest["ours"].kind \in {"stray", "renamed"}
                    /\ Filtering = "yes" => (\E c \in past : c.switch) /\ \E c \in past : c.guest["ours"].nic = "filtered"
                    /\ SdnPending = "no" => \E c \in past : ~c.pending
                    /\ VnetIdentity = "yes" => \E c \in past : c.vnet.same
                    /\ VnetActive = "yes" => \E c \in past : c.vnet.active
  BY DEF HonestStatus
<1>1. \A r \in DOMAIN seen : \E c \in past : ~Refuses(r, c) /\ seen[r] = AnswerTo(r, c)
  BY DEF ReadingInv, AnswersWereTrue
<1>2. /\ Failed("inventory") \/ HasAnswered("inventory")
      /\ Failed("switch") \/ HasAnswered("switch")
      /\ Failed("sdn") \/ HasAnswered("sdn")
  BY StatusHasAnswers DEF Needed
<1>3. /\ HasAnswered("inventory") /\ ~Lists("ours") => Failed("vacancy") \/ HasAnswered("vacancy")
      /\ Named("ours") => Failed("ours") \/ HasAnswered("ours")
      /\ HasAnswered("ours") /\ seen["ours"].kind = "own" => Failed("options") \/ HasAnswered("options")
  BY StatusHasAnswers DEF Needed
<1>4. /\ HasAnswered("sdn") /\ ~seen["sdn"].pending => Failed("pending") \/ HasAnswered("pending")
      /\ HasAnswered("sdn") /\ ~Failed("pending") => Failed("active") \/ HasAnswered("active")
  BY StatusHasAnswers DEF Needed
<1>5. HasAnswered("ours") => \E c \in past : c \in ClusterStates /\ Holds(c, "ours") /\ seen["ours"] = c.guest["ours"]
  BY <1>1, Answers DEF HasAnswered, Refuses, ReadingInv, ReadingTypeOK
<1>6. GuestStatus = "owned" => HasAnswered("ours") /\ seen["ours"].kind = "own"
  BY <1>2, <1>3 DEF GuestStatus, Lists, Named
<1>7. GuestStatus = "missing" => \E c \in past : ~Holds(c, "ours")
  <2>1. GuestStatus = "missing" => HasAnswered("vacancy") /\ seen["vacancy"]
    BY <1>2, <1>3 DEF GuestStatus, Lists, Named
  <2>2. HasAnswered("vacancy") => \E c \in past : seen["vacancy"] = ~Holds(c, "ours")
    BY <1>1, Answers DEF HasAnswered
  <2>3. QED
    BY <2>1, <2>2
<1>8. GuestStatus = "conflict" => \E c \in past : c.guest["ours"].kind \in {"stray", "renamed"}
  <2>1. GuestStatus = "conflict" => \/ (Lists("ours") /\ ~Named("ours"))
                                     \/ (HasAnswered("ours") /\ seen["ours"].kind # "own")
    BY <1>2, <1>3 DEF GuestStatus, Lists, Named
  <2>2. CASE Lists("ours") /\ ~Named("ours")
    <3>1. PICK c \in past : seen["inventory"] = Listed(c)
      BY <1>1, <2>2, Answers DEF Lists, HasAnswered
    <3>2. \E entry \in Listed(c) : entry.guest = "ours" /\ [guest |-> "ours", named |-> TRUE] \notin Listed(c)
      BY <2>2, <3>1 DEF Lists, Named
    <3>3. SUFFICES ASSUME c.guest["ours"].kind # "renamed"
                   PROVE  FALSE
      OBVIOUS
    <3>4. PICK g \in c.visible : Holds(c, g) /\ g = "ours"
      BY <3>2 DEF Listed
    <3>5. [guest |-> g, named |-> c.guest[g].kind # "renamed"] \in Listed(c)
      BY <3>4 DEF Listed
    <3>6. (c.guest[g].kind # "renamed") = TRUE
      BY <3>3, <3>4
    <3>7. QED
      BY <3>2, <3>4, <3>5, <3>6
  <2>3. CASE HasAnswered("ours") /\ seen["ours"].kind # "own"
    BY <1>5, <2>3 DEF ClusterStates, FormsOfGuests, Holds, ReadGuests
  <2>4. QED
    BY <2>1, <2>2, <2>3
<1>9. Filtering = "yes" => (\E c \in past : c.switch) /\ \E c \in past : c.guest["ours"].nic = "filtered"
  <2>1. Filtering = "yes" => HasAnswered("switch") /\ seen["switch"] /\ HasAnswered("ours") /\ seen["ours"].nic = "filtered"
    BY <1>2, <1>6 DEF Filtering
  <2>2. HasAnswered("switch") => \E c \in past : seen["switch"] = c.switch
    BY <1>1, Answers DEF HasAnswered
  <2>3. QED
    BY <2>1, <2>2, <1>5
<1>10. SdnPending = "no" => HasAnswered("sdn") /\ ~seen["sdn"].pending /\ HasAnswered("active")
  BY <1>2, <1>4 DEF SdnPending
<1>11. HasAnswered("sdn") => \E c \in past : seen["sdn"].vnet = c.vnet /\ seen["sdn"].pending = c.pending
  BY <1>1, SdnAnswered
<1>12. HasAnswered("active") => \E c \in past : seen["active"] = c.vnet.active
  BY <1>1, Answers DEF HasAnswered
<1>13. SdnPending = "no" => \E c \in past : ~c.pending
  BY <1>10, <1>11
<1>14. VnetIdentity = "yes" => \E c \in past : c.vnet.same
  BY <1>10, <1>11 DEF VnetIdentity
<1>15. VnetActive = "yes" => \E c \in past : c.vnet.active
  BY <1>10, <1>12 DEF VnetActive
<1>16. QED
  BY <1>5, <1>6, <1>7, <1>8, <1>9, <1>13, <1>14, <1>15

\* A reading for a plan that was not refused has an answer to all it needed.
LEMMA PlanHasAnswers ==
  ASSUME ReadingInv, reading.kind \in {"lifecycle", "references"}, Complete, ~Stops,
         NEW i \in 1..Len(Order[reading.kind]), Needed(Order[reading.kind][i])
  PROVE  HasAnswered(Order[reading.kind][i])
<1>1. \A r \in Asked : ~Failed(r)
  BY DEF Stops
<1>2. ~Failed(Order[reading.kind][i])
  BY <1>1 DEF Failed
<1>3. QED
  BY <1>2, CompleteHasAnswers

\* The token of such a reading sees every guest, whenever it is asked for the
\* list.
LEMMA ListIsComplete ==
  ASSUME ReadingInv, HasAnswered("permissions"), seen["permissions"], HasAnswered("inventory"),
         NEW g \in ReadGuests, \A c \in past : Holds(c, g)
  PROVE  Lists(g)
<1>1. \A r \in DOMAIN seen : \E c \in past : ~Refuses(r, c) /\ seen[r] = AnswerTo(r, c)
  BY DEF ReadingInv, AnswersWereTrue
<1>2. PICK c \in past : c.visible = ReadGuests
  BY <1>1, Answers DEF HasAnswered
<1>3. PICK d \in past : seen["inventory"] = Listed(d)
  BY <1>1, Answers DEF HasAnswered
<1>4. d.visible = ReadGuests
  BY <1>2, <1>3 DEF ReadingInv, PastIsOfReading
<1>5. [guest |-> g, named |-> d.guest[g].kind # "renamed"] \in Listed(d)
  BY <1>3, <1>4 DEF Listed
<1>6. QED
  BY <1>3, <1>5 DEF Lists

\* A reading that claims to be complete has looked everywhere.
LEMMA ReadingsAreComplete ==
  ASSUME ReadingInv
  PROVE  CompleteReadings
<1>1. \A r \in DOMAIN seen : \E c \in past : ~Refuses(r, c) /\ seen[r] = AnswerTo(r, c)
  BY DEF ReadingInv, AnswersWereTrue
<1>2. ASSUME LifecycleAvailable
      PROVE  /\ \A g \in ReadGuests : (\A c \in past : c.guest[g].nic # "none") => g \in Attachments
             /\ (\A c \in past : c.overlap) => Clashes
             /\ \E c \in past : c.alone /\ ~c.pending
             /\ Deletable => \E c \in past : c.vnet.marked /\ c.vnet.same
  <2>1. reading.kind = "lifecycle" /\ Complete /\ ~Stops
    BY <1>2 DEF LifecycleAvailable
  <2>2. /\ HasAnswered("permissions") /\ HasAnswered("nodes") /\ HasAnswered("sdn")
        /\ HasAnswered("interfaces") /\ HasAnswered("inventory")
        /\ Lists("ours") => HasAnswered("ours")
        /\ Lists("other") => HasAnswered("other")
    <3>1. /\ Len(Order["lifecycle"]) = 8
          /\ Order["lifecycle"][1] = "permissions" /\ Order["lifecycle"][2] = "nodes"
          /\ Order["lifecycle"][3] = "sdn" /\ Order["lifecycle"][5] = "interfaces"
          /\ Order["lifecycle"][6] = "inventory" /\ Order["lifecycle"][7] = "ours" /\ Order["lifecycle"][8] = "other"
      BY DEF Order
    <3>2. \A i \in 1..8 : Needed(Order["lifecycle"][i]) => HasAnswered(Order["lifecycle"][i])
      BY <2>1, <3>1, PlanHasAnswers
    <3>3. /\ Needed("permissions") /\ Needed("nodes") /\ Needed("sdn") /\ Needed("interfaces") /\ Needed("inventory")
          /\ Needed("ours") <=> Lists("ours")
          /\ Needed("other") <=> Lists("other")
      BY <2>1 DEF Needed
    <3>4. QED
      BY <3>1, <3>2, <3>3
  <2>3. seen["permissions"] /\ seen["nodes"] /\ ~seen["sdn"].pending
    BY <2>1, <2>2 DEF Stops
  <2>4. ASSUME NEW g \in ReadGuests, \A c \in past : c.guest[g].nic # "none"
        PROVE  g \in Attachments
    <3>1. \A c \in past : Holds(c, g)
      BY <2>4 DEF ReadingInv, ReadingTypeOK, ClusterStates, FormsOfGuests, Holds
    <3>2. HasAnswered(g)
      BY <2>2, <2>3, <3>1, ListIsComplete DEF ReadGuests
    <3>3. \E c \in past : seen[g] = c.guest[g]
      <4>1. \A c \in past : AnswerTo(g, c) = c.guest[g]
        BY Answers DEF ReadGuests
      <4>2. QED
        BY <1>1, <3>2, <4>1 DEF HasAnswered
    <3>4. QED
      BY <2>4, <3>2, <3>3 DEF Attachments
  <2>5. (\A c \in past : c.overlap) => Clashes
    BY <1>1, <2>2, Answers DEF HasAnswered, Clashes
  <2>6. \E c \in past : seen["sdn"].vnet = c.vnet /\ seen["sdn"].pending = c.pending
    BY <1>1, <2>2, SdnAnswered
  <2>7. \A c \in past : c.alone
    BY <1>1, <2>2, <2>3, Answers DEF HasAnswered, ReadingInv, PastIsOfReading
  <2>8. \E c \in past : c.alone /\ ~c.pending
    BY <2>3, <2>6, <2>7
  <2>9. Deletable => \E c \in past : c.vnet.marked /\ c.vnet.same
    BY <2>6 DEF Deletable
  <2>10. QED
    BY <2>4, <2>5, <2>8, <2>9
<1>3. ASSUME Unreferenced, NEW p \in Places,
             p = "ours rules" => Throughout("ours"), p = "other rules" => Throughout("other")
      PROVE  \E c \in past : p \notin c.refs
  <2>1. reading.kind = "references" /\ Complete /\ ~Stops /\ (HasAnswered(p) => ~seen[p])
    BY <1>3 DEF Unreferenced
  <2>2. ASSUME NEW r \in Places \cup {"permissions", "inventory"}, Needed(r)
        PROVE  HasAnswered(r)
    <3>1. PICK i \in 1..7 : Order["references"][i] = r
      BY ReferencesInOrder
    <3>2. QED
      BY <2>1, <2>2, <3>1, ReferencesInOrder, PlanHasAnswers
  <2>3. /\ Needed("permissions") /\ Needed("inventory")
        /\ Needed("rules") /\ Needed("node rules") /\ Needed("group rules")
        /\ Needed("ours rules") <=> Lists("ours")
        /\ Needed("other rules") <=> Lists("other")
    BY DEF Needed
  <2>4. HasAnswered("permissions") /\ HasAnswered("inventory")
    BY <2>2, <2>3
  <2>5. seen["permissions"]
    BY <2>1, <2>4 DEF Stops
  <2>6. \A g \in ReadGuests : Throughout(g) => Lists(g)
    BY <2>4, <2>5, ListIsComplete DEF Throughout
  <2>7. Needed(p)
    BY <1>3, <2>3, <2>6 DEF Places, ReadGuests
  <2>8. HasAnswered(p)
    BY <2>2, <2>7
  <2>9. \E c \in past : seen[p] = (p \in c.refs)
    BY <1>1, <2>8, PlaceAnswers DEF HasAnswered
  <2>10. QED
    BY <2>1, <2>8, <2>9
<1>4. Deletable => LifecycleAvailable
  BY DEF Deletable
<1>5. QED
  BY <1>2, <1>3, <1>4 DEF CompleteReadings

\* Every answer that a reading works with was true during it.
THEOREM ReadingInvariance == ReadingSpec => []ReadingInv
<1>1. ReadingInit => ReadingInv
  BY ClustersAssumption DEF ReadingInit, NoReading, ReadingInv, ReadingTypeOK, AnswersWereTrue, PastIsOfReading, Asked
<1>2. QED
  BY <1>1, ReadingInductive, PTL DEF ReadingSpec

\* However the cluster moves, what a reading reports and what plans are made on
\* was true of it, for any clusters, forms and number of changes.
THEOREM ReadingsAreHonestHolds == ReadingSpec => []ReadingsAreHonest
<1>1. ReadingInv => ReadingsAreHonest
  BY StatusIsHonest, ReadingsAreComplete DEF ReadingsAreHonest
<1>2. QED
  BY <1>1, ReadingInvariance, PTL

-----------------------------------------------------------------------------
(* PinnedScenario.                                                         *)

JobStages == {"idle", "enter", "init", "clone", "fetch", "place", "reset", "clean", "verify", "run"}
Jobs == [step : JobStages, scope : JobScopes \cup {"none"}, asked : Revisions, at : Dirs]
Checkouts == [git : BOOLEAN, head : Revisions, tree : Revisions, stray : BOOLEAN]

PinnedTypeOK == label \in Scenarios /\ job \in Jobs /\ dir \in [Dirs -> Checkouts]

\* What was accepted: a scope the scenario has, and another commit than the
\* pinned one for configure only.
JobIsValid == job.step # "idle" =>
  /\ label \in {"concrete", "native"} /\ job.scope \in JobScopes /\ ScopeIsValid(job.scope)
  /\ Revision \in Commits
  /\ Revision # Pinned => label = "concrete" /\ job.scope = "configure"

\* A directory that holds exactly the files of a commit.
HoldsCommit(d, c) == d.tree = c /\ d.head = c /\ ~d.stray

\* How far the checkout under way has come: a new directory has nothing that
\* git did not write, one that is used again loses it in the end.
CheckoutGoesOn ==
  /\ job.step \in {"clone", "place"} => ~Here.stray
  /\ job.step = "clean" => Here.tree = Sought /\ Here.head = Sought
  /\ job.step = "verify" => Here.tree = Here.head /\ ~Here.stray

\* What was found fit stays so while the baseline is fetched beside it.
FitIsKept ==
  /\ job.step = "idle" => job.at = "checkout"
  /\ job.at = "checkout-baseline" \/ job.step = "run" =>
       HoldsCommit(dir["checkout"], Revision) /\ CommitIsFit(Revision)
  /\ job.step = "run" => job.at = "checkout-baseline" \/ ~NeedsBaseline
  /\ job.step = "run" /\ NeedsBaseline => SameTargets(Revision)

RunsAreOfPinned == RunsArePinned /\ \A r \in launched : label = "concrete" => TargetsOf(r.commit) = TargetsOf(Pinned)

PinnedInv == PinnedTypeOK /\ JobIsValid /\ CheckoutGoesOn /\ FitIsKept /\ RunsAreOfPinned

\* A git command moves the attempt on and changes the directory at hand.
CommandRuns(next) ==
  /\ job.step \in JobStages \ {"idle", "verify", "run"} /\ next \in JobStages \ {"idle", "run"}
  /\ job' = [job EXCEPT !.step = next]
  /\ dir' = dir \/ \E d \in Checkouts : dir' = [dir EXCEPT ![job.at] = d]
  /\ UNCHANGED <<label, launched>>

\* A git command leaves a checkout that still fits what is said of it.
LEMMA CommandKeeps ==
  ASSUME PinnedInv, NEW next, CommandRuns(next)
  PROVE  PinnedTypeOK' /\ JobIsValid' /\ FitIsKept' /\ RunsAreOfPinned'
<1> USE CommitsAssumption DEF PinnedInv, PinnedTypeOK, Jobs
<1>1. /\ PinnedTypeOK'
      /\ job'.step = next /\ job'.scope = job.scope /\ job'.asked = job.asked /\ job'.at = job.at
      /\ job.at = "checkout-baseline" => dir'["checkout"] = dir["checkout"]
  BY DEF CommandRuns, Dirs, JobStages
<1>2. job.step \notin {"idle", "run"} /\ job'.step \notin {"idle", "run"} /\ UNCHANGED <<label, launched>>
  BY <1>1 DEF CommandRuns
<1>3. Revision' = Revision /\ \A c, k : Resolves(c, k)' = Resolves(c, k)
  BY <1>1 DEF Revision, Resolves
<1>4. JobIsValid'
  BY <1>1, <1>2, <1>3 DEF JobIsValid, ScopeIsValid
<1>5. FitIsKept'
  BY <1>1, <1>2, <1>3 DEF FitIsKept, HoldsCommit, CommitIsFit, BundlesAreValid
<1>6. RunsAreOfPinned'
  BY <1>2 DEF RunsAreOfPinned, RunsArePinned
<1>7. QED
  BY <1>1, <1>4, <1>5, <1>6

\* Every step of a pinned run keeps the invariant.
LEMMA PinnedInductive ==
  ASSUME PinnedInv, [PinnedNext]_pinnedVars
  PROVE  PinnedInv'
<1> USE CommitsAssumption DEF PinnedInv, PinnedTypeOK, Jobs
<1>0. Here \in Checkouts /\ NoDir \in Checkouts /\ job.at \in Dirs /\ Pinned \in Revisions /\ NoCommit \in Revisions
  BY DEF Here, NoDir, Checkouts, Revisions
<1>1. ASSUME NEW scope \in JobScopes, NEW asked \in Revisions, RequestJob(scope, asked)
      PROVE  PinnedInv'
  <2>1. /\ job' = [step |-> "enter", scope |-> scope, asked |-> IF scope = "configure" THEN asked ELSE NoCommit, at |-> "checkout"]
        /\ label # "installed" /\ ScopeIsValid(scope) /\ RevisionIsValid(scope, asked)
        /\ UNCHANGED <<label, dir, launched>>
    BY <1>1 DEF RequestJob
  <2>2. PinnedTypeOK'
    BY <2>1, <1>0 DEF JobStages, Dirs
  <2>3. JobIsValid'
    BY <2>1 DEF JobIsValid, ScopeIsValid, RevisionIsValid, Revision, Scenarios, Revisions
  <2>4. CheckoutGoesOn' /\ FitIsKept' /\ RunsAreOfPinned'
    BY <2>1 DEF CheckoutGoesOn, FitIsKept, RunsAreOfPinned, RunsArePinned
  <2>5. QED
    BY <2>2, <2>3, <2>4
<1>2. CASE Enter \/ GitInit \/ Fetch \/ GitCheckout \/ GitReset \/ GitClean
  <2>1. JobIsValid /\ (job.step # "idle" => Sought \in Revisions)
    BY <1>0 DEF JobIsValid, Sought, Revisions
  <2>2. CASE Enter
    <3>1. \E next \in {"init", "fetch", "reset"} : CommandRuns(next) /\ job'.step = next
      BY <1>0, <2>2 DEF Enter, JobSteps, DirBecomes, CommandRuns, JobStages
    <3>2. CheckoutGoesOn'
      BY <3>1 DEF CheckoutGoesOn
    <3>3. QED
      BY <3>1, <3>2, CommandKeeps
  <2>3. CASE GitInit
    <3>1. CommandRuns("clone") /\ job'.step = "clone" /\ job'.at = job.at /\ dir'[job.at].stray = FALSE
      BY <1>0, <2>3 DEF GitInit, JobSteps, DirBecomes, CommandRuns, JobStages, NoDir, Checkouts
    <3>2. CheckoutGoesOn'
      BY <3>1 DEF CheckoutGoesOn, Here
    <3>3. QED
      BY <3>1, <3>2, CommandKeeps
  <2>4. CASE Fetch
    <3>1. \E next \in {"reset", "place"} :
            CommandRuns(next) /\ job'.step = next /\ job'.at = job.at /\ dir' = dir /\ (next = "place" => job.step = "clone")
      BY <1>0, <2>4 DEF Fetch, JobSteps, CommandRuns, JobStages
    <3>2. CheckoutGoesOn'
      BY <3>1 DEF CheckoutGoesOn, Here
    <3>3. QED
      BY <3>1, <3>2, CommandKeeps
  <2>5. CASE GitCheckout
    <3>1. /\ CommandRuns("verify") /\ job'.step = "verify" /\ job'.at = job.at /\ job.step = "place"
          /\ dir'[job.at] = [Here EXCEPT !.head = Sought, !.tree = Sought]
      BY <1>0, <2>1, <2>5 DEF GitCheckout, JobSteps, DirBecomes, CommandRuns, JobStages, Checkouts
    <3>2. CheckoutGoesOn'
      BY <1>0, <3>1 DEF CheckoutGoesOn, Here, Checkouts
    <3>3. QED
      BY <3>1, <3>2, CommandKeeps
  <2>6. CASE GitReset
    <3>1. /\ CommandRuns("clean") /\ job'.step = "clean" /\ job'.at = job.at /\ job'.asked = job.asked
          /\ dir'[job.at] = [Here EXCEPT !.head = Sought, !.tree = Sought]
      BY <1>0, <2>1, <2>6 DEF GitReset, JobSteps, DirBecomes, CommandRuns, JobStages, Checkouts
    <3>2. Sought' = Sought
      BY <3>1 DEF Sought, Revision
    <3>3. CheckoutGoesOn'
      BY <1>0, <3>1, <3>2 DEF CheckoutGoesOn, Here, Checkouts
    <3>4. QED
      BY <3>1, <3>3, CommandKeeps
  <2>7. CASE GitClean
    <3>1. /\ CommandRuns("verify") /\ job'.step = "verify" /\ job'.at = job.at /\ job.step = "clean"
          /\ dir'[job.at] = [Here EXCEPT !.stray = FALSE]
      BY <1>0, <2>7 DEF GitClean, JobSteps, DirBecomes, CommandRuns, JobStages, Checkouts
    <3>2. CheckoutGoesOn'
      BY <1>0, <3>1 DEF CheckoutGoesOn, Here, Checkouts
    <3>3. QED
      BY <3>1, <3>2, CommandKeeps
  <2>8. QED
    BY <1>2, <2>2, <2>3, <2>4, <2>5, <2>6, <2>7
<1>3. CASE Examine
  <2>1. /\ job.step = "verify" /\ job.at = "checkout" /\ Here.head = Sought /\ CommitIsFit(Sought)
        /\ job' = IF NeedsBaseline THEN [job EXCEPT !.step = "enter", !.at = "checkout-baseline"]
                                   ELSE [job EXCEPT !.step = "run"]
        /\ UNCHANGED <<label, dir, launched>>
    BY <1>3 DEF Examine
  <2>2. /\ PinnedTypeOK' /\ job'.scope = job.scope /\ job'.asked = job.asked
        /\ job'.step \in {"enter", "run"} /\ (job'.step = "run" <=> ~NeedsBaseline) /\ (job'.step = "enter" <=> NeedsBaseline)
        /\ (job'.at = "checkout-baseline" <=> NeedsBaseline)
    BY <2>1 DEF JobStages, Dirs
  <2>3. Revision' = Revision /\ NeedsBaseline' = NeedsBaseline /\ CommitIsFit(Revision)' = CommitIsFit(Revision)
    BY <2>1, <2>2 DEF Revision, NeedsBaseline, CommitIsFit, Resolves, BundlesAreValid
  <2>4. Sought = Revision /\ HoldsCommit(dir["checkout"], Revision)
    BY <2>1 DEF Sought, HoldsCommit, CheckoutGoesOn, Here
  <2>5. JobIsValid'
    BY <2>1, <2>2, <2>3 DEF JobIsValid, ScopeIsValid
  <2>6. FitIsKept'
    BY <2>1, <2>2, <2>3, <2>4 DEF FitIsKept, HoldsCommit
  <2>7. CheckoutGoesOn' /\ RunsAreOfPinned'
    BY <2>1, <2>2 DEF CheckoutGoesOn, RunsAreOfPinned, RunsArePinned
  <2>8. QED
    BY <2>2, <2>5, <2>6, <2>7
<1>4. CASE Compare
  <2>1. /\ job.at = "checkout-baseline" /\ job' = [job EXCEPT !.step = "run"] /\ SameTargets(Revision)
        /\ job.step = "verify" /\ UNCHANGED <<label, dir, launched>>
    BY <1>4 DEF Compare
  <2>2. PinnedTypeOK' /\ job'.step = "run" /\ job'.scope = job.scope /\ job'.asked = job.asked /\ job'.at = job.at
    BY <2>1 DEF JobStages
  <2>3. /\ Revision' = Revision /\ CommitIsFit(Revision)' = CommitIsFit(Revision)
        /\ SameTargets(Revision)' = SameTargets(Revision)
    BY <2>1, <2>2 DEF Revision, CommitIsFit, Resolves, BundlesAreValid, SameTargets, TargetsOf
  <2>4. JobIsValid'
    BY <2>1, <2>2, <2>3 DEF JobIsValid, ScopeIsValid
  <2>5. FitIsKept'
    BY <2>1, <2>2, <2>3 DEF FitIsKept, HoldsCommit
  <2>6. CheckoutGoesOn' /\ RunsAreOfPinned'
    BY <2>1, <2>2 DEF CheckoutGoesOn, RunsAreOfPinned, RunsArePinned
  <2>7. QED
    BY <2>2, <2>4, <2>5, <2>6
<1>5. CASE Launch
  <2>1. /\ job.step = "run" /\ job' = NoJob /\ launched' = launched \cup {LaunchedNow} /\ UNCHANGED label
        /\ dir' = [dir EXCEPT !["checkout"] = [@ EXCEPT !.tree = NoCommit, !.stray = TRUE]]
    BY <1>5 DEF Launch
  <2>2. LaunchedNow = [scope |-> job.scope, commit |-> Revision, stray |-> FALSE, at |-> Revision]
    BY <2>1 DEF LaunchedNow, FitIsKept, HoldsCommit, Dirs, Checkouts
  <2>3. PinnedTypeOK'
    BY <1>0, <2>1 DEF Dirs, Checkouts, NoJob, JobStages
  <2>4. JobIsValid' /\ CheckoutGoesOn' /\ FitIsKept'
    BY <2>1 DEF NoJob, JobIsValid, CheckoutGoesOn, FitIsKept
  <2>5. CommitIsFit(Revision) /\ JobIsValid /\ (label = "concrete" => TargetsOf(Revision) = TargetsOf(Pinned))
    BY <2>1 DEF FitIsKept, NeedsBaseline, SameTargets
  <2>6. /\ Revision \in Commits /\ label \in {"concrete", "native"}
        /\ Revision # Pinned => label = "concrete" /\ job.scope = "configure"
        /\ label = "concrete" => Entrypoint[job.scope] \in Saved[Revision].files \ Saved[Revision].outside
        /\ label = "native" => job.scope \in Declares(Revision)
    BY <2>1, <2>5 DEF JobIsValid, CommitIsFit, Resolves
  <2>7. RunsAreOfPinned'
    <3> DEFINE Pins(r) == /\ r.commit = r.at /\ r.commit \in Commits /\ ~r.stray
                          /\ label \in {"concrete", "native"}
                          /\ r.commit # Pinned => label = "concrete" /\ r.scope = "configure"
                          /\ label = "concrete" =>
                               /\ Entrypoint[r.scope] \in Saved[r.commit].files \ Saved[r.commit].outside
                               /\ TargetsOf(r.commit) = TargetsOf(Pinned)
                          /\ label = "native" => r.scope \in Declares(r.commit)
    <3>1. Pins(LaunchedNow)
      BY <2>2, <2>5, <2>6
    <3>2. \A r \in launched : Pins(r)
      BY DEF RunsAreOfPinned, RunsArePinned
    <3>3. \A r \in launched' : Pins(r)
      BY <2>1, <3>1, <3>2
    <3>4. UNCHANGED label
      BY <2>1
    <3>5. QED
      BY <3>3, <3>4 DEF RunsAreOfPinned, RunsArePinned
  <2>8. QED
    BY <2>3, <2>4, <2>7
<1>6. CASE JobFails
  <2>1. job' = NoJob /\ UNCHANGED <<label, launched>>
        /\ (dir' = dir \/ dir' = [dir EXCEPT ![job.at] = [Here EXCEPT !.tree = NoCommit, !.stray = TRUE]])
    BY <1>6 DEF JobFails, BrokenOff, DirBecomes
  <2>2. PinnedTypeOK'
    <3>1. [Here EXCEPT !.tree = NoCommit, !.stray = TRUE] \in Checkouts
      BY <1>0 DEF Checkouts
    <3>2. dir' \in [Dirs -> Checkouts]
      BY <1>0, <2>1, <3>1
    <3>3. job' \in Jobs
      BY <1>0, <2>1 DEF NoJob, JobStages, Dirs
    <3>4. QED
      BY <2>1, <3>2, <3>3
  <2>3. JobIsValid' /\ CheckoutGoesOn' /\ FitIsKept' /\ RunsAreOfPinned'
    BY <2>1 DEF NoJob, JobIsValid, CheckoutGoesOn, FitIsKept, RunsAreOfPinned, RunsArePinned
  <2>4. QED
    BY <2>2, <2>3
<1>7. CASE UNCHANGED pinnedVars
  BY <1>7 DEF pinnedVars, JobIsValid, ScopeIsValid, Revision, CheckoutGoesOn, Here, Sought, FitIsKept, HoldsCommit,
               CommitIsFit, NeedsBaseline, SameTargets, RunsAreOfPinned, RunsArePinned, TargetsOf, Resolves, BundlesAreValid
<1>8. QED
  BY <1>1, <1>2, <1>3, <1>4, <1>5, <1>6, <1>7 DEF PinnedNext

\* Whatever earlier attempts, git and users left in the checkouts, a run starts
\* on a directory that holds exactly its commit, which was found fit.
THEOREM PinnedInvariance == PinnedSpec => []PinnedInv
<1>1. PinnedInit => PinnedInv
  BY CommitsAssumption DEF PinnedInit, NoJob, NoDir, PinnedInv, PinnedTypeOK, JobStages, Jobs, Checkouts, Dirs, Revisions,
     JobIsValid, CheckoutGoesOn, Here, FitIsKept, RunsAreOfPinned, RunsArePinned
<1>2. QED
  BY <1>1, PinnedInductive, PTL DEF PinnedSpec

-----------------------------------------------------------------------------
(* NativeWorkflow.                                                         *)

\* The entrypoint of an action is a file of the scenario.
LEMMA EntrypointsAreFiles ==
  ASSUME NEW tree, Inspected(tree), NEW a \in DOMAIN Actions(tree)
  PROVE  a \in NativeActions /\ Actions(tree)[a] \in tree.files
<1>1. a \in NativeActions /\ Actions(tree)[a] \in Entries(tree, a)
  BY DEF Actions
<1>2. Entries(tree, a) \subseteq tree.files
  <2>1. CASE a \in DOMAIN tree.declares
    BY <2>1 DEF Entries, Inspected
  <2>2. CASE a \notin DOMAIN tree.declares
    <3>1. Candidates(tree, a) \subseteq tree.files
      BY DEF Candidates, Scripts
    <3>2. QED
      BY <2>2, <3>1 DEF Entries
  <2>3. QED
    BY <2>1, <2>2
<1>3. QED
  BY <1>1, <1>2

\* In the copy without the shim every action answers to its own name.
LEMMA AliasesLead ==
  ASSUME NEW tree, Inspected(tree), "none" \notin tree.files, ~Conflicts(tree, Actions(tree))
  PROVE  LET files == Aliased(tree, Actions(tree)) IN
         /\ \A f \in tree.files : f \in DOMAIN files /\ files[f] = Own(f)
         /\ \A a \in DOMAIN Actions(tree) :
              /\ OwnName[a] \in DOMAIN files
              /\ files[OwnName[a]] = Alias(Actions(tree)[a]) \/ OwnName[a] = Actions(tree)[a]
<1> DEFINE acts == Actions(tree)
           files == Aliased(tree, acts)
<1>1. \A f \in tree.files : f \in DOMAIN files /\ files[f] = Own(f)
  BY DEF Aliased
<1>2. ASSUME NEW a \in DOMAIN acts
      PROVE  /\ OwnName[a] \in DOMAIN files
             /\ files[OwnName[a]] = Alias(acts[a]) \/ OwnName[a] = acts[a]
  <2>1. acts[a] \in tree.files /\ a \in NativeActions
    BY EntrypointsAreFiles
  <2>2. CASE OwnName[a] = acts[a]
    BY <1>1, <2>1, <2>2
  <2>3. CASE OwnName[a] # acts[a]
    <3>1. a \in Renamed(acts) /\ OwnName[a] \notin tree.files
      BY <2>3 DEF Renamed, Conflicts
    <3>2. \A b \in Renamed(acts) : OwnName[b] = OwnName[a] => b = a
      <4>1. \A b \in NativeActions : OwnName[b] = OwnName[a] => b = a
        BY <2>1 DEF NativeActions, OwnName
      <4>2. Renamed(acts) \subseteq NativeActions
        BY EntrypointsAreFiles DEF Renamed
      <4>3. QED
        BY <4>1, <4>2
    <3>3. (CHOOSE b \in Renamed(acts) : OwnName[b] = OwnName[a]) = a
      BY <3>1, <3>2
    <3>4. QED
      BY <3>1, <3>3 DEF Aliased
  <2>4. QED
    BY <2>2, <2>3
<1>3. QED
  BY <1>1, <1>2

\* A name that leads to a saved file, at once or over one or two others, comes
\* to that file's content.
LEMMA ContentFollows ==
  ASSUME NEW files, NEW f, f # "none", files[f] = Own(f)
  PROVE  /\ ContentOf(files, f) = f
         /\ \A g : files[g] = Alias(f) => ContentOf(files, g) = f
         /\ \A g, h : g # "none" /\ files[g] = Alias(f) /\ files[h] = Alias(g) => ContentOf(files, h) = f
<1>1. NextFile(files, f) = f /\ files[f].saved = f
  BY DEF NextFile, Own
<1>2. ASSUME NEW g, files[g] = Alias(f)
      PROVE  NextFile(files, g) = f
  BY <1>2 DEF NextFile, Alias
<1>3. ASSUME NEW g, NEW h, g # "none", files[h] = Alias(g)
      PROVE  NextFile(files, h) = g
  BY <1>3 DEF NextFile, Alias
<1>4. QED
  BY <1>1, <1>2, <1>3 DEF ContentOf

\* The name an action is started by leads to its own file in the copy.
LEMMA RunOfAction ==
  ASSUME NEW tree, Inspected(tree), "none" \notin tree.files, ~Conflicts(tree, Actions(tree)),
         NEW scope \in DOMAIN Actions(tree), NEW files, files = ViewOf(tree, Actions(tree), scope)
  PROVE  /\ ~(scope = "configure" /\ ShimLoops(tree)) =>
               ContentOf(files, Dispatched[scope]) = Actions(tree)[scope]
         /\ \A a \in DOMAIN Actions(tree) : scope # "configure" => ContentOf(files, OwnName[a]) = Actions(tree)[a]
         /\ \A f \in tree.files : ~(scope = "configure" /\ f = "s.setup.sh") => files[f].saved = f
<1> DEFINE acts == Actions(tree)
           aliased == Aliased(tree, acts)
<1>1. /\ \A f \in tree.files : f \in DOMAIN aliased /\ aliased[f] = Own(f)
      /\ \A a \in DOMAIN acts : /\ OwnName[a] \in DOMAIN aliased
                                /\ aliased[OwnName[a]] = Alias(acts[a]) \/ OwnName[a] = acts[a]
  BY AliasesLead
<1>2. \A a \in DOMAIN acts : a \in NativeActions /\ acts[a] \in tree.files /\ acts[a] # "none"
  BY EntrypointsAreFiles
<1> HIDE DEF acts, aliased
<1>0. \A f : Own(f).saved = f
  BY DEF Own
<1>3. CASE scope # "configure"
  <2>1. files = aliased
    BY <1>3 DEF ViewOf, acts, aliased
  <2>2. \A a \in DOMAIN acts : ContentOf(files, OwnName[a]) = acts[a]
    BY <1>1, <1>2, <2>1, ContentFollows
  <2>3. \A f \in tree.files : files[f].saved = f
    BY <1>0, <1>1, <2>1
  <2>4. scope \in DOMAIN acts /\ Dispatched[scope] = OwnName[scope]
    BY <1>2, <1>3 DEF acts, NativeActions, Dispatched, OwnName
  <2>5. QED
    BY <1>3, <2>2, <2>3, <2>4 DEF acts
<1>4. CASE scope = "configure"
  <2>1. /\ files["s.setup.sh"] = Alias("s.configure.sh")
        /\ \A f \in DOMAIN aliased : f # "s.setup.sh" => files[f] = aliased[f]
    BY <1>4 DEF ViewOf, Shim, acts, aliased
  <2>2. \A f \in tree.files : f # "s.setup.sh" => files[f] = Own(f)
    BY <1>1, <2>1
  <2>3. ASSUME ~ShimLoops(tree)
        PROVE  ContentOf(files, "s.setup.sh") = acts["configure"]
    <3>1. acts["configure"] \in tree.files /\ acts["configure"] # "s.setup.sh" /\ acts["configure"] # "none"
      BY <1>2, <1>4, <2>3 DEF ShimLoops, acts
    <3>2. OwnName["configure"] = "s.configure.sh"
      BY DEF OwnName
    <3>3. "s.configure.sh" \in DOMAIN aliased
          /\ (aliased["s.configure.sh"] = Alias(acts["configure"]) \/ acts["configure"] = "s.configure.sh")
      BY <1>1, <1>4, <3>2 DEF acts
    <3>4. files[acts["configure"]] = Own(acts["configure"])
      BY <2>2, <3>1
    <3>5. files["s.configure.sh"] = Alias(acts["configure"]) \/ acts["configure"] = "s.configure.sh"
      BY <2>1, <3>3
    <3>6. QED
      BY <2>1, <3>1, <3>4, <3>5, ContentFollows
  <2>4. Dispatched["configure"] = "s.setup.sh"
    BY DEF Dispatched
  <2>5. \A f \in tree.files : f # "s.setup.sh" => files[f].saved = f
    BY <1>0, <2>2
  <2>6. QED
    BY <1>4, <2>3, <2>4, <2>5 DEF acts
<1>5. QED
  BY <1>3, <1>4

\* What a run was prepared from.
NativeForm(n) == n = [step |-> n.step, scope |-> n.scope, tree |-> n.tree, parameters |-> n.parameters,
                      vmids |-> n.vmids, address |-> n.address, protected |-> n.protected]

NativeInv ==
  /\ native.step \in {"none", "created", "runs"}
  /\ native.step # "none" => NativeForm(native) /\ native.tree \in Trees
  /\ native.step = "runs" =>
       /\ Inspected(native.tree) /\ native.scope \in DOMAIN Actions(native.tree)
       /\ ~Conflicts(native.tree, Actions(native.tree))
       /\ view = ViewOf(native.tree, Actions(native.tree), native.scope)
       /\ native.vmids = NativeVmids(native.tree, native.parameters)
       /\ native.vmids \cap native.protected = {}

\* Every step of a native run keeps the invariant.
LEMMA NativeInductive ==
  ASSUME NativeInv, [NativeNext]_nativeVars
  PROVE  NativeInv'
<1>1. ASSUME NEW tree \in Trees, NEW p \in Parameters, CreateNative(tree, p)
      PROVE  NativeInv'
  BY <1>1 DEF CreateNative, NativeInv, NativeForm
<1>2. ASSUME NEW scope \in NativeActions, PrepareNative(scope)
      PROVE  NativeInv'
  <2> DEFINE acts == Actions(native.tree)
             vmids == NativeVmids(native.tree, native.parameters)
             address == (CHOOSE c \in site.registry : c.id = 1).address
  <2>1. /\ native.step = "created" /\ Inspected(native.tree)
        /\ scope \in DOMAIN acts /\ vmids \cap site.host.protected = {} /\ ~Conflicts(native.tree, acts)
        /\ view' = ViewOf(native.tree, acts, scope)
        /\ native' = [native EXCEPT !.step = "runs", !.scope = scope, !.vmids = vmids, !.address = address,
                                    !.protected = site.host.protected]
    BY <1>2 DEF PrepareNative, Preparable
  <2>2. NativeForm(native) /\ native.tree \in Trees
    BY <2>1 DEF NativeInv
  <2> HIDE DEF acts, vmids, address
  <2>3. /\ native'.step = "runs" /\ native'.scope = scope /\ native'.tree = native.tree
        /\ native'.parameters = native.parameters /\ native'.vmids = vmids
        /\ native'.protected = site.host.protected /\ NativeForm(native')
    BY <2>1, <2>2 DEF NativeForm
  <2>4. QED
    BY <2>1, <2>2, <2>3 DEF NativeInv, acts, vmids
<1>3. CASE NativeEnds
  BY <1>3 DEF NativeEnds, NativeInv, NativeForm
<1>4. CASE SiteEdited \/ UNCHANGED nativeVars
  BY <1>4 DEF SiteEdited, nativeVars, NativeInv
<1>5. QED
  BY <1>1, <1>2, <1>3, <1>4 DEF NativeNext

\* A private copy that is prepared keeps the form _runtime_link gives it, and
\* a run has the entrypoint that its action names.
THEOREM NativeInvariance == NativeSpec => []NativeInv
<1>1. NativeInit => NativeInv
  BY DEF NativeInit, NoNative, NativeInv
<1>2. QED
  BY <1>1, NativeInductive, PTL DEF NativeSpec

\* What is executed is the saved commit, or for configure the valid one that was
\* asked for, and a native action runs its own entrypoint with files that are
\* in its copy: for every commit, tree and registry.
THEOREM RunsAreSavedHolds == PinnedSpec /\ NativeSpec => []RunsAreSaved
<1>1. PinnedInv => RunsArePinned
  BY DEF PinnedInv, RunsAreOfPinned
<1>2. ASSUME NativeInv
      PROVE  NativeRunsItsAction
  <2>1. SUFFICES ASSUME native.step = "runs"
                 PROVE  NativeRunsItsAction
    BY DEF NativeRunsItsAction
  <2> DEFINE tree == native.tree
             p == native.parameters
  <2>2. "none" \notin tree.files
    BY <1>2, <2>1, TreesAssumption DEF NativeInv
  <2>3. /\ ~(native.scope = "configure" /\ ShimLoops(tree)) =>
             ContentOf(view, Dispatched[native.scope]) = Actions(tree)[native.scope]
        /\ \A a \in DOMAIN Actions(tree) : native.scope # "configure" => ContentOf(view, OwnName[a]) = Actions(tree)[a]
        /\ \A f \in tree.files : ~(native.scope = "configure" /\ f = "s.setup.sh") => view[f].saved = f
    BY <1>2, <2>1, <2>2, RunOfAction DEF NativeInv
  <2>4. /\ tree.vmids \subseteq NativeVmids(tree, p)
        /\ \A n \in DOMAIN p : n \in {"x_vm_id", "y_vm_id"} => p[n] \in NativeVmids(tree, p)
        /\ \A n \in DOMAIN tree.literals : n \in DOMAIN p \/ tree.literals[n] \subseteq NativeVmids(tree, p)
    BY DEF NativeVmids, Targeted
  <2>5. native.vmids = NativeVmids(tree, p) /\ native.vmids \cap native.protected = {}
    BY <1>2, <2>1 DEF NativeInv
  <2>6. QED
    BY <2>3, <2>4, <2>5 DEF NativeRunsItsAction
<1>3. QED
  BY <1>1, <1>2, PinnedInvariance, NativeInvariance, PTL DEF RunsAreSaved

-----------------------------------------------------------------------------
(* RuntimeApply.                                                           *)

OperationRequests == RuleRequests \cup SwitchRequests \cup NetworkRequests \cup GuestRequests

\* The position at which a rule arrives is the one that was asked for.
LEMMA PositionIsKept ==
  ASSUME NEW q \in RuleRequests, q.action = "move"
  PROVE  (IF Insertion(q) > q.pos THEN Insertion(q) - 1 ELSE Insertion(q)) = q.to
  BY DEF RuleRequests, Insertion

\* Edits of a chain keep it a chain.
LEMMA ChainsAreKept ==
  ASSUME NEW s \in Seq(FirewallRules), NEW r \in FirewallRules, NEW i \in 1 .. Len(s), NEW j \in 1 .. Len(s)
  PROVE  /\ ReplaceAt(s, i, r) \in Seq(FirewallRules)
         /\ RemoveAt(s, i) \in Seq(FirewallRules)
         /\ InsertAt(RemoveAt(s, i), j, r) \in Seq(FirewallRules)
         /\ <<r>> \o s \in Seq(FirewallRules) /\ Tail(<<r>> \o s) = s
<1>1. ReplaceAt(s, i, r) \in Seq(FirewallRules)
  BY ExceptSeq DEF ReplaceAt
<1>2. \A k \in 1 .. Len(s) : s[k] \in FirewallRules
  BY ElementOfSeq
<1>3. /\ SubSeq(s, 1, i - 1) \in Seq(FirewallRules) /\ Len(SubSeq(s, 1, i - 1)) = i - 1
      /\ SubSeq(s, i + 1, Len(s)) \in Seq(FirewallRules) /\ Len(SubSeq(s, i + 1, Len(s))) = Len(s) - i
  <2>1. Len(s) \in Nat
    BY LenProperties
  <2>2. \A k \in 1 .. i - 1 : s[k] \in FirewallRules
    BY <1>2, <2>1
  <2>3. \A k \in i + 1 .. Len(s) : s[k] \in FirewallRules
    BY <1>2, <2>1
  <2>4. QED
    BY <2>1, <2>2, <2>3, SubSeqProperties
<1>4. RemoveAt(s, i) \in Seq(FirewallRules) /\ Len(RemoveAt(s, i)) = Len(s) - 1
  <2>1. Len(s) \in Nat
    BY LenProperties
  <2> DEFINE a == SubSeq(s, 1, i - 1)
  <2> DEFINE b == SubSeq(s, i + 1, Len(s))
  <2>2. a \o b \in Seq(FirewallRules) /\ Len(a \o b) = Len(a) + Len(b)
    BY <1>3, ConcatProperties
  <2>3. Len(a) = i - 1 /\ Len(b) = Len(s) - i
    BY <1>3
  <2> HIDE DEF a, b
  <2>4. Len(a) + Len(b) = Len(s) - 1
    BY <2>1, <2>3
  <2>5. QED
    BY <2>2, <2>4 DEF RemoveAt, a, b
<1>5. InsertAt(RemoveAt(s, i), j, r) \in Seq(FirewallRules)
  <2> DEFINE c == RemoveAt(s, i)
  <2>1. Len(s) \in Nat /\ c \in Seq(FirewallRules) /\ Len(c) = Len(s) - 1
    BY <1>4, LenProperties
  <2> HIDE DEF c
  <2>2. \A k \in 1 .. Len(c) : c[k] \in FirewallRules
    BY <2>1, ElementOfSeq
  <2>3. SubSeq(c, 1, j - 1) \in Seq(FirewallRules)
    <3>1. \A k \in 1 .. j - 1 : c[k] \in FirewallRules
      BY <2>1, <2>2
    <3>2. QED
      BY <3>1, SubSeqProperties
  <2>4. SubSeq(c, j, Len(c)) \in Seq(FirewallRules)
    <3>1. \A k \in j .. Len(c) : c[k] \in FirewallRules
      BY <2>1, <2>2
    <3>2. QED
      BY <2>1, <3>1, SubSeqProperties
  <2>5. <<r>> \in Seq(FirewallRules)
    OBVIOUS
  <2>6. QED
    BY <2>3, <2>4, <2>5, ConcatProperties DEF InsertAt, c
<1>6. <<r>> \o s \in Seq(FirewallRules) /\ Tail(<<r>> \o s) = s
  OBVIOUS
<1>7. QED
  BY <1>1, <1>4, <1>5, <1>6

\* A plan that is not refused of an operation on a rule: only an editable rule
\* is edited, deleted or moved, and what will be written is what was shown.
LEMMA RulePlans ==
  ASSUME NEW w \in WorldStates, NEW q \in RuleRequests, PlanOf(w, q) # Blocked
  PROVE  LET p == PlanOf(w, q) IN
         /\ p.kind = "rule" /\ p.todo = <<"write">> /\ p.guards = w.chain /\ p.before = w.chain
         /\ q.action # "create" => /\ Editable(w.chain[q.pos]) /\ Written(q, w.chain) = p.expected
                                   /\ p.expected \in Seq(FirewallRules)
         /\ q.action = "create" => \A c \in Seq(FirewallRules) :
              Written(q, c) \in Seq(FirewallRules) /\ Tail(Written(q, c)) = c
<1>1. q.kind = "rule" /\ q.action \in {"create", "edit", "delete", "move"}
  BY DEF RuleRequests
<1>2. PlanOf(w, q) = RulePlan(w, q)
  BY <1>1 DEF PlanOf
<1>3. w.chain \in Seq(FirewallRules) /\ Len(w.chain) \in Nat
  BY LenProperties DEF WorldStates
<1>4. /\ q.action # "create" => q.pos <= Len(w.chain) /\ Editable(w.chain[q.pos])
      /\ q.action = "move" => q.to <= Len(w.chain)
  <2>1. q.action # "create" => ~(q.pos > Len(w.chain) \/ ~Editable(w.chain[q.pos]))
    BY <1>2 DEF RulePlan
  <2>2. q.action = "move" => ~(q.to > Len(w.chain))
    BY <1>2 DEF RulePlan
  <2>3. q.action # "create" => q.pos \in Nat
    BY DEF RuleRequests
  <2>4. q.action = "move" => q.to \in Nat
    BY DEF RuleRequests
  <2>5. QED
    BY <1>3, <2>1, <2>2, <2>3, <2>4
<1>5. /\ RulePlan(w, q).kind = "rule" /\ RulePlan(w, q).todo = <<"write">>
      /\ RulePlan(w, q).guards = w.chain /\ RulePlan(w, q).before = w.chain
      /\ RulePlan(w, q).expected =
           CASE q.action = "create" -> <<q.rule>> \o w.chain
             [] q.action = "edit" -> ReplaceAt(w.chain, q.pos, q.rule)
             [] q.action = "delete" -> RemoveAt(w.chain, q.pos)
             [] q.action = "move" -> InsertAt(RemoveAt(w.chain, q.pos), q.to, w.chain[q.pos])
  BY <1>2, <1>4 DEF RulePlan
<1>6. CASE q.action = "create"
  <2>1. q.rule \in FirewallRules
    BY <1>6 DEF RuleRequests
  <2>2. \A c \in Seq(FirewallRules) : Written(q, c) = <<q.rule>> \o c
    BY <1>6 DEF Written
  <2>3. \A c \in Seq(FirewallRules) : <<q.rule>> \o c \in Seq(FirewallRules) /\ Tail(<<q.rule>> \o c) = c
    BY <2>1
  <2>4. QED
    BY <1>2, <1>5, <1>6, <2>2, <2>3
<1>7. CASE q.action = "edit"
  <2>1. q.rule \in FirewallRules /\ q.pos \in 1 .. Len(w.chain)
    BY <1>3, <1>4, <1>7 DEF RuleRequests
  <2>2. Written(q, w.chain) = ReplaceAt(w.chain, q.pos, q.rule) /\ RulePlan(w, q).expected = Written(q, w.chain)
    BY <1>5, <1>7 DEF Written
  <2>3. QED
    BY <1>2, <1>3, <1>4, <1>5, <1>7, <2>1, <2>2, ChainsAreKept
<1>8. CASE q.action = "delete"
  <2>1. q.pos \in 1 .. Len(w.chain)
    BY <1>3, <1>4, <1>8 DEF RuleRequests
  <2>2. Written(q, w.chain) = RemoveAt(w.chain, q.pos) /\ RulePlan(w, q).expected = Written(q, w.chain)
    BY <1>5, <1>8 DEF Written
  <2>3. w.chain[q.pos] \in FirewallRules
    BY <1>3, <2>1
  <2>4. QED
    BY <1>2, <1>3, <1>4, <1>5, <1>8, <2>1, <2>2, <2>3, ChainsAreKept
<1>9. CASE q.action = "move"
  <2>1. q.pos \in 1 .. Len(w.chain) /\ q.to \in 1 .. Len(w.chain)
    BY <1>3, <1>4, <1>9 DEF RuleRequests
  <2>2. Written(q, w.chain) = InsertAt(RemoveAt(w.chain, q.pos), q.to, w.chain[q.pos])
    BY <1>9, PositionIsKept DEF Written
  <2>3. RulePlan(w, q).expected = Written(q, w.chain)
    BY <1>5, <1>9, <2>2
  <2>4. w.chain[q.pos] \in FirewallRules
    BY <1>3, <2>1
  <2>5. QED
    BY <1>2, <1>3, <1>4, <1>5, <1>9, <2>1, <2>2, <2>3, <2>4, ChainsAreKept
<1>10. QED
  BY <1>1, <1>6, <1>7, <1>8, <1>9

\* A VNet is created where there is none and deleted only if it is ours and
\* nothing is attached to it.
LEMMA NetworkPlans ==
  ASSUME NEW w \in WorldStates, NEW q \in NetworkRequests, PlanOf(w, q) # Blocked
  PROVE  LET p == PlanOf(w, q) IN
         /\ p.kind = "network" /\ p.guards = <<w.vnet, w.pending>>
         /\ ~w.vnet.attached
         /\ q.action = "create" =>
              /\ p.todo = <<"record", "create vnet", "create subnet", "apply", "reconcile", "preserve">>
              /\ ~w.vnet.exists
         /\ q.action = "delete" =>
              /\ p.todo = <<"record", "delete subnet", "delete vnet", "apply", "reconcile", "preserve">>
              /\ w.vnet.own
<1>1. q.kind = "network" /\ q.action \in {"create", "delete"}
  BY DEF NetworkRequests
<1>2. PlanOf(w, q) = NetworkPlan(w, q)
  BY <1>1 DEF PlanOf
<1>3. /\ ~w.vnet.attached
      /\ q.action = "create" => ~w.vnet.exists
      /\ q.action = "delete" => w.vnet.own
  BY <1>2 DEF NetworkPlan
<1>4. /\ NetworkPlan(w, q).kind = "network" /\ NetworkPlan(w, q).guards = <<w.vnet, w.pending>>
      /\ NetworkPlan(w, q).todo =
           IF q.action = "create"
           THEN <<"record", "create vnet", "create subnet", "apply", "reconcile", "preserve">>
           ELSE <<"record", "delete subnet", "delete vnet", "apply", "reconcile", "preserve">>
  BY <1>2 DEF NetworkPlan
<1>5. QED
  BY <1>1, <1>2, <1>3, <1>4

\* A bundle runs for every guest that is ours; nobody else's is named.
LEMMA GuestPlans ==
  ASSUME NEW w \in WorldStates, NEW q \in GuestRequests, PlanOf(w, q) # Blocked
  PROVE  LET p == PlanOf(w, q) IN
         /\ p.kind = "guests" /\ p.vmids \subseteq GuestIds /\ p.todo \in Seq(p.vmids)
         /\ \A v \in q.vms : v \in p.vmids \/ v \in p.missing
<1>1. q.kind = "guests" /\ q.vms \subseteq GuestIds
  BY DEF GuestRequests
<1>2. PlanOf(w, q) = GuestsPlan(w, q)
  BY <1>1 DEF PlanOf
<1> DEFINE Having(s) == {v \in q.vms : w.vm[v].status = s}
<1>3. /\ Having("conflict") = {}
      /\ GuestsPlan(w, q).kind = "guests" /\ GuestsPlan(w, q).vmids = Having("owned")
      /\ GuestsPlan(w, q).missing = Having("missing") /\ GuestsPlan(w, q).todo = SetToSeq(Having("owned"))
  BY <1>2 DEF GuestsPlan
<1>4. \A v \in q.vms : w.vm[v].status \in {"owned", "missing", "conflict"}
  BY <1>1 DEF WorldStates, GuestStates
<1>5. \A S : IsFiniteSet(S) => SetToSeq(S) \in Seq(S)
  <2>1. SUFFICES ASSUME NEW S, IsFiniteSet(S)
                 PROVE  SetToSeq(S) \in Seq(S)
    OBVIOUS
  <2>2. Cardinality(S) \in Nat /\ ExistsBijection(1 .. Cardinality(S), S)
    BY <2>1, FS_CardinalityType
  <2>3. \E f \in [1 .. Cardinality(S) -> S] : IsInjective(f)
    BY <2>2 DEF ExistsBijection, Bijection, Injection
  <2>4. SetToSeq(S) \in [1 .. Cardinality(S) -> S]
    BY <2>3 DEF SetToSeq
  <2>5. QED
    BY <2>2, <2>4
<1>6. IsFiniteSet(Having("owned"))
  BY <1>1, WorldsAssumption, FS_Subset
<1>7. QED
  BY <1>1, <1>2, <1>3, <1>4, <1>5, <1>6

\* What is done for a switch, in this order.
LEMMA SwitchPlans ==
  ASSUME NEW w \in WorldStates, NEW q \in SwitchRequests, PlanOf(w, q) # Blocked
  PROVE  LET p == PlanOf(w, q) IN
         /\ p.kind = q.kind
         /\ q.kind = "snat" => p.todo = <<"configure", "apply", "reconcile">>
         /\ q.kind = "switches" => p.todo = <<"datacenter", "node">>
<1>1. q.kind \in {"snat", "switches"}
  BY DEF SwitchRequests
<1>2. q.kind = "snat" => PlanOf(w, q) = SnatPlan(w, q)
  BY DEF PlanOf
<1>3. q.kind = "switches" => PlanOf(w, q) = SwitchesPlan(w, q)
  BY DEF PlanOf
<1>4. QED
  BY <1>1, <1>2, <1>3 DEF SnatPlan, SwitchesPlan


OperationForm(o) == o = [step |-> o.step, request |-> o.request, review |-> o.review, plan |-> o.plan,
                         target |-> o.target, release |-> o.release, todo |-> o.todo,
                         recorded |-> o.recorded, result |-> o.result]
RunSteps == {"prepared", "started", "native", "exited"}

RuntimeTypeOK ==
  /\ world \in WorldStates /\ changes \in Nat /\ calm \in BOOLEAN
  /\ OperationForm(operation) /\ operation.recorded \in Nat
  /\ operation.step \in {"none", "reviewed", "queued", "closed"} \cup RunSteps
  /\ operation.step # "none" => operation.request \in OperationRequests

\* A run has the plan of some world in which it was not refused; a reviewed
\* kind has the reviewed one.
PlansAreSound == operation.step \in RunSteps =>
  /\ operation.plan # Blocked
  /\ \E w \in WorldStates : operation.plan = PlanOf(w, operation.request)
  /\ operation.request.kind \in Reviewed => operation.plan = operation.review

\* What the guard of the run has established, before step k of the plan, as
\* long as nobody else changes anything.
Guarded(k) ==
  /\ operation.request.kind = "guests" => \A v \in operation.plan.vmids : world.vm[v].status = "owned"
  /\ operation.request.kind = "network" /\ operation.request.action = "create" =>
       /\ k <= 2 => ~world.vnet.exists
       /\ k = 3 => world.vnet.own
  /\ operation.request.kind = "network" /\ operation.request.action = "delete" =>
       (k <= 3 => world.vnet.own /\ ~world.vnet.attached)

\* A run works its plan off in order.
RunGoesOn ==
  /\ operation.step \in {"prepared", "started"} => operation.todo = operation.plan.todo
  /\ operation.step = "native" =>
       \E k \in 1 .. Len(operation.plan.todo) + 1 :
         /\ operation.todo = SubSeq(operation.plan.todo, k, Len(operation.plan.todo))
         /\ calm => Guarded(k)

RuntimeInv == RuntimeTypeOK /\ PlansAreSound /\ RunGoesOn

\* A request is of one kind, and has the form of its kind.
LEMMA Kinds ==
  /\ \A q \in OperationRequests :
       /\ q.kind = "rule" => q \in RuleRequests
       /\ q.kind = "network" => q \in NetworkRequests
       /\ q.kind = "guests" => q \in GuestRequests
       /\ q.kind \in {"snat", "switches"} => q \in SwitchRequests
       /\ q.kind \in {"rule", "network", "guests", "snat", "switches"}
  /\ \A q \in NetworkRequests : q.action \in {"create", "delete"}
<1>1. /\ \A q \in RuleRequests : q.kind = "rule"
      /\ \A q \in NetworkRequests : q.kind = "network" /\ q.action \in {"create", "delete"}
      /\ \A q \in GuestRequests : q.kind = "guests"
      /\ \A q \in SwitchRequests : q.kind \in {"snat", "switches"}
  BY DEF RuleRequests, NetworkRequests, GuestRequests, SwitchRequests
<1>2. QED
  BY <1>1 DEF OperationRequests

\* The steps of a plan are native steps or guests.
LEMMA PlansAreTyped ==
  ASSUME NEW w \in WorldStates, NEW q \in OperationRequests, PlanOf(w, q) # Blocked
  PROVE  PlanOf(w, q).kind = q.kind /\ PlanOf(w, q).todo \in Seq(NativeSteps \cup GuestIds)
<1>1. CASE q.kind = "rule"
  <2>1. q \in RuleRequests
    BY <1>1, Kinds
  <2>2. PlanOf(w, q).kind = "rule" /\ PlanOf(w, q).todo = <<"write">>
    BY <2>1, RulePlans
  <2>3. "write" \in NativeSteps \cup GuestIds
    BY DEF NativeSteps
  <2> DEFINE S == NativeSteps \cup GuestIds
  <2> HIDE DEF S
  <2>4. <<"write">> \in Seq(S)
    BY <2>3 DEF S
  <2>5. QED
    BY <1>1, <2>2, <2>4 DEF S
<1>2. CASE q.kind = "network"
  <2>1. q \in NetworkRequests /\ q.action \in {"create", "delete"}
    BY <1>2, Kinds
  <2> DEFINE S == NativeSteps \cup GuestIds
  <2>2. /\ "record" \in S /\ "create vnet" \in S /\ "create subnet" \in S /\ "delete subnet" \in S
        /\ "delete vnet" \in S /\ "apply" \in S /\ "reconcile" \in S /\ "preserve" \in S
    BY DEF NativeSteps
  <2> HIDE DEF S
  <2>3. /\ <<"record", "create vnet", "create subnet", "apply", "reconcile", "preserve">> \in Seq(S)
        /\ <<"record", "delete subnet", "delete vnet", "apply", "reconcile", "preserve">> \in Seq(S)
    <3>1. \A a, b, c, d, e, f \in S : <<a, b, c, d, e, f>> \in Seq(S)
      OBVIOUS
    <3>2. QED
      BY <2>2, <3>1
  <2>4. PlanOf(w, q).kind = "network" /\ PlanOf(w, q).todo \in Seq(S)
    BY <2>1, <2>3, NetworkPlans
  <2>5. QED
    BY <1>2, <2>4 DEF S
<1>3. CASE q.kind = "guests"
  <2>1. q \in GuestRequests
    BY <1>3, Kinds
  <2>2. PlanOf(w, q).kind = "guests" /\ PlanOf(w, q).vmids \subseteq GuestIds /\ PlanOf(w, q).todo \in Seq(PlanOf(w, q).vmids)
    BY <2>1, GuestPlans
  <2>3. PlanOf(w, q).todo \in Seq(NativeSteps \cup GuestIds)
    BY <2>2, SeqMonotonic
  <2>4. QED
    BY <1>3, <2>2, <2>3
<1>4. CASE q.kind \in {"snat", "switches"}
  <2>1. q \in SwitchRequests
    BY <1>4, Kinds
  <2> DEFINE S == NativeSteps \cup GuestIds
  <2>2. {"configure", "apply", "reconcile", "datacenter", "node"} \subseteq S
    BY DEF NativeSteps
  <2> HIDE DEF S
  <2>3. <<"configure", "apply", "reconcile">> \in Seq(S) /\ <<"datacenter", "node">> \in Seq(S)
    BY <2>2
  <2>4. PlanOf(w, q).kind = q.kind /\ PlanOf(w, q).todo \in Seq(S)
    BY <1>4, <2>1, <2>3, SwitchPlans
  <2>5. QED
    BY <2>4 DEF S
<1>5. QED
  BY <1>1, <1>2, <1>3, <1>4, Kinds

\* The next step of a sequence that is worked off.
LEMMA RestOfPlan ==
  ASSUME NEW S, NEW s \in Seq(S), NEW k \in 1 .. Len(s) + 1, SubSeq(s, k, Len(s)) # <<>>
  PROVE  /\ k \in 1 .. Len(s)
         /\ Head(SubSeq(s, k, Len(s))) = s[k]
         /\ Tail(SubSeq(s, k, Len(s))) = SubSeq(s, k + 1, Len(s))
<1>1. Len(s) \in Nat
  BY LenProperties
<1>2. k \in 1 .. Len(s)
  <2>1. CASE k = Len(s) + 1
    <3>1. SubSeq(s, k, Len(s)) = <<>>
      BY <1>1, <2>1, SubSeqEmpty
    <3>2. QED
      BY <3>1
  <2>2. QED
    BY <1>1, <2>1
<1>3. QED
  BY <1>1, <1>2, HeadTailOfSubSeq

\* A cluster has its form as long as the part that changes has it.
LEMMA PartsChange ==
  ASSUME NEW w \in WorldStates
  PROVE  /\ \A n \in 1..2 : [w EXCEPT !.target = n] \in WorldStates /\ [w EXCEPT !.release = n] \in WorldStates
         /\ \A b \in BOOLEAN : [w EXCEPT !.pending = b] \in WorldStates
         /\ \A n \in Nat : [w EXCEPT !.neighbour = n] \in WorldStates
         /\ \A c \in Seq(FirewallRules) : [w EXCEPT !.chain = c] \in WorldStates
         /\ \A v \in VnetStates : [w EXCEPT !.vnet = v] \in WorldStates
         /\ \A f \in [GuestIds -> GuestStates] : [w EXCEPT !.vm = f] \in WorldStates
         /\ \A x \in SwitchStates : [w EXCEPT !.switches = x] \in WorldStates
  BY DEF WorldStates

\* A guest that changes leaves a set of guests.
LEMMA GuestsChange ==
  ASSUME NEW f \in [GuestIds -> GuestStates], NEW v \in GuestIds
  PROVE  /\ \A x \in GuestStates : [f EXCEPT ![v] = x] \in [GuestIds -> GuestStates]
         /\ f[v] \in GuestStates
         /\ \A x \in {"owned", "missing", "conflict"} : [f[v] EXCEPT !.status = x] \in GuestStates
         /\ \A b \in BOOLEAN : [f[v] EXCEPT !.firewall = b] \in GuestStates
  BY DEF GuestStates

\* Others leave a cluster that has its form.
LEMMA OthersKeep ==
  ASSUME NEW w \in WorldStates, NEW kind \in {"rule", "network", "guests", "snat", "switches"}
  PROVE  Changed(w, kind) \subseteq WorldStates
<1>1. {[w EXCEPT !.target = 3 - @], [w EXCEPT !.release = 3 - @]} \subseteq WorldStates
  <2>1. 3 - w.target \in 1..2 /\ 3 - w.release \in 1..2
    BY DEF WorldStates
  <2>2. QED
    BY <2>1, PartsChange
<1>2. CASE kind = "rule"
  <2>1. w.chain \in Seq(FirewallRules) /\ Len(w.chain) \in Nat
    BY LenProperties DEF WorldStates
  <2>2. \A m \in BOOLEAN : [own |-> FALSE, mgmt |-> m, deny |-> FALSE] \in FirewallRules
    BY DEF FirewallRules
  <2>3. \A m \in BOOLEAN : <<[own |-> FALSE, mgmt |-> m, deny |-> FALSE]>> \o w.chain \in Seq(FirewallRules)
    <3>1. \A r \in FirewallRules : <<r>> \o w.chain \in Seq(FirewallRules)
      BY <2>1
    <3>2. QED
      BY <2>2, <3>1
  <2>4. Len(w.chain) > 0 => RemoveAt(w.chain, 1) \in Seq(FirewallRules)
    <3>1. SUFFICES ASSUME Len(w.chain) > 0
                   PROVE  RemoveAt(w.chain, 1) \in Seq(FirewallRules)
      OBVIOUS
    <3>2. 1 \in 1 .. Len(w.chain)
      BY <2>1, <3>1
    <3>3. QED
      BY <2>1, <2>2, <3>2, ChainsAreKept
  <2>5. Changed(w, kind) = {[w EXCEPT !.target = 3 - @], [w EXCEPT !.release = 3 - @]}
         \cup {[w EXCEPT !.chain = RemoveAt(@, 1)] : x \in {y \in {1} : Len(w.chain) > 0}}
         \cup {[w EXCEPT !.chain = <<[own |-> FALSE, mgmt |-> m, deny |-> FALSE]>> \o @] : m \in BOOLEAN}
    BY <1>2 DEF Changed
  <2>6. \A m \in BOOLEAN : [w EXCEPT !.chain = <<[own |-> FALSE, mgmt |-> m, deny |-> FALSE]>> \o @] \in WorldStates
    BY <2>3, PartsChange
  <2>7. Len(w.chain) > 0 => [w EXCEPT !.chain = RemoveAt(@, 1)] \in WorldStates
    BY <2>4, PartsChange
  <2>8. QED
    BY <1>1, <2>5, <2>6, <2>7
<1>3. CASE kind \in {"network", "snat"}
  <2>1. w.vnet \in VnetStates /\ w.pending \in BOOLEAN /\ w.neighbour + 1 \in Nat
    BY DEF WorldStates
  <2>2. /\ [w.vnet EXCEPT !.attached = ~@] \in VnetStates
        /\ [w.vnet EXCEPT !.snat = ~@] \in VnetStates
        /\ [w.vnet EXCEPT !.exists = TRUE, !.own = FALSE] \in VnetStates
    BY <2>1 DEF VnetStates
  <2>3. /\ [w EXCEPT !.vnet = [w.vnet EXCEPT !.attached = ~@]] \in WorldStates
        /\ [w EXCEPT !.vnet = [w.vnet EXCEPT !.snat = ~@]] \in WorldStates
        /\ [w EXCEPT !.vnet = [w.vnet EXCEPT !.exists = TRUE, !.own = FALSE]] \in WorldStates
    BY <2>2, PartsChange
  <2>4. [w EXCEPT !.pending = ~@] \in WorldStates /\ [w EXCEPT !.neighbour = @ + 1] \in WorldStates
    BY <2>1, PartsChange
  <2>5. /\ [w EXCEPT !.vnet.attached = ~@] = [w EXCEPT !.vnet = [w.vnet EXCEPT !.attached = ~@]]
        /\ [w EXCEPT !.vnet.snat = ~@] = [w EXCEPT !.vnet = [w.vnet EXCEPT !.snat = ~@]]
        /\ [w EXCEPT !.vnet.exists = TRUE, !.vnet.own = FALSE] =
             [w EXCEPT !.vnet = [w.vnet EXCEPT !.exists = TRUE, !.own = FALSE]]
    BY DEF WorldStates
  <2>6. QED
    BY <1>1, <1>3, <2>3, <2>4, <2>5 DEF Changed
<1>4. CASE kind = "guests"
  <2>1. w.vm \in [GuestIds -> GuestStates] /\ DOMAIN w.vm = GuestIds
    BY DEF WorldStates
  <2>2. \A v \in GuestIds : w.vm[v] \in GuestStates /\ w.vm[v].firewall \in BOOLEAN
    BY <2>1 DEF GuestStates
  <2>3. \A v \in GuestIds, s \in {"owned", "missing", "conflict"} :
          [w EXCEPT !.vm = [w.vm EXCEPT ![v] = [w.vm[v] EXCEPT !.status = s]]] \in WorldStates
    BY <2>1, GuestsChange, PartsChange
  <2>4. \A v \in GuestIds : [w EXCEPT !.vm = [w.vm EXCEPT ![v] = [w.vm[v] EXCEPT !.firewall = ~@]]] \in WorldStates
    BY <2>1, <2>2, GuestsChange, PartsChange
  <2>5. Changed(w, kind) = {[w EXCEPT !.target = 3 - @], [w EXCEPT !.release = 3 - @]}
         \cup ({[w EXCEPT !.vm[v].status = s] : v \in DOMAIN w.vm, s \in {"owned", "missing", "conflict"}}
         \cup {[w EXCEPT !.vm[v].firewall = ~@] : v \in DOMAIN w.vm})
    BY <1>4 DEF Changed
  <2>6. /\ \A v \in GuestIds, s \in {"owned", "missing", "conflict"} : [w EXCEPT !.vm[v].status = s] \in WorldStates
        /\ \A v \in GuestIds : [w EXCEPT !.vm[v].firewall = ~@] \in WorldStates
    BY <2>3, <2>4
  <2>7. /\ {[w EXCEPT !.vm[v].status = s] : v \in DOMAIN w.vm, s \in {"owned", "missing", "conflict"}} \subseteq WorldStates
        /\ {[w EXCEPT !.vm[v].firewall = ~@] : v \in DOMAIN w.vm} \subseteq WorldStates
    <3> DEFINE f(v, s) == [w EXCEPT !.vm[v].status = s]
    <3> DEFINE g(v) == [w EXCEPT !.vm[v].firewall = ~@]
    <3>1. /\ \A v \in DOMAIN w.vm, s \in {"owned", "missing", "conflict"} : f(v, s) \in WorldStates
          /\ \A v \in DOMAIN w.vm : g(v) \in WorldStates
      BY <2>1, <2>6
    <3> HIDE DEF f, g
    <3>2. /\ {f(v, s) : v \in DOMAIN w.vm, s \in {"owned", "missing", "conflict"}} \subseteq WorldStates
          /\ {g(v) : v \in DOMAIN w.vm} \subseteq WorldStates
      BY <3>1
    <3>3. QED
      BY <3>2 DEF f, g
  <2>8. QED
    BY <1>1, <2>5, <2>7
<1>5. CASE kind = "switches"
  <2>1. [w.switches EXCEPT !.node = ~@] \in SwitchStates
    BY DEF WorldStates, SwitchStates
  <2>2. [w EXCEPT !.switches = [w.switches EXCEPT !.node = ~@]] \in WorldStates
    BY <2>1, PartsChange
  <2>3. QED
    BY <1>1, <1>5, <2>2 DEF Changed
<1>6. QED
  BY <1>2, <1>3, <1>4, <1>5

\* Steps on the VNet and its NAT rules keep the form of a cluster; the ones up
\* to the deletion of the VNet leave the marker of the deployment.
LEMMA NetworkSteps ==
  ASSUME world \in WorldStates, operation.recorded \in Nat, NEW q
  PROVE  /\ \A step \in {"record", "create vnet", "create subnet", "delete subnet", "delete vnet", "apply",
                         "reconcile", "preserve"} : Native(world, q, step) \in WorldStates
         /\ q.enabled \in BOOLEAN => Native(world, q, "configure") \in WorldStates
         /\ Native(world, q, "record") = world
         /\ Native(world, q, "create vnet").vnet.own
         /\ Native(world, q, "delete subnet").vnet.own = world.vnet.own
         /\ Native(world, q, "delete subnet").vnet.attached = world.vnet.attached
<1>1. /\ world.vnet \in VnetStates /\ world.vnet.live + 1 \in Nat /\ world.neighbour + 1 \in Nat
      /\ world.vnet.exists \in BOOLEAN
  BY DEF WorldStates, VnetStates
<1>2. Native(world, q, "record") = world
  BY DEF Native
<1>3. Native(world, q, "create vnet") = [world EXCEPT !.vnet = [world.vnet EXCEPT !.exists = TRUE, !.own = TRUE]]
  BY DEF Native, WorldStates
<1>4. Native(world, q, "create subnet") = [world EXCEPT !.vnet = [world.vnet EXCEPT !.same = TRUE, !.snat = TRUE]]
  BY DEF Native, WorldStates
<1>5. Native(world, q, "delete subnet") = [world EXCEPT !.vnet = [world.vnet EXCEPT !.same = FALSE]]
  BY DEF Native, WorldStates
<1>6. Native(world, q, "delete vnet") = [world EXCEPT !.vnet = [world.vnet EXCEPT !.exists = FALSE, !.own = FALSE]]
  BY DEF Native, WorldStates
<1>7. Native(world, q, "configure") = [world EXCEPT !.vnet = [world.vnet EXCEPT !.snat = q.enabled]]
  BY DEF Native, WorldStates
<1>8. Native(world, q, "apply") =
        [[world EXCEPT !.vnet = [world.vnet EXCEPT !.active = world.vnet.exists, !.live = @ + 1]]
          EXCEPT !.neighbour = world.neighbour + 1]
  BY DEF Native, WorldStates
<1>9. Native(world, q, "reconcile") = [world EXCEPT !.vnet = [world.vnet EXCEPT !.live = Count(Wanted(q))]]
  BY DEF Native, WorldStates
<1>10. Native(world, q, "preserve") = [world EXCEPT !.neighbour = operation.recorded]
  BY DEF Native
<1>11. /\ [world.vnet EXCEPT !.exists = TRUE, !.own = TRUE] \in VnetStates
       /\ [world.vnet EXCEPT !.same = TRUE, !.snat = TRUE] \in VnetStates
       /\ [world.vnet EXCEPT !.same = FALSE] \in VnetStates
       /\ [world.vnet EXCEPT !.exists = FALSE, !.own = FALSE] \in VnetStates
       /\ q.enabled \in BOOLEAN => [world.vnet EXCEPT !.snat = q.enabled] \in VnetStates
  BY <1>1 DEF VnetStates
<1>12. [world.vnet EXCEPT !.active = world.vnet.exists, !.live = @ + 1] \in VnetStates
  BY <1>1 DEF VnetStates
<1>13. [world.vnet EXCEPT !.live = Count(Wanted(q))] \in VnetStates
  <2>1. Count(Wanted(q)) \in Nat
    BY DEF Count
  <2>2. QED
    BY <1>1, <2>1 DEF VnetStates
<1>14. /\ \A v \in VnetStates : [world EXCEPT !.vnet = v] \in WorldStates
       /\ \A n \in Nat : [world EXCEPT !.neighbour = n] \in WorldStates
  BY PartsChange
<1>15. \A step \in {"record", "create vnet", "create subnet", "delete subnet", "delete vnet", "apply",
                         "reconcile", "preserve"} : Native(world, q, step) \in WorldStates
  <2>1. Native(world, q, "record") \in WorldStates
    BY <1>2
  <2>2. Native(world, q, "create vnet") \in WorldStates
    BY <1>3, <1>11, <1>14
  <2>3. Native(world, q, "create subnet") \in WorldStates
    BY <1>4, <1>11, <1>14
  <2>4. Native(world, q, "delete subnet") \in WorldStates
    BY <1>5, <1>11, <1>14
  <2>5. Native(world, q, "delete vnet") \in WorldStates
    BY <1>6, <1>11, <1>14
  <2>6. Native(world, q, "reconcile") \in WorldStates
    BY <1>9, <1>13, <1>14
  <2>7. Native(world, q, "preserve") \in WorldStates
    BY <1>10, <1>14
  <2>8. Native(world, q, "apply") \in WorldStates
    <3> DEFINE v == [world.vnet EXCEPT !.active = world.vnet.exists, !.live = @ + 1]
    <3> DEFINE w == [world EXCEPT !.vnet = v]
    <3>1. w \in WorldStates
      BY <1>12, <1>14
    <3> HIDE DEF w
    <3>2. [w EXCEPT !.neighbour = world.neighbour + 1] \in WorldStates
      BY <1>1, <3>1, PartsChange
    <3>3. QED
      BY <1>8, <3>2 DEF w
  <2>9. QED
    BY <2>1, <2>2, <2>3, <2>4, <2>5, <2>6, <2>7, <2>8
<1>16. /\ Native(world, q, "create vnet").vnet.own
       /\ Native(world, q, "delete subnet").vnet.own = world.vnet.own
       /\ Native(world, q, "delete subnet").vnet.attached = world.vnet.attached
  BY <1>1, <1>3, <1>5 DEF WorldStates, VnetStates
<1>17. q.enabled \in BOOLEAN => Native(world, q, "configure") \in WorldStates
  BY <1>7, <1>11, <1>14
<1>18. QED
  BY <1>2, <1>15, <1>16, <1>17

\* Steps on guests, switches and chains.
LEMMA OtherSteps ==
  ASSUME world \in WorldStates, NEW q
  PROVE  /\ q.enabled \in BOOLEAN => /\ Native(world, q, "datacenter") \in WorldStates
                                     /\ Native(world, q, "node") \in WorldStates
         /\ Written(q, world.chain) \in Seq(FirewallRules) =>
              /\ Native(world, q, "write") \in WorldStates
              /\ Native(world, q, "write").chain = Written(q, world.chain)
         /\ q.enabled \in BOOLEAN => \A v \in GuestIds :
              /\ Native(world, q, v) \in WorldStates
              /\ \A u \in GuestIds : Native(world, q, v).vm[u].status = world.vm[u].status
<1>1. SUFFICES ASSUME q.enabled \in BOOLEAN
               PROVE  /\ Native(world, q, "datacenter") \in WorldStates
                      /\ Native(world, q, "node") \in WorldStates
                      /\ \A v \in GuestIds :
                           /\ Native(world, q, v) \in WorldStates
                           /\ \A u \in GuestIds : Native(world, q, v).vm[u].status = world.vm[u].status
  <2>1. Native(world, q, "write") = [world EXCEPT !.chain = Written(q, world.chain)]
    BY DEF Native
  <2>2. [world EXCEPT !.chain = Written(q, world.chain)].chain = Written(q, world.chain)
    BY DEF WorldStates
  <2>3. QED
    BY <2>1, <2>2, PartsChange
<1>2. Native(world, q, "datacenter") \in WorldStates /\ Native(world, q, "node") \in WorldStates
  <2>1. /\ Native(world, q, "datacenter") = [world EXCEPT !.switches = [world.switches EXCEPT !.datacenter = q.enabled]]
        /\ Native(world, q, "node") = [world EXCEPT !.switches = [world.switches EXCEPT !.node = q.enabled]]
    BY DEF Native, WorldStates
  <2>2. /\ [world.switches EXCEPT !.datacenter = q.enabled] \in SwitchStates
        /\ [world.switches EXCEPT !.node = q.enabled] \in SwitchStates
    BY <1>1 DEF WorldStates, SwitchStates
  <2>3. QED
    BY <2>1, <2>2, PartsChange
<1>3. ASSUME NEW v \in GuestIds
      PROVE  /\ Native(world, q, v) \in WorldStates
             /\ \A u \in GuestIds : Native(world, q, v).vm[u].status = world.vm[u].status
  <2> DEFINE x == world.vm[v]
  <2> DEFINE nic == IF x.nic = "none" THEN "none" ELSE IF q.enabled THEN "on" ELSE "off"
  <2> DEFINE y == [x EXCEPT !.firewall = q.enabled, !.nic = nic]
  <2>1. v \notin NativeSteps
    BY WorldsAssumption
  <2>2. world.vm \in [GuestIds -> GuestStates] /\ x \in GuestStates
    BY DEF WorldStates
  <2>3. Native(world, q, v) = [world EXCEPT !.vm[v] = y]
    BY <2>1 DEF Native, NativeSteps
  <2>4. Native(world, q, v) = [world EXCEPT !.vm = [world.vm EXCEPT ![v] = y]]
    <3> HIDE DEF y
    <3>1. QED
      BY <2>3
  <2>5. y \in GuestStates /\ y.status = x.status
    BY <1>1, <2>2 DEF GuestStates
  <2> HIDE DEF y, x
  <2>6. [world EXCEPT !.vm = [world.vm EXCEPT ![v] = y]] \in WorldStates
    BY <2>2, <2>5, GuestsChange, PartsChange
  <2>7. [world EXCEPT !.vm = [world.vm EXCEPT ![v] = y]].vm = [world.vm EXCEPT ![v] = y]
    BY DEF WorldStates
  <2>8. \A u \in GuestIds : [world.vm EXCEPT ![v] = y][u].status = world.vm[u].status
    BY <2>2, <2>5 DEF x
  <2>9. QED
    BY <2>4, <2>6, <2>7, <2>8
<1>4. QED
  BY <1>1, <1>2, <1>3

\* What a native step does to the operation.
LEMMA NativeMovesOn ==
  ASSUME RuntimeInv, NativeStep
  PROVE  /\ OperationForm(operation)' /\ operation'.step = "native" /\ operation'.plan = operation.plan
         /\ operation'.request = operation.request /\ operation'.review = operation.review
         /\ operation'.todo = Tail(operation.todo)
         /\ operation'.recorded \in Nat /\ operation'.result = operation.result
         /\ world' = Native(world, operation.request, Head(operation.todo))
         /\ changes' = changes /\ calm' = calm
<1>1. OperationForm(operation) /\ world.neighbour \in Nat /\ operation.recorded \in Nat
  BY DEF RuntimeInv, RuntimeTypeOK, WorldStates
<1>2. operation.step = "native"
  BY DEF NativeStep
<1>3. operation' = [operation EXCEPT !.todo = Tail(@),
                     !.recorded = IF Head(operation.todo) = "record" THEN world.neighbour ELSE @]
  BY DEF NativeStep
<1>4. QED
  BY <1>1, <1>2, <1>3 DEF OperationForm, NativeStep

\* The step of the plan that comes next.
LEMMA NextOfPlan ==
  ASSUME RuntimeInv, NativeStep
  PROVE  /\ operation.plan # Blocked
         /\ \E w \in WorldStates : operation.plan = PlanOf(w, operation.request)
         /\ operation.request \in OperationRequests
         /\ operation.request.kind \in Reviewed => operation.plan = operation.review
         /\ \E k \in 1 .. Len(operation.plan.todo) :
              /\ Head(operation.todo) = operation.plan.todo[k]
              /\ calm => Guarded(k)
              /\ (calm' => Guarded(k + 1)') => RunGoesOn'
<1>1. /\ operation.plan # Blocked
      /\ \E w \in WorldStates : operation.plan = PlanOf(w, operation.request)
      /\ operation.request \in OperationRequests
      /\ operation.request.kind \in Reviewed => operation.plan = operation.review
  BY DEF RuntimeInv, RuntimeTypeOK, PlansAreSound, NativeStep, RunSteps
<1> DEFINE s == operation.plan.todo
<1>2. s \in Seq(NativeSteps \cup GuestIds)
  BY <1>1, PlansAreTyped
<1>3. Len(s) \in Nat
  BY <1>2, LenProperties
<1>4. PICK k \in 1 .. Len(s) + 1 : operation.todo = SubSeq(s, k, Len(s)) /\ (calm => Guarded(k))
  BY DEF RuntimeInv, RunGoesOn, NativeStep
<1>5. SubSeq(s, k, Len(s)) # <<>>
  BY <1>4 DEF NativeStep
<1> HIDE DEF s
<1>6. /\ k \in 1 .. Len(s) /\ Head(SubSeq(s, k, Len(s))) = s[k]
      /\ Tail(SubSeq(s, k, Len(s))) = SubSeq(s, k + 1, Len(s))
  BY <1>2, <1>5, RestOfPlan
<1>7. (calm' => Guarded(k + 1)') => RunGoesOn'
  <2>1. SUFFICES ASSUME calm' => Guarded(k + 1)'
                 PROVE  RunGoesOn'
    OBVIOUS
  <2>2. operation'.plan.todo = s /\ operation'.todo = SubSeq(s, k + 1, Len(s)) /\ operation'.step = "native"
    BY <1>4, <1>6, NativeMovesOn DEF s
  <2>3. k + 1 \in 1 .. Len(s) + 1
    BY <1>3, <1>6
  <2>4. QED
    BY <2>1, <2>2, <2>3 DEF RunGoesOn
<1>8. QED
  BY <1>1, <1>4, <1>6, <1>7 DEF s

\* The members of a list of six.
LEMMA SixSteps ==
  ASSUME NEW a, NEW b, NEW c, NEW d, NEW e, NEW f, NEW t, t = <<a, b, c, d, e, f>>
  PROVE  t[1] = a /\ t[2] = b /\ t[3] = c /\ t[4] = d /\ t[5] = e /\ t[6] = f
  OBVIOUS

\* A native step keeps the cluster in form and the run in order, and while
\* nobody interferes it touches only what is ours; an edit of a chain is the
\* planned one.
LEMMA NativeKeeps ==
  ASSUME RuntimeInv, NativeStep
  PROVE  /\ world' \in WorldStates /\ RunGoesOn'
         /\ calm => Ours(world, operation, Head(operation.todo))
         /\ operation.request.kind = "rule" /\ operation.request.action # "create" =>
              Editable(world.chain[operation.request.pos]) /\ world'.chain = operation.review.expected
         /\ operation.request.kind = "rule" /\ operation.request.action = "create" => Tail(world'.chain) = world.chain
<1> DEFINE q == operation.request
<1> DEFINE step == Head(operation.todo)
<1>1. operation.plan # Blocked /\ q \in OperationRequests /\ (q.kind \in Reviewed => operation.plan = operation.review)
  BY NextOfPlan
<1>2. PICK w \in WorldStates : operation.plan = PlanOf(w, q)
  BY NextOfPlan
<1>3. PICK k \in 1 .. Len(operation.plan.todo) :
        step = operation.plan.todo[k] /\ (calm => Guarded(k)) /\ ((calm' => Guarded(k + 1)') => RunGoesOn')
  BY NextOfPlan
<1>4. /\ operation'.request = q /\ operation'.plan = operation.plan
      /\ world' = Native(world, q, step) /\ calm' = calm
  BY NativeMovesOn
<1>5. world \in WorldStates /\ operation.recorded \in Nat /\ DOMAIN world.vm = GuestIds
  BY DEF RuntimeInv, RuntimeTypeOK, WorldStates
<1>6. \A x \in NativeSteps : x \notin GuestIds
  BY WorldsAssumption
<1> HIDE DEF q, step
<1>7. CASE q.kind = "rule"
  <2>1. q \in RuleRequests
    BY <1>1, <1>7, Kinds
  <2>2. /\ operation.plan.kind = "rule" /\ operation.plan.todo = <<"write">> /\ operation.plan.before = w.chain
        /\ q.action # "create" => /\ Editable(w.chain[q.pos]) /\ Written(q, w.chain) = operation.plan.expected
                                  /\ operation.plan.expected \in Seq(FirewallRules)
        /\ q.action = "create" => \A c \in Seq(FirewallRules) :
             Written(q, c) \in Seq(FirewallRules) /\ Tail(Written(q, c)) = c
    BY <1>1, <1>2, <2>1, RulePlans
  <2>3. step = "write"
    <3>1. Len(<<"write">>) = 1
      OBVIOUS
    <3>2. k = 1
      BY <1>3, <2>2, <3>1
    <3>3. QED
      BY <1>3, <2>2, <3>2
  <2>4. RunGoesOn'
    BY <1>3, <1>4, <1>7 DEF Guarded
  <2>5. world.chain \in Seq(FirewallRules)
    BY <1>5 DEF WorldStates
  <2>6. q.action # "create" => world.chain = w.chain
    BY <2>2 DEF NativeStep, DigestHolds, q
  <2>7. Written(q, world.chain) \in Seq(FirewallRules)
    BY <2>2, <2>5, <2>6
  <2>8. world' \in WorldStates /\ world'.chain = Written(q, world.chain)
    BY <1>4, <1>5, <2>3, <2>7, OtherSteps
  <2>9. Ours(world, operation, step)
    BY <1>5, <1>6, <2>3 DEF Ours, NativeSteps
  <2>10. operation.plan = operation.review
    BY <1>1, <1>7 DEF Reviewed
  <2>11. QED
    BY <1>7, <2>2, <2>4, <2>5, <2>6, <2>8, <2>9, <2>10 DEF q, step
<1>8. CASE q.kind = "network"
  <2>1. q \in NetworkRequests /\ q.action \in {"create", "delete"}
    BY <1>1, <1>8, Kinds
  <2>2. /\ q.action = "create" => operation.plan.todo =
             <<"record", "create vnet", "create subnet", "apply", "reconcile", "preserve">>
        /\ q.action = "delete" => operation.plan.todo =
             <<"record", "delete subnet", "delete vnet", "apply", "reconcile", "preserve">>
    BY <1>1, <1>2, <2>1, NetworkPlans
  <2>3. k \in 1 .. 6
    BY <1>3, <2>1, <2>2
  <2>4. /\ q.action = "create" => /\ k = 1 => step = "record"
                                  /\ k = 2 => step = "create vnet"
                                  /\ k = 3 => step = "create subnet"
        /\ q.action = "delete" => /\ k = 1 => step = "record"
                                  /\ k = 2 => step = "delete subnet"
                                  /\ k = 3 => step = "delete vnet"
        /\ k = 4 => step = "apply"
        /\ k = 5 => step = "reconcile"
        /\ k = 6 => step = "preserve"
    <3>1. ASSUME q.action = "create"
          PROVE  /\ operation.plan.todo[1] = "record" /\ operation.plan.todo[2] = "create vnet"
                 /\ operation.plan.todo[3] = "create subnet" /\ operation.plan.todo[4] = "apply"
                 /\ operation.plan.todo[5] = "reconcile" /\ operation.plan.todo[6] = "preserve"
      <4> DEFINE t == operation.plan.todo
      <4>1. t = <<"record", "create vnet", "create subnet", "apply", "reconcile", "preserve">>
        BY <2>2, <3>1
      <4> HIDE DEF t
      <4>2. t[1] = "record" /\ t[2] = "create vnet" /\ t[3] = "create subnet" /\ t[4] = "apply" /\ t[5] = "reconcile" /\ t[6] = "preserve"
        BY <4>1, SixSteps
      <4>3. QED
        BY <4>2 DEF t
    <3>2. ASSUME q.action = "delete"
          PROVE  /\ operation.plan.todo[1] = "record" /\ operation.plan.todo[2] = "delete subnet"
                 /\ operation.plan.todo[3] = "delete vnet" /\ operation.plan.todo[4] = "apply"
                 /\ operation.plan.todo[5] = "reconcile" /\ operation.plan.todo[6] = "preserve"
      <4> DEFINE t == operation.plan.todo
      <4>1. t = <<"record", "delete subnet", "delete vnet", "apply", "reconcile", "preserve">>
        BY <2>2, <3>2
      <4> HIDE DEF t
      <4>2. t[1] = "record" /\ t[2] = "delete subnet" /\ t[3] = "delete vnet" /\ t[4] = "apply" /\ t[5] = "reconcile" /\ t[6] = "preserve"
        BY <4>1, SixSteps
      <4>3. QED
        BY <4>2 DEF t
    <3>3. step = operation.plan.todo[k]
      BY <1>3
    <3>4. QED
      BY <2>1, <3>1, <3>2, <3>3
  <2>5. step \in {"record", "create vnet", "create subnet", "delete subnet", "delete vnet", "apply",
                  "reconcile", "preserve"}
    <3>1. k = 1 \/ k = 2 \/ k = 3 \/ k = 4 \/ k = 5 \/ k = 6
      BY <2>3
    <3>2. QED
      BY <2>1, <2>4, <3>1
  <2>6. world' \in WorldStates
    BY <1>4, <1>5, <2>5, NetworkSteps
  <2>7. calm => /\ q.action = "create" => (k <= 2 => ~world.vnet.exists) /\ (k = 3 => world.vnet.own)
                /\ q.action = "delete" => (k <= 3 => world.vnet.own /\ ~world.vnet.attached)
    BY <1>3, <1>8 DEF Guarded, q
  <2>8. calm => Ours(world, operation, step)
    <3>1. \A x \in {"record", "apply", "reconcile", "preserve"} : Ours(world, operation, x)
      BY <1>5, <1>6 DEF Ours, NativeSteps
    <3>2. /\ \A x \in {"create vnet", "create subnet"} : Ours(world, operation, x) <=> ~world.vnet.exists \/ world.vnet.own
          /\ \A x \in {"delete subnet", "delete vnet"} : Ours(world, operation, x) <=> world.vnet.own /\ ~world.vnet.attached
      BY <1>5, <1>6 DEF Ours, NativeSteps
    <3>3. CASE k = 1 \/ k = 4 \/ k = 5 \/ k = 6
      BY <2>1, <2>4, <3>1, <3>3
    <3>4. CASE k = 2 \/ k = 3
      <4>1. q.action = "create" => step \in {"create vnet", "create subnet"}
        BY <2>4, <3>4
      <4>2. q.action = "delete" => step \in {"delete subnet", "delete vnet"}
        BY <2>4, <3>4
      <4>3. k <= 2 \/ k = 3
        BY <3>4
      <4>4. k <= 3
        BY <3>4
      <4>5. QED
        BY <2>1, <2>7, <3>2, <4>1, <4>2, <4>3, <4>4
    <3>5. QED
      BY <2>3, <3>3, <3>4
  <2>9. calm => Guarded(k + 1)'
    <3>1. SUFFICES ASSUME calm
                   PROVE  /\ q.action = "create" => /\ k + 1 <= 2 => ~world'.vnet.exists
                                                    /\ k + 1 = 3 => world'.vnet.own
                          /\ q.action = "delete" => (k + 1 <= 3 => world'.vnet.own /\ ~world'.vnet.attached)
      BY <1>4, <1>8 DEF Guarded
    <3>2. CASE k = 1
      <4>1. world' = world
        BY <1>4, <1>5, <2>1, <2>4, <3>2, NetworkSteps
      <4>2. QED
        BY <2>7, <3>1, <3>2, <4>1
    <3>3. CASE k = 2
      <4>1. q.action = "create" => world'.vnet.own
        BY <1>4, <1>5, <2>4, <3>3, NetworkSteps
      <4>2. q.action = "delete" => world'.vnet.own = world.vnet.own /\ world'.vnet.attached = world.vnet.attached
        BY <1>4, <1>5, <2>4, <3>3, NetworkSteps
      <4>3. QED
        BY <2>7, <3>1, <3>3, <4>1, <4>2
    <3>4. CASE k > 2
      BY <2>3, <3>4
    <3>5. QED
      BY <2>3, <3>2, <3>3, <3>4
  <2>10. QED
    BY <1>3, <1>4, <1>8, <2>6, <2>8, <2>9 DEF q, step
<1>9. CASE q.kind = "guests"
  <2>1. q \in GuestRequests
    BY <1>1, <1>9, Kinds
  <2>2. operation.plan.vmids \subseteq GuestIds /\ operation.plan.todo \in Seq(operation.plan.vmids)
    BY <1>1, <1>2, <2>1, GuestPlans
  <2>3. step \in operation.plan.vmids
    BY <1>3, <2>2, ElementOfSeq
  <2>4. q.enabled \in BOOLEAN
    BY <2>1 DEF GuestRequests
  <2>5. world' \in WorldStates /\ \A u \in GuestIds : world'.vm[u].status = world.vm[u].status
    BY <1>4, <1>5, <2>2, <2>3, <2>4, OtherSteps
  <2>6. calm => \A v \in operation.plan.vmids : world.vm[v].status = "owned"
    BY <1>3, <1>9 DEF Guarded, q
  <2>7. calm => Ours(world, operation, step)
    BY <1>5, <1>6, <2>2, <2>3, <2>6 DEF Ours, NativeSteps
  <2>8. calm => Guarded(k + 1)'
    BY <1>4, <1>9, <2>2, <2>5, <2>6 DEF Guarded
  <2>9. QED
    BY <1>3, <1>4, <1>9, <2>5, <2>7, <2>8 DEF q, step
<1>10. CASE q.kind \in {"snat", "switches"}
  <2>1. q \in SwitchRequests /\ q.enabled \in BOOLEAN
    BY <1>1, <1>10, Kinds DEF SwitchRequests
  <2>2. /\ q.kind = "snat" => operation.plan.todo = <<"configure", "apply", "reconcile">>
        /\ q.kind = "switches" => operation.plan.todo = <<"datacenter", "node">>
    BY <1>1, <1>2, <2>1, SwitchPlans
  <2>3. step \in {"configure", "apply", "reconcile", "datacenter", "node"}
    <3>1. CASE q.kind = "snat"
      <4>1. k \in 1 .. 3
        BY <1>3, <2>2, <3>1
      <4>2. QED
        BY <1>3, <2>2, <3>1, <4>1
    <3>2. CASE q.kind = "switches"
      <4>1. k \in 1 .. 2
        BY <1>3, <2>2, <3>2
      <4>2. QED
        BY <1>3, <2>2, <3>2, <4>1
    <3>3. QED
      BY <1>10, <3>1, <3>2
  <2>4. world' \in WorldStates
    BY <1>4, <1>5, <2>1, <2>3, NetworkSteps, OtherSteps
  <2>5. Ours(world, operation, step)
    BY <1>5, <1>6, <2>3 DEF Ours, NativeSteps
  <2>6. Guarded(k + 1)'
    BY <1>4, <1>10 DEF Guarded
  <2>7. QED
    BY <1>3, <1>10, <2>4, <2>5, <2>6 DEF q, step
<1>11. QED
  BY <1>1, <1>7, <1>8, <1>9, <1>10, Kinds

\* Until its run begins an operation has nothing that the invariant is about.
LEMMA PreparationKeeps ==
  ASSUME RuntimeInv, (\E q \in RuntimeRequests : ReviewPlan(q)) \/ CreateOperation \/ PrepareRun \/ RecheckRun
  PROVE  RuntimeInv'
<1>1. /\ OperationForm(operation) /\ operation.recorded \in Nat
      /\ world \in WorldStates /\ changes \in Nat /\ calm \in BOOLEAN
      /\ operation.step # "none" => operation.request \in OperationRequests
  BY DEF RuntimeInv, RuntimeTypeOK
<1>2. CASE \E q \in RuntimeRequests : ReviewPlan(q)
  <2>1. PICK q \in RuntimeRequests : ReviewPlan(q)
    BY <1>2
  <2>2. q \in OperationRequests
    BY RequestsAssumption DEF OperationRequests
  <2>3. /\ operation' = [operation EXCEPT !.step = "reviewed", !.request = q, !.review = PlanOf(world, q),
                                    !.target = world.target, !.release = world.release]
        /\ UNCHANGED <<world, changes, calm>>
    BY <2>1 DEF ReviewPlan
  <2>4. /\ OperationForm(operation)' /\ operation'.recorded \in Nat
        /\ operation'.step = "reviewed" /\ operation'.request = q
    BY <1>1, <2>3 DEF OperationForm
  <2>5. QED
    BY <1>1, <2>2, <2>3, <2>4 DEF RuntimeInv, RuntimeTypeOK, PlansAreSound, RunGoesOn, RunSteps
<1>3. CASE CreateOperation
  <2>1. /\ operation.step = "reviewed"
        /\ operation' = [operation EXCEPT !.step = "queued", !.target = world.target, !.release = world.release]
        /\ UNCHANGED <<world, changes, calm>>
    BY <1>3 DEF CreateOperation
  <2>2. /\ OperationForm(operation)' /\ operation'.recorded \in Nat
        /\ operation'.step = "queued" /\ operation'.request = operation.request
    BY <1>1, <2>1 DEF OperationForm
  <2>3. QED
    BY <1>1, <2>1, <2>2 DEF RuntimeInv, RuntimeTypeOK, PlansAreSound, RunGoesOn, RunSteps
<1>4. CASE PrepareRun
  <2>1. /\ operation.step = "queued" /\ VerifiedPlan # Blocked
        /\ operation' = [operation EXCEPT !.step = "prepared", !.plan = VerifiedPlan, !.todo = VerifiedPlan.todo]
        /\ UNCHANGED <<world, changes, calm>>
    BY <1>4 DEF PrepareRun
  <2>2. VerifiedPlan = PlanOf(world, operation.request) /\ Verified(PlanOf(world, operation.request))
    BY <2>1 DEF VerifiedPlan
  <2>3. /\ OperationForm(operation)' /\ operation'.recorded \in Nat
        /\ operation'.step = "prepared" /\ operation'.request = operation.request
        /\ operation'.plan = VerifiedPlan /\ operation'.todo = VerifiedPlan.todo
        /\ operation'.review = operation.review
    BY <1>1, <2>1 DEF OperationForm
  <2>4. PlansAreSound' /\ RunGoesOn'
    BY <1>1, <2>1, <2>2, <2>3 DEF PlansAreSound, RunGoesOn, Verified
  <2>5. QED
    BY <1>1, <2>1, <2>3, <2>4 DEF RuntimeInv, RuntimeTypeOK, RunSteps
<1>5. CASE RecheckRun
  <2>1. /\ operation.step = "prepared"
        /\ operation' = [operation EXCEPT !.step = "started"]
        /\ calm' = TRUE /\ UNCHANGED <<world, changes>>
    BY <1>5 DEF RecheckRun
  <2>2. /\ OperationForm(operation)' /\ operation'.recorded \in Nat
        /\ operation'.step = "started" /\ operation'.request = operation.request
        /\ operation'.plan = operation.plan /\ operation'.todo = operation.todo
        /\ operation'.review = operation.review
    BY <1>1, <2>1 DEF OperationForm
  <2>3. PlansAreSound' /\ RunGoesOn'
    BY <2>1, <2>2 DEF RuntimeInv, PlansAreSound, RunGoesOn, RunSteps
  <2>4. QED
    BY <1>1, <2>1, <2>2, <2>3 DEF RuntimeInv, RuntimeTypeOK, RunSteps
<1>6. QED
  BY <1>2, <1>3, <1>4, <1>5

\* The guard of the run finds what the plan was made on.
LEMMA GuardKeeps ==
  ASSUME RuntimeInv, GuardPlay
  PROVE  RuntimeInv'
<1> DEFINE q == operation.request
<1> DEFINE s == operation.plan.todo
<1>1. /\ OperationForm(operation) /\ operation.recorded \in Nat
      /\ world \in WorldStates /\ changes \in Nat /\ calm \in BOOLEAN /\ operation.step = "started"
      /\ q \in OperationRequests /\ operation.plan # Blocked
      /\ q.kind \in Reviewed => operation.plan = operation.review
      /\ operation.todo = s
  BY DEF RuntimeInv, RuntimeTypeOK, PlansAreSound, RunGoesOn, RunSteps, GuardPlay
<1>2. PICK w \in WorldStates : operation.plan = PlanOf(w, q)
  BY <1>1 DEF RuntimeInv, PlansAreSound, RunSteps
<1>3. operation.plan.kind = q.kind /\ s \in Seq(NativeSteps \cup GuestIds)
  BY <1>1, <1>2, PlansAreTyped
<1>4. /\ GuardPasses /\ operation' = [operation EXCEPT !.step = "native"]
      /\ calm' \in BOOLEAN /\ UNCHANGED <<world, changes>>
  BY <1>1 DEF GuardPlay
<1>5. /\ OperationForm(operation)' /\ operation'.recorded \in Nat
      /\ operation'.step = "native" /\ operation'.request = q
      /\ operation'.plan = operation.plan /\ operation'.todo = operation.todo
      /\ operation'.review = operation.review
  BY <1>1, <1>4 DEF OperationForm
<1>6. Guarded(1)
  <2>1. CASE q.kind = "guests"
    BY <1>3, <1>4, <2>1 DEF Guarded, GuardPasses
  <2>2. CASE q.kind = "network"
    <3>1. q \in NetworkRequests
      BY <1>1, <2>2, Kinds
    <3>2. /\ operation.plan.guards = <<w.vnet, w.pending>> /\ ~w.vnet.attached
          /\ q.action = "create" => ~w.vnet.exists
          /\ q.action = "delete" => w.vnet.own
      BY <1>1, <1>2, <3>1, NetworkPlans
    <3>3. operation.plan.guards = <<world.vnet, world.pending>>
      BY <1>3, <1>4, <2>2 DEF GuardPasses
    <3>4. w.vnet = world.vnet
      BY <3>2, <3>3
    <3>5. QED
      BY <2>2, <3>2, <3>4 DEF Guarded
  <2>3. CASE q.kind \notin {"guests", "network"}
    BY <2>3 DEF Guarded
  <2>4. QED
    BY <2>1, <2>2, <2>3
<1>7. RunGoesOn'
  <2>1. Len(s) \in Nat /\ s = SubSeq(s, 1, Len(s))
    BY <1>3, SubSeqFull, LenProperties
  <2>2. Guarded(1)'
    BY <1>4, <1>5, <1>6 DEF Guarded
  <2>3. 1 \in 1 .. Len(s) + 1
    BY <2>1
  <2>4. operation'.plan.todo = s /\ operation'.todo = SubSeq(s, 1, Len(s))
    BY <1>1, <1>5, <2>1
  <2> HIDE DEF s
  <2>5. QED
    BY <1>5, <2>2, <2>3, <2>4 DEF RunGoesOn
<1>8. PlansAreSound'
  BY <1>1, <1>2, <1>5 DEF PlansAreSound
<1>9. QED
  BY <1>1, <1>4, <1>5, <1>7, <1>8 DEF RuntimeInv, RuntimeTypeOK, RunSteps

\* Every step of an operation keeps the invariant.
LEMMA RuntimeInductive ==
  ASSUME RuntimeInv, [RuntimeNext]_runtimeVars
  PROVE  RuntimeInv'
<1>1. /\ OperationForm(operation) /\ operation.recorded \in Nat
      /\ world \in WorldStates /\ changes \in Nat /\ calm \in BOOLEAN
      /\ operation.step # "none" => operation.request \in OperationRequests
      /\ operation.step \in RunSteps => PlansAreSound
  BY DEF RuntimeInv, RuntimeTypeOK
<1>2. CASE RunFails
  <2>1. /\ operation.step \in {"queued"} \cup RunSteps
        /\ operation' = [operation EXCEPT !.step = IF @ \in {"queued", "prepared"} THEN "closed" ELSE "exited",
                                    !.result = IF operation.step = "native" THEN "cut" ELSE "failed"]
        /\ UNCHANGED <<world, changes, calm>>
    BY <1>2 DEF RunFails, RunSteps
  <2>2. /\ OperationForm(operation)' /\ operation'.recorded \in Nat
        /\ operation'.step = IF operation.step \in {"queued", "prepared"} THEN "closed" ELSE "exited"
        /\ operation'.request = operation.request
        /\ operation'.plan = operation.plan /\ operation'.review = operation.review
    BY <1>1, <2>1 DEF OperationForm
  <2>3. PlansAreSound' /\ RunGoesOn'
    BY <2>1, <2>2 DEF RuntimeInv, PlansAreSound, RunGoesOn, RunSteps
  <2>4. QED
    BY <1>1, <2>1, <2>2, <2>3 DEF RuntimeInv, RuntimeTypeOK, RunSteps
<1>3. CASE NativeStep
  <2>1. world' \in WorldStates /\ RunGoesOn'
    BY <1>3, NativeKeeps
  <2>2. /\ OperationForm(operation)' /\ operation'.step = "native" /\ operation'.plan = operation.plan
        /\ operation'.request = operation.request /\ operation'.review = operation.review
        /\ operation'.recorded \in Nat /\ changes' = changes /\ calm' = calm
    BY <1>3, NativeMovesOn
  <2>3. operation.step = "native"
    BY <1>3 DEF NativeStep
  <2>4. PlansAreSound'
    BY <2>2, <2>3 DEF RuntimeInv, PlansAreSound, RunSteps
  <2>5. QED
    BY <1>1, <2>1, <2>2, <2>3, <2>4 DEF RuntimeInv, RuntimeTypeOK, RunSteps
<1>4. CASE RunEnds
  <2>1. /\ operation.step = "native" /\ operation' = [operation EXCEPT !.step = "exited"]
        /\ UNCHANGED <<world, changes, calm>>
    BY <1>4 DEF RunEnds
  <2>2. /\ OperationForm(operation)' /\ operation'.recorded \in Nat /\ operation'.step = "exited"
        /\ operation'.request = operation.request
        /\ operation'.plan = operation.plan /\ operation'.review = operation.review
    BY <1>1, <2>1 DEF OperationForm
  <2>3. PlansAreSound' /\ RunGoesOn'
    BY <2>1, <2>2 DEF RuntimeInv, PlansAreSound, RunGoesOn, RunSteps
  <2>4. QED
    BY <1>1, <2>1, <2>2, <2>3 DEF RuntimeInv, RuntimeTypeOK, RunSteps
<1>5. CASE Readback
  <2>1. PICK result : operation' = [operation EXCEPT !.step = "closed", !.result = result]
    BY <1>5 DEF Readback
  <2>2. operation.step = "exited" /\ UNCHANGED <<world, changes, calm>>
    BY <1>5 DEF Readback
  <2>3. /\ OperationForm(operation)' /\ operation'.recorded \in Nat /\ operation'.step = "closed"
        /\ operation'.request = operation.request
    BY <1>1, <2>1 DEF OperationForm
  <2>4. QED
    BY <1>1, <2>2, <2>3 DEF RuntimeInv, RuntimeTypeOK, PlansAreSound, RunGoesOn, RunSteps
<1>6. CASE OthersChange
  <2>1. /\ operation.step # "none" /\ operation' = operation /\ changes' = changes + 1 /\ calm' = FALSE
        /\ world' \in Changed(world, operation.request.kind)
    BY <1>6 DEF OthersChange
  <2>2. world' \in WorldStates
    BY <1>1, <2>1, Kinds, OthersKeep
  <2>3. RuntimeTypeOK'
    <3>1. OperationForm(operation)'
      BY <1>1, <2>1 DEF OperationForm
    <3>2. changes' \in Nat
      BY <1>1, <2>1
    <3>3. calm' \in BOOLEAN
      BY <2>1, Zenon
    <3>4. QED
      BY <1>1, <2>1, <2>2, <3>1, <3>2, <3>3 DEF RuntimeInv, RuntimeTypeOK
  <2>4. PlansAreSound' /\ RunGoesOn'
    BY <2>1 DEF RuntimeInv, PlansAreSound, RunGoesOn
  <2>5. QED
    BY <2>3, <2>4 DEF RuntimeInv
<1>7. CASE UNCHANGED runtimeVars
  BY <1>7 DEF runtimeVars, RuntimeInv, RuntimeTypeOK, OperationForm, PlansAreSound, RunGoesOn, Guarded
<1>8. QED
  BY <1>2, <1>3, <1>4, <1>5, <1>6, <1>7, PreparationKeeps, GuardKeeps DEF RuntimeNext

\* A step of the API or of its run that changes the cluster is a native step.
LEMMA OwnStepsAreNative ==
  ASSUME RuntimeInv, RuntimeNext, world' # world, changes' = changes
  PROVE  NativeStep
<1>1. changes \in Nat
  BY DEF RuntimeInv, RuntimeTypeOK
<1>2. ~OthersChange
  BY <1>1 DEF OthersChange
<1>3. QED
  BY <1>2 DEF RuntimeNext, ReviewPlan, CreateOperation, PrepareRun, RecheckRun, GuardPlay, RunFails, RunEnds, Readback

\* A shared resource changes as it was reviewed.
LEMMA ReviewedChanges ==
  ASSUME RuntimeInv, RuntimeNext
  PROVE  ChangesAreReviewed
<1>1. SUFFICES ASSUME world' # world, changes' = changes
               PROVE  LET op == operation IN
                      /\ op.request.kind \in Reviewed => op.plan = op.review
                      /\ calm => Ours(world, op, Head(op.todo))
                      /\ op.request.kind = "rule" /\ op.request.action # "create" =>
                           Editable(world.chain[op.request.pos]) /\ world'.chain = op.review.expected
                      /\ op.request.kind = "rule" /\ op.request.action = "create" => Tail(world'.chain) = world.chain
  BY DEF ChangesAreReviewed
<1>2. NativeStep
  BY <1>1, OwnStepsAreNative
<1>3. operation.request.kind \in Reviewed => operation.plan = operation.review
  BY <1>2, NextOfPlan
<1>4. QED
  BY <1>2, <1>3, NativeKeeps

\* What was read back of a planned operation is what was asked for.
LEMMA ReachedIsAchieved ==
  ASSUME RuntimeInv, operation.step = "exited", NEW hidden, Reached(world, operation, hidden)
  PROVE  /\ Achieved(world, operation.request)
         /\ operation.request.kind = "network" => world.neighbour = operation.recorded
<1> DEFINE q == operation.request
<1>1. /\ q \in OperationRequests /\ operation.plan # Blocked /\ world \in WorldStates
      /\ q.kind \in Reviewed => operation.plan = operation.review
  BY DEF RuntimeInv, RuntimeTypeOK, PlansAreSound, RunSteps
<1>2. PICK w \in WorldStates : operation.plan = PlanOf(w, q)
  BY DEF RuntimeInv, PlansAreSound, RunSteps
<1> HIDE DEF q
<1>3. CASE q.kind = "rule"
  BY <1>1, <1>3 DEF Reached, Achieved, Reviewed, q
<1>4. CASE q.kind = "network"
  <2>1. q.action \in {"create", "delete"}
    BY <1>1, <1>4, Kinds
  <2>2. world.vnet.own => world.vnet.exists
    BY <1>1 DEF WorldStates, VnetStates
  <2>3. /\ world.neighbour = operation.recorded /\ world.vnet.live = Count(Wanted(q))
        /\ q.action = "create" => world.vnet.own /\ world.vnet.active
        /\ q.action = "delete" => ~world.vnet.exists
    BY <1>4, <2>1 DEF Reached, q
  <2>4. Count(Wanted(q)) = IF q.action = "create" THEN 1 ELSE 0
    BY <1>4 DEF Count, Wanted
  <2>5. Achieved(world, q)
    BY <1>4, <2>1, <2>2, <2>3, <2>4 DEF Achieved
  <2>6. QED
    BY <2>3, <2>5 DEF q
<1>5. CASE q.kind = "guests"
  <2>1. q \in GuestRequests
    BY <1>1, <1>5, Kinds
  <2>2. \A v \in q.vms : v \in operation.plan.vmids \/ v \in operation.plan.missing
    BY <1>1, <1>2, <2>1, GuestPlans
  <2>3. operation.plan.missing = {} /\ \A v \in operation.plan.vmids : Matches(world.vm[v], q.enabled)
    BY <1>5 DEF Reached, q
  <2>4. \A v \in q.vms : Matches(world.vm[v], q.enabled)
    BY <2>2, <2>3
  <2>5. \A v \in q.vms :
          world.vm[v].status = "owned" /\ world.vm[v].firewall = q.enabled /\ (q.enabled => world.vm[v].nic = "on")
    BY <2>4 DEF Matches
  <2>6. Achieved(world, q)
    BY <1>5, <2>5 DEF Achieved
  <2>7. QED
    BY <1>5, <2>6 DEF q
<1>6. CASE q.kind = "snat"
  BY <1>6 DEF Reached, Achieved, q
<1>7. CASE q.kind = "switches"
  BY <1>7 DEF Reached, Achieved, q
<1>8. QED
  BY <1>1, <1>3, <1>4, <1>5, <1>6, <1>7, Kinds

\* A result that is green has reached its request.
LEMMA GreenResults ==
  ASSUME RuntimeInv, RuntimeNext
  PROVE  GreenIsReached
<1>1. SUFFICES ASSUME operation'.result = "succeeded", operation.result # "succeeded"
               PROVE  /\ world.target = operation.target
                      /\ Achieved(world, operation.request)
                      /\ operation.request.kind = "network" => world.neighbour = operation.recorded
  BY DEF GreenIsReached
<1>2. OperationForm(operation)
  BY DEF RuntimeInv, RuntimeTypeOK
<1>3. Readback
  <2>1. (\E q \in RuntimeRequests : ReviewPlan(q)) \/ CreateOperation \/ PrepareRun \/ RecheckRun \/ GuardPlay \/ RunEnds
          => operation'.result = operation.result
    BY <1>2 DEF ReviewPlan, CreateOperation, PrepareRun, RecheckRun, GuardPlay, RunEnds, OperationForm
  <2>2. NativeStep => operation'.result = operation.result
    BY NativeMovesOn
  <2>3. RunFails => operation'.result # "succeeded"
    BY <1>2 DEF RunFails, OperationForm
  <2>4. OthersChange => operation'.result = operation.result
    BY DEF OthersChange
  <2>5. QED
    BY <1>1, <2>1, <2>2, <2>3, <2>4 DEF RuntimeNext
<1>4. PICK readable \in BOOLEAN, hidden \in SUBSET DOMAIN world.vm :
        operation' = [operation EXCEPT !.step = "closed",
          !.result = IF /\ operation.result = "open" /\ readable
                        /\ world.target = operation.target /\ Reached(world, operation, hidden)
                     THEN "succeeded" ELSE "failed"]
  BY <1>3 DEF Readback
<1>5. world.target = operation.target /\ Reached(world, operation, hidden)
  BY <1>1, <1>2, <1>4 DEF OperationForm
<1>6. operation.step = "exited"
  BY <1>3 DEF Readback
<1>7. QED
  BY <1>5, <1>6, ReachedIsAchieved

\* A run has a plan of a cluster that did not refuse it and works it off in order.
THEOREM RuntimeInvariance == RuntimeSpec => []RuntimeInv
<1>1. ASSUME RuntimeInit
      PROVE  RuntimeInv
  <2>1. world \in WorldStates /\ operation = NoOperation /\ changes = 0
    BY <1>1, WorldsAssumption DEF RuntimeInit
  <2>2. calm \in BOOLEAN
    BY <1>1, Zenon DEF RuntimeInit
  <2>3. OperationForm(operation) /\ operation.recorded = 0 /\ operation.step = "none"
    BY <2>1 DEF NoOperation, OperationForm
  <2>4. QED
    BY <2>1, <2>2, <2>3 DEF RuntimeInv, RuntimeTypeOK, PlansAreSound, RunGoesOn, RunSteps
<1>2. QED
  BY <1>1, RuntimeInductive, PTL DEF RuntimeSpec

\* Whoever changes the cluster in between: a shared resource changes only as it
\* was reviewed, without interference only what is ours is touched, and green
\* is what reached its request, for any clusters, requests and changes.
THEOREM RuntimeIsSafeHolds == RuntimeSpec => RuntimeIsSafe
<1>1. RuntimeInv /\ [RuntimeNext]_runtimeVars => [ChangesAreReviewed /\ GreenIsReached]_runtimeVars
  BY ReviewedChanges, GreenResults
<1>2. QED
  BY <1>1, RuntimeInvariance, PTL DEF RuntimeSpec, RuntimeIsSafe
=============================================================================
