------------------------ MODULE AllocationLedgerProofs ------------------------
(* Theorems of AllocationLedger for every set of projects, deployments and *)
(* identifiers, and of AllocationPlan for every request.                   *)
EXTENDS AllocationLedger, AllocationPlan, SequenceTheorems, FiniteSetTheorems,
        WellFoundedInduction, TLAPS

\* A claim, once there is one, is the whole manifest, and without a manifest
\* there is neither a claim nor an attempt.
ClaimIsManifest == \A d \in Deployments :
  /\ claim[d] # {} => claim[d] = manifest[d]
  /\ manifest[d] = {} => attempt[d] = "idle"
  /\ attempt[d] = "running" => claim[d] = manifest[d]

\* Unless an attempt was reserved since the release began, every guest of the
\* deployment is among the identifiers that have not been probed yet.
ReleaseSeesGuests == \A d \in Deployments : release.dep = d =>
  /\ release.seen <= attempts[d]
  /\ release.seen = attempts[d] =>
       attempt[d] = "idle" /\ \A v \in Vmids : guest[v] = d => v \in release.left

LedgerInv == LedgerHolds /\ ClaimIsManifest /\ ReleaseSeesGuests

-----------------------------------------------------------------------------
(* Leases.                                                                 *)

\* What a plan may assign is free of claims and of the live leases of others.
LEMMA PlansAreFree ==
  ASSUME LedgerTypeOK, NEW p \in Projects, NEW vms \in PlansOf(p)
  PROVE  vms \subseteq Vmids /\ vms \cap (Claims \cup Leases(p)) = {}
<1>1. lease[p] \subseteq Vmids
  BY DEF LedgerTypeOK
<1>2. QED
  BY <1>1 DEF PlansOf

\* Rows that a request only reads keep everything that is about them.
LEMMA RowsUnchanged ==
  ASSUME LedgerInv, UNCHANGED <<ledgerRows, runs, release, guest>>, LedgerTypeOK'
  PROVE  LedgerInv'
BY DEF LedgerInv, LedgerHolds, LedgerDisjoint, GuestsStayClaimed, ClaimIsManifest, ReleaseSeesGuests,
       ledgerRows, runs

\* The steps of a request that store nothing.
LEMMA RequestKeeps ==
  ASSUME LedgerInv, NEW p \in Projects, Audit(p) \/ Replan(p) \/ Probe(p) \/ RequestFails(p)
  PROVE  LedgerInv'
<1> DEFINE Rounds == [step : {"idle", "plan", "probe"}, occupied : SUBSET Vmids,
                      checked : SUBSET Vmids, pending : SUBSET Vmids]
<1>1. LedgerTypeOK /\ request[p] \in Rounds
  BY DEF LedgerInv, LedgerHolds, LedgerTypeOK
<1>2. Existing \subseteq Vmids
  BY DEF Existing
<1>3. PICK next \in Rounds : request' = [request EXCEPT ![p] = next]
  <2>1. CASE Audit(p)
    BY <1>2, <2>1 DEF Audit
  <2>2. CASE Replan(p)
    <3>1. PICK vms \in PlansOf(p) :
            request' = [request EXCEPT ![p] =
              [step |-> "probe", occupied |-> request[p].occupied, checked |-> request[p].checked,
               pending |-> vms \ request[p].checked]]
      BY <2>2 DEF Replan
    <3>2. QED
      BY <1>1, <3>1, PlansAreFree
  <2>3. CASE Probe(p)
    BY <1>1, <1>2, <2>3 DEF Probe
  <2>4. CASE RequestFails(p)
    BY <2>4 DEF RequestFails, NoRequest
  <2>5. QED
    BY <2>1, <2>2, <2>3, <2>4
<1>4. UNCHANGED <<ledgerRows, runs, release, guest>>
  BY DEF Audit, Replan, Probe, RequestFails
<1>5. LedgerTypeOK'
  BY <1>1, <1>3, <1>4 DEF LedgerTypeOK, ledgerRows, runs
<1>6. QED
  BY <1>4, <1>5, RowsUnchanged

\* A lease is stored, expires or is given back: whatever the plan was made
\* from, it is compared with the rows of the same transaction.
LEMMA LeaseKeeps ==
  ASSUME LedgerInv, NEW p \in Projects, Store(p) \/ LeaseExpires(p) \/ ReleaseLease(p)
  PROVE  LedgerInv'
<1> USE DEF LedgerInv, LedgerHolds
<1>1. UNCHANGED <<present, claim, manifest, runs, release, guest>>
  BY DEF Store, LeaseExpires, ReleaseLease
<1>2. ClaimIsManifest' /\ ReleaseSeesGuests' /\ GuestsStayClaimed'
  BY <1>1 DEF ClaimIsManifest, ReleaseSeesGuests, GuestsStayClaimed, runs
<1>3. CASE Store(p)
  <2>1. PICK vms \in PlansOf(p) :
          lease' = [q \in Projects |-> IF q = p THEN vms ELSE IF q \in expired THEN {} ELSE lease[q]]
    BY <1>3 DEF Store
  <2>2. expired' = {} /\ request' = [request EXCEPT ![p] = NoRequest]
    BY <1>3 DEF Store
  <2>3. vms \subseteq Vmids /\ vms \cap (Claims \cup Leases(p)) = {}
    BY PlansAreFree
  <2>4. LedgerTypeOK'
    BY <1>1, <2>1, <2>2, <2>3 DEF LedgerTypeOK, NoRequest, runs
  <2>5. \A q \in Projects \ {p} : vms \cap lease'[q] = {}
    BY <2>1, <2>3 DEF Leases
  <2>6. \A q, r \in Projects \ {p} : q # r => lease'[q] \cap lease'[r] = {}
    BY <2>1 DEF LedgerDisjoint
  <2>7. \A q \in Projects, d \in Deployments : lease'[q] \cap claim[d] = {}
    BY <2>1, <2>3 DEF LedgerDisjoint, Claims
  <2>8. lease'[p] = vms
    BY <2>1
  <2>9. LedgerDisjoint'
    BY <1>1, <2>5, <2>6, <2>7, <2>8 DEF LedgerDisjoint
  <2>10. QED
    BY <1>2, <2>4, <2>9
<1>4. CASE LeaseExpires(p)
  <2>1. LedgerTypeOK' /\ LedgerDisjoint'
    BY <1>1, <1>4 DEF LeaseExpires, LedgerTypeOK, LedgerDisjoint, runs
  <2>2. QED
    BY <1>2, <2>1
<1>5. CASE ReleaseLease(p)
  <2>1. LedgerTypeOK' /\ LedgerDisjoint'
    BY <1>1, <1>5 DEF ReleaseLease, LedgerTypeOK, LedgerDisjoint, runs
  <2>2. QED
    BY <1>2, <2>1
<1>6. QED
  BY <1>3, <1>4, <1>5

-----------------------------------------------------------------------------
(* Claims.                                                                 *)

\* A deployment is created with the lease as its claim, or without a claim.
LEMMA CreateKeeps ==
  ASSUME LedgerInv, NEW d \in Deployments, CreateManual(d) \/ \E p \in Projects : CreateFromLease(d, p)
  PROVE  LedgerInv'
<1> USE DEF LedgerInv, LedgerHolds
<1>1. manifest[d] = {} /\ claim[d] = {} /\ attempt[d] = "idle"
      /\ UNCHANGED <<present, expired, request, runs, release, guest>>
  BY DEF CreateManual, CreateFromLease, ClaimIsManifest
<1>2. CASE CreateManual(d)
  <2>1. PICK v \in Vmids : manifest' = [manifest EXCEPT ![d] = {v}]
    BY <1>2 DEF CreateManual
  <2>2. UNCHANGED <<lease, claim>>
    BY <1>2 DEF CreateManual
  <2>3. LedgerTypeOK' /\ LedgerDisjoint' /\ GuestsStayClaimed' /\ ReleaseSeesGuests'
    BY <1>1, <2>1, <2>2 DEF LedgerTypeOK, LedgerDisjoint, GuestsStayClaimed, ReleaseSeesGuests, runs
  <2>4. ClaimIsManifest'
    BY <1>1, <2>1, <2>2 DEF ClaimIsManifest, LedgerTypeOK, runs
  <2>5. QED
    BY <2>3, <2>4
<1>3. ASSUME NEW p \in Projects, CreateFromLease(d, p)
      PROVE  LedgerInv'
  <2>1. /\ manifest' = [manifest EXCEPT ![d] = lease[p]]
        /\ claim' = [claim EXCEPT ![d] = lease[p]]
        /\ lease' = [lease EXCEPT ![p] = {}]
        /\ p \notin expired
    BY <1>3 DEF CreateFromLease
  <2>2. lease[p] \subseteq Vmids /\ lease[p] # {}
    BY <1>3 DEF CreateFromLease, LedgerTypeOK
  <2>3. LedgerTypeOK'
    BY <1>1, <2>1, <2>2 DEF LedgerTypeOK, runs
  <2>4. LedgerDisjoint'
    BY <1>1, <2>1 DEF LedgerDisjoint, LedgerTypeOK
  <2>5. GuestsStayClaimed'
    BY <1>1, <2>1 DEF GuestsStayClaimed, LedgerTypeOK
  <2>6. ClaimIsManifest'
    BY <1>1, <2>1, <2>2 DEF ClaimIsManifest, LedgerTypeOK, runs
  <2>7. ReleaseSeesGuests'
    BY <1>1 DEF ReleaseSeesGuests, runs
  <2>8. QED
    BY <2>3, <2>4, <2>5, <2>6, <2>7
<1>4. QED
  BY <1>2, <1>3

\* An attempt that has no claim yet gets one that is as free as a new lease.
LEMMA EnsureKeeps == ASSUME LedgerInv, NEW d \in Deployments, EnsureClaim(d) PROVE LedgerInv'
<1> USE DEF LedgerInv, LedgerHolds
<1>1. /\ claim' = [claim EXCEPT ![d] = manifest[d]]
      /\ attempt' = [attempt EXCEPT ![d] = "running"]
      /\ attempt[d] = "started"
      /\ UNCHANGED <<present, lease, expired, manifest, request, attempts, flock, release, guest>>
  BY DEF EnsureClaim, At
<1>2. manifest[d] \subseteq Vmids /\ manifest[d] # {}
  BY <1>1 DEF LedgerTypeOK, ClaimIsManifest
<1>3. LedgerTypeOK'
  BY <1>1, <1>2 DEF LedgerTypeOK
<1>4. LedgerDisjoint'
  <2>1. CASE claim[d] # {}
    BY <1>1, <2>1 DEF LedgerDisjoint, ClaimIsManifest, LedgerTypeOK
  <2>2. CASE claim[d] = {}
    <3>1. manifest[d] \cap (Claims \cup Leases(Nobody)) = {}
      BY <2>2 DEF EnsureClaim, Available
    <3>2. \A p \in Projects \ expired : lease[p] \cap manifest[d] = {}
      BY <3>1, NobodyAssumption DEF Leases
    <3>3. \A e \in Deployments : claim[e] \cap manifest[d] = {}
      BY <3>1 DEF Claims
    <3>4. QED
      BY <1>1, <3>2, <3>3 DEF LedgerDisjoint, LedgerTypeOK
  <2>3. QED
    BY <2>1, <2>2
<1>5. GuestsStayClaimed'
  BY <1>1 DEF GuestsStayClaimed, ClaimIsManifest, LedgerTypeOK
<1>6. ClaimIsManifest'
  BY <1>1, <1>2 DEF ClaimIsManifest, LedgerTypeOK
<1>7. ReleaseSeesGuests'
  BY <1>1 DEF ReleaseSeesGuests, LedgerTypeOK
<1>8. QED
  BY <1>3, <1>4, <1>5, <1>6, <1>7

\* The other steps of an attempt touch no lease and no claim; a guest is made
\* only under a claim, after which no release of that claim can be committed.
LEMMA AttemptKeeps ==
  ASSUME LedgerInv, NEW d \in Deployments,
         ReserveAttempt(d) \/ StartAttempt(d) \/ AttemptEnds(d) \/ \E v \in Vmids : CreateGuest(d, v)
  PROVE  LedgerInv'
<1> USE DEF LedgerInv, LedgerHolds
<1>1. UNCHANGED <<present, lease, expired, claim, manifest, request, release>>
  BY DEF ReserveAttempt, StartAttempt, AttemptEnds, CreateGuest, ledgerRows
<1>2. LedgerDisjoint'
  BY <1>1 DEF LedgerDisjoint
<1>3. CASE ReserveAttempt(d)
  <2>1. /\ attempt' = [attempt EXCEPT ![d] = "reserved"]
        /\ attempts' = [attempts EXCEPT ![d] = attempts[d] + 1]
        /\ manifest[d] # {} /\ guest' = guest
    BY <1>3 DEF ReserveAttempt, At
  <2>2. LedgerTypeOK'
    BY <1>1, <2>1 DEF LedgerTypeOK
  <2>3. ClaimIsManifest' /\ GuestsStayClaimed'
    BY <1>1, <2>1 DEF ClaimIsManifest, GuestsStayClaimed, LedgerTypeOK
  <2>4. ReleaseSeesGuests'
    BY <1>1, <2>1 DEF ReleaseSeesGuests, LedgerTypeOK
  <2>5. QED
    BY <1>2, <2>2, <2>3, <2>4
<1>4. CASE StartAttempt(d)
  <2>1. /\ attempt' = [attempt EXCEPT ![d] = "started"] /\ attempt[d] = "reserved"
        /\ UNCHANGED <<attempts, guest>>
    BY <1>4 DEF StartAttempt, At
  <2>2. LedgerTypeOK' /\ GuestsStayClaimed'
    BY <1>1, <2>1 DEF LedgerTypeOK, GuestsStayClaimed
  <2>3. ClaimIsManifest' /\ ReleaseSeesGuests'
    BY <1>1, <2>1 DEF ClaimIsManifest, ReleaseSeesGuests, LedgerTypeOK
  <2>4. QED
    BY <1>2, <2>2, <2>3
<1>5. CASE AttemptEnds(d)
  <2>1. attempt' = [attempt EXCEPT ![d] = "idle"] /\ UNCHANGED <<attempts, guest>>
    BY <1>5 DEF AttemptEnds, At
  <2>2. LedgerTypeOK' /\ GuestsStayClaimed'
    BY <1>1, <2>1 DEF LedgerTypeOK, GuestsStayClaimed
  <2>3. ClaimIsManifest' /\ ReleaseSeesGuests'
    BY <1>1, <2>1 DEF ClaimIsManifest, ReleaseSeesGuests, LedgerTypeOK
  <2>4. QED
    BY <1>2, <2>2, <2>3
<1>6. ASSUME NEW v \in Vmids, CreateGuest(d, v)
      PROVE  LedgerInv'
  <2>1. guest' = [guest EXCEPT ![v] = d] /\ attempt[d] = "running" /\ v \in manifest[d]
        /\ UNCHANGED <<attempt, attempts>>
    BY <1>6 DEF CreateGuest, runs
  <2>2. v \in claim[d]
    BY <2>1 DEF ClaimIsManifest
  <2>3. LedgerTypeOK' /\ GuestsStayClaimed'
    BY <1>1, <2>1, <2>2 DEF LedgerTypeOK, GuestsStayClaimed
  <2>4. ClaimIsManifest' /\ ReleaseSeesGuests'
    BY <1>1, <2>1 DEF ClaimIsManifest, ReleaseSeesGuests, LedgerTypeOK
  <2>5. QED
    BY <1>2, <2>3, <2>4
<1>7. QED
  BY <1>3, <1>4, <1>5, <1>6

-----------------------------------------------------------------------------
(* Releasing a claim.                                                      *)

\* A release starts with every identifier of the claim, crosses out what was
\* proved absent, and is committed over the same attempt only.
LEMMA ReleaseKeeps ==
  ASSUME LedgerInv, \/ \E d \in Deployments : StartRelease(d)
                    \/ \E v \in Vmids : ProbeAbsence(v)
                    \/ CommitRelease \/ ReleaseFails
  PROVE  LedgerInv'
<1> USE DEF LedgerInv, LedgerHolds
<1>1. UNCHANGED <<present, lease, expired, manifest, request, attempt, attempts, guest>>
  BY DEF StartRelease, ProbeAbsence, CommitRelease, ReleaseFails, ledgerRows, runs
<1>2. ASSUME NEW d \in Deployments, StartRelease(d)
      PROVE  LedgerInv'
  <2>1. /\ claim' = claim /\ attempt[d] = "idle"
        /\ release' = [dep |-> d, seen |-> attempts[d], left |-> claim[d]]
    BY <1>2 DEF StartRelease, ledgerRows
  <2>2. LedgerTypeOK'
    BY <1>1, <2>1 DEF LedgerTypeOK
  <2>3. LedgerDisjoint' /\ GuestsStayClaimed' /\ ClaimIsManifest'
    BY <1>1, <2>1 DEF LedgerDisjoint, GuestsStayClaimed, ClaimIsManifest
  <2>4. ReleaseSeesGuests'
    BY <1>1, <2>1 DEF ReleaseSeesGuests, GuestsStayClaimed, LedgerTypeOK
  <2>5. QED
    BY <2>2, <2>3, <2>4
<1>3. ASSUME NEW v \in Vmids, ProbeAbsence(v)
      PROVE  LedgerInv'
  <2>1. /\ claim' = claim /\ guest[v] = Nobody
        /\ release' = [dep |-> release.dep, seen |-> release.seen, left |-> release.left \ {v}]
    BY <1>3 DEF ProbeAbsence, ledgerRows
  <2>2. LedgerTypeOK'
    BY <1>1, <2>1 DEF LedgerTypeOK
  <2>3. LedgerDisjoint' /\ GuestsStayClaimed' /\ ClaimIsManifest'
    BY <1>1, <2>1 DEF LedgerDisjoint, GuestsStayClaimed, ClaimIsManifest
  <2>4. ReleaseSeesGuests'
    BY <1>1, <2>1, NobodyAssumption DEF ReleaseSeesGuests
  <2>5. QED
    BY <2>2, <2>3, <2>4
<1>4. CASE CommitRelease
  <2> DEFINE d == release.dep
  <2>1. /\ d \in Deployments /\ release.left = {} /\ attempts[d] = release.seen
        /\ attempt[d] = "idle"
        /\ claim' = [claim EXCEPT ![d] = {}] /\ release' = NoRelease
    BY <1>4 DEF CommitRelease, LedgerTypeOK
  <2>2. \A v \in Vmids : guest[v] # d
    BY <2>1 DEF ReleaseSeesGuests
  <2>3. LedgerTypeOK'
    BY <1>1, <2>1 DEF LedgerTypeOK, NoRelease
  <2>4. LedgerDisjoint' /\ ClaimIsManifest'
    BY <1>1, <2>1 DEF LedgerDisjoint, ClaimIsManifest, LedgerTypeOK
  <2>5. GuestsStayClaimed'
    BY <1>1, <2>1, <2>2 DEF GuestsStayClaimed, LedgerTypeOK
  <2>6. ReleaseSeesGuests'
    BY <2>1, NobodyAssumption DEF ReleaseSeesGuests, NoRelease
  <2>7. QED
    BY <2>3, <2>4, <2>5, <2>6
<1>5. CASE ReleaseFails
  <2>1. claim' = claim /\ release' = NoRelease
    BY <1>5 DEF ReleaseFails, ledgerRows
  <2>2. LedgerTypeOK'
    BY <1>1, <2>1 DEF LedgerTypeOK, NoRelease
  <2>3. LedgerDisjoint' /\ GuestsStayClaimed' /\ ClaimIsManifest'
    BY <1>1, <2>1 DEF LedgerDisjoint, GuestsStayClaimed, ClaimIsManifest
  <2>4. ReleaseSeesGuests'
    BY <2>1, NobodyAssumption DEF ReleaseSeesGuests, NoRelease
  <2>5. QED
    BY <2>2, <2>3, <2>4
<1>6. QED
  BY <1>2, <1>3, <1>4, <1>5

\* Guests that come and go elsewhere are nobody's in the ledger.
LEMMA OthersKeep ==
  ASSUME LedgerInv, NEW v \in Vmids, OutsiderCreates(v) \/ GuestRemoved(v)
  PROVE  LedgerInv'
<1> USE DEF LedgerInv, LedgerHolds
<1>1. PICK g \in {Nobody, Outsider} : guest' = [guest EXCEPT ![v] = g]
  BY DEF OutsiderCreates, GuestRemoved
<1>2. UNCHANGED <<ledgerRows, request, runs, release>>
  BY DEF OutsiderCreates, GuestRemoved
<1>3. g \notin Deployments
  BY NobodyAssumption, OutsiderAssumption
<1>4. LedgerTypeOK' /\ LedgerDisjoint' /\ ClaimIsManifest'
  BY <1>1, <1>2 DEF LedgerTypeOK, LedgerDisjoint, ClaimIsManifest, ledgerRows, runs
<1>5. GuestsStayClaimed' /\ ReleaseSeesGuests'
  BY <1>1, <1>2, <1>3 DEF GuestsStayClaimed, ReleaseSeesGuests, LedgerTypeOK, ledgerRows, runs
<1>6. QED
  BY <1>4, <1>5

-----------------------------------------------------------------------------

\* No two owners of an identifier, and no release under an existing guest,
\* however requests, expiries, attempts and releases are interleaved.
THEOREM LedgerHoldsAlways == LedgerSpec => []LedgerHolds
<1>1. LedgerInit => LedgerInv
  <2>1. LedgerInit => LedgerTypeOK
    BY DEF LedgerInit, LedgerTypeOK, NoRequest, NoRelease
  <2>2. LedgerInit => LedgerDisjoint /\ GuestsStayClaimed /\ ClaimIsManifest /\ ReleaseSeesGuests
    BY NobodyAssumption
       DEF LedgerInit, LedgerDisjoint, GuestsStayClaimed, ClaimIsManifest, ReleaseSeesGuests, NoRelease
  <2>3. QED
    BY <2>1, <2>2 DEF LedgerInv, LedgerHolds
<1>2. LedgerInv /\ [LedgerNext]_ledgerVars => LedgerInv'
  <2>1. ASSUME LedgerInv, UNCHANGED ledgerVars PROVE LedgerInv'
    <3>1. LedgerTypeOK'
      BY <2>1 DEF LedgerInv, LedgerHolds, LedgerTypeOK, ledgerVars, ledgerRows, runs
    <3>2. QED
      BY <2>1, <3>1, RowsUnchanged DEF ledgerVars
  <2>2. QED
    BY <2>1, RequestKeeps, LeaseKeeps, CreateKeeps, EnsureKeeps, AttemptKeeps, ReleaseKeeps, OthersKeep
       DEF LedgerNext, Round
<1>3. LedgerInv => LedgerHolds
  BY DEF LedgerInv
<1>4. QED
  BY <1>1, <1>2, <1>3, PTL DEF LedgerSpec

-----------------------------------------------------------------------------
(* AllocationPlan: values of a plan.                                       *)

\* The least value of a set that is not empty is one of its values.
LEMMA MinIsMember ==
  ASSUME NEW S, S \subseteq Nat, S # {}
  PROVE  Min(S) \in S
<1>. DEFINE R == {p \in Nat \X Nat : p[1] < p[2]}
<1>1. R = OpToRel(<, Nat)
  BY DEF OpToRel
<1>2. IsWellFoundedOn(R, Nat)
  BY <1>1, NatLessThanWellFounded
<1>3. \A x, y \in Nat : y < x => <<y, x>> \in R
  OBVIOUS
<1>. HIDE DEF R
<1>4. PICK x \in S : \A y \in S : <<y, x>> \notin R
  BY <1>2, WFMin
<1>5. ASSUME NEW y \in S PROVE x <= y
  <2>1. ~(y < x)
    BY <1>3, <1>4
  <2>. QED
    BY <2>1
<1>. QED
  BY <1>5 DEF Min

\* The value that the request or the lease fixes for an interface, 0 if none.
Want(c) == FixedIps(c[1])[c[2]]
Wish(c) == Pair(ask.vms[c[1]].nics[c[2]], Want(c))
Hosts(c) == HostsOf[Networks[ask.vms[c[1]].nics[c[2]].net].subnet]
Wanted == {c \in Cells : Want(c) # 0}

\* The fixed values of some VMs agree with one another and with what exists.
Agree(S) ==
  /\ \A i \in S : /\ FixedId(i) # 0 => FixedId(i) \notin Protected \cup ask.ids
                  /\ ~IdentityRequired(ask.vms[i].nics, ask.previous[i].nics)
  /\ \A i, j \in S : i # j /\ FixedId(i) # 0 => FixedId(j) # FixedId(i)
  /\ \A c \in Wanted : c[1] \in S => Wish(c) \notin ask.ips /\ Want(c) \in Hosts(c)
  /\ \A c, d \in Wanted : c[1] \in S /\ d[1] \in S /\ c # d => Wish(c) # Wish(d)

\* How far the two loops are.
Complete(i) == DOMAIN given[i].ips = DOMAIN ask.vms[i].nics
PlanGoesOn ==
  /\ at.phase \in {"rest", "fix", "id", "nic", "done", "refused", "exhausted"}
  /\ at.phase # "rest" => ask \in Asks /\ at.vm \in DOMAIN ask.vms
  /\ DOMAIN fixed \subseteq DOMAIN ask.vms /\ DOMAIN given \subseteq DOMAIN fixed
  /\ at.phase = "fix" => DOMAIN fixed = 1..(at.vm - 1) /\ given = <<>>
  /\ at.phase \in {"id", "nic", "done", "exhausted"} => DOMAIN fixed = DOMAIN ask.vms
  /\ at.phase = "id" => DOMAIN given = 1..(at.vm - 1) /\ \A i \in DOMAIN given : Complete(i)
  /\ at.phase = "nic" =>
       /\ DOMAIN given = 1..at.vm /\ \A i \in 1..(at.vm - 1) : Complete(i)
       /\ at.nic \in DOMAIN ask.vms[at.vm].nics /\ DOMAIN given[at.vm].ips = 1..(at.nic - 1)
  /\ at.phase = "done" => DOMAIN given = DOMAIN ask.vms /\ \A i \in DOMAIN given : Complete(i)

Listed(s) == \E R : s \in Seq(R)
PlanTypeOK ==
  /\ Listed(fixed) /\ Listed(given)
  /\ \A i \in DOMAIN given : given[i] = [vm_id |-> given[i].vm_id, ips |-> given[i].ips] /\ Listed(given[i].ips)
  /\ claimed = [ids |-> claimed.ids, ips |-> claimed.ips]

\* The first loop claims what is fixed, and that agrees.
FixedHolds ==
  /\ \A i \in DOMAIN fixed : fixed[i].vm_id = FixedId(i) /\ fixed[i].ips = FixedIps(i)
  /\ Agree(DOMAIN fixed)
  /\ at.phase = "refused" => ~Agree(DOMAIN ask.vms)

\* What is claimed is fixed or given; what is given is what was fixed, or what
\* nobody had.
IdsHold ==
  /\ claimed.ids = ({FixedId(i) : i \in DOMAIN fixed} \ {0}) \cup {given[i].vm_id : i \in DOMAIN given}
  /\ \A i \in DOMAIN given : /\ FixedId(i) # 0 => given[i].vm_id = FixedId(i)
                             /\ given[i].vm_id \notin ask.ids \cup Protected
  /\ \A i \in DOMAIN given, j \in DOMAIN fixed : i # j /\ FixedId(j) # 0 => given[i].vm_id # FixedId(j)
  /\ \A i, j \in DOMAIN given : i # j => given[i].vm_id # given[j].vm_id

FixedCells == {c \in Wanted : c[1] \in DOMAIN fixed}
GivenCells == {c \in Cells : c[1] \in DOMAIN given /\ c[2] \in DOMAIN given[c[1]].ips}
IpsHold ==
  /\ claimed.ips = {Wish(c) : c \in FixedCells} \cup {GivenPair(c) : c \in GivenCells}
  /\ \A c \in GivenCells : /\ Want(c) # 0 => given[c[1]].ips[c[2]] = Want(c)
                           /\ GivenPair(c) \notin ask.ips
  /\ \A c \in GivenCells, d \in FixedCells : c # d => GivenPair(c) # Wish(d)
  /\ \A c, d \in GivenCells : c # d => GivenPair(c) # GivenPair(d)

PlanInv == PlanGoesOn /\ PlanTypeOK /\ FixedHolds /\ IdsHold /\ IpsHold

\* A list that grows by one keeps its other members.
LEMMA ListAppend ==
  ASSUME NEW s, Listed(s), NEW e
  PROVE  /\ Listed(Append(s, e)) /\ Len(s) \in Nat /\ DOMAIN s = 1..Len(s)
         /\ DOMAIN Append(s, e) = 1..(Len(s) + 1)
         /\ \A i \in DOMAIN s : Append(s, e)[i] = s[i]
         /\ Append(s, e)[Len(s) + 1] = e
<1>1. PICK R : s \in Seq(R)
  BY DEF Listed
<1>2. s \in Seq(R \cup {e}) /\ e \in R \cup {e}
  BY <1>1
<1>3. Append(s, e) \in Seq(R \cup {e})
  BY <1>2
<1>. QED
  BY <1>2, <1>3 DEF Listed

\* Equal intervals end alike.
LEMMA SameEnd ==
  ASSUME NEW m \in Nat, NEW n \in Nat \ {0}, 1..m = 1..(n - 1)
  PROVE  m = n - 1
<1>1. m > 0 => m \in 1..m
  OBVIOUS
<1>2. n - 1 > 0 => n - 1 \in 1..(n - 1)
  OBVIOUS
<1>. QED
  BY <1>1, <1>2

\* Replacing one member leaves the others.
LEMMA ListExcept ==
  ASSUME NEW s, Listed(s), NEW i \in DOMAIN s, NEW e
  PROVE  /\ Listed([s EXCEPT ![i] = e])
         /\ DOMAIN [s EXCEPT ![i] = e] = DOMAIN s
         /\ \A j \in DOMAIN s : [s EXCEPT ![i] = e][j] = IF j = i THEN e ELSE s[j]
<1>1. PICK R : s \in Seq(R)
  BY DEF Listed
<1>2. s \in Seq(R \cup {e}) /\ e \in R \cup {e} /\ i \in 1..Len(s)
  BY <1>1
<1>3. [s EXCEPT ![i] = e] \in Seq(R \cup {e})
  BY <1>2, ExceptSeq
<1>. QED
  BY <1>2, <1>3 DEF Listed

\* The cells of a request, as the invariant counts them.
LEMMA CellsOf ==
  /\ \A c \in Cells : c[1] \in DOMAIN ask.vms /\ c[2] \in DOMAIN ask.vms[c[1]].nics /\ c = <<c[1], c[2]>>
  /\ \A i \in DOMAIN ask.vms : \A k \in DOMAIN ask.vms[i].nics : <<i, k>> \in Cells
BY DEF Cells

\* The addresses that are fixed are listed by interface.
LEMMA DomainOfIps == \A i : DOMAIN FixedIps(i) = DOMAIN ask.vms[i].nics
BY DEF FixedIps

\* Equal pairs have equal addresses.
LEMMA EqualWishes ==
  ASSUME NEW c, NEW d, Wish(c) = Wish(d)
  PROVE  Want(c) = Want(d)
BY DEF Wish, Pair

\* Fixed values are in conflict exactly if they do not agree.
LEMMA ConflictIsDisagreement ==
  ASSUME ask \in Asks
  PROVE  Conflict <=> ~Agree(DOMAIN ask.vms)
<1>. DEFINE ips == [i \in DOMAIN ask.vms |-> FixedIps(i)]
            wanted == {<<c, Pair(ask.vms[c[1]].nics[c[2]], ips[c[1]][c[2]])>> : c \in {d \in Cells : ips[d[1]][d[2]] # 0}}
<1>1. \A c \in Cells : ips[c[1]][c[2]] = Want(c) /\ Pair(ask.vms[c[1]].nics[c[2]], ips[c[1]][c[2]]) = Wish(c)
  BY CellsOf DEF Want, Wish
<1>2. wanted = {<<c, Wish(c)>> : c \in Wanted}
  BY <1>1 DEF Wanted
<1>3. \A c \in Wanted : Wish(c)[2] = Want(c) /\ c \in Cells
  BY DEF Wish, Pair, Wanted
<1>4. Conflict <=>
        \/ \E i \in DOMAIN ask.vms :
             \/ FixedId(i) # 0 /\ (FixedId(i) \in Protected \cup ask.ids \/ \E j \in DOMAIN ask.vms : j # i /\ FixedId(j) = FixedId(i))
             \/ IdentityRequired(ask.vms[i].nics, ask.previous[i].nics)
        \/ \E v, w \in wanted : v[2] \in ask.ips \/ (v # w /\ v[2] = w[2])
        \/ \E v \in wanted : v[2][2] \notin HostsOf[Networks[ask.vms[v[1][1]].nics[v[1][2]].net].subnet]
  BY DEF Conflict
<1>5. (\E v, w \in wanted : v[2] \in ask.ips \/ (v # w /\ v[2] = w[2])) <=>
        \E c, d \in Wanted : Wish(c) \in ask.ips \/ (c # d /\ Wish(c) = Wish(d))
  <2>. HIDE DEF wanted
  <2>1. ASSUME NEW v \in wanted, NEW w \in wanted, v[2] \in ask.ips \/ (v # w /\ v[2] = w[2])
        PROVE  \E c, d \in Wanted : Wish(c) \in ask.ips \/ (c # d /\ Wish(c) = Wish(d))
    BY <1>2, <2>1
  <2>2. ASSUME NEW c \in Wanted, NEW d \in Wanted, Wish(c) \in ask.ips \/ (c # d /\ Wish(c) = Wish(d))
        PROVE  \E v, w \in wanted : v[2] \in ask.ips \/ (v # w /\ v[2] = w[2])
    <3>1. <<c, Wish(c)>> \in wanted /\ <<d, Wish(d)>> \in wanted
      BY <1>2
    <3>2. c # d => <<c, Wish(c)>> # <<d, Wish(d)>>
      OBVIOUS
    <3>. QED
      BY <2>2, <3>1, <3>2
  <2>. QED
    BY <2>1, <2>2
<1>6. (\E v \in wanted : v[2][2] \notin HostsOf[Networks[ask.vms[v[1][1]].nics[v[1][2]].net].subnet]) <=>
        \E c \in Wanted : Want(c) \notin Hosts(c)
  <2>. HIDE DEF wanted
  <2>1. ASSUME NEW v \in wanted
        PROVE  \E c \in Wanted : v[2][2] = Want(c) /\ HostsOf[Networks[ask.vms[v[1][1]].nics[v[1][2]].net].subnet] = Hosts(c)
    <3>1. PICK c \in Wanted : v = <<c, Wish(c)>>
      BY <1>2
    <3>2. v[1] = c /\ v[2] = Wish(c)
      BY <3>1
    <3>. QED
      BY <1>3, <3>2 DEF Hosts
  <2>2. ASSUME NEW c \in Wanted
        PROVE  \E v \in wanted : v[2][2] = Want(c) /\ HostsOf[Networks[ask.vms[v[1][1]].nics[v[1][2]].net].subnet] = Hosts(c)
    <3>1. <<c, Wish(c)>> \in wanted /\ <<c, Wish(c)>>[1] = c /\ <<c, Wish(c)>>[2] = Wish(c)
      BY <1>2
    <3>. QED
      BY <1>3, <3>1 DEF Hosts
  <2>. QED
    BY <2>1, <2>2
<1>7. \A c \in Wanted : c[1] \in DOMAIN ask.vms
  BY <1>3, CellsOf
<1>. HIDE DEF ips, wanted
<1>. QED
  BY <1>4, <1>5, <1>6, <1>7 DEF Agree

\* What is said of the request alone does not change with the plan.
LEMMA AskStays ==
  ASSUME UNCHANGED ask
  PROVE  /\ \A i : FixedId(i)' = FixedId(i) /\ FixedIps(i)' = FixedIps(i)
         /\ Cells' = Cells /\ Wanted' = Wanted
         /\ \A c : Want(c)' = Want(c) /\ Wish(c)' = Wish(c) /\ Hosts(c)' = Hosts(c)
         /\ \A S : Agree(S)' <=> Agree(S)
<1>1. \A i : FixedId(i)' = FixedId(i) /\ FixedIps(i)' = FixedIps(i)
  BY DEF FixedId, FixedIps
<1>2. \A c : Want(c)' = Want(c) /\ Hosts(c)' = Hosts(c)
  BY <1>1 DEF Want, Hosts
<1>3. \A c : Wish(c)' = Wish(c)
  BY <1>2 DEF Wish
<1>4. Cells' = Cells
  BY DEF Cells
<1>5. Wanted' = Wanted
  BY <1>2, <1>4 DEF Wanted
<1>6. \A S : Agree(S)' <=> Agree(S)
  BY <1>1, <1>2, <1>3, <1>5 DEF Agree
<1>. QED
  BY <1>1, <1>2, <1>3, <1>4, <1>5, <1>6

\* The pairs that a VM fixes.
LEMMA PairsOfVm ==
  ASSUME NEW i \in DOMAIN ask.vms
  PROVE  FixedPairs(i) = {Wish(c) : c \in {d \in Wanted : d[1] = i}}
<1>1. ASSUME NEW k \in DOMAIN FixedIps(i), FixedIps(i)[k] # 0
      PROVE  /\ <<i, k>> \in {d \in Wanted : d[1] = i}
             /\ Pair(ask.vms[i].nics[k], FixedIps(i)[k]) = Wish(<<i, k>>)
  BY <1>1, CellsOf, DomainOfIps DEF Wanted, Want, Wish
<1>2. ASSUME NEW c \in {d \in Wanted : d[1] = i}
      PROVE  /\ c[2] \in {j \in DOMAIN FixedIps(i) : FixedIps(i)[j] # 0}
             /\ Wish(c) = Pair(ask.vms[i].nics[c[2]], FixedIps(i)[c[2]])
  BY CellsOf, DomainOfIps DEF Wanted, Want, Wish
<1>3. ASSUME NEW p \in FixedPairs(i) PROVE p \in {Wish(c) : c \in {d \in Wanted : d[1] = i}}
  <2>1. PICK k \in {j \in DOMAIN FixedIps(i) : FixedIps(i)[j] # 0} : p = Pair(ask.vms[i].nics[k], FixedIps(i)[k])
    BY DEF FixedPairs
  <2>. QED
    BY <1>1, <2>1
<1>4. ASSUME NEW c \in {d \in Wanted : d[1] = i} PROVE Wish(c) \in FixedPairs(i)
  BY <1>2 DEF FixedPairs
<1>. QED
  BY <1>3, <1>4

\* The first loop refuses a VM exactly if the request is in conflict so far.
LEMMA FixDecides ==
  ASSUME PlanInv, at.phase = "fix", NEW i, i = at.vm
  PROVE  /\ i \in DOMAIN ask.vms /\ ask \in Asks /\ DOMAIN fixed = 1..(i - 1) /\ Len(fixed) = i - 1 /\ i \in Nat \ {0}
         /\ claimed.ids = {FixedId(j) : j \in 1..(i - 1)} \ {0}
         /\ claimed.ips = {Wish(c) : c \in FixedCells}
         /\ IF IdRefused(i) \/ IdentityRequired(ask.vms[i].nics, ask.previous[i].nics) \/ IpsRefused(i)
            THEN ~Agree(DOMAIN ask.vms) ELSE Agree(1..i)
<1>1. i \in DOMAIN ask.vms /\ ask \in Asks /\ DOMAIN fixed = 1..(i - 1) /\ given = <<>>
  BY DEF PlanInv, PlanGoesOn
<1>2. i \in Nat \ {0} /\ i \in 1..Len(ask.vms) /\ DOMAIN ask.vms = 1..Len(ask.vms)
  BY <1>1, AsksAssumption
<1>3. Len(fixed) = i - 1
  <2>1. Len(fixed) \in Nat /\ DOMAIN fixed = 1..Len(fixed)
    BY ListAppend DEF PlanInv, PlanTypeOK
  <2>. QED
    BY <1>1, <1>2, <2>1
<1>4. claimed.ids = {FixedId(j) : j \in 1..(i - 1)} \ {0}
  BY <1>1 DEF PlanInv, IdsHold
<1>5. claimed.ips = {Wish(c) : c \in FixedCells}
  BY <1>1 DEF PlanInv, IpsHold, GivenCells
<1>6. Agree(1..(i - 1))
  BY <1>1 DEF PlanInv, FixedHolds
<1>7. \A c \in FixedCells : c \in Wanted /\ c[1] \in 1..(i - 1) /\ c[1] \in DOMAIN ask.vms
  BY <1>1, <1>2 DEF FixedCells
<1>8. FixedPairs(i) = {Wish(c) : c \in {d \in Wanted : d[1] = i}}
  BY <1>1, PairsOfVm
<1>9. ASSUME IdRefused(i) PROVE ~Agree(DOMAIN ask.vms)
  <2>1. CASE FixedId(i) \in Protected \cup ask.ids
    BY <1>1, <1>9, <2>1 DEF IdRefused, Agree
  <2>2. CASE FixedId(i) \in claimed.ids
    <3>1. PICK j \in 1..(i - 1) : FixedId(i) = FixedId(j)
      BY <1>4, <2>2
    <3>2. j \in DOMAIN ask.vms /\ j # i
      BY <1>2, <3>1
    <3>. QED
      BY <1>1, <1>9, <3>1, <3>2 DEF IdRefused, Agree
  <2>. QED
    BY <1>9, <2>1, <2>2 DEF IdRefused
<1>10. ASSUME IdentityRequired(ask.vms[i].nics, ask.previous[i].nics) PROVE ~Agree(DOMAIN ask.vms)
  BY <1>1, <1>10 DEF Agree
<1>11. ASSUME IpsRefused(i) PROVE ~Agree(DOMAIN ask.vms)
  <2>1. CASE FixedPairs(i) \cap (ask.ips \cup claimed.ips) # {}
    <3>1. PICK c \in Wanted : c[1] = i /\ Wish(c) \in ask.ips \cup claimed.ips
      BY <1>8, <2>1
    <3>2. CASE Wish(c) \in ask.ips
      BY <1>1, <3>1, <3>2 DEF Agree
    <3>3. CASE Wish(c) \in claimed.ips
      <4>1. PICK d \in FixedCells : Wish(d) = Wish(c)
        BY <1>5, <3>3
      <4>2. d # c
        BY <1>2, <1>7, <3>1
      <4>. QED
        BY <1>1, <1>7, <3>1, <4>1, <4>2 DEF Agree
    <3>. QED
      BY <3>1, <3>2, <3>3
  <2>2. CASE \E j, k \in DOMAIN FixedIps(i) : j # k /\ FixedIps(i)[j] # 0
               /\ Pair(ask.vms[i].nics[j], FixedIps(i)[j]) = Pair(ask.vms[i].nics[k], FixedIps(i)[k])
    <3>1. PICK j, k \in DOMAIN FixedIps(i) : j # k /\ FixedIps(i)[j] # 0
               /\ Pair(ask.vms[i].nics[j], FixedIps(i)[j]) = Pair(ask.vms[i].nics[k], FixedIps(i)[k])
      BY <2>2
    <3>2. FixedIps(i)[k] = FixedIps(i)[j]
      BY <3>1 DEF Pair
    <3>3. <<i, j>> \in Wanted /\ <<i, k>> \in Wanted /\ <<i, j>> # <<i, k>> /\ Wish(<<i, j>>) = Wish(<<i, k>>)
      BY <1>1, <3>1, <3>2, CellsOf, DomainOfIps DEF Wanted, Want, Wish
    <3>4. <<i, j>>[1] = i /\ <<i, k>>[1] = i
      OBVIOUS
    <3>. QED
      BY <1>1, <3>3, <3>4 DEF Agree
  <2>3. CASE \E k \in DOMAIN FixedIps(i) : FixedIps(i)[k] # 0
               /\ FixedIps(i)[k] \notin HostsOf[Networks[ask.vms[i].nics[k].net].subnet]
    <3>1. PICK k \in DOMAIN FixedIps(i) : FixedIps(i)[k] # 0
               /\ FixedIps(i)[k] \notin HostsOf[Networks[ask.vms[i].nics[k].net].subnet]
      BY <2>3
    <3>2. <<i, k>> \in Wanted /\ Want(<<i, k>>) \notin Hosts(<<i, k>>) /\ <<i, k>>[1] = i
      BY <1>1, <3>1, CellsOf, DomainOfIps DEF Wanted, Want, Hosts
    <3>. QED
      BY <1>1, <3>2 DEF Agree
  <2>. QED
    BY <1>11, <2>1, <2>2, <2>3 DEF IpsRefused
<1>12. ASSUME ~IdRefused(i), ~IdentityRequired(ask.vms[i].nics, ask.previous[i].nics), ~IpsRefused(i)
       PROVE  Agree(1..i)
  <2>1. \A j \in 1..i : j \in 1..(i - 1) \/ j = i
    BY <1>2
  <2>2. ASSUME NEW j \in 1..i
        PROVE  /\ FixedId(j) # 0 => FixedId(j) \notin Protected \cup ask.ids
               /\ ~IdentityRequired(ask.vms[j].nics, ask.previous[j].nics)
    BY <1>6, <1>12, <2>1 DEF Agree, IdRefused
  <2>3. ASSUME NEW j \in 1..i, NEW k \in 1..i, j # k, FixedId(j) # 0
        PROVE  FixedId(k) # FixedId(j)
    <3>1. FixedId(i) # 0 => \A l \in 1..(i - 1) : FixedId(l) # FixedId(i)
      BY <1>4, <1>12 DEF IdRefused
    <3>. QED
      BY <1>6, <2>1, <2>3, <3>1 DEF Agree
  <2>4. ASSUME NEW c \in Wanted, c[1] = i
        PROVE  /\ Wish(c) \notin ask.ips /\ Wish(c) \notin claimed.ips /\ Want(c) \in Hosts(c)
               /\ \A d \in Wanted : d[1] = i /\ c # d => Wish(c) # Wish(d)
    <3>1. Wish(c) \notin ask.ips \cup claimed.ips
      BY <1>8, <1>12, <2>4 DEF IpsRefused
    <3>2. c = <<i, c[2]>> /\ c[2] \in DOMAIN FixedIps(i) /\ Want(c) = FixedIps(i)[c[2]] /\ Want(c) # 0
      BY <2>4, CellsOf, DomainOfIps DEF Wanted, Want
    <3>3. Want(c) \in Hosts(c)
      BY <1>12, <2>4, <3>2 DEF IpsRefused, Hosts
    <3>4. ASSUME NEW d \in Wanted, d[1] = i, c # d PROVE Wish(c) # Wish(d)
      <4>1. d = <<i, d[2]>> /\ d[2] \in DOMAIN FixedIps(i)
        BY <3>4, CellsOf, DomainOfIps DEF Wanted
      <4>2. c[2] # d[2]
        BY <3>2, <3>4, <4>1
      <4>. QED
        BY <1>12, <2>4, <3>2, <3>4, <4>1, <4>2 DEF IpsRefused, Wish, Want
    <3>. QED
      BY <3>1, <3>3, <3>4
  <2>5. \A c \in Wanted : c[1] \in 1..(i - 1) => Wish(c) \in claimed.ips
    BY <1>1, <1>5 DEF FixedCells
  <2>6. ASSUME NEW c \in Wanted, c[1] \in 1..i PROVE Wish(c) \notin ask.ips /\ Want(c) \in Hosts(c)
    BY <1>6, <2>1, <2>4, <2>6 DEF Agree
  <2>7. ASSUME NEW c \in Wanted, NEW d \in Wanted, c[1] \in 1..i, d[1] \in 1..i, c # d
        PROVE  Wish(c) # Wish(d)
    BY <1>6, <2>1, <2>4, <2>5, <2>7 DEF Agree
  <2>. QED
    BY <2>2, <2>3, <2>6, <2>7 DEF Agree
<1>. QED
  BY <1>1, <1>2, <1>3, <1>4, <1>5, <1>9, <1>10, <1>11, <1>12

\* The value chosen for a VM is its fixed one, or one that nobody has.
LEMMA IdChosen ==
  ASSUME PlanInv, at.phase = "id", NEW i, i = at.vm, NEW id,
         ~(FixedId(i) = 0 /\ FreeIds = {}),
         id = IF FixedId(i) = 0 THEN Min(FreeIds) ELSE FixedId(i)
  PROVE  /\ FixedId(i) # 0 => id = FixedId(i)
         /\ id \notin ask.ids \cup Protected
         /\ \A j \in DOMAIN fixed : i # j /\ FixedId(j) # 0 => id # FixedId(j)
         /\ \A j \in DOMAIN given : id # given[j].vm_id
<1>1. i \in DOMAIN fixed /\ DOMAIN given = 1..(i - 1) /\ i \notin DOMAIN given /\ DOMAIN given \subseteq DOMAIN fixed
  <2>1. at.vm \in DOMAIN ask.vms /\ DOMAIN fixed = DOMAIN ask.vms /\ DOMAIN given = 1..(i - 1) /\ ask \in Asks
    BY DEF PlanInv, PlanGoesOn
  <2>2. i \in Nat
    BY <2>1, AsksAssumption
  <2>. QED
    BY <2>1, <2>2 DEF PlanInv, PlanGoesOn
<1>2. Agree(DOMAIN fixed) /\ IdsHold
  BY DEF PlanInv, FixedHolds
<1>3. CASE FixedId(i) # 0
  BY <1>1, <1>2, <1>3 DEF Agree, IdsHold
<1>4. CASE FixedId(i) = 0
  <2>1. FreeIds \subseteq Nat
    BY PoolAssumption DEF FreeIds
  <2>2. id \in FreeIds
    BY <1>4, <2>1, MinIsMember
  <2>3. id \in Pool /\ id \notin ask.ids \cup claimed.ids \cup Protected /\ id # 0
    BY <2>2, PoolAssumption DEF FreeIds
  <2>. QED
    BY <1>2, <1>4, <2>3 DEF IdsHold
<1>. QED
  BY <1>3, <1>4

\* So is the address chosen for an interface.
LEMMA IpChosen ==
  ASSUME PlanInv, at.phase = "nic", NEW c, c = <<at.vm, at.nic>>, NEW ip,
         NEW nic, nic = ask.vms[at.vm].nics[at.nic],
         ~(Want(c) = 0 /\ FreeIps(nic) = {}),
         ip = IF Want(c) = 0 THEN Min(FreeIps(nic)) ELSE Want(c)
  PROVE  /\ c \in Cells /\ c \notin GivenCells /\ DOMAIN fixed = DOMAIN ask.vms /\ FixedCells = Wanted
         /\ Want(c) # 0 => ip = Want(c)
         /\ Pair(nic, ip) \notin ask.ips
         /\ \A d \in FixedCells : c # d => Pair(nic, ip) # Wish(d)
         /\ \A d \in GivenCells : Pair(nic, ip) # GivenPair(d)
<1>1. at.vm \in DOMAIN ask.vms /\ at.nic \in DOMAIN ask.vms[at.vm].nics /\ ask \in Asks
  BY DEF PlanInv, PlanGoesOn
<1>2. DOMAIN fixed = DOMAIN ask.vms /\ DOMAIN given[at.vm].ips = 1..(at.nic - 1)
  BY DEF PlanInv, PlanGoesOn
<1>3. at.nic \in Nat
  BY <1>1, AsksAssumption
<1>4. c \in Cells /\ c[1] = at.vm /\ c[2] = at.nic
  BY <1>1, CellsOf
<1>5. c \notin GivenCells
  BY <1>2, <1>3, <1>4 DEF GivenCells
<1>6. FixedCells = Wanted
  BY <1>2, CellsOf DEF FixedCells, Wanted
<1>7. Agree(DOMAIN fixed) /\ IpsHold
  BY DEF PlanInv, FixedHolds
<1>8. Wish(c) = Pair(nic, Want(c))
  BY <1>4 DEF Wish
<1>9. CASE Want(c) # 0
  <2>1. c \in FixedCells /\ c[1] \in DOMAIN fixed /\ Pair(nic, ip) = Wish(c)
    BY <1>1, <1>2, <1>4, <1>6, <1>8, <1>9 DEF Wanted
  <2>2. \A d \in FixedCells : d \in Wanted /\ d[1] \in DOMAIN fixed
    BY DEF FixedCells
  <2>. QED
    BY <1>2, <1>4, <1>5, <1>6, <1>7, <1>9, <2>1, <2>2 DEF Agree, IpsHold
<1>10. CASE Want(c) = 0
  <2>1. FreeIps(nic) \subseteq Nat
    BY <1>1, HostsAssumption, AsksAssumption DEF FreeIps
  <2>2. ip \in FreeIps(nic)
    BY <1>10, <2>1, MinIsMember
  <2>3. Pair(nic, ip) \notin ask.ips \cup claimed.ips
    BY <2>2 DEF FreeIps
  <2>. QED
    BY <1>2, <1>4, <1>5, <1>6, <1>7, <1>10, <2>3 DEF IpsHold
<1>. QED
  BY <1>9, <1>10

\* A plan that rests is in order, whatever the values.
PlanRested ==
  ask = Unasked /\ at = Resting /\ claimed = Unclaimed /\ fixed = <<>> /\ given = <<>>

\* The invariant holds while no request is being planned.
LEMMA PlanIsRested == PlanRested => PlanInv
<1>. SUFFICES ASSUME PlanRested PROVE PlanInv
  OBVIOUS
<1>1. at.phase = "rest" /\ DOMAIN fixed = {} /\ DOMAIN given = {}
  BY DEF PlanRested, Resting
<1>2. PlanGoesOn
  BY <1>1 DEF PlanGoesOn
<1>3. PlanTypeOK
  BY <1>1 DEF PlanTypeOK, PlanRested, Unclaimed, Listed
<1>4. FixedHolds
  BY <1>1 DEF FixedHolds, Agree
<1>5. IdsHold /\ IpsHold
  BY <1>1 DEF IdsHold, IpsHold, FixedCells, GivenCells, PlanRested, Unclaimed
<1>. QED
  BY <1>2, <1>3, <1>4, <1>5 DEF PlanInv

\* Every step of a plan keeps the invariant.
LEMMA PlanStep ==
  ASSUME PlanInv, [PlanNext]_planVars
  PROVE  PlanInv'
<1>. USE DEF PlanInv
<1>1. ASSUME Ask PROVE PlanInv'
  <2>1. /\ ask' \in Asks /\ at' = [phase |-> "fix", vm |-> 1, nic |-> 1]
        /\ claimed' = Unclaimed /\ fixed' = <<>> /\ given' = <<>>
    BY <1>1 DEF Ask, MoveTo
  <2>2. Len(ask'.vms) \in Nat \ {0} /\ DOMAIN ask'.vms = 1..Len(ask'.vms)
    BY <2>1, AsksAssumption
  <2>3. at'.phase = "fix" /\ at'.vm = 1 /\ 1 \in DOMAIN ask'.vms /\ DOMAIN fixed' = {} /\ DOMAIN given' = {} /\ 1..(1 - 1) = {}
    BY <2>1, <2>2
  <2>4. PlanGoesOn'
    BY <2>1, <2>3 DEF PlanGoesOn
  <2>5. PlanTypeOK'
    BY <2>1, <2>3 DEF PlanTypeOK, Listed, Unclaimed
  <2>6. FixedHolds'
    BY <2>3 DEF FixedHolds, Agree
  <2>7. IdsHold' /\ IpsHold'
    BY <2>1, <2>3 DEF IdsHold, IpsHold, FixedCells, GivenCells, Unclaimed
  <2>. QED
    BY <2>4, <2>5, <2>6, <2>7
<1>2. ASSUME FixVm PROVE PlanInv'
  <2>. DEFINE i == at.vm
              refused == IdRefused(i) \/ IdentityRequired(ask.vms[i].nics, ask.previous[i].nics) \/ IpsRefused(i)
  <2>1. at.phase = "fix" /\ UNCHANGED ask /\ given' = given
    BY <1>2 DEF FixVm
  <2>2. /\ i \in DOMAIN ask.vms /\ ask \in Asks /\ DOMAIN fixed = 1..(i - 1) /\ Len(fixed) = i - 1 /\ i \in Nat \ {0}
        /\ claimed.ids = {FixedId(j) : j \in 1..(i - 1)} \ {0}
        /\ claimed.ips = {Wish(c) : c \in FixedCells}
        /\ IF refused THEN ~Agree(DOMAIN ask.vms) ELSE Agree(1..i)
    BY <2>1, FixDecides
  <2>3. given = <<>> /\ DOMAIN given = {} /\ DOMAIN given' = {}
    BY <2>1 DEF PlanGoesOn
  <2>4. CASE refused
    <3>1. at' = [phase |-> "refused", vm |-> i, nic |-> 1] /\ UNCHANGED <<claimed, fixed>>
      BY <1>2, <2>4 DEF FixVm, MoveTo
    <3>2. PlanGoesOn' /\ PlanTypeOK'
      BY <2>1, <2>2, <2>3, <3>1 DEF PlanGoesOn, PlanTypeOK
    <3>3. FixedHolds'
      BY <2>1, <2>2, <2>4, <3>1, AskStays DEF FixedHolds
    <3>4. IdsHold' /\ IpsHold'
      <4>1. FixedCells' = FixedCells /\ GivenCells' = GivenCells /\ GivenCells = {}
        BY <2>1, <2>3, <3>1, AskStays DEF FixedCells, GivenCells
      <4>2. claimed'.ids = {FixedId(j)' : j \in DOMAIN fixed'} \ {0}
        BY <2>1, <2>2, <3>1, AskStays
      <4>3. claimed'.ips = {Wish(c)' : c \in FixedCells'}
        BY <2>1, <2>2, <3>1, <4>1, AskStays
      <4>. QED
        BY <2>3, <4>1, <4>2, <4>3 DEF IdsHold, IpsHold
    <3>. QED
      BY <3>2, <3>3, <3>4
  <2>5. CASE ~refused
    <3>. DEFINE e == [vm_id |-> FixedId(i), ips |-> FixedIps(i)]
    <3>1. /\ claimed' = [ids |-> claimed.ids \cup ({FixedId(i)} \ {0}), ips |-> claimed.ips \cup FixedPairs(i)]
          /\ fixed' = Append(fixed, e)
          /\ at' = IF i < Len(ask.vms) THEN [phase |-> "fix", vm |-> i + 1, nic |-> 1] ELSE [phase |-> "id", vm |-> 1, nic |-> 1]
      BY <1>2, <2>5 DEF FixVm, MoveTo
    <3>2. /\ Listed(fixed') /\ DOMAIN fixed' = 1..i
          /\ \A j \in 1..(i - 1) : fixed'[j] = fixed[j]
          /\ fixed'[i] = e
      BY <2>2, <3>1, ListAppend DEF PlanTypeOK
    <3>3. DOMAIN ask.vms = 1..Len(ask.vms) /\ Len(ask.vms) \in Nat /\ i <= Len(ask.vms)
      BY <2>2, AsksAssumption
    <3>4. PlanGoesOn'
      <4>1. CASE i < Len(ask.vms)
        <5>1. at'.phase = "fix" /\ at'.vm = i + 1 /\ i + 1 \in DOMAIN ask.vms /\ (i + 1) - 1 = i
          BY <2>2, <3>1, <3>3, <4>1
        <5>2. DOMAIN fixed' \subseteq DOMAIN ask.vms
          BY <2>2, <3>2, <3>3
        <5>. QED
          BY <2>1, <2>2, <2>3, <3>2, <5>1, <5>2 DEF PlanGoesOn
      <4>2. CASE ~(i < Len(ask.vms))
        <5>1. at'.phase = "id" /\ at'.vm = 1 /\ 1 \in DOMAIN ask.vms /\ DOMAIN ask.vms = 1..i /\ 1..(1 - 1) = {}
          BY <2>2, <3>1, <3>3, <4>2
        <5>. QED
          BY <2>1, <2>2, <2>3, <3>2, <5>1 DEF PlanGoesOn
      <4>. QED
        BY <4>1, <4>2
    <3>5. PlanTypeOK'
      BY <2>1, <3>1, <3>2 DEF PlanTypeOK
    <3>6. \A j \in 1..i : j \in 1..(i - 1) \/ j = i
      BY <2>2
    <3>7. FixedHolds'
      <4>1. \A j \in DOMAIN fixed' : fixed'[j].vm_id = FixedId(j) /\ fixed'[j].ips = FixedIps(j)
        BY <2>2, <3>2, <3>6 DEF FixedHolds
      <4>2. Agree(1..i) /\ at'.phase # "refused"
        BY <2>2, <2>5, <3>1
      <4>. QED
        BY <2>1, <3>2, <4>1, <4>2, AskStays DEF FixedHolds
    <3>8. claimed'.ids = {FixedId(j) : j \in DOMAIN fixed'} \ {0}
      <4>1. {FixedId(j) : j \in 1..i} = {FixedId(j) : j \in 1..(i - 1)} \cup {FixedId(i)}
        BY <2>2, <3>6
      <4>. QED
        BY <2>2, <3>1, <3>2, <4>1
    <3>9. FixedCells' = FixedCells \cup {c \in Wanted : c[1] = i} /\ GivenCells' = {}
      BY <2>1, <2>2, <2>3, <3>2, <3>6, AskStays DEF FixedCells, GivenCells
    <3>10. claimed'.ips = {Wish(c) : c \in FixedCells'}
      <4>1. FixedPairs(i) = {Wish(c) : c \in {d \in Wanted : d[1] = i}}
        BY <2>2, PairsOfVm
      <4>. QED
        BY <2>2, <3>1, <3>9, <4>1
    <3>11. IdsHold' /\ IpsHold'
      BY <2>1, <2>3, <3>8, <3>9, <3>10, AskStays DEF IdsHold, IpsHold
    <3>. QED
      BY <3>4, <3>5, <3>7, <3>11
  <2>. QED
    BY <2>4, <2>5
<1>3. ASSUME AssignId PROVE PlanInv'
  <2>. DEFINE i == at.vm
  <2>1. at.phase = "id" /\ UNCHANGED ask /\ fixed' = fixed
    BY <1>3 DEF AssignId
  <2>2. /\ i \in DOMAIN ask.vms /\ ask \in Asks /\ DOMAIN fixed = DOMAIN ask.vms
        /\ DOMAIN given = 1..(i - 1) /\ \A j \in DOMAIN given : Complete(j)
    BY <2>1 DEF PlanGoesOn
  <2>3. i \in Nat \ {0} /\ DOMAIN ask.vms = 1..Len(ask.vms) /\ Len(ask.vms) \in Nat
        /\ Len(ask.vms[i].nics) \in Nat \ {0} /\ DOMAIN ask.vms[i].nics = 1..Len(ask.vms[i].nics)
    BY <2>2, AsksAssumption
  <2>4. fixed[i].vm_id = FixedId(i)
    BY <2>2 DEF FixedHolds
  <2>5. CASE FixedId(i) = 0 /\ FreeIds = {}
    <3>1. at' = [phase |-> "exhausted", vm |-> i, nic |-> 1] /\ UNCHANGED <<claimed, given>>
      BY <1>3, <2>4, <2>5 DEF AssignId, MoveTo
    <3>2. PlanGoesOn' /\ PlanTypeOK'
      BY <2>1, <2>2, <3>1 DEF PlanGoesOn, PlanTypeOK
    <3>3. FixedHolds' /\ IdsHold' /\ IpsHold'
      <4>1. FixedCells' = FixedCells /\ GivenCells' = GivenCells /\ \A c : GivenPair(c)' = GivenPair(c)
        BY <2>1, <3>1, AskStays DEF FixedCells, GivenCells, GivenPair
      <4>2. FixedHolds'
        BY <2>1, <3>1, AskStays DEF FixedHolds
      <4>3. IdsHold'
        BY <2>1, <3>1, AskStays DEF IdsHold
      <4>4. IpsHold'
        BY <2>1, <3>1, <4>1, AskStays DEF IpsHold
      <4>. QED
        BY <4>2, <4>3, <4>4
    <3>. QED
      BY <3>2, <3>3
  <2>6. CASE ~(FixedId(i) = 0 /\ FreeIds = {})
    <3>. DEFINE id == IF FixedId(i) = 0 THEN Min(FreeIds) ELSE FixedId(i)
                e == [vm_id |-> id, ips |-> <<>>]
    <3>1. /\ claimed' = [claimed EXCEPT !.ids = @ \cup {id}] /\ given' = Append(given, e)
          /\ at' = [phase |-> "nic", vm |-> i, nic |-> 1]
      BY <1>3, <2>4, <2>6 DEF AssignId, MoveTo
    <3>2. /\ FixedId(i) # 0 => id = FixedId(i)
          /\ id \notin ask.ids \cup Protected
          /\ \A j \in DOMAIN fixed : i # j /\ FixedId(j) # 0 => id # FixedId(j)
          /\ \A j \in DOMAIN given : id # given[j].vm_id
      BY <2>1, <2>6, IdChosen
    <3>. HIDE DEF id
    <3>3. /\ Listed(given') /\ DOMAIN given' = 1..i
          /\ \A j \in 1..(i - 1) : given'[j] = given[j]
          /\ given'[i] = e
      <4>1. Len(given) \in Nat /\ DOMAIN given = 1..Len(given)
        BY ListAppend DEF PlanTypeOK
      <4>2. Len(given) = i - 1
        BY <2>2, <2>3, <4>1
      <4>. QED
        BY <2>2, <2>3, <3>1, <4>2, ListAppend DEF PlanTypeOK
    <3>4. \A j \in 1..i : j \in 1..(i - 1) \/ j = i
      BY <2>3
    <3>5. claimed' = [ids |-> claimed.ids \cup {id}, ips |-> claimed.ips]
      BY <3>1 DEF PlanTypeOK
    <3>6. PlanGoesOn'
      <4>1. at'.phase = "nic" /\ at'.vm = i /\ at'.nic = 1 /\ 1..(1 - 1) = {}
        BY <3>1
      <4>2. 1 \in DOMAIN ask.vms[i].nics /\ DOMAIN e.ips = {} /\ 1..i \subseteq DOMAIN ask.vms
        BY <2>2, <2>3
      <4>3. \A j \in 1..(i - 1) : Complete(j)'
        BY <2>1, <2>2, <3>3 DEF Complete
      <4>. QED
        BY <2>1, <2>2, <3>3, <4>1, <4>2, <4>3 DEF PlanGoesOn
    <3>7. PlanTypeOK'
      <4>1. Listed(e.ips)
        BY DEF Listed
      <4>2. ASSUME NEW j \in DOMAIN given'
            PROVE  given'[j] = [vm_id |-> given'[j].vm_id, ips |-> given'[j].ips] /\ Listed(given'[j].ips)
        <5>1. CASE j = i
          BY <3>3, <4>1, <5>1
        <5>2. CASE j # i
          BY <2>2, <3>3, <3>4, <5>2 DEF PlanTypeOK
        <5>. QED
          BY <5>1, <5>2
      <4>. QED
        BY <2>1, <3>3, <3>5, <4>2 DEF PlanTypeOK
    <3>8. FixedHolds'
      BY <2>1, <3>1, AskStays DEF FixedHolds
    <3>9. IdsHold'
      <4>1. {given'[j].vm_id : j \in DOMAIN given'} = {given[j].vm_id : j \in DOMAIN given} \cup {id}
        <5>1. given'[i].vm_id = id /\ i \in DOMAIN given'
          BY <2>3, <3>3
        <5>2. \A j \in DOMAIN given : j \in DOMAIN given' /\ given'[j].vm_id = given[j].vm_id
          BY <2>2, <2>3, <3>3
        <5>. QED
          BY <2>2, <3>3, <3>4, <5>1, <5>2
      <4>2. claimed'.ids = ({FixedId(j) : j \in DOMAIN fixed} \ {0}) \cup {given'[j].vm_id : j \in DOMAIN given'}
        BY <3>5, <4>1 DEF IdsHold
      <4>3. ASSUME NEW j \in DOMAIN given'
            PROVE  /\ FixedId(j) # 0 => given'[j].vm_id = FixedId(j)
                   /\ given'[j].vm_id \notin ask.ids \cup Protected
                   /\ \A k \in DOMAIN fixed : j # k /\ FixedId(k) # 0 => given'[j].vm_id # FixedId(k)
        BY <2>2, <3>2, <3>3, <3>4 DEF IdsHold
      <4>4. ASSUME NEW j \in DOMAIN given', NEW k \in DOMAIN given', j # k
            PROVE  given'[j].vm_id # given'[k].vm_id
        BY <2>2, <3>2, <3>3, <3>4, <4>4 DEF IdsHold
      <4>. QED
        BY <2>1, <4>2, <4>3, <4>4, AskStays DEF IdsHold
    <3>10. IpsHold'
      <4>1. DOMAIN e.ips = {}
        OBVIOUS
      <4>2. FixedCells' = FixedCells
        BY <2>1, AskStays DEF FixedCells
      <4>3. GivenCells' = GivenCells
        BY <2>1, <2>2, <2>3, <3>3, <3>4, <4>1, AskStays DEF GivenCells
      <4>4. \A c \in GivenCells : given'[c[1]] = given[c[1]] /\ GivenPair(c)' = GivenPair(c)
        BY <2>1, <2>2, <3>3 DEF GivenCells, GivenPair
      <4>. QED
        BY <2>1, <3>5, <4>2, <4>3, <4>4, AskStays DEF IpsHold
    <3>. QED
      BY <3>6, <3>7, <3>8, <3>9, <3>10
  <2>. QED
    BY <2>5, <2>6
<1>4. ASSUME AssignNic PROVE PlanInv'
  <2>0. PICK i, k : i = at.vm /\ k = at.nic
    OBVIOUS
  <2>. DEFINE nic == ask.vms[i].nics[k]
  <2>1. at.phase = "nic" /\ UNCHANGED ask /\ fixed' = fixed
    BY <1>4 DEF AssignNic
  <2>2. /\ i \in DOMAIN ask.vms /\ ask \in Asks /\ DOMAIN fixed = DOMAIN ask.vms
        /\ DOMAIN given = 1..i /\ \A j \in 1..(i - 1) : Complete(j)
        /\ k \in DOMAIN ask.vms[i].nics /\ DOMAIN given[i].ips = 1..(k - 1)
    BY <2>0, <2>1 DEF PlanGoesOn
  <2>3. i \in Nat \ {0} /\ DOMAIN ask.vms = 1..Len(ask.vms) /\ Len(ask.vms) \in Nat
        /\ Len(ask.vms[i].nics) \in Nat \ {0} /\ DOMAIN ask.vms[i].nics = 1..Len(ask.vms[i].nics)
        /\ k \in Nat \ {0} /\ i \in DOMAIN given
    BY <2>2, AsksAssumption
  <2>4. fixed[i].ips[k] = Want(<<i, k>>)
    BY <2>2 DEF FixedHolds, Want
  <2>5. CASE Want(<<i, k>>) = 0 /\ FreeIps(nic) = {}
    <3>1. at' = [phase |-> "exhausted", vm |-> i, nic |-> k] /\ UNCHANGED <<claimed, given>>
      BY <1>4, <2>0, <2>4, <2>5 DEF AssignNic, MoveTo
    <3>2. PlanGoesOn' /\ PlanTypeOK'
      BY <2>1, <2>2, <3>1 DEF PlanGoesOn, PlanTypeOK
    <3>3. FixedCells' = FixedCells /\ GivenCells' = GivenCells /\ \A c : GivenPair(c)' = GivenPair(c)
      BY <2>1, <3>1, AskStays DEF FixedCells, GivenCells, GivenPair
    <3>4. FixedHolds'
      BY <2>1, <3>1, AskStays DEF FixedHolds
    <3>5. IdsHold'
      BY <2>1, <3>1, AskStays DEF IdsHold
    <3>6. IpsHold'
      BY <2>1, <3>1, <3>3, AskStays DEF IpsHold
    <3>. QED
      BY <3>2, <3>4, <3>5, <3>6
  <2>6. CASE ~(Want(<<i, k>>) = 0 /\ FreeIps(nic) = {})
    <3>. DEFINE ip == IF Want(<<i, k>>) = 0 THEN Min(FreeIps(nic)) ELSE Want(<<i, k>>)
                c == <<i, k>>
    <3>1. /\ claimed' = [claimed EXCEPT !.ips = @ \cup {Pair(nic, ip)}]
          /\ given' = [given EXCEPT ![i].ips = Append(@, ip)]
          /\ at' = IF k < Len(ask.vms[i].nics) THEN [phase |-> "nic", vm |-> i, nic |-> k + 1]
                   ELSE IF i < Len(ask.vms) THEN [phase |-> "id", vm |-> i + 1, nic |-> 1]
                   ELSE [phase |-> "done", vm |-> i, nic |-> k]
      BY <1>4, <2>0, <2>4, <2>6 DEF AssignNic, MoveTo
    <3>2. /\ c \in Cells /\ c \notin GivenCells /\ FixedCells = Wanted
          /\ Want(c) # 0 => ip = Want(c)
          /\ Pair(nic, ip) \notin ask.ips
          /\ \A d \in FixedCells : c # d => Pair(nic, ip) # Wish(d)
          /\ \A d \in GivenCells : Pair(nic, ip) # GivenPair(d)
      BY <2>0, <2>1, <2>6, IpChosen
    <3>. HIDE DEF ip
    <3>3. /\ Listed(Append(given[i].ips, ip)) /\ DOMAIN Append(given[i].ips, ip) = 1..k
          /\ \A j \in 1..(k - 1) : Append(given[i].ips, ip)[j] = given[i].ips[j]
          /\ Append(given[i].ips, ip)[k] = ip
      <4>1. Listed(given[i].ips)
        BY <2>3 DEF PlanTypeOK
      <4>2. Len(given[i].ips) \in Nat /\ DOMAIN given[i].ips = 1..Len(given[i].ips)
        BY <4>1, ListAppend
      <4>3. Len(given[i].ips) = k - 1
        BY <2>2, <2>3, <4>2, SameEnd
      <4>. QED
        BY <2>2, <2>3, <4>1, <4>2, <4>3, ListAppend
    <3>4. given' = [given EXCEPT ![i] = [vm_id |-> given[i].vm_id, ips |-> Append(given[i].ips, ip)]]
      <4>1. given[i] = [vm_id |-> given[i].vm_id, ips |-> given[i].ips]
        BY <2>3 DEF PlanTypeOK
      <4>2. [given[i] EXCEPT !.ips = Append(@, ip)] = [vm_id |-> given[i].vm_id, ips |-> Append(given[i].ips, ip)]
        BY <4>1
      <4>. QED
        BY <3>1, <4>2
    <3>5. /\ Listed(given') /\ DOMAIN given' = DOMAIN given
          /\ \A j \in DOMAIN given : j # i => given'[j] = given[j]
          /\ given'[i] = [vm_id |-> given[i].vm_id, ips |-> Append(given[i].ips, ip)]
      <4>. DEFINE e == [vm_id |-> given[i].vm_id, ips |-> Append(given[i].ips, ip)]
      <4>1. Listed(given) /\ i \in DOMAIN given
        BY <2>3 DEF PlanTypeOK
      <4>2. /\ Listed([given EXCEPT ![i] = e]) /\ DOMAIN [given EXCEPT ![i] = e] = DOMAIN given
            /\ \A j \in DOMAIN given : [given EXCEPT ![i] = e][j] = IF j = i THEN e ELSE given[j]
        <5>. HIDE DEF e
        <5>. QED
          BY <4>1, ListExcept
      <4>. HIDE DEF e
      <4>3. given' = [given EXCEPT ![i] = e]
        BY <3>4 DEF e
      <4>4. Listed(given') /\ DOMAIN given' = DOMAIN given /\ \A j \in DOMAIN given : j # i => given'[j] = given[j]
        BY <4>2, <4>3
      <4>5. given'[i] = e
        BY <4>1, <4>2, <4>3
      <4>. QED
        BY <4>4, <4>5 DEF e
    <3>6. claimed' = [ids |-> claimed.ids, ips |-> claimed.ips \cup {Pair(nic, ip)}]
      BY <3>1 DEF PlanTypeOK
    <3>7. \A j \in 1..k : j \in 1..(k - 1) \/ j = k
      BY <2>3
    <3>8. \A j \in 1..(i - 1) : Complete(j)'
      <4>1. \A j \in 1..(i - 1) : j \in 1..i /\ j # i
        BY <2>3
      <4>2. \A j \in 1..(i - 1) : given'[j] = given[j]
        BY <2>2, <3>5, <4>1
      <4>. QED
        BY <2>1, <2>2, <4>2 DEF Complete
    <3>9. DOMAIN given'[i].ips = 1..k
      BY <3>3, <3>5
    <3>10. PlanGoesOn'
      <4>1. CASE k < Len(ask.vms[i].nics)
        <5>1. at'.phase = "nic" /\ at'.vm = i /\ at'.nic = k + 1
          BY <3>1, <4>1
        <5>2. k + 1 \in DOMAIN ask.vms[i].nics /\ (k + 1) - 1 = k
          BY <2>3, <4>1
        <5>. QED
          BY <2>1, <2>2, <3>5, <3>8, <3>9, <5>1, <5>2 DEF PlanGoesOn
      <4>2. CASE ~(k < Len(ask.vms[i].nics))
        <5>1. DOMAIN ask.vms[i].nics = 1..k
          BY <2>2, <2>3, <4>2
        <5>2. Complete(i)'
          BY <2>1, <3>9, <5>1 DEF Complete
        <5>3. \A j \in DOMAIN given' : Complete(j)'
          <6>1. \A j \in 1..i : j \in 1..(i - 1) \/ j = i
            BY <2>3
          <6>. QED
            BY <2>2, <3>5, <3>8, <5>2, <6>1
        <5>4. CASE i < Len(ask.vms)
          <6>1. at'.phase = "id" /\ at'.vm = i + 1 /\ i + 1 \in DOMAIN ask.vms /\ (i + 1) - 1 = i
            BY <2>3, <3>1, <4>2, <5>4
          <6>. QED
            BY <2>1, <2>2, <3>5, <5>3, <6>1 DEF PlanGoesOn
        <5>5. CASE ~(i < Len(ask.vms))
          <6>1. at'.phase = "done" /\ at'.vm = i /\ DOMAIN ask.vms = 1..i
            BY <2>2, <2>3, <3>1, <4>2, <5>5
          <6>. QED
            BY <2>1, <2>2, <3>5, <5>3, <6>1 DEF PlanGoesOn
        <5>. QED
          BY <5>4, <5>5
      <4>. QED
        BY <4>1, <4>2
    <3>11. PlanTypeOK'
      <4>1. ASSUME NEW j \in DOMAIN given'
            PROVE  given'[j] = [vm_id |-> given'[j].vm_id, ips |-> given'[j].ips] /\ Listed(given'[j].ips)
        <5>1. CASE j = i
          <6>1. given'[i].ips = Append(given[i].ips, ip) /\ given'[i].vm_id = given[i].vm_id
            BY <3>5
          <6>2. Listed(given'[i].ips)
            BY <3>3, <6>1
          <6>3. given'[i] = [vm_id |-> given'[i].vm_id, ips |-> given'[i].ips]
            BY <3>5, <6>1
          <6>. QED
            BY <5>1, <6>2, <6>3
        <5>2. CASE j # i
          BY <3>5, <5>2 DEF PlanTypeOK
        <5>. QED
          BY <5>1, <5>2
      <4>. QED
        BY <2>1, <3>5, <3>6, <4>1 DEF PlanTypeOK
    <3>12. FixedHolds'
      <4>1. at'.phase # "refused"
        BY <3>1
      <4>. QED
        BY <2>1, <4>1, AskStays DEF FixedHolds
    <3>13. IdsHold'
      <4>1. \A j \in DOMAIN given : given'[j].vm_id = given[j].vm_id
        BY <3>5
      <4>. QED
        BY <2>1, <3>5, <3>6, <4>1, AskStays DEF IdsHold
    <3>14. IpsHold'
      <4>1. FixedCells' = FixedCells
        BY <2>1, AskStays DEF FixedCells
      <4>2. \A d \in GivenCells : d[2] \in 1..(k - 1) \/ d[1] # i
        BY <2>2 DEF GivenCells
      <4>3. ASSUME NEW d \in GivenCells
            PROVE  d \in GivenCells' /\ given'[d[1]].ips[d[2]] = given[d[1]].ips[d[2]] /\ GivenPair(d)' = GivenPair(d)
        <5>1. CASE d[1] = i
          BY <2>1, <2>3, <3>3, <3>5, <4>2, <5>1, AskStays DEF GivenCells, GivenPair
        <5>2. CASE d[1] # i
          BY <2>1, <3>5, <5>2, AskStays DEF GivenCells, GivenPair
        <5>. QED
          BY <5>1, <5>2
      <4>4. c \in GivenCells' /\ given'[c[1]].ips[c[2]] = ip /\ GivenPair(c)' = Pair(nic, ip)
        <5>1. c[1] = i /\ c[2] = k /\ k \in 1..k
          BY <2>3
        <5>2. given'[i].ips[k] = ip
          <6>1. given'[i].ips = Append(given[i].ips, ip)
            BY <3>5
          <6>. QED
            BY <3>3, <6>1
        <5>3. i \in DOMAIN given' /\ k \in DOMAIN given'[i].ips
          BY <2>3, <3>5, <3>9, <5>1
        <5>4. c \in GivenCells'
          BY <2>1, <3>2, <5>1, <5>3, AskStays DEF GivenCells
        <5>. QED
          BY <2>1, <5>1, <5>2, <5>4 DEF GivenPair, Pair
      <4>5. ASSUME NEW d \in GivenCells' PROVE d \in GivenCells \/ d = c
        <5>1. d \in Cells /\ d[1] \in DOMAIN given /\ d[2] \in DOMAIN given'[d[1]].ips
          BY <2>1, <3>5, AskStays DEF GivenCells
        <5>2. d = <<d[1], d[2]>>
          BY <5>1, CellsOf
        <5>3. CASE d[1] = i
          <6>1. d[2] \in 1..(k - 1) \/ d[2] = k
            BY <3>7, <3>9, <5>1, <5>3
          <6>. QED
            BY <2>2, <5>1, <5>2, <5>3, <6>1 DEF GivenCells
        <5>4. CASE d[1] # i
          BY <3>5, <5>1, <5>4 DEF GivenCells
        <5>. QED
          BY <5>3, <5>4
      <4>6. {GivenPair(d)' : d \in GivenCells'} = {GivenPair(d) : d \in GivenCells} \cup {Pair(nic, ip)}
        BY <4>3, <4>4, <4>5
      <4>7. claimed'.ips = {Wish(d) : d \in FixedCells} \cup {GivenPair(d)' : d \in GivenCells'}
        BY <3>6, <4>6 DEF IpsHold
      <4>8. ASSUME NEW d \in GivenCells'
            PROVE  /\ Want(d) # 0 => given'[d[1]].ips[d[2]] = Want(d)
                   /\ GivenPair(d)' \notin ask.ips
                   /\ \A f \in FixedCells : d # f => GivenPair(d)' # Wish(f)
        BY <3>2, <4>3, <4>4, <4>5 DEF IpsHold
      <4>9. ASSUME NEW d \in GivenCells', NEW f \in GivenCells', d # f
            PROVE  GivenPair(d)' # GivenPair(f)'
        BY <3>2, <4>3, <4>4, <4>5, <4>9 DEF IpsHold
      <4>. QED
        BY <2>1, <4>1, <4>7, <4>8, <4>9, AskStays DEF IpsHold
    <3>. QED
      BY <3>10, <3>11, <3>12, <3>13, <3>14
  <2>. QED
    BY <2>5, <2>6
<1>5. ASSUME PlanReturns PROVE PlanInv'
  <2>1. PlanRested'
    BY <1>5 DEF PlanReturns, PlanRested, Unasked, Resting, Unclaimed
  <2>. QED
    BY <2>1, PlanIsRested, PTL
<1>6. ASSUME UNCHANGED planVars PROVE PlanInv'
  <2>1. UNCHANGED <<ask, at, claimed, fixed, given>>
    BY <1>6 DEF planVars
  <2>2. FixedCells' = FixedCells /\ GivenCells' = GivenCells /\ \A c : GivenPair(c)' = GivenPair(c)
    BY <2>1, AskStays DEF FixedCells, GivenCells, GivenPair
  <2>3. PlanGoesOn' /\ PlanTypeOK'
    BY <2>1 DEF PlanGoesOn, PlanTypeOK, Complete
  <2>4. FixedHolds' /\ IdsHold'
    BY <2>1, AskStays DEF FixedHolds, IdsHold
  <2>5. IpsHold'
    BY <2>1, <2>2, AskStays DEF IpsHold
  <2>. QED
    BY <2>3, <2>4, <2>5
<1>. QED
  BY <1>1, <1>2, <1>3, <1>4, <1>5, <1>6 DEF PlanNext

\* An earlier interface under the key of an interface is the one it inherits
\* from, if the request was not refused as ambiguous.
LEMMA KeyKeepsAddress ==
  ASSUME ask \in Asks, NEW i \in DOMAIN ask.vms,
         NEW nics, nics = ask.vms[i].nics, NEW old, old = ask.previous[i].nics,
         ~IdentityRequired(nics, old),
         NEW k \in DOMAIN nics, NEW j \in DOMAIN old,
         nics[k].ip = 0, nics[k].key # 0, old[j].key = nics[k].key, SameNetwork(old[j], nics[k].net)
  PROVE  FixedIp(nics, old, k) = old[j].ip /\ old[j].ip # 0
<1>1. /\ 1 \in DOMAIN nics
      /\ (\A l \in DOMAIN nics : nics[l].key = 0) \/ (\A l \in DOMAIN nics : nics[l].key # 0)
      /\ Len(old) \in Nat /\ DOMAIN old = 1..Len(old)
      /\ \A l \in DOMAIN old : old[l].ip # 0
  <2>1. Len(nics) \in Nat \ {0} /\ DOMAIN nics = 1..Len(nics)
    BY AsksAssumption
  <2>2. (\A l \in DOMAIN nics : nics[l].key = 0) \/ (\A l \in DOMAIN nics : nics[l].key # 0)
    BY AsksAssumption
  <2>3. Len(old) \in Nat /\ DOMAIN old = 1..Len(old) /\ \A l \in DOMAIN old : old[l].ip # 0
    BY AsksAssumption
  <2>4. 1 \in DOMAIN nics
    BY <2>1
  <2>. QED
    BY <2>2, <2>3, <2>4
<1>2. nics[1].key # 0 /\ j \in Keys(old) /\ old # <<>>
  BY <1>1 DEF Keys
<1>3. Cardinality({old[l].key : l \in DOMAIN old}) = Len(old)
  BY <1>2 DEF IdentityRequired, Inconsistent
<1>4. \A l, m \in DOMAIN old : old[l].key = old[m].key => l = m
  <2>. DEFINE T == {old[l].key : l \in DOMAIN old}
              f == [l \in DOMAIN old |-> old[l].key]
  <2>1. IsFiniteSet(DOMAIN old) /\ Cardinality(DOMAIN old) = Len(old)
    <3>1. IsFiniteSet(1..Len(old)) /\ Cardinality(1..Len(old)) = IF 1 > Len(old) THEN 0 ELSE Len(old) - 1 + 1
      BY <1>1, FS_Interval
    <3>2. (IF 1 > Len(old) THEN 0 ELSE Len(old) - 1 + 1) = Len(old)
      BY <1>1
    <3>. QED
      BY <1>1, <3>1, <3>2
  <2>2. f \in Surjection(DOMAIN old, T)
    BY DEF Surjection
  <2>3. f \in Injection(DOMAIN old, T)
    BY <1>3, <2>1, <2>2, FS_SurjSameCardinalityImpliesInj
  <2>. QED
    BY <2>3 DEF Injection, IsInjective
<1>5. Retained(nics, old, k) = {l \in DOMAIN old : old[l].key = nics[k].key}
  BY <1>2 DEF Retained
<1>6. {l \in Retained(nics, old, k) : SameNetwork(old[l], nics[k].net)} = {j}
  BY <1>4, <1>5
<1>. QED
  BY <1>1, <1>6 DEF FixedIp

\* At its end the invariant is what the property asks for.
LEMMA PlanIsGood ==
  ASSUME PlanInv
  PROVE  PlanMeetsRequest
<1>1. at.phase # "rest" => ask \in Asks
  BY DEF PlanInv, PlanGoesOn
<1>2. ASSUME at.phase = "done"
      PROVE  /\ DOMAIN given = DOMAIN ask.vms /\ DOMAIN fixed = DOMAIN ask.vms
             /\ GivenCells = Cells
             /\ Agree(DOMAIN ask.vms)
  <2>1. DOMAIN given = DOMAIN ask.vms /\ DOMAIN fixed = DOMAIN ask.vms /\ \A i \in DOMAIN given : Complete(i)
    BY <1>2 DEF PlanInv, PlanGoesOn
  <2>. QED
    BY <2>1, CellsOf DEF GivenCells, Complete, PlanInv, FixedHolds
<1>3. PlanIsDisjoint
  BY <1>2 DEF PlanIsDisjoint, PlanInv, IdsHold, IpsHold
<1>4. PlanIsStable
  <2>. SUFFICES ASSUME at.phase = "done", NEW i \in DOMAIN given
       PROVE  /\ ask.vms[i].vm_id # 0 => given[i].vm_id = ask.vms[i].vm_id
              /\ ask.vms[i].vm_id = 0 /\ ask.previous[i].vm_id # 0 => given[i].vm_id = ask.previous[i].vm_id
              /\ \A k \in DOMAIN ask.vms[i].nics :
                   /\ ask.vms[i].nics[k].ip # 0 => given[i].ips[k] = ask.vms[i].nics[k].ip
                   /\ \A j \in DOMAIN ask.previous[i].nics :
                        ask.vms[i].nics[k].ip = 0 /\ ask.vms[i].nics[k].key # 0 /\ ask.previous[i].nics[j].key = ask.vms[i].nics[k].key
                          /\ SameNetwork(ask.previous[i].nics[j], ask.vms[i].nics[k].net) => given[i].ips[k] = ask.previous[i].nics[j].ip
    BY DEF PlanIsStable
  <2>1. i \in DOMAIN ask.vms /\ ask \in Asks
    BY <1>1, <1>2
  <2>2. FixedId(i) # 0 => given[i].vm_id = FixedId(i)
    BY DEF PlanInv, IdsHold
  <2>3. ASSUME NEW k \in DOMAIN ask.vms[i].nics, FixedIp(ask.vms[i].nics, ask.previous[i].nics, k) # 0
        PROVE  given[i].ips[k] = FixedIp(ask.vms[i].nics, ask.previous[i].nics, k)
    <3>1. <<i, k>> \in GivenCells /\ Want(<<i, k>>) = FixedIp(ask.vms[i].nics, ask.previous[i].nics, k)
      BY <1>2, <2>1, CellsOf DEF Want, FixedIps
    <3>2. <<i, k>>[1] = i /\ <<i, k>>[2] = k
      OBVIOUS
    <3>. QED
      BY <2>3, <3>1, <3>2 DEF PlanInv, IpsHold
  <2>4. ~IdentityRequired(ask.vms[i].nics, ask.previous[i].nics)
    BY <1>2, <2>1 DEF Agree
  <2>5. ASSUME NEW k \in DOMAIN ask.vms[i].nics, ask.vms[i].nics[k].ip # 0
        PROVE  given[i].ips[k] = ask.vms[i].nics[k].ip
    BY <2>3, <2>5 DEF FixedIp
  <2>6. ASSUME NEW k \in DOMAIN ask.vms[i].nics, NEW j \in DOMAIN ask.previous[i].nics,
               ask.vms[i].nics[k].ip = 0, ask.vms[i].nics[k].key # 0, ask.previous[i].nics[j].key = ask.vms[i].nics[k].key,
               SameNetwork(ask.previous[i].nics[j], ask.vms[i].nics[k].net)
        PROVE  given[i].ips[k] = ask.previous[i].nics[j].ip
    BY <2>1, <2>3, <2>4, <2>6, KeyKeepsAddress
  <2>. QED
    BY <2>2, <2>5, <2>6 DEF FixedId
<1>5. RefusalIsIntrinsic
  <2>1. at.phase = "refused" => ~Agree(DOMAIN ask.vms)
    BY DEF PlanInv, FixedHolds
  <2>2. at.phase \in {"id", "nic", "done", "exhausted"} => Agree(DOMAIN ask.vms)
    BY DEF PlanInv, FixedHolds, PlanGoesOn
  <2>. QED
    BY <1>1, <2>1, <2>2, ConflictIsDisagreement DEF RefusalIsIntrinsic
<1>. QED
  BY <1>3, <1>4, <1>5 DEF PlanMeetsRequest

\* For every request: a finished plan hands out nothing twice and nothing
\* that is taken, a renewal moves nothing, and only a request whose own fixed
\* values are in conflict is refused.
THEOREM PlanMeetsRequestHolds == PlanSpec => []PlanMeetsRequest
<1>1. PlanInit => PlanInv
  BY PlanIsRested DEF PlanInit, PlanRested
<1>2. PlanInv /\ [PlanNext]_planVars => PlanInv'
  BY PlanStep
<1>3. PlanInv => PlanMeetsRequest
  BY PlanIsGood
<1>. QED
  BY <1>1, <1>2, <1>3, PTL DEF PlanSpec
==============================================================================
