---------------------------- MODULE CatalogCache ----------------------------
(***************************************************************************)
(* The catalog of one source: every API worker keeps a bounded cache of    *)
(* repository listings, filled by clones that waiting requests share.  A   *)
(* refresh and a change of the credential are committed to the shared      *)
(* database, but invalidate the cache of one worker only; for the others   *)
(* the key of a listing, made of the resolved token and of the time of the *)
(* last refresh, has to do.  A referenced secret is rotated without any    *)
(* request.                                                                *)
(*                                                                         *)
(* The repository is a version number; a token and a time are numbers.     *)
(***************************************************************************)
EXTENDS Naturals, FiniteSets, Sequences, SequencesExt

CONSTANTS
  Workers,      \* API processes
  Readers,      \* requests for the entries
  MaxEntries,   \* listings a cache keeps
  Concurrency,  \* clones of one process at a time
  MaxPending,   \* bound: clones in progress, abandoned ones included
  MaxRemote,    \* bound: pushes to the repository
  MaxToken,     \* bound: tokens
  MaxRefreshes  \* bound: refreshes

ASSUME CatalogAssumption ==
  /\ MaxEntries \in Nat /\ MaxRemote \in Nat /\ MaxRefreshes \in Nat
  /\ MaxToken \in Nat \ {0}

VARIABLES
  token,      \* what the source's reference resolves to
  refreshed,  \* SourceRepo.last_refreshed_at
  remote,     \* the repository
  generation, \* CatalogSnapshots._generation
  snapshots,  \* CatalogSnapshots._snapshots, oldest first
  pending,    \* CatalogSnapshots._pending
  reader,     \* requests for the entries
  refresh,    \* the refresh being served
  patch,      \* worker that committed a new token and has not invalidated yet
  answered    \* what the last answered refresh has seen

cacheVars == <<token, refreshed, remote, generation, snapshots, pending, reader, refresh, patch, answered>>
source == <<token, refreshed, remote>>
caches == <<generation, snapshots, pending>>

NotCloned == MaxRemote + 1
NoListing == [key |-> <<0, 0>>, content |-> 0, by |-> 0]
Away == [step |-> "away", worker |-> "none", key |-> <<0, 0>>, gen |-> 0, floor |-> 0, got |-> NoListing, by |-> 0]
NoRefresh == [step |-> "none", worker |-> "none", seen |-> 0, stamp |-> 0]

SnapshotKeys == (1..MaxToken) \X (0..MaxRefreshes)
Snapshot == [key : SnapshotKeys, content : 0..MaxRemote, by : 1..MaxToken]
Load == [gen : Nat, key : SnapshotKeys, content : 0..NotCloned]
Reading == [step : {"away", "listing", "waiting", "served"}, worker : Workers \cup {"none"},
            key : (0..MaxToken) \X (0..MaxRefreshes), gen : Nat, floor : 0..MaxRemote,
            got : Snapshot \cup {NoListing}, by : 0..MaxToken]

CatalogTypeOK ==
  /\ token \in 1..MaxToken /\ refreshed \in 0..MaxRefreshes /\ remote \in 0..MaxRemote
  /\ generation \in [Workers -> Nat]
  /\ snapshots \in [Workers -> Seq(Snapshot)]
  /\ pending \in [Workers -> SUBSET Load]
  /\ reader \in [Readers -> Reading]
  /\ refresh \in [step : {"none", "cloning", "cloned", "committed"}, worker : Workers \cup {"none"},
                  seen : 0..MaxRemote, stamp : 0..MaxRefreshes]
  /\ patch \in Workers \cup {"none"}
  /\ answered \in 0..MaxRemote

CatalogInit ==
  /\ token = 1 /\ refreshed = 0 /\ remote = 0
  /\ generation = [w \in Workers |-> 0]
  /\ snapshots = [w \in Workers |-> <<>>]
  /\ pending = [w \in Workers |-> {}]
  /\ reader = [r \in Readers |-> Away]
  /\ refresh = NoRefresh
  /\ patch = "none"
  /\ answered = 0

\* Fault: the key does not say when the source was refreshed.
KeyOfToken(t, at) == <<t, 0>>

\* repository_key.
RepositoryKey(t, at) == <<t, at>>

Invalidate(w) ==
  /\ generation' = [generation EXCEPT ![w] = @ + 1]
  /\ snapshots' = [snapshots EXCEPT ![w] = <<>>]
  /\ UNCHANGED pending

-----------------------------------------------------------------------------
(* Requests for the entries (list_entries, CatalogSnapshots.get).          *)

\* The row is read and its reference resolved, before the cache is asked.
ListEntries(r, w) ==
  /\ reader[r].step \in {"away", "served"}
  /\ reader' = [reader EXCEPT ![r] = [Away EXCEPT !.step = "listing", !.worker = w,
                  !.key = RepositoryKey(token, refreshed), !.floor = answered, !.by = token]]
  /\ UNCHANGED <<source, caches, refresh, patch, answered>>

\* What is left of a cache when the snapshots that have expired are dropped:
\* n of them, in their order.
Chosen(s, n) == {places \in [1..n -> DOMAIN s] : \A i, j \in 1..n : i < j => places[i] < places[j]}
Unexpired(w) ==
  UNION {{[i \in 1..n |-> snapshots[w][places[i]]] : places \in Chosen(snapshots[w], n)} : n \in 0..Len(snapshots[w])}

Cached(w, key) == {i \in DOMAIN snapshots[w] : snapshots[w][i].key = key}

\* The answer of a request: the listing and what the request may expect.
Served(q, s) == [Away EXCEPT !.step = "served", !.floor = q.floor, !.by = q.by, !.got = s]

\* A hit is moved to the end.
Hit(r) ==
  LET w == reader[r].worker IN
  /\ reader[r].step = "listing"
  /\ \E i \in Cached(w, reader[r].key) :
       LET s == snapshots[w][i] IN
       /\ reader' = [reader EXCEPT ![r] = Served(@, s)]
       /\ snapshots' = [snapshots EXCEPT ![w] = Append(RemoveAt(@, i), s)]
  /\ UNCHANGED <<source, generation, pending, refresh, patch, answered>>

Clones(loads) == MapThenSumSet(LAMBDA w : Cardinality(loads[w]), Workers)

\* A miss, of a listing never read or expired, joins the clone of its key
\* that was begun since the last invalidation, or starts one.
Miss(r) ==
  LET w == reader[r].worker IN
  /\ reader[r].step = "listing"
  /\ \E left \in Unexpired(w) :
       /\ \A i \in DOMAIN left : left[i].key # reader[r].key
       /\ snapshots' = [snapshots EXCEPT ![w] = left]
  /\ reader' = [reader EXCEPT ![r].step = "waiting", ![r].gen = generation[w]]
  /\ pending' = [pending EXCEPT ![w] =
       IF \E l \in @ : l.gen = generation[w] /\ l.key = reader[r].key THEN @
       ELSE @ \cup {[gen |-> generation[w], key |-> reader[r].key, content |-> NotCloned]}]
  /\ Clones(pending') <= MaxPending
  /\ UNCHANGED <<source, generation, refresh, patch, answered>>

\* A browser that disconnects does not cancel the shared clone.
Disconnects(r) ==
  /\ reader[r].step = "waiting"
  /\ reader' = [reader EXCEPT ![r] = Away]
  /\ UNCHANGED <<source, caches, refresh, patch, answered>>

-----------------------------------------------------------------------------
(* Clones (_load).                                                         *)

CloneRepository(w, l) ==
  /\ l \in pending[w] /\ l.content = NotCloned
  /\ Cardinality({m \in pending[w] : m.content # NotCloned}) < Concurrency
  /\ pending' = [pending EXCEPT ![w] = (@ \ {l}) \cup {[l EXCEPT !.content = remote]}]
  /\ UNCHANGED <<source, generation, snapshots, reader, refresh, patch, answered>>

AwaitsLoad(r, w, l) ==
  reader[r].step = "waiting" /\ reader[r].worker = w /\ reader[r].gen = l.gen /\ reader[r].key = l.key

\* The listing is kept only if nobody invalidated since the clone began, in the
\* place of one with its key; the least recently used ones make room.
Kept(w, s) ==
  LET all == IF Cached(w, s.key) = {} THEN Append(snapshots[w], s)
             ELSE [i \in DOMAIN snapshots[w] |-> IF i \in Cached(w, s.key) THEN s ELSE snapshots[w][i]] IN
  SubSeq(all, IF Len(all) > MaxEntries THEN Len(all) - MaxEntries + 1 ELSE 1, Len(all))

LoadEnds(w, l) ==
  LET s == [key |-> l.key, content |-> l.content, by |-> l.key[1]] IN
  /\ l \in pending[w] /\ l.content # NotCloned
  /\ pending' = [pending EXCEPT ![w] = @ \ {l}]
  /\ snapshots' = IF l.gen = generation[w] THEN [snapshots EXCEPT ![w] = Kept(w, s)] ELSE snapshots
  /\ reader' = [r \in Readers |-> IF AwaitsLoad(r, w, l) THEN Served(reader[r], s) ELSE reader[r]]
  /\ UNCHANGED <<source, generation, refresh, patch, answered>>

LoadFails(w, l) ==
  /\ l \in pending[w]
  /\ pending' = [pending EXCEPT ![w] = @ \ {l}]
  /\ reader' = [r \in Readers |-> IF AwaitsLoad(r, w, l) THEN Away ELSE reader[r]]
  /\ UNCHANGED <<source, generation, snapshots, refresh, patch, answered>>

-----------------------------------------------------------------------------
(* Refresh and credentials.                                                *)

\* The stamps of the refreshes are their order: each is later than the last.
RefreshStarts(w) ==
  /\ refresh.step = "none" /\ refresh.stamp < MaxRefreshes
  /\ Invalidate(w)
  /\ refresh' = [step |-> "cloning", worker |-> w, seen |-> 0, stamp |-> refresh.stamp + 1]
  /\ UNCHANGED <<source, reader, patch, answered>>

RefreshClones ==
  /\ refresh.step = "cloning"
  /\ refresh' = [refresh EXCEPT !.step = "cloned", !.seen = remote]
  /\ UNCHANGED <<source, caches, reader, patch, answered>>

RefreshCommits ==
  /\ refresh.step = "cloned"
  /\ refreshed' = refresh.stamp
  /\ refresh' = [refresh EXCEPT !.step = "committed"]
  /\ UNCHANGED <<token, remote, caches, reader, patch, answered>>

RefreshAnswers ==
  /\ refresh.step = "committed"
  /\ Invalidate(refresh.worker)
  /\ answered' = refresh.seen
  /\ refresh' = [refresh EXCEPT !.step = "none"]
  /\ UNCHANGED <<source, reader, patch>>

\* The repository cannot be read: nothing is committed.
RefreshFails ==
  /\ refresh.step = "cloning"
  /\ refresh' = [refresh EXCEPT !.step = "none"]
  /\ UNCHANGED <<source, caches, reader, patch, answered>>

UpdateCredentials(w) ==
  /\ patch = "none" /\ token < MaxToken
  /\ token' = token + 1
  /\ patch' = w
  /\ UNCHANGED <<refreshed, remote, caches, reader, refresh, answered>>

CredentialsAnswer ==
  /\ patch # "none"
  /\ Invalidate(patch)
  /\ patch' = "none"
  /\ UNCHANGED <<source, reader, refresh, answered>>

\* The secret behind an env:// or file:// reference changes.
SecretRotates ==
  /\ token < MaxToken
  /\ token' = token + 1
  /\ UNCHANGED <<refreshed, remote, caches, reader, refresh, patch, answered>>

Push ==
  /\ remote < MaxRemote
  /\ remote' = remote + 1
  /\ UNCHANGED <<token, refreshed, caches, reader, refresh, patch, answered>>

CatalogNext ==
  \/ \E r \in Readers : Hit(r) \/ Miss(r) \/ Disconnects(r) \/ \E w \in Workers : ListEntries(r, w)
  \/ \E w \in Workers :
       \/ RefreshStarts(w) \/ UpdateCredentials(w)
       \/ \E l \in pending[w] : CloneRepository(w, l) \/ LoadEnds(w, l) \/ LoadFails(w, l)
  \/ RefreshClones \/ RefreshCommits \/ RefreshAnswers \/ RefreshFails
  \/ CredentialsAnswer \/ SecretRotates \/ Push

CatalogSpec == CatalogInit /\ [][CatalogNext]_cacheVars

-----------------------------------------------------------------------------
(* Properties.                                                             *)

\* A request that began after a refresh was answered, on whatever worker,
\* sees at least what the refresh saw; one that began after a credential was
\* changed or rotated gets nothing that was read with the old one.
EntriesAreFresh == \A r \in Readers : reader[r].step = "served" =>
  /\ reader[r].got.content >= reader[r].floor
  /\ reader[r].got.by = reader[r].by

\* A cache stays within its bound with one listing per key, and requests of
\* one generation share their clone.
CacheIsBounded == \A w \in Workers :
  /\ Len(snapshots[w]) <= MaxEntries
  /\ \A i, j \in DOMAIN snapshots[w] : i # j => snapshots[w][i].key # snapshots[w][j].key
  /\ \A l, m \in pending[w] : l # m => <<l.gen, l.key>> # <<m.gen, m.key>>

\* What refresh_source and the listings promise of every worker's cache: nothing that a refresh
\* has removed, or that another token could read, comes back with a clone that
\* ends late, and neither the snapshots nor the clones under way pile up.
CatalogIsFresh == CatalogTypeOK /\ EntriesAreFresh /\ CacheIsBounded
=============================================================================
