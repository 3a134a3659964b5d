----------------------------- MODULE SampleStore -----------------------------
(***************************************************************************)
(* timeseries.db: the reconciler inserts a sample of every peer at each    *)
(* pass, purges old ones and reports the bytes of lookback windows from    *)
(* the rest; compactLoop thins samples in its own goroutine, an hour at a  *)
(* time; Open moves samples of old installs out of state.db; a maintenance *)
(* loop truncates the WAL.                                                 *)
(*                                                                         *)
(* Time is in half seconds: timestamps are compared as text, and within a  *)
(* second ".5Z" sorts before "Z".  Every peer moves one byte in each half  *)
(* second, so a window that starts at the wrong sample shows it.           *)
(***************************************************************************)
EXTENDS Integers, FiniteSets, FiniteSetsExt

CONSTANTS
    DBs,         \* databases whose WAL is followed: "state", "timeseries"
    Peer,        \* peer ids, never used again (AUTOINCREMENT); ordered numbers
    Deleted,     \* bound: peers that are deleted
    Reset,       \* bound: peers whose counters are reset
    Legacy,      \* times of samples that an old install has of the first peer
    Bucket,      \* thinBucket
    Slice,       \* the hour ThinSamples works on at a time
    Raw,         \* rawSampleWindow
    Windows,     \* durations of the lookback windows
    Retention,   \* sample_retention
    Instants,    \* bound: the instants things happen at
    MaxPasses,   \* bound: passes of the reconciler
    MaxFaults    \* bound: failing statements, stops, crashes and counter resets

ASSUME TimesAssumption ==
    /\ {Bucket, Slice, Raw, Retention} \subseteq Nat
    /\ Instants \subseteq Nat /\ Instants # {}
    /\ Bucket > 0 /\ Bucket % 2 = 0 /\ Slice > 0 /\ Slice % Bucket = 0
    /\ Windows \subseteq Nat \ {0} /\ Legacy \subseteq 1..Min(Instants)
    /\ \A s, t \in Legacy : s \div 2 = t \div 2 => s = t
ASSUME PeerAssumption ==
    /\ Peer \subseteq Nat /\ IsFiniteSet(Peer) /\ Peer # {}
    /\ Deleted \subseteq Peer /\ Reset \subseteq Peer
ASSUME SampleBounds == MaxPasses \in Nat /\ MaxFaults \in Nat

VARIABLES
    now,
    phase,       \* of Open: "off", "copied" or "run"
    live,        \* peers in state.db
    zero,        \* zero[p]: when p's counter was reset
    old,         \* state.db has its traffic_samples table
    rows,        \* timeseries.db: [id, peer, at, bytes]
    nextID,
    pending,     \* samples of the pass under way, NoPass between passes
    passed,      \* passes of this life
    thin,        \* ThinSamples under way: [lo, to], NoThin when there is none
    done,        \* compactLoop: everything before is thinned
    dirty,       \* dirty[d]: the WAL of d is not empty
    pinned,      \* pinned[d]: another process has a read transaction open
    blocked,     \* blocked[d]: the last checkpoint reported itself incomplete
    log,         \* observation only: log[p], times of all samples p ever had
    passes, faults

dataVars  == <<live, zero, old, rows, nextID, log>>
loopVars  == <<pending, passed>>
thinVars  == <<thin, done>>
walVars   == <<dirty, pinned, blocked>>
vars == <<now, phase, dataVars, loopVars, thinVars, walVars, passes, faults>>

First == Min(Peer)

NoPass == {[peer |-> -1, at |-> -1, bytes |-> -1]}
NoThin == [lo |-> 0, to |-> 0]
NotYet == -1000

(* How RFC3339Nano texts compare, and the bounds of thinBoundLayout, which  *)
(* have no zone suffix and are whole seconds.                               *)
Text(t) == 4 * (t \div 2) + (IF t % 2 = 0 THEN 2 ELSE 1)

(* Mutant: the bounds are RFC3339Nano, too. *)
BoundWithZone(t) == Text(t)

Bound(t) == 4 * (t \div 2)

(* substr(sampled_at, 1, 15) *)
BucketOf(t) == t \div Bucket

Truncate(t) == t - (t % Bucket)

Bytes(p) == now - zero[p]

Fault == faults < MaxFaults /\ faults' = faults + 1

Write(dbs) == dirty' = [d \in DBs |-> dirty[d] \/ d \in dbs]

(* Mutant: a complete PASSIVE checkpoint is not followed by TRUNCATE. *)
WALAfterPassive(d) == dirty[d]

(* checkpointWAL: a reader leaves PASSIVE or TRUNCATE incomplete. *)
WALAfter(d) == dirty[d] /\ pinned[d]

(* Rows with consecutive ids for samples, in the order of the peers. *)
Numbered(samples) ==
    {[id |-> nextID + Cardinality({o \in samples : o.at < s.at \/ (o.at = s.at /\ o.peer < s.peer)}),
      peer |-> s.peer, at |-> s.at, bytes |-> s.bytes] : s \in samples}
-----------------------------------------------------------------------------
(* Open *)

LegacySamples == {[peer |-> First, at |-> t, bytes |-> t] : t \in Legacy}

(* migrateLegacySamples: every sample state.db has, by ATTACH or one by one,*)
(* in one transaction.                                                      *)
Copied == IF old THEN LegacySamples ELSE {}

migrateLegacySamples ==
    /\ phase = "off"
    /\ phase' = "copied"
    /\ rows' = rows \cup Numbered(Copied)
    /\ nextID' = nextID + Cardinality(Copied)
    /\ IF Copied = {} THEN UNCHANGED dirty ELSE Write({"timeseries"})
    /\ UNCHANGED <<now, live, zero, old, log, loopVars, thinVars, pinned, blocked,
                   passes, faults>>

(* goose.Up: migration 00005 drops the table; Open fails when it does. *)
Up ==
    /\ phase = "copied"
    /\ \/ phase' = "run" /\ old' = FALSE /\ Write({"state"}) /\ UNCHANGED faults
       \/ phase' = "off" /\ Fault /\ UNCHANGED <<old, dirty>>
    /\ UNCHANGED <<now, live, zero, rows, nextID, log, loopVars, thinVars, pinned, blocked, passes>>

(* The daemon is stopped, and Close truncates both WALs, or it crashes. In   *)
(* both cases what is in memory is lost: the pass, done.                    *)
Stop ==
    /\ phase # "off"
    /\ Fault
    /\ phase' = "off"
    /\ \/ phase = "run" /\ dirty' = [d \in DBs |-> WALAfter(d)]
       \/ UNCHANGED dirty
    /\ pending' = NoPass
    /\ passed' = 0
    /\ thin' = NoThin
    /\ done' = NotYet
    /\ blocked' = [d \in DBs |-> FALSE]
    /\ UNCHANGED <<now, dataVars, pinned, passes>>
-----------------------------------------------------------------------------
(* The pass of the reconciler *)

(* SampleAtOrBefore: the newest sample whose text is not after t's. *)
Candidates(p, t) == {r \in rows : r.peer = p /\ Text(r.at) <= Text(t)}

Newest(set) == CHOOSE r \in set : \A o \in set : Text(o.at) <= Text(r.at)

WindowDelta(cur, base) == IF cur < base THEN cur ELSE cur - base

(* computePeerWindows: without a sample that old the whole total counts. *)
computePeerWindow(p, w) ==
    LET c == Candidates(p, now - w) IN
    IF c = {} THEN Bytes(p) ELSE WindowDelta(Bytes(p), Newest(c).bytes)

(* Two samples of one second would be ordered by their texts, wrong by up   *)
(* to that second: passes are at least a second apart.                      *)
PassDue ==
    /\ phase = "run"
    /\ \A p \in Peer : \A t \in log[p] : t \div 2 # now \div 2

(* sampleInterface up to InsertSamples; the windows it reports are          *)
(* computePeerWindow.                                                       *)
sampleInterface ==
    /\ PassDue /\ pending = NoPass /\ passes < MaxPasses
    /\ pending' = {[peer |-> p, at |-> now, bytes |-> Bytes(p)] : p \in live}
    /\ passes' = passes + 1
    /\ UNCHANGED <<now, phase, dataVars, passed, thinVars, walVars, faults>>

Expired == {r \in rows : Text(r.at) < Text(now - Retention)}

(* InsertSamples, one transaction; then PurgeSamples, in batches, so an     *)
(* error leaves any of the expired ones.                                    *)
InsertAndPurge ==
    /\ pending # NoPass
    /\ \/ rows' = (rows \ Expired) \cup Numbered(pending) /\ UNCHANGED faults
       \/ /\ Fault /\ Expired # {}
          /\ \E kept \in SUBSET Expired :
                kept # {} /\ rows' = (rows \ (Expired \ kept)) \cup Numbered(pending)
       \/ Fault /\ rows' = rows \ Expired
    /\ nextID' = nextID + Cardinality(pending)
    /\ log' = [p \in Peer |-> log[p] \cup {s.at : s \in {x \in pending :
                  x.peer = p /\ \E r \in rows' : r.id >= nextID /\ r.peer = p}}]
    /\ pending' = NoPass
    /\ passed' = 1
    /\ Write(DBs)
    /\ UNCHANGED <<now, phase, live, zero, old, thinVars, pinned, blocked, passes>>
-----------------------------------------------------------------------------
(* Handlers *)

(* DeletePeer, DeleteInterface: the row, then the samples, whose deletion   *)
(* may fail; the pass under way may still insert one.                       *)
DeletePeer(p) ==
    /\ phase = "run"
    /\ p \in live
    /\ live' = live \ {p}
    /\ \/ rows' = {r \in rows : r.peer # p} /\ UNCHANGED faults
       \/ Fault /\ UNCHANGED rows
    /\ Write(DBs)
    /\ UNCHANGED <<now, phase, zero, old, nextID, log, loopVars, thinVars, pinned, blocked, passes>>

(* The counters are reset. *)
ResetTraffic(p) ==
    /\ phase = "run"
    /\ p \in live
    /\ Fault
    /\ zero' = [zero EXCEPT ![p] = now]
    /\ UNCHANGED <<now, phase, live, old, rows, nextID, log, loopVars, thinVars, walVars, passes>>
-----------------------------------------------------------------------------
(* compactLoop *)

(* Mutant: a bucket keeps its oldest sample. *)
ThinnedToOldest(lo, hi) ==
    LET in == {r \in rows : Text(r.at) >= Bound(lo) /\ Text(r.at) < Bound(hi)} IN
    {r \in in : \E o \in in : o.peer = r.peer /\ BucketOf(o.at) = BucketOf(r.at) /\ o.id < r.id}

(* The rows one slice deletes: all but the one with the highest id of each  *)
(* peer and bucket.                                                         *)
Thinned(lo, hi) ==
    LET in == {r \in rows : Text(r.at) >= Bound(lo) /\ Text(r.at) < Bound(hi)} IN
    {r \in in : \E o \in in : o.peer = r.peer /\ BucketOf(o.at) = BucketOf(r.at) /\ o.id > r.id}

(* Mutant: the upper bound splits a bucket. *)
ThinToAnyTime == now - Raw

ThinTo == Truncate(now - Raw)

ThinFrom == IF done # NotYet THEN done ELSE Truncate(ThinTo - Retention)

(* Loop starts the goroutine after the first pass. *)
ThinStart ==
    /\ phase = "run" /\ passed = 1 /\ thin = NoThin
    /\ ThinFrom < ThinTo
    /\ thin' = [lo |-> ThinFrom, to |-> ThinTo]
    /\ UNCHANGED <<now, phase, dataVars, loopVars, done, walVars, passes, faults>>

(* One slice and the checkpoint after it; after an error the next tick      *)
(* starts again from done.                                                  *)
ThinSlice ==
    LET hi   == Min({thin.lo + Slice, thin.to})
        gone == Thinned(thin.lo, hi)
    IN
    /\ thin # NoThin
    /\ \/ /\ rows' = rows \ gone
          /\ dirty' = IF gone = {} THEN dirty
                      ELSE [d \in DBs |-> IF d = "timeseries" THEN pinned[d] ELSE dirty[d]]
          /\ thin' = IF hi < thin.to THEN [thin EXCEPT !.lo = hi] ELSE NoThin
          /\ done' = IF hi < thin.to THEN done ELSE thin.to
          /\ UNCHANGED faults
       \/ Fault /\ thin' = NoThin /\ UNCHANGED <<rows, dirty, done>>
    /\ UNCHANGED <<now, phase, live, zero, old, nextID, log, loopVars, pinned, blocked, passes>>
-----------------------------------------------------------------------------
(* maintainWAL *)

CheckpointWAL(d) ==
    /\ phase = "run"
    /\ dirty' = [dirty EXCEPT ![d] = WALAfter(d)]
    /\ blocked' = [blocked EXCEPT ![d] = dirty[d] /\ pinned[d]]
    /\ UNCHANGED <<now, phase, dataVars, loopVars, thinVars, pinned, passes, faults>>

Pin(d) ==
    /\ ~pinned[d]
    /\ pinned' = [pinned EXCEPT ![d] = TRUE]
    /\ UNCHANGED <<now, phase, dataVars, loopVars, thinVars, dirty, blocked, passes, faults>>

Unpin(d) ==
    /\ pinned[d]
    /\ pinned' = [pinned EXCEPT ![d] = FALSE]
    /\ UNCHANGED <<now, phase, dataVars, loopVars, thinVars, dirty, blocked, passes, faults>>

(* A pass takes too little time to tell. *)
Tick(t) ==
    /\ pending = NoPass
    /\ now < t
    /\ now' = t
    /\ UNCHANGED <<phase, dataVars, loopVars, thinVars, walVars, passes, faults>>
-----------------------------------------------------------------------------
Init ==
    /\ now = Min(Instants)
    /\ phase = "off"
    /\ live = Peer
    /\ zero = [p \in Peer |-> 0]
    /\ old \in BOOLEAN
    /\ rows = {}
    /\ nextID = 1
    /\ pending = NoPass
    /\ passed = 0
    /\ thin = NoThin
    /\ done = NotYet
    /\ dirty = [d \in DBs |-> FALSE]
    /\ pinned = [d \in DBs |-> FALSE]
    /\ blocked = [d \in DBs |-> FALSE]
    /\ log = [p \in Peer |-> IF p = First /\ old THEN Legacy ELSE {}]
    /\ passes = 0 /\ faults = 0

Next ==
    \/ migrateLegacySamples
    \/ Up
    \/ Stop
    \/ sampleInterface
    \/ InsertAndPurge
    \/ \E p \in Deleted : DeletePeer(p)
    \/ \E p \in Reset : ResetTraffic(p)
    \/ ThinStart
    \/ ThinSlice
    \/ \E d \in DBs : CheckpointWAL(d)
    \/ \E d \in DBs : Pin(d)
    \/ \E d \in DBs : Unpin(d)
    \/ \E t \in Instants : Tick(t)

Spec == Init /\ [][Next]_vars

(* systemd starts the daemon again; its loops have tickers; a slice in      *)
(* progress ends.                                                           *)
FairSpec ==
    /\ Spec
    /\ WF_vars(migrateLegacySamples)
    /\ WF_vars(Up)
    /\ WF_vars(InsertAndPurge)
    /\ WF_vars(ThinSlice)
    /\ \A d \in DBs : WF_vars(CheckpointWAL(d))
-----------------------------------------------------------------------------
(* The values the variables take; ids are unique. *)
TypeOK ==
    /\ now \in Instants
    /\ phase \in {"off", "copied", "run"}
    /\ live \subseteq Peer /\ zero \in [Peer -> {0} \cup Instants] /\ old \in BOOLEAN
    /\ \A r \in rows : r.id \in 1..nextID - 1 /\ r.peer \in Peer /\ r.bytes \in 0..r.at
    /\ \A r, o \in rows : r.id = o.id => r = o
    /\ thin.lo <= thin.to /\ thin.lo % Bucket = 0 /\ thin.to % Bucket = 0
    /\ done = NotYet \/ (done % Bucket = 0 /\ done <= now - Raw)
    /\ {dirty, pinned, blocked} \subseteq [DBs -> BOOLEAN]
    /\ passed \in 0..1 /\ passes \in 0..MaxPasses
    /\ faults \in 0..MaxFaults

(* ThinSamples: "downsamples rows in [from, to) to the newest row per peer  *)
(* per 10-minute bucket".  Before done a peer has one row per bucket, with  *)
(* the clock and inserts running between slices, slices that fail, restarts *)
(* in the middle, fractional seconds at the edge of a slice, and samples    *)
(* copied twice because the daemon stopped before migration 00005.          *)
ThinnedToOne ==
    done # NotYet =>
        \A r, o \in rows :
            /\ {r.at, o.at} \subseteq now - Retention .. done - 1
            /\ r.peer = o.peer /\ BucketOf(r.at) = BucketOf(o.at)
            => r = o

(* The samples p had at or before the cutoff of window w, and those of them *)
(* before the cutoff's bucket.                                              *)
History(p, w) == {t \in log[p] : Text(t) <= Text(now - w)}

Earlier(p, w) == {t \in History(p, w) : BucketOf(t) < BucketOf(now - w)}

(* Within retention; a second less, as purging compares texts. *)
Kept(times) == {t \in times : t \div 2 > (now - Retention) \div 2}

Reported == IF PassDue THEN live ELSE {}

(* What a pass would report of a window now.  It counts nothing older than  *)
(* the samples before the bucket of its cutoff, as far as retention goes;   *)
(* unless the counter was reset it counts everything since its cutoff; and  *)
(* a window within rawSampleWindow is exact ("an hour covers the 1m..1h     *)
(* windows at sample precision").  The samples may be of an old install.    *)
WindowBounds ==
    \A p \in Reported, w \in Windows :
        LET bytes == computePeerWindow(p, w)
            h     == History(p, w)
        IN
        /\ Kept(Earlier(p, w)) # {} => bytes <= now - Max(Kept(Earlier(p, w)))
        /\ h # {} /\ zero[p] < Min(h) => bytes >= now - Max(h)
        /\ Kept(h) # {} /\ zero[p] < Min(h) /\ w <= Raw => bytes = now - Max(h)

(* reconciler.go: thinning "costs the 24h window at most 10 min": a peer    *)
(* sampled in the bucket before the cutoff's has no older traffic in the    *)
(* window.  That is so only while retention is longer than the window: with *)
(* sample_retention of 24h the sample a 24h window starts from is purged,   *)
(* and the window reports the peer's whole total.                           *)
WindowCostsOneBucket ==
    \A p \in Reported, w \in Windows : \A t \in Earlier(p, w) :
        BucketOf(t) = BucketOf(now - w) - 1 => computePeerWindow(p, w) <= now - t

(* maintainWAL "makes a pinned WAL visible": in the end either the WAL of a *)
(* database is truncated or, while another process pins it, every check     *)
(* reports it.                                                              *)
WalSettles ==
    \A d \in DBs :
        /\ <>[]~pinned[d] => <>[]~dirty[d]
        /\ <>[](pinned[d] /\ dirty[d]) => <>[]blocked[d]
=============================================================================
