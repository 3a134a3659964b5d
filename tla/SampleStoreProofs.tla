-------------------------- MODULE SampleStoreProofs --------------------------
(***************************************************************************)
(* For any number of peers, samples, passes and failures, and any lengths  *)
(* of buckets, slices, windows and retention: the types, and that before   *)
(* done a peer keeps one sample per bucket.                                *)
(***************************************************************************)
EXTENDS SampleStore, FiniteSetTheorems, WellFoundedInduction, TLAPS

(* Times are numbers, between 0 and now; a thinned range ends outside the   *)
(* window that keeps every sample.                                         *)
TimesOK ==
    /\ nextID \in Nat \ {0}
    /\ thin \in [lo : Int, to : Int] /\ done \in Int
    /\ \A p \in Peer : zero[p] <= now
    /\ \A r \in rows : r.at \in Nat /\ r.at <= now
    /\ thin # NoThin => thin.lo < thin.to /\ thin.to <= now - Raw

(* A pass has one sample for a peer, taken now. *)
PassOK ==
    pending # NoPass =>
        /\ phase = "run" /\ IsFiniteSet(pending)
        /\ \A s \in pending : s.peer \in Peer /\ s.at = now /\ s.bytes \in 0..now
        /\ \A s, o \in pending : s.peer = o.peer => s = o

(* What compactLoop remembers is lost with the process. *)
Restarted == phase # "run" => done = NotYet /\ thin = NoThin

(* Before x, as far as retention goes, a peer has one row per bucket. *)
OneBefore(x) ==
    \A r, o \in rows :
        /\ {r.at, o.at} \subseteq now - Retention .. x - 1
        /\ r.peer = o.peer /\ BucketOf(r.at) = BucketOf(o.at)
        => r = o

(* Slices that are done are thinned, also while later ones are not. *)
ThinHolds ==
    /\ done # NotYet => OneBefore(done)
    /\ thin # NoThin => OneBefore(thin.lo)

IInv == TypeOK /\ TimesOK /\ PassOK /\ Restarted /\ ThinHolds
-----------------------------------------------------------------------------
(* Arithmetic of buckets and seconds. *)

LEMMA Constants ==
    /\ Bucket \in Nat /\ Bucket > 0 /\ Bucket % 2 = 0
    /\ Slice \in Nat /\ Slice > 0 /\ Slice % Bucket = 0
    /\ Raw \in Nat /\ Retention \in Nat /\ Instants \subseteq Nat
BY TimesAssumption

LEMMA Multiple ==
    ASSUME NEW b \in Nat, b > 0, NEW q \in Int, NEW x \in Int, x = b * q
    PROVE  x % b = 0
OBVIOUS

LEMMA Distributes ==
    ASSUME NEW b \in Int, NEW p \in Int, NEW q \in Int
    PROVE  b * p + b * q = b * (p + q)
OBVIOUS

LEMMA Associates ==
    ASSUME NEW c \in Int, NEW q \in Int
    PROVE  (2 * c) * q = 2 * (c * q)
OBVIOUS

LEMMA SameQuotient ==
    ASSUME NEW b \in Nat, b > 0, NEW x \in Int, x % b = 0, NEW s \in Int, NEW t \in Int,
           s \div b = t \div b, s < x
    PROVE  t < x
OBVIOUS

LEMMA AlignedSum ==
    ASSUME NEW x \in Int, NEW y \in Int, x % Bucket = 0, y % Bucket = 0
    PROVE  (x + y) % Bucket = 0
<1>1. PICK b \in Nat : b = Bucket
  BY Constants
<1>2. b > 0
  BY <1>1, Constants
<1>3. x = b * (x \div b) /\ y = b * (y \div b) /\ x \div b \in Int /\ y \div b \in Int
  BY <1>1, <1>2
<1>4. x + y = b * ((x \div b) + (y \div b))
  BY <1>3, Distributes
<1>5. (x + y) % b = 0
  <2> DEFINE q == (x \div b) + (y \div b)
             z == x + y
  <2>1. q \in Int /\ z \in Int /\ z = b * q
    BY <1>3, <1>4
  <2> HIDE DEF q, z
  <2>2. z % b = 0
    BY <2>1, <1>2, Multiple
  <2> QED
    BY <2>2 DEF z
<1> QED
  BY <1>5, <1>1

LEMMA AlignedEven ==
    ASSUME NEW x \in Int, x % Bucket = 0
    PROVE  x % 2 = 0
<1>1. PICK b \in Nat : b = Bucket
  BY Constants
<1>2. b > 0 /\ b % 2 = 0
  BY <1>1, Constants
<1>3. x = b * (x \div b) /\ x \div b \in Int
  BY <1>1, <1>2
<1>4. b = 2 * (b \div 2) /\ b \div 2 \in Int
  BY <1>2
<1>5. x = 2 * ((b \div 2) * (x \div b))
  BY <1>3, <1>4, Associates
<1>6. (b \div 2) * (x \div b) \in Int
  BY <1>3, <1>4
<1> QED
  BY <1>5, <1>6

LEMMA TruncateAligned ==
    ASSUME NEW x \in Int
    PROVE  Truncate(x) \in Int /\ Truncate(x) <= x /\ Truncate(x) % Bucket = 0
<1>1. PICK b \in Nat : b = Bucket
  BY Constants
<1>2. b > 0
  BY <1>1, Constants
<1>3. x % b \in 0..b - 1 /\ (x - (x % b)) % b = 0
  BY <1>2
<1> QED
  BY <1>1, <1>2, <1>3 DEF Truncate

(* An aligned time splits no bucket. *)
LEMMA SameSide ==
    ASSUME NEW x \in Int, x % Bucket = 0, NEW s \in Int, NEW t \in Int,
           BucketOf(s) = BucketOf(t), s < x
    PROVE  t < x
<1>1. PICK b \in Nat : b = Bucket
  BY Constants
<1>2. b > 0 /\ x % b = 0 /\ s \div b = t \div b
  BY <1>1, Constants DEF BucketOf
<1> QED
  BY <1>2, SameQuotient

(* At a whole second the texts of bounds and samples compare as times do,   *)
(* fractions included.                                                     *)
LEMMA TextBefore ==
    ASSUME NEW t \in Int, NEW x \in Int, x % 2 = 0
    PROVE  /\ Text(t) >= Bound(x) <=> t >= x
           /\ Text(t) < Bound(x) <=> t < x
<1>1. t \div 2 \in Int /\ x \div 2 \in Int
  OBVIOUS
<1>2. t < x => t \div 2 < x \div 2
  OBVIOUS
<1>3. x <= t => x \div 2 <= t \div 2
  OBVIOUS
<1> QED
  BY <1>1, <1>2, <1>3 DEF Text, Bound
-----------------------------------------------------------------------------
(* Consecutive ids. *)

Before(s, S) == {o \in S : o.at < s.at \/ (o.at = s.at /\ o.peer < s.peer)}

LEMMA BeforeCount ==
    ASSUME NEW S, IsFiniteSet(S),
           \A s \in S : s.at \in Int /\ s.peer \in Int,
           \A s, o \in S : s.at = o.at /\ s.peer = o.peer => s = o
    PROVE  /\ Cardinality(S) \in Nat
           /\ \A s \in S : Cardinality(Before(s, S)) \in 0..Cardinality(S) - 1
           /\ \A s, o \in S : Cardinality(Before(s, S)) = Cardinality(Before(o, S)) => s = o
           /\ \A s, o \in S : s.at < o.at => Cardinality(Before(s, S)) < Cardinality(Before(o, S))
<1>1. Cardinality(S) \in Nat
  BY FS_CardinalityType
<1>2. \A s \in S : /\ IsFiniteSet(Before(s, S)) /\ Cardinality(Before(s, S)) \in Nat
                   /\ Cardinality(Before(s, S)) < Cardinality(S)
  <2> TAKE s \in S
  <2>1. Before(s, S) \subseteq S
    BY DEF Before
  <2>2. s \notin Before(s, S)
    BY DEF Before
  <2>3. IsFiniteSet(Before(s, S)) /\ Before(s, S) # S
    BY <2>1, <2>2, FS_Subset
  <2>4. Cardinality(Before(s, S)) \in Nat
    BY <2>3, FS_CardinalityType
  <2>5. Cardinality(Before(s, S)) < Cardinality(S)
    BY <2>1, <2>3, <2>4, <1>1, FS_Subset
  <2> QED
    BY <2>3, <2>4, <2>5
<1>3. \A s, o \in S : s \in Before(o, S) => Cardinality(Before(s, S)) < Cardinality(Before(o, S))
  <2> TAKE s, o \in S
  <2> HAVE s \in Before(o, S)
  <2>1. Before(s, S) \subseteq Before(o, S)
    BY DEF Before
  <2>2. s \notin Before(s, S)
    BY DEF Before
  <2>3. Before(s, S) # Before(o, S)
    BY <2>2
  <2> QED
    BY <1>2, <2>1, <2>3, FS_Subset
<1>4. \A s, o \in S : s = o \/ s \in Before(o, S) \/ o \in Before(s, S)
  BY DEF Before
<1>5. \A s, o \in S : Cardinality(Before(s, S)) = Cardinality(Before(o, S)) => s = o
  BY <1>2, <1>3, <1>4
<1>6. \A s, o \in S : s.at < o.at => s \in Before(o, S)
  BY DEF Before
<1> QED
  BY <1>1, <1>2, <1>3, <1>5, <1>6

LEMMA NumberedRows ==
    ASSUME NEW S, IsFiniteSet(S), nextID \in Nat,
           \A s \in S : s.at \in Int /\ s.peer \in Int,
           \A s, o \in S : s.at = o.at /\ s.peer = o.peer => s = o
    PROVE  /\ \A r \in Numbered(S) : r.id \in nextID .. nextID + Cardinality(S) - 1
           /\ \A r \in Numbered(S) : \E s \in S :
                 r.peer = s.peer /\ r.at = s.at /\ r.bytes = s.bytes
           /\ \A s \in S : \E r \in Numbered(S) :
                 r.peer = s.peer /\ r.at = s.at /\ r.bytes = s.bytes
           /\ \A r, o \in Numbered(S) : r.id = o.id => r = o
           /\ \A r, o \in Numbered(S) : r.at < o.at => r.id < o.id
           /\ \A r, o \in Numbered(S) : r.at = o.at /\ r.peer = o.peer => r = o
<1> DEFINE row(s) == [id |-> nextID + Cardinality(Before(s, S)), peer |-> s.peer,
                      at |-> s.at, bytes |-> s.bytes]
<1>1. Numbered(S) = {row(s) : s \in S}
  BY DEF Numbered, Before
<1>2. /\ Cardinality(S) \in Nat
      /\ \A s \in S : Cardinality(Before(s, S)) \in 0..Cardinality(S) - 1
      /\ \A s, o \in S : Cardinality(Before(s, S)) = Cardinality(Before(o, S)) => s = o
      /\ \A s, o \in S : s.at < o.at => Cardinality(Before(s, S)) < Cardinality(Before(o, S))
  BY BeforeCount
<1>3. \A s \in S : /\ row(s).id = nextID + Cardinality(Before(s, S))
                   /\ row(s).peer = s.peer /\ row(s).at = s.at /\ row(s).bytes = s.bytes
  OBVIOUS
<1> HIDE DEF row
<1>4. \A r \in Numbered(S) : r.id \in nextID .. nextID + Cardinality(S) - 1
  BY <1>1, <1>2, <1>3
<1>5. \A r, o \in Numbered(S) : r.id = o.id => r = o
  <2> TAKE r, o \in Numbered(S)
  <2> HAVE r.id = o.id
  <2>1. PICK s \in S : r = row(s)
    BY <1>1
  <2>2. PICK q \in S : o = row(q)
    BY <1>1
  <2>3. Cardinality(Before(s, S)) = Cardinality(Before(q, S))
    BY <2>1, <2>2, <1>2, <1>3
  <2> QED
    BY <2>1, <2>2, <2>3, <1>2
<1>6. \A r, o \in Numbered(S) : r.at < o.at => r.id < o.id
  <2> TAKE r, o \in Numbered(S)
  <2> HAVE r.at < o.at
  <2>1. PICK s \in S : r = row(s)
    BY <1>1
  <2>2. PICK q \in S : o = row(q)
    BY <1>1
  <2>3. Cardinality(Before(s, S)) < Cardinality(Before(q, S))
    BY <2>1, <2>2, <1>2, <1>3
  <2> QED
    BY <2>1, <2>2, <2>3, <1>2, <1>3
<1>7. \A r, o \in Numbered(S) : r.at = o.at /\ r.peer = o.peer => r = o
  BY <1>1, <1>3
<1> QED
  BY <1>1, <1>3, <1>4, <1>5, <1>6, <1>7
-----------------------------------------------------------------------------
(* The inductive invariant. *)

LEMMA MinOfSet ==
    ASSUME NEW S, S \subseteq Nat, S # {}
    PROVE  Min(S) \in S /\ \A y \in S : Min(S) <= y
<1> DEFINE less == {ss \in Nat \X Nat : ss[1] < ss[2]}
<1>1. IsWellFoundedOn(less, Nat)
  BY NatLessThanWellFounded DEF OpToRel
<1>2. \A y \in Nat, z \in Nat : <<y, z>> \notin less => ~(y < z)
  <2> SUFFICES ASSUME NEW y \in Nat, NEW z \in Nat, y < z PROVE <<y, z>> \in less
    OBVIOUS
  <2>1. <<y, z>> \in Nat \X Nat /\ <<y, z>>[1] < <<y, z>>[2]
    OBVIOUS
  <2> QED
    BY <2>1
<1> HIDE DEF less
<1>3. PICK x \in S : \A y \in S : ~(<<y, x>> \in less)
  BY <1>1, WFMin
<1>4. \A y \in S : ~(y < x)
  BY <1>2, <1>3
<1>5. x \in Nat /\ \A y \in S : y \in Nat
  OBVIOUS
<1>6. \A y \in S : x <= y
  BY <1>4, <1>5
<1> QED
  BY <1>6 DEF Min

LEMMA FirstPeer == First \in Peer
BY MinOfSet, PeerAssumption DEF First

LEMMA FirstInstant == Min(Instants) \in Instants /\ Min(Instants) \in Nat
BY MinOfSet, TimesAssumption

LEMMA InitHolds == Init => IInv
<1> SUFFICES ASSUME Init PROVE IInv
  OBVIOUS
<1>1. TypeOK
  BY FirstInstant, Constants, SampleBounds DEF Init, TypeOK, NoThin, NotYet
<1>2. TimesOK
  BY FirstInstant DEF Init, TimesOK, NoThin, NotYet
<1> QED
  BY <1>1, <1>2 DEF Init, IInv, PassOK, Restarted, ThinHolds

LEMMA OneBeforeKept ==
    ASSUME NEW x \in Int, OneBefore(x), now \in Int, now' \in Int, now <= now',
           \A r \in rows : r.at \in Int,
           \A r \in rows' : r \in rows \/ (r.at \in Int /\ r.at >= x)
    PROVE  OneBefore(x)'
<1> SUFFICES ASSUME NEW r \in rows', NEW o \in rows',
                    {r.at, o.at} \subseteq now' - Retention .. x - 1,
                    r.peer = o.peer, BucketOf(r.at) = BucketOf(o.at)
             PROVE  r = o
  BY DEF OneBefore
<1>1. r \in rows /\ o \in rows
  OBVIOUS
<1>2. {r.at, o.at} \subseteq now - Retention .. x - 1
  BY <1>1, Constants
<1> QED
  BY <1>1, <1>2 DEF OneBefore

(* Rows are only inserted by a pass, at its time, and clocks run on. *)
LEMMA ThinHoldsKept ==
    ASSUME IInv, now' \in Nat, now <= now', thin' = thin, done' = done,
           \A r \in rows' : r \in rows \/ r.at = now
    PROVE  ThinHolds'
<1>1. /\ now \in Nat /\ done \in Int /\ thin.lo \in Int /\ Raw \in Nat
      /\ \A r \in rows : r.at \in Int
  BY Constants DEF IInv, TypeOK, TimesOK
<1>2. \A r \in rows' : r \in rows \/ (r.at \in Int /\ r.at = now)
  BY <1>1
<1>3. done' # NotYet => OneBefore(done)'
  <2> HAVE done' # NotYet
  <2>1. PICK d \in Int : d = done
    BY <1>1
  <2>2. OneBefore(d) /\ d <= now
    BY <2>1, <1>1 DEF IInv, ThinHolds, TypeOK
  <2>3. OneBefore(d)'
    BY <2>2, <1>1, <1>2, OneBeforeKept
  <2> QED
    BY <2>1, <2>3 DEF OneBefore
<1>4. thin' # NoThin => OneBefore(thin.lo)'
  <2> HAVE thin' # NoThin
  <2>1. PICK d \in Int : d = thin.lo
    BY <1>1
  <2>2. OneBefore(d) /\ d <= now
    BY <2>1, <1>1 DEF IInv, ThinHolds, TimesOK
  <2>3. OneBefore(d)'
    BY <2>2, <1>1, <1>2, OneBeforeKept
  <2> QED
    BY <2>1, <2>3 DEF OneBefore
<1> QED
  BY <1>3, <1>4 DEF ThinHolds, NoThin, NotYet

(* The rows a set of samples becomes do not clash with those there are. *)
LEMMA RowsTyped ==
    ASSUME IInv, NEW S, IsFiniteSet(S),
           \A s \in S : s.peer \in Peer /\ s.at \in Nat /\ s.at <= now /\ s.bytes \in 0..s.at,
           \A s, o \in S : s.at = o.at /\ s.peer = o.peer => s = o,
           nextID' = nextID + Cardinality(S),
           \A r \in rows' : r \in rows \/ r \in Numbered(S)
    PROVE  /\ nextID' \in Nat \ {0}
           /\ \A r \in rows' : r.id \in 1..nextID' - 1 /\ r.peer \in Peer /\ r.bytes \in 0..r.at
           /\ \A r \in rows' : r.at \in Nat /\ r.at <= now
           /\ \A r, o \in rows' : r.id = o.id => r = o
<1>1. /\ nextID \in Nat \ {0} /\ now \in Nat
      /\ \A r \in rows : r.id \in 1..nextID - 1 /\ r.peer \in Peer /\ r.bytes \in 0..r.at
      /\ \A r \in rows : r.at \in Nat /\ r.at <= now
      /\ \A r, o \in rows : r.id = o.id => r = o
  BY Constants DEF IInv, TypeOK, TimesOK
<1>2. Cardinality(S) \in Nat
  BY FS_CardinalityType
<1>3. \A s \in S : s.at \in Int /\ s.peer \in Int
  <2> TAKE s \in S
  <2>1. s.peer \in Peer /\ s.at \in Nat
    OBVIOUS
  <2>2. \A p \in Peer : p \in Int
    BY PeerAssumption
  <2> QED
    BY <2>1, <2>2
<1>4. /\ \A r \in Numbered(S) : r.id \in nextID .. nextID + Cardinality(S) - 1
      /\ \A r \in Numbered(S) : \E s \in S :
            r.peer = s.peer /\ r.at = s.at /\ r.bytes = s.bytes
      /\ \A r, o \in Numbered(S) : r.id = o.id => r = o
  BY <1>1, <1>3, NumberedRows
<1>5. \A r \in Numbered(S) : /\ r.id \in 1..nextID' - 1 /\ r.peer \in Peer
                             /\ r.at \in Nat /\ r.at <= now /\ r.bytes \in 0..r.at
                             /\ r.id >= nextID
  BY <1>1, <1>2, <1>4
<1>6. \A r \in rows : r.id \in 1..nextID' - 1 /\ r.id < nextID
  BY <1>1, <1>2
<1>7. \A r, o \in rows' : r.id = o.id => r = o
  <2> TAKE r, o \in rows'
  <2>1. CASE r \in rows /\ o \in rows
    BY <2>1, <1>1
  <2>2. CASE r \in Numbered(S) /\ o \in Numbered(S)
    BY <2>2, <1>4
  <2>3. CASE r \in rows /\ o \in Numbered(S)
    <3>1. r.id # o.id
      BY <2>3, <1>1, <1>5, <1>6
    <3> QED
      BY <3>1
  <2>4. CASE o \in rows /\ r \in Numbered(S)
    <3>1. r.id # o.id
      BY <2>4, <1>1, <1>5, <1>6
    <3> QED
      BY <3>1
  <2> QED
    BY <2>1, <2>2, <2>3, <2>4
<1> QED
  BY <1>1, <1>2, <1>5, <1>6, <1>7

LEMMA WriteTyped ==
    ASSUME IInv, NEW dbs, Write(dbs)
    PROVE  dirty' \in [DBs -> BOOLEAN]
BY DEF IInv, TypeOK, Write

LEMMA CopiedSamples ==
    ASSUME IInv
    PROVE  /\ IsFiniteSet(Copied)
           /\ \A s \in Copied : s.peer \in Peer /\ s.at \in Nat /\ s.at <= now /\ s.bytes \in 0..s.at
           /\ \A s \in Copied : s.peer = First /\ s.at \in Legacy /\ s.bytes = s.at
           /\ \A s, o \in Copied : s.at = o.at => s = o
<1>1. Legacy \subseteq 1..Min(Instants) /\ Min(Instants) \in Nat /\ Min(Instants) <= now
  BY TimesAssumption, FirstInstant, MinOfSet DEF IInv, TypeOK
<1>2. \A s \in Copied : s.peer = First /\ s.at \in Legacy /\ s.bytes = s.at
  BY DEF Copied, LegacySamples
<1>3. \A s, o \in Copied : s.at = o.at => s = o
  BY DEF Copied, LegacySamples
<1>4. IsFiniteSet(Copied)
  <2>1. IsFiniteSet(Legacy)
    <3>1. PICK m \in Nat : m = Min(Instants)
      BY <1>1
    <3>2. IsFiniteSet(1..m) /\ Legacy \in SUBSET (1..m)
      BY <3>1, <1>1, FS_Interval
    <3> QED
      BY <3>2, FS_Subset
  <2> DEFINE f == [t \in Legacy |-> [peer |-> First, at |-> t, bytes |-> t]]
  <2>2. f \in Surjection(Legacy, LegacySamples)
    BY DEF LegacySamples, Surjection
  <2>3. IsFiniteSet(LegacySamples)
    BY <2>1, <2>2, FS_Surjection
  <2> QED
    BY <2>3, FS_EmptySet DEF Copied
<1>5. \A s \in Copied : s.peer \in Peer /\ s.at \in Nat /\ s.at <= now /\ s.bytes \in 0..s.at
  <2>1. now \in Nat
    BY Constants DEF IInv, TypeOK
  <2>2. \A t \in Legacy : t \in Nat /\ t <= now /\ t \in 0..t
    BY <1>1, <2>1
  <2> QED
    BY <1>2, <2>2, FirstPeer
<1> QED
  BY <1>2, <1>3, <1>4, <1>5

LEMMA migrateStep == IInv /\ migrateLegacySamples => IInv'
<1> SUFFICES ASSUME IInv, migrateLegacySamples PROVE IInv'
  OBVIOUS
<1>1. done = NotYet /\ thin = NoThin /\ pending = NoPass
  BY DEF IInv, Restarted, PassOK, migrateLegacySamples
<1>2. /\ IsFiniteSet(Copied)
      /\ \A s \in Copied : s.peer \in Peer /\ s.at \in Nat /\ s.at <= now /\ s.bytes \in 0..s.at
      /\ \A s, o \in Copied : s.at = o.at => s = o
  BY CopiedSamples
<1>3. nextID' = nextID + Cardinality(Copied) /\ rows' = rows \cup Numbered(Copied) /\ now' = now
  BY DEF migrateLegacySamples
<1>4. /\ nextID' \in Nat \ {0}
      /\ \A r \in rows' : r.id \in 1..nextID' - 1 /\ r.peer \in Peer /\ r.bytes \in 0..r.at
      /\ \A r \in rows' : r.at \in Nat /\ r.at <= now
      /\ \A r, o \in rows' : r.id = o.id => r = o
  <2>1. \A s, o \in Copied : s.at = o.at /\ s.peer = o.peer => s = o
    BY <1>2
  <2> QED
    BY <1>2, <1>3, <2>1, RowsTyped
<1>5. dirty' \in [DBs -> BOOLEAN]
  BY WriteTyped DEF migrateLegacySamples, IInv, TypeOK
<1>6. TypeOK'
  BY <1>4, <1>5 DEF migrateLegacySamples, IInv, TypeOK, dataVars, loopVars, thinVars
<1>7. TimesOK'
  BY <1>4, <1>1 DEF migrateLegacySamples, IInv, TimesOK, loopVars, thinVars
<1> QED
  BY <1>6, <1>7, <1>1 DEF migrateLegacySamples, IInv, PassOK, Restarted, ThinHolds, loopVars, thinVars,
     NoPass, NoThin, NotYet

LEMMA UpStep == IInv /\ Up => IInv'
<1> SUFFICES ASSUME IInv, Up PROVE IInv'
  OBVIOUS
<1>1. pending = NoPass /\ done = NotYet /\ thin = NoThin
  BY DEF IInv, Restarted, PassOK, Up
<1>2. dirty' \in [DBs -> BOOLEAN]
  BY WriteTyped DEF Up, IInv, TypeOK
<1>3. TypeOK'
  <2>1. /\ now' = now /\ live' = live /\ zero' = zero /\ rows' = rows /\ nextID' = nextID
        /\ thin' = thin /\ done' = done /\ passed' = passed /\ passes' = passes
        /\ pinned' = pinned /\ blocked' = blocked
        /\ phase' \in {"off", "copied", "run"} /\ old' \in BOOLEAN /\ faults' \in 0..MaxFaults
    <3>1. faults \in 0..MaxFaults /\ old \in BOOLEAN
      BY DEF IInv, TypeOK
    <3>2. Fault => faults' \in 0..MaxFaults
      BY <3>1, SampleBounds DEF Fault
    <3> QED
      BY <3>1, <3>2 DEF Up, loopVars, thinVars
  <2> QED
    BY <1>2, <2>1 DEF IInv, TypeOK
<1>4. TimesOK'
  BY DEF Up, IInv, TimesOK, loopVars, thinVars
<1> QED
  BY <1>1, <1>3, <1>4 DEF Up, IInv, PassOK, Restarted, ThinHolds, loopVars, thinVars,
     NoPass, NoThin, NotYet

LEMMA StopStep == IInv /\ Stop => IInv'
<1> SUFFICES ASSUME IInv, Stop PROVE IInv'
  OBVIOUS
<1>1. dirty' \in [DBs -> BOOLEAN] /\ blocked' \in [DBs -> BOOLEAN]
  BY DEF Stop, WALAfter, IInv, TypeOK
<1>2. thin' = NoThin /\ done' = NotYet /\ pending' = NoPass
  BY DEF Stop
<1>3. TypeOK'
  BY <1>1, <1>2, Constants, SampleBounds DEF Stop, Fault, IInv, TypeOK, NoThin, dataVars
<1>4. TimesOK'
  BY <1>2 DEF Stop, IInv, TimesOK, dataVars, NoThin, NotYet
<1> QED
  BY <1>2, <1>3, <1>4 DEF IInv, PassOK, Restarted, ThinHolds, NoPass, NoThin, NotYet

LEMMA sampleStep == IInv /\ sampleInterface => IInv'
<1> SUFFICES ASSUME IInv, sampleInterface PROVE IInv'
  OBVIOUS
<1> DEFINE sample(p) == [peer |-> p, at |-> now, bytes |-> Bytes(p)]
<1>1. /\ now' = now /\ rows' = rows /\ zero' = zero /\ nextID' = nextID /\ phase' = phase
      /\ live' = live /\ old' = old
      /\ thin' = thin /\ done' = done /\ passed' = passed /\ faults' = faults
      /\ dirty' = dirty /\ pinned' = pinned /\ blocked' = blocked
      /\ pending' = {sample(p) : p \in live} /\ passes' = passes + 1 /\ passes < MaxPasses
  BY DEF sampleInterface, dataVars, thinVars, walVars
<1>2. TypeOK'
  BY <1>1, SampleBounds DEF IInv, TypeOK
<1>3. TimesOK' /\ Restarted'
  BY <1>1 DEF IInv, TimesOK, Restarted, NoThin, NotYet
<1>4. ThinHolds'
  BY <1>1, Constants, ThinHoldsKept DEF IInv, TypeOK
<1>5. PassOK'
  <2>1. phase' = "run"
    BY <1>1 DEF sampleInterface, PassDue
  <2>2. IsFiniteSet(pending')
    <3>1. IsFiniteSet(live)
      BY PeerAssumption, FS_Subset DEF IInv, TypeOK
    <3> DEFINE f == [p \in live |-> sample(p)]
    <3>2. f \in Surjection(live, pending')
      BY <1>1 DEF Surjection
    <3> QED
      BY <3>1, <3>2, FS_Surjection
  <2>3. \A p \in live : /\ sample(p).peer = p /\ sample(p).at = now
                        /\ sample(p).bytes = now - zero[p]
    BY DEF Bytes
  <2>4. \A p \in live : p \in Peer /\ now - zero[p] \in 0..now
    <3> TAKE p \in live
    <3>1. p \in Peer /\ zero[p] \in {0} \cup Instants /\ zero[p] <= now /\ now \in Instants
      BY DEF IInv, TypeOK, TimesOK
    <3>2. \A t \in Instants : t \in Nat
      BY Constants
    <3>3. zero[p] \in Nat /\ now \in Nat
      BY <3>1, <3>2
    <3> QED
      BY <3>1, <3>3
  <2> HIDE DEF sample
  <2>5. \A s \in pending' : s.peer \in Peer /\ s.at = now' /\ s.bytes \in 0..now'
    BY <1>1, <2>3, <2>4
  <2>6. \A s, o \in pending' : s.peer = o.peer => s = o
    BY <1>1, <2>3
  <2> QED
    BY <2>1, <2>2, <2>5, <2>6 DEF PassOK
<1> QED
  BY <1>2, <1>3, <1>4, <1>5 DEF IInv

(* Whichever statement of the two transactions fails. *)
LEMMA Inserted ==
    ASSUME InsertAndPurge
    PROVE  \A r \in rows' : r \in rows \/ r \in Numbered(pending)
BY DEF InsertAndPurge, Expired

LEMMA InsertStep == IInv /\ InsertAndPurge => IInv'
<1> SUFFICES ASSUME IInv, InsertAndPurge PROVE IInv'
  OBVIOUS
<1>1. /\ now' = now /\ zero' = zero /\ phase' = phase /\ live' = live /\ old' = old
      /\ thin' = thin /\ done' = done /\ passed' = 1 /\ passes' = passes
      /\ pinned' = pinned /\ blocked' = blocked /\ pending' = NoPass
      /\ nextID' = nextID + Cardinality(pending) /\ pending # NoPass
      /\ faults' \in 0..MaxFaults
  BY SampleBounds DEF InsertAndPurge, Fault, thinVars, IInv, TypeOK
<1>2. /\ IsFiniteSet(pending) /\ now \in Nat /\ nextID \in Nat
      /\ \A s \in pending : s.peer \in Peer /\ s.at = now /\ s.bytes \in 0..now
      /\ \A s, o \in pending : s.peer = o.peer => s = o
  BY <1>1, Constants DEF IInv, PassOK, TypeOK, TimesOK
<1>3. /\ nextID' \in Nat \ {0}
      /\ \A r \in rows' : r.id \in 1..nextID' - 1 /\ r.peer \in Peer /\ r.bytes \in 0..r.at
      /\ \A r \in rows' : r.at \in Nat /\ r.at <= now
      /\ \A r, o \in rows' : r.id = o.id => r = o
  <2>1. \A s \in pending : s.peer \in Peer /\ s.at \in Nat /\ s.at <= now /\ s.bytes \in 0..s.at
    BY <1>2
  <2>2. \A s, o \in pending : s.at = o.at /\ s.peer = o.peer => s = o
    BY <1>2
  <2> QED
    BY <1>1, <1>2, <2>1, <2>2, Inserted, RowsTyped
<1>4. dirty' \in [DBs -> BOOLEAN]
  BY WriteTyped DEF InsertAndPurge
<1>5. TypeOK'
  BY <1>1, <1>3, <1>4 DEF IInv, TypeOK
<1>6. TimesOK'
  BY <1>1, <1>3 DEF IInv, TimesOK, NoThin
<1>7. ThinHolds'
  <2>1. \A r \in Numbered(pending) : \E s \in pending : r.at = s.at
    <3>1. \A s \in pending : s.at \in Int /\ s.peer \in Int
      <4>1. \A p \in Peer : p \in Int
        BY PeerAssumption
      <4> QED
        BY <1>2, <4>1
    <3>2. \A s, o \in pending : s.at = o.at /\ s.peer = o.peer => s = o
      BY <1>2
    <3> QED
      BY <1>2, <3>1, <3>2, NumberedRows
  <2>2. \A r \in rows' : r \in rows \/ r.at = now
    BY <2>1, <1>2, Inserted
  <2> QED
    BY <1>1, <1>2, <2>2, ThinHoldsKept
<1> QED
  BY <1>1, <1>5, <1>6, <1>7 DEF IInv, PassOK, Restarted, NoPass, NoThin, NotYet

LEMMA DoneStays ==
    ASSUME IInv, done' = done, now' \in Nat, now <= now'
    PROVE  done' = NotYet \/ (done' % Bucket = 0 /\ done' <= now' - Raw)
<1>1. PICK d \in Int, t \in Nat, u \in Nat, w \in Nat :
          d = done /\ t = now /\ u = now' /\ w = Raw
  BY Constants DEF IInv, TypeOK, TimesOK
<1>2. d = NotYet \/ (d % Bucket = 0 /\ d <= t - w)
  BY <1>1 DEF IInv, TypeOK
<1>3. t <= u
  BY <1>1
<1>4. d <= t - w => d <= u - w
  BY <1>3
<1> QED
  BY <1>1, <1>2, <1>4

(* Actions that only take rows away, or none, outside compactLoop. *)
LEMMA RemovedStep ==
    ASSUME IInv, rows' \subseteq rows, nextID' = nextID, thin' = thin, done' = done,
           phase' = phase, pending' = pending, passed' = passed, passes' = passes, old' = old,
           now' = now \/ pending = NoPass, now' \in Instants, now <= now', live' \subseteq live,
           zero' \in [Peer -> {0} \cup Instants], \A p \in Peer : zero'[p] <= now',
           {dirty', pinned', blocked'} \subseteq [DBs -> BOOLEAN], faults' \in 0..MaxFaults
    PROVE  IInv'
<1>1. now \in Nat /\ now' \in Nat /\ Raw \in Nat /\ done \in Int /\ thin.to \in Int
  BY Constants DEF IInv, TypeOK, TimesOK
<1>2. TypeOK'
  <2>1. done' = NotYet \/ (done' % Bucket = 0 /\ done' <= now' - Raw)
    BY <1>1, DoneStays
  <2> QED
    BY <2>1 DEF IInv, TypeOK, NotYet
<1>3. TimesOK'
  <2>1. \A r \in rows' : r.at \in Nat /\ r.at <= now'
    BY <1>1 DEF IInv, TimesOK
  <2>2. thin' # NoThin => thin'.lo < thin'.to /\ thin'.to <= now' - Raw
    BY <1>1 DEF IInv, TimesOK
  <2> QED
    BY <2>1, <2>2 DEF IInv, TimesOK, NoThin
<1>4. ThinHolds'
  BY <1>1, ThinHoldsKept
<1>5. PassOK'
  BY DEF IInv, PassOK, NoPass
<1> QED
  BY <1>2, <1>3, <1>4, <1>5 DEF IInv, Restarted, NoThin, NotYet

LEMMA DeleteStep == ASSUME IInv, NEW p \in Deleted, DeletePeer(p) PROVE IInv'
<1>1. /\ now' = now /\ zero' = zero /\ phase' = phase /\ old' = old /\ nextID' = nextID
      /\ thin' = thin /\ done' = done /\ passed' = passed /\ passes' = passes
      /\ pinned' = pinned /\ blocked' = blocked /\ pending' = pending /\ live' \subseteq live
      /\ rows' \subseteq rows
  BY DEF DeletePeer, loopVars, thinVars
<1>2. faults' \in 0..MaxFaults
  <2>1. faults \in 0..MaxFaults
    BY DEF IInv, TypeOK
  <2> QED
    BY <2>1, SampleBounds DEF DeletePeer, Fault
<1>3. {dirty', pinned', blocked'} \subseteq [DBs -> BOOLEAN]
  <2>1. dirty' \in [DBs -> BOOLEAN]
    BY WriteTyped DEF DeletePeer
  <2> QED
    BY <1>1, <2>1 DEF IInv, TypeOK
<1>4. /\ now \in Instants /\ now <= now /\ zero \in [Peer -> {0} \cup Instants]
      /\ \A q \in Peer : zero[q] <= now
  BY Constants DEF IInv, TypeOK, TimesOK
<1>5. /\ now' \in Instants /\ now <= now' /\ zero' \in [Peer -> {0} \cup Instants]
      /\ \A q \in Peer : zero'[q] <= now'
  BY <1>1, <1>4
<1> QED
  BY <1>1, <1>2, <1>3, <1>5, RemovedStep

LEMMA ResetStep == ASSUME IInv, NEW p \in Reset, ResetTraffic(p) PROVE IInv'
<1>1. /\ now' = now /\ zero' = [zero EXCEPT ![p] = now] /\ phase' = phase /\ old' = old
      /\ nextID' = nextID /\ thin' = thin /\ done' = done /\ passed' = passed
      /\ passes' = passes /\ pinned' = pinned /\ blocked' = blocked /\ dirty' = dirty
      /\ pending' = pending /\ live' \subseteq live /\ rows' \subseteq rows
  BY DEF ResetTraffic, loopVars, thinVars, walVars
<1>2. faults' \in 0..MaxFaults
  <2>1. faults \in 0..MaxFaults
    BY DEF IInv, TypeOK
  <2> QED
    BY <2>1, SampleBounds DEF ResetTraffic, Fault
<1>3. {dirty', pinned', blocked'} \subseteq [DBs -> BOOLEAN]
  BY <1>1 DEF IInv, TypeOK
<1>4. /\ now \in Instants /\ now <= now /\ zero \in [Peer -> {0} \cup Instants]
      /\ \A q \in Peer : zero[q] <= now
  BY Constants DEF IInv, TypeOK, TimesOK
<1>5. now' \in Instants /\ now <= now' /\ zero' \in [Peer -> {0} \cup Instants]
  BY <1>1, <1>4
<1>6. \A q \in Peer : zero'[q] <= now'
  BY <1>1, <1>4
<1> QED
  BY <1>1, <1>2, <1>3, <1>5, <1>6, RemovedStep

LEMMA WALStep ==
    ASSUME IInv, NEW d \in DBs, CheckpointWAL(d) \/ Pin(d) \/ Unpin(d)
    PROVE  IInv'
<1>1. UNCHANGED <<now, phase, dataVars, loopVars, thinVars, passes, faults>>
  BY DEF CheckpointWAL, Pin, Unpin
<1>2. /\ now' = now /\ zero' = zero /\ phase' = phase /\ old' = old /\ nextID' = nextID
      /\ thin' = thin /\ done' = done /\ passed' = passed /\ passes' = passes
      /\ pending' = pending /\ live' \subseteq live /\ rows' \subseteq rows /\ faults' = faults
  BY <1>1 DEF dataVars, loopVars, thinVars
<1>3. {dirty', pinned', blocked'} \subseteq [DBs -> BOOLEAN]
  <2>1. {dirty, pinned, blocked} \subseteq [DBs -> BOOLEAN]
    BY DEF IInv, TypeOK
  <2>2. CASE CheckpointWAL(d)
    BY <2>1, <2>2 DEF CheckpointWAL, WALAfter
  <2>3. CASE Pin(d)
    BY <2>1, <2>3 DEF Pin
  <2>4. CASE Unpin(d)
    BY <2>1, <2>4 DEF Unpin
  <2> QED
    BY <2>2, <2>3, <2>4
<1>4. /\ now \in Instants /\ now <= now /\ zero \in [Peer -> {0} \cup Instants]
      /\ \A q \in Peer : zero[q] <= now /\ faults \in 0..MaxFaults
  BY Constants DEF IInv, TypeOK, TimesOK
<1>5. /\ now' \in Instants /\ now <= now' /\ zero' \in [Peer -> {0} \cup Instants]
      /\ \A q \in Peer : zero'[q] <= now'
  BY <1>2, <1>4
<1>6. faults' \in 0..MaxFaults
  BY <1>2 DEF IInv, TypeOK
<1> QED
  BY <1>2, <1>3, <1>5, <1>6, RemovedStep

LEMMA TickStep == ASSUME IInv, NEW t \in Instants, Tick(t) PROVE IInv'
<1>1. /\ now' = t /\ now < t /\ pending = NoPass
      /\ zero' = zero /\ phase' = phase /\ old' = old /\ nextID' = nextID
      /\ thin' = thin /\ done' = done /\ passed' = passed /\ passes' = passes
      /\ pinned' = pinned /\ blocked' = blocked /\ dirty' = dirty
      /\ pending' = pending /\ live' \subseteq live /\ rows' \subseteq rows /\ faults' = faults
  BY DEF Tick, dataVars, loopVars, thinVars, walVars
<1>2. {dirty', pinned', blocked'} \subseteq [DBs -> BOOLEAN] /\ faults' \in 0..MaxFaults
  BY <1>1 DEF IInv, TypeOK
<1>3. /\ now \in Nat /\ t \in Nat /\ \A u \in Instants : u \in Nat
      /\ zero \in [Peer -> {0} \cup Instants]
      /\ \A q \in Peer : zero[q] <= now
  BY Constants DEF IInv, TypeOK, TimesOK
<1>4. now' \in Instants /\ now <= now' /\ zero' \in [Peer -> {0} \cup Instants]
  BY <1>1, <1>3
<1>5. \A q \in Peer : zero'[q] <= now'
  <2> TAKE q \in Peer
  <2>1. zero[q] \in {0} \cup Instants /\ zero[q] <= now
    BY <1>3
  <2>2. \A u \in {0} \cup Instants : u \in Nat
    BY Constants
  <2>3. zero[q] \in Nat
    BY <2>1, <2>2
  <2> QED
    BY <1>1, <1>3, <2>1, <2>3
<1> QED
  BY <1>1, <1>2, <1>4, <1>5, RemovedStep

(* Nothing is kept from before the first range, and what was done stays so. *)
LEMMA ThinStartStep == IInv /\ ThinStart => IInv'
<1> SUFFICES ASSUME IInv, ThinStart PROVE IInv'
  OBVIOUS
<1>1. /\ now' = now /\ zero' = zero /\ phase' = phase /\ old' = old /\ nextID' = nextID
      /\ done' = done /\ passed' = passed /\ passes' = passes /\ faults' = faults
      /\ pinned' = pinned /\ blocked' = blocked /\ dirty' = dirty
      /\ pending' = pending /\ live' = live /\ rows' = rows
      /\ thin' = [lo |-> ThinFrom, to |-> ThinTo] /\ ThinFrom < ThinTo /\ phase = "run"
  BY DEF ThinStart, dataVars, loopVars, walVars
<1>2. PICK n \in Nat, w \in Nat, k \in Nat : n = now /\ w = Raw /\ k = Retention
  BY Constants DEF IInv, TypeOK
<1>3. ThinTo \in Int /\ ThinTo <= n - w /\ ThinTo % Bucket = 0
  <2>1. n - w \in Int
    OBVIOUS
  <2> QED
    BY <1>2, <2>1, TruncateAligned DEF ThinTo
<1>4. PICK to \in Int : to = ThinTo
  BY <1>3
<1>5. Truncate(to - k) \in Int /\ Truncate(to - k) <= to - k /\ Truncate(to - k) % Bucket = 0
  <2>1. to - k \in Int
    OBVIOUS
  <2> QED
    BY <2>1, TruncateAligned
<1>6. ThinFrom \in Int /\ ThinFrom % Bucket = 0 /\ OneBefore(ThinFrom)
  <2>1. CASE done # NotYet
    BY <2>1 DEF ThinFrom, IInv, TypeOK, TimesOK, ThinHolds
  <2>2. CASE done = NotYet
    <3>1. ThinFrom = Truncate(to - k)
      BY <2>2, <1>2, <1>4 DEF ThinFrom
    <3>2. ThinFrom \in Int /\ ThinFrom <= n - k
      BY <3>1, <1>2, <1>3, <1>4, <1>5
    <3>3. PICK f \in Int : f = ThinFrom /\ f <= n - k
      BY <3>2
    <3>4. \A t \in Int : t \notin n - k .. f - 1
      BY <3>3
    <3>5. \A r \in rows : r.at \in Int
      BY DEF IInv, TimesOK
    <3>6. \A r \in rows : r.at \notin now - Retention .. ThinFrom - 1
      BY <3>3, <3>4, <3>5, <1>2
    <3>7. OneBefore(ThinFrom)
      BY <3>6 DEF OneBefore
    <3> QED
      BY <3>1, <3>2, <3>7, <1>5
  <2> QED
    BY <2>1, <2>2
<1>7. PICK f \in Int : f = ThinFrom
  BY <1>6
<1>8. thin' = [lo |-> f, to |-> to] /\ f < to /\ to <= n - w
  BY <1>1, <1>3, <1>4, <1>7
<1>9. thin'.lo = f /\ thin'.to = to /\ thin' \in [lo : Int, to : Int]
  BY <1>8
<1>10. f % Bucket = 0 /\ to % Bucket = 0
  BY <1>3, <1>4, <1>6, <1>7
<1>11. TypeOK'
  <2>1. thin'.lo <= thin'.to /\ thin'.lo % Bucket = 0 /\ thin'.to % Bucket = 0
    BY <1>8, <1>9, <1>10
  <2> QED
    BY <1>1, <2>1 DEF IInv, TypeOK, NotYet
<1>12. TimesOK'
  <2>1. thin'.lo < thin'.to /\ thin'.to <= now' - Raw
    BY <1>1, <1>2, <1>8, <1>9
  <2> QED
    BY <1>1, <1>9, <2>1 DEF IInv, TimesOK
<1>13. ThinHolds'
  <2>1. done' # NotYet => OneBefore(done)'
    BY <1>1 DEF IInv, ThinHolds, OneBefore
  <2>2. OneBefore(thin.lo)'
    <3>1. OneBefore(f)
      BY <1>6, <1>7
    <3> QED
      BY <1>1, <1>9, <3>1 DEF OneBefore
  <2> QED
    BY <2>1, <2>2 DEF ThinHolds, NotYet
<1> QED
  BY <1>1, <1>11, <1>12, <1>13 DEF IInv, PassOK, Restarted, NoPass

LEMMA MinOfTwo ==
    ASSUME NEW a \in Int, NEW b \in Int
    PROVE  Min({a, b}) = IF a <= b THEN a ELSE b
<1>1. Min({a, b}) \in {a, b} /\ \A y \in {a, b} : Min({a, b}) <= y
  <2>1. \E x \in {a, b} : \A y \in {a, b} : x <= y
    OBVIOUS
  <2> QED
    BY <2>1 DEF Min
<1> QED
  BY <1>1

(* A slice: the pairs in it, before it, and across its start. *)
LEMMA SliceThins ==
    ASSUME IInv, NEW lo \in Int, NEW hi \in Int, lo % Bucket = 0, hi % Bucket = 0,
           OneBefore(lo), now' = now, rows' = rows \ Thinned(lo, hi)
    PROVE  OneBefore(hi)'
<1> SUFFICES ASSUME NEW r \in rows', NEW o \in rows',
                    {r.at, o.at} \subseteq now' - Retention .. hi - 1,
                    r.peer = o.peer, BucketOf(r.at) = BucketOf(o.at)
             PROVE  r = o
  BY DEF OneBefore
<1>1. /\ r \in rows /\ o \in rows /\ now \in Nat /\ Retention \in Nat
      /\ r.at \in Int /\ o.at \in Int /\ r.id \in Int /\ o.id \in Int
      /\ (r.id = o.id => r = o)
  BY Constants DEF IInv, TypeOK, TimesOK
<1>2. /\ now - Retention <= r.at /\ r.at < hi /\ now - Retention <= o.at /\ o.at < hi
  BY <1>1
<1>3. r \notin Thinned(lo, hi) /\ o \notin Thinned(lo, hi)
  OBVIOUS
<1>4. lo % 2 = 0 /\ hi % 2 = 0
  BY AlignedEven
<1>5. CASE r.at < lo
  <2>1. o.at < lo
    BY <1>1, <1>5, SameSide
  <2>2. {r.at, o.at} \subseteq now - Retention .. lo - 1
    BY <1>1, <1>2, <1>5, <2>1
  <2> QED
    BY <1>1, <2>2 DEF OneBefore
<1>6. CASE ~(r.at < lo)
  <2>1. ~(o.at < lo)
    BY <1>1, <1>6, SameSide
  <2>2. /\ Text(r.at) >= Bound(lo) /\ Text(r.at) < Bound(hi)
        /\ Text(o.at) >= Bound(lo) /\ Text(o.at) < Bound(hi)
    BY <1>1, <1>2, <1>4, <1>6, <2>1, TextBefore
  <2>3. ~(o.id > r.id) /\ ~(r.id > o.id)
    BY <1>1, <1>3, <2>2 DEF Thinned
  <2> QED
    BY <1>1, <2>3
<1> QED
  BY <1>5, <1>6

LEMMA ThinSliceStep == IInv /\ ThinSlice => IInv'
<1> SUFFICES ASSUME IInv, ThinSlice PROVE IInv'
  OBVIOUS
<1>1. /\ now' = now /\ zero' = zero /\ phase' = phase /\ old' = old /\ nextID' = nextID
      /\ passed' = passed /\ passes' = passes /\ pinned' = pinned /\ blocked' = blocked
      /\ pending' = pending /\ live' = live /\ rows' \subseteq rows /\ thin # NoThin
  BY DEF ThinSlice, loopVars
<1>2. /\ thin.lo \in Int /\ thin.to \in Int /\ thin.lo % Bucket = 0 /\ thin.to % Bucket = 0
      /\ thin.lo < thin.to /\ thin.to <= now - Raw /\ thin \in [lo : Int, to : Int]
  BY <1>1 DEF IInv, TypeOK, TimesOK
<1>3. PICK lo \in Int, to \in Int : lo = thin.lo /\ to = thin.to
  BY <1>2
<1>4. PICK s \in Nat : s = Slice /\ s > 0
  BY Constants
<1>5. PICK hi \in Int : hi = Min({lo + s, to})
  BY MinOfTwo
<1>6. hi % Bucket = 0 /\ lo <= hi /\ hi <= to
  <2>1. (lo + s) % Bucket = 0
    <3>1. lo % Bucket = 0 /\ s % Bucket = 0
      BY <1>2, <1>3, <1>4, Constants
    <3> QED
      BY <3>1, AlignedSum
  <2>2. hi = IF lo + s <= to THEN lo + s ELSE to
    BY <1>4, <1>5, MinOfTwo
  <2> QED
    BY <2>1, <2>2, <1>2, <1>3, <1>4
<1>7. thin = [lo |-> lo, to |-> to]
  BY <1>2, <1>3
<1>8. /\ \/ /\ rows' = rows \ Thinned(lo, hi)
            /\ thin' = IF hi < to THEN [lo |-> hi, to |-> to] ELSE NoThin
            /\ done' = IF hi < to THEN done ELSE to
            /\ faults' = faults
         \/ thin' = NoThin /\ rows' = rows /\ done' = done /\ Fault
      /\ dirty' \in [DBs -> BOOLEAN]
  <2>1. {dirty, pinned} \subseteq [DBs -> BOOLEAN]
    BY DEF IInv, TypeOK
  <2>2. hi = Min({thin.lo + Slice, thin.to})
    BY <1>3, <1>4, <1>5
  <2>3. [thin EXCEPT !.lo = hi] = [lo |-> hi, to |-> to]
    BY <1>7
  <2> QED
    BY <2>1, <2>2, <2>3, <1>3 DEF ThinSlice
<1>9. faults' \in 0..MaxFaults
  <2>1. faults \in 0..MaxFaults
    BY DEF IInv, TypeOK
  <2> QED
    BY <1>8, <2>1, SampleBounds DEF Fault
<1>10. NoThin.lo = 0 /\ NoThin.to = 0 /\ NoThin \in [lo : Int, to : Int] /\ 0 % Bucket = 0
  BY Constants DEF NoThin
<1>11. /\ thin' \in [lo : Int, to : Int] /\ thin'.lo <= thin'.to
       /\ thin'.lo % Bucket = 0 /\ thin'.to % Bucket = 0
       /\ thin' # NoThin => thin'.lo < thin'.to /\ thin'.to <= now - Raw
  <2>1. CASE thin' = NoThin
    BY <2>1, <1>10
  <2>2. CASE thin' # NoThin
    <3>1. thin' = [lo |-> hi, to |-> to] /\ hi < to
      BY <1>8, <2>2
    <3>2. thin'.lo = hi /\ thin'.to = to
      BY <3>1
    <3> QED
      BY <3>1, <3>2, <1>2, <1>3, <1>6
  <2> QED
    BY <2>1, <2>2
<1>12. done' \in Int /\ (done' = NotYet \/ (done' % Bucket = 0 /\ done' <= now - Raw))
  <2>1. done \in Int /\ (done = NotYet \/ (done % Bucket = 0 /\ done <= now - Raw))
    BY DEF IInv, TypeOK, TimesOK
  <2>2. done' = done \/ done' = to
    BY <1>8
  <2> QED
    BY <2>1, <2>2, <1>2, <1>3
<1>13. TypeOK'
  BY <1>1, <1>8, <1>9, <1>11, <1>12 DEF IInv, TypeOK, NotYet
<1>14. TimesOK'
  BY <1>1, <1>11, <1>12 DEF IInv, TimesOK, NoThin
<1>15. ThinHolds'
  <2>1. OneBefore(lo)
    BY <1>1, <1>3 DEF IInv, ThinHolds
  <2>2. PICK d \in Int, e \in Int, f \in Int : d = done /\ e = done' /\ f = thin'.lo
    BY <1>11, <1>12 DEF IInv, TimesOK
  <2>3. d # NotYet => OneBefore(d)'
    BY <1>1, <2>2 DEF IInv, ThinHolds, OneBefore
  <2>4. rows' = rows \ Thinned(lo, hi) => OneBefore(hi)'
    BY <1>1, <1>2, <1>3, <1>6, <2>1, SliceThins
  <2>5. e # NotYet => OneBefore(e)'
    <3>1. e = d \/ (e = hi /\ rows' = rows \ Thinned(lo, hi))
      BY <1>6, <1>8, <2>2
    <3> QED
      BY <2>3, <2>4, <3>1
  <2>6. thin' # NoThin => OneBefore(f)'
    <3> HAVE thin' # NoThin
    <3>1. thin' = [lo |-> hi, to |-> to] /\ rows' = rows \ Thinned(lo, hi)
      BY <1>8
    <3>2. f = hi
      BY <2>2, <3>1
    <3> QED
      BY <2>4, <3>1, <3>2
  <2> QED
    BY <2>2, <2>5, <2>6 DEF ThinHolds, OneBefore, NoThin, NotYet
<1> QED
  BY <1>1, <1>13, <1>14, <1>15 DEF IInv, PassOK, Restarted, NoPass
-----------------------------------------------------------------------------
LEMMA StutterStep == IInv /\ UNCHANGED vars => IInv'
BY DEF vars, dataVars, loopVars, thinVars, walVars, IInv, TypeOK, TimesOK, PassOK, Restarted,
   ThinHolds, OneBefore, NoPass, NoThin, NotYet

LEMMA NextHolds == IInv /\ [Next]_vars => IInv'
<1> SUFFICES ASSUME IInv, [Next]_vars PROVE IInv'
  OBVIOUS
<1>1. CASE migrateLegacySamples
  BY <1>1, migrateStep
<1>2. CASE Up
  BY <1>2, UpStep
<1>3. CASE Stop
  BY <1>3, StopStep
<1>4. CASE sampleInterface
  BY <1>4, sampleStep
<1>5. CASE InsertAndPurge
  BY <1>5, InsertStep
<1>6. CASE \E p \in Deleted : DeletePeer(p)
  BY <1>6, DeleteStep
<1>7. CASE \E p \in Reset : ResetTraffic(p)
  BY <1>7, ResetStep
<1>8. CASE ThinStart
  BY <1>8, ThinStartStep
<1>9. CASE ThinSlice
  BY <1>9, ThinSliceStep
<1>10. CASE \E d \in DBs : CheckpointWAL(d) \/ Pin(d) \/ Unpin(d)
  BY <1>10, WALStep
<1>11. CASE \E t \in Instants : Tick(t)
  BY <1>11, TickStep
<1>12. CASE UNCHANGED vars
  BY <1>12, StutterStep
<1> QED
  BY <1>1, <1>2, <1>3, <1>4, <1>5, <1>6, <1>7, <1>8, <1>9, <1>10, <1>11, <1>12 DEF Next

LEMMA Invariant == Spec => []IInv
BY InitHolds, NextHolds, PTL DEF Spec

(* The store keeps its types: ids of samples stay unique, whatever is       *)
(* inserted, copied from an old install, purged and thinned; what           *)
(* compactLoop has done ends at a bucket and outside the raw window.        *)
THEOREM TypeCorrect == Spec => []TypeOK
<1>1. IInv => TypeOK
  BY DEF IInv
<1> QED
  BY <1>1, Invariant, PTL

(* ThinSamples leaves one row per peer and bucket before done, with passes, *)
(* purges, deletions and failures between its slices, and restarts in the   *)
(* middle: as slices end at buckets, whose bounds compare as text as times  *)
(* do, no bucket is thinned in two parts.                                   *)
THEOREM OnePerBucket == Spec => []ThinnedToOne
<1>1. IInv => ThinnedToOne
  BY DEF IInv, ThinHolds, ThinnedToOne, OneBefore
<1> QED
  BY <1>1, Invariant, PTL
-----------------------------------------------------------------------------
(* What a window starts from. *)

(* Times that no purge reaches; purging compares texts. *)
Recent(t) == t \div 2 > (now - Retention) \div 2

(* A peer's samples are at different seconds, none in that of a pass. *)
LogOK ==
    /\ log \in [Peer -> SUBSET Nat]
    /\ \A p \in Peer : \A t \in log[p] : t <= now
    /\ \A p \in Peer : \A s, t \in log[p] : s \div 2 = t \div 2 => s = t
    /\ pending # NoPass => \A p \in Peer : \A t \in log[p] : t \div 2 # now \div 2

(* Samples later than the last reset have the bytes since then. *)
Exact(s) == zero[s.peer] < s.at => s.bytes = s.at - zero[s.peer]

RowsLogged ==
    /\ \A r \in rows : r.at \in log[r.peer] /\ Exact(r)
    /\ pending # NoPass => \A s \in pending : Exact(s)

(* Nothing is sampled before an old install's samples are copied. *)
OldOK ==
    old => phase # "run" /\ log = [p \in Peer |-> IF p = First THEN Legacy ELSE {}]

Together(r, o) == r.peer = o.peer /\ BucketOf(r.at) = BucketOf(o.at)

(* The row thinning keeps is the newest, also of samples copied twice. *)
NewestIsLast ==
    \A r \in rows : Recent(r.at) =>
        \E q \in rows : /\ Together(q, r)
                        /\ \A o \in rows : Together(o, r) => o.id <= q.id /\ o.at <= q.at

(* Each sample has its row or, outside the raw window, a newer one of its   *)
(* bucket.                                                                 *)
SampleHeld(p, t) ==
    \E r \in rows : /\ r.peer = p /\ BucketOf(r.at) = BucketOf(t) /\ r.at >= t
                    /\ r.at = t \/ r.at \div 2 < (now - Raw) \div 2

SamplesHeld ==
    (~old \/ phase # "off") => \A p \in live : \A t \in log[p] : Recent(t) => SampleHeld(p, t)

WInv == IInv /\ LogOK /\ RowsLogged /\ OldOK /\ NewestIsLast /\ SamplesHeld

LEMMA HalvesOrdered ==
    ASSUME NEW s \in Int, NEW t \in Int, s <= t
    PROVE  s \div 2 <= t \div 2 /\ s \div 2 \in Int /\ t \div 2 \in Int
OBVIOUS

LEMMA WTypes ==
    ASSUME WInv
    PROVE  /\ now \in Nat /\ Raw \in Nat /\ Retention \in Nat /\ nextID \in Nat
           /\ \A r \in rows : /\ r.at \in Nat /\ r.at <= now /\ r.id \in Nat /\ r.id < nextID
                              /\ r.peer \in Peer /\ r.bytes \in Nat /\ r.bytes <= r.at
           /\ live \subseteq Peer
           /\ \A p \in Peer : zero[p] \in Nat /\ zero[p] <= now
           /\ \A p \in Peer : log[p] \subseteq Nat
           /\ \A p \in Peer : \A t \in log[p] : t \in Nat /\ t <= now
<1>1. \A t \in Instants : t \in Nat
  BY Constants
<1>2. now \in Nat /\ nextID \in Nat
  BY <1>1 DEF WInv, IInv, TypeOK, TimesOK
<1>3. \A r \in rows : /\ r.at \in Nat /\ r.at <= now /\ r.id \in 1..nextID - 1
                      /\ r.peer \in Peer /\ r.bytes \in 0..r.at
  BY DEF WInv, IInv, TypeOK, TimesOK
<1>4. \A r \in rows : r.id \in Nat /\ r.id < nextID /\ r.bytes \in Nat /\ r.bytes <= r.at
  BY <1>2, <1>3
<1>5. \A p \in Peer : zero[p] \in Nat /\ zero[p] <= now
  <2> TAKE p \in Peer
  <2>1. zero[p] \in {0} \cup Instants /\ zero[p] <= now
    BY DEF WInv, IInv, TypeOK, TimesOK
  <2> QED
    BY <1>1, <2>1
<1>6. /\ \A p \in Peer : log[p] \subseteq Nat
      /\ \A p \in Peer : \A t \in log[p] : t \in Nat /\ t <= now
  BY DEF WInv, LogOK
<1>7. live \subseteq Peer
  BY DEF WInv, IInv, TypeOK
<1> QED
  BY <1>2, <1>3, <1>4, <1>5, <1>6, <1>7, Constants

LEMMA RecentBefore ==
    ASSUME NEW t \in Int, now \in Nat, now' \in Nat, now <= now', Recent(t)'
    PROVE  Recent(t)
<1>1. PICK m \in Nat, n \in Nat, k \in Nat : m = now /\ n = now' /\ k = Retention
  BY Constants
<1>2. m <= n
  BY <1>1
<1>3. m - k \in Int /\ n - k \in Int /\ m - k <= n - k /\ t \div 2 \in Int
  BY <1>2
<1>4. (m - k) \div 2 <= (n - k) \div 2 /\ (m - k) \div 2 \in Int /\ (n - k) \div 2 \in Int
  BY <1>3, HalvesOrdered
<1>5. t \div 2 > (n - k) \div 2
  BY <1>1 DEF Recent
<1>6. t \div 2 > (m - k) \div 2
  BY <1>3, <1>4, <1>5
<1> QED
  BY <1>1, <1>6 DEF Recent

LEMMA RecentUp ==
    ASSUME NEW s \in Int, NEW t \in Int, now \in Nat, s <= t, Recent(s)
    PROVE  Recent(t)
<1>1. PICK m \in Nat, k \in Nat : m = now /\ k = Retention
  BY Constants
<1>2. (m - k) \div 2 \in Int
  OBVIOUS
<1>3. s \div 2 <= t \div 2 /\ s \div 2 \in Int /\ t \div 2 \in Int
  BY HalvesOrdered
<1>4. s \div 2 > (m - k) \div 2
  BY <1>1 DEF Recent
<1>5. t \div 2 > (m - k) \div 2
  BY <1>2, <1>3, <1>4
<1> QED
  BY <1>1, <1>5 DEF Recent

(* A recent row is not expired. *)
LEMMA RecentNotExpired ==
    ASSUME NEW r \in rows, r.at \in Nat, now \in Nat, Recent(r.at)
    PROVE  r \notin Expired
<1>1. PICK t \in Nat, c \in Int : t = r.at /\ c = now - Retention
  BY Constants
<1>2. t \div 2 > c \div 2
  BY <1>1 DEF Recent
<1>3. t \div 2 \in Int /\ c \div 2 \in Int
  OBVIOUS
<1>4. ~(Text(t) < Text(c))
  BY <1>2, <1>3 DEF Text
<1> QED
  BY <1>1, <1>4 DEF Expired

(* What held a sample holds it later. *)
LEMMA HeldLater ==
    ASSUME now \in Nat, now' \in Nat, now <= now', NEW p, NEW t \in Nat,
           NEW r \in rows', r.peer = p, BucketOf(r.at) = BucketOf(t), r.at \in Nat, r.at >= t,
           r.at = t \/ r.at \div 2 < (now - Raw) \div 2
    PROVE  SampleHeld(p, t)'
<1>1. PICK m \in Nat, n \in Nat, k \in Nat, a \in Nat :
          m = now /\ n = now' /\ k = Raw /\ a = r.at
  BY Constants
<1>2. m <= n
  BY <1>1
<1>3. m - k \in Int /\ n - k \in Int /\ m - k <= n - k /\ a \div 2 \in Int
  BY <1>2
<1>4. (m - k) \div 2 <= (n - k) \div 2 /\ (m - k) \div 2 \in Int /\ (n - k) \div 2 \in Int
  BY <1>3, HalvesOrdered
<1>5. a = t \/ a \div 2 < (m - k) \div 2
  BY <1>1
<1>6. a = t \/ a \div 2 < (n - k) \div 2
  BY <1>3, <1>4, <1>5
<1> QED
  BY <1>1, <1>6 DEF SampleHeld

LEMMA InitWindows == Init => WInv
<1> SUFFICES ASSUME Init PROVE WInv
  OBVIOUS
<1>1. IInv
  BY InitHolds
<1>2. PICK m \in Nat : m = Min(Instants)
  BY FirstInstant
<1>3. /\ \A t \in Legacy : t \in Nat /\ t <= m
      /\ \A s, t \in Legacy : s \div 2 = t \div 2 => s = t
      /\ Legacy \subseteq Nat
  BY <1>2, TimesAssumption
<1>4. \A p \in Peer : log[p] = IF p = First /\ old THEN Legacy ELSE {}
  BY DEF Init
<1>5. now = m /\ pending = NoPass /\ rows = {} /\ phase = "off"
  BY <1>2 DEF Init
<1>6. LogOK
  <2>1. log \in [Peer -> SUBSET Nat]
    BY <1>3 DEF Init
  <2> QED
    BY <2>1, <1>3, <1>4, <1>5 DEF LogOK
<1>7. RowsLogged /\ NewestIsLast
  BY <1>5 DEF RowsLogged, NewestIsLast
<1>8. OldOK
  BY <1>5 DEF Init, OldOK
<1>9. SamplesHeld
  <2>1. live = Peer
    BY DEF Init
  <2> QED
    BY <2>1, <1>4, <1>5 DEF SamplesHeld
<1> QED
  BY <1>1, <1>6, <1>7, <1>8, <1>9 DEF WInv

(* Steps that write no sample. *)
LEMMA QuietWindows ==
    ASSUME WInv, IInv', rows' = rows, log' = log, now <= now', live' \subseteq live,
           pending' = NoPass \/ (pending' = pending /\ now' = now),
           \A p \in Peer : zero'[p] = zero[p] \/ zero'[p] = now,
           old' => old /\ phase' # "run",
           (~old' \/ phase' # "off") => (~old \/ phase # "off")
    PROVE  WInv'
<1>1. /\ now \in Nat /\ \A p \in Peer : \A t \in log[p] : t \in Nat /\ t <= now
      /\ \A r \in rows : r.at \in Nat /\ r.at <= now /\ r.peer \in Peer
      /\ live \subseteq Peer
  BY WTypes
<1>2. now' \in Nat
  BY Constants DEF IInv, TypeOK
<1>3. LogOK'
  <2>1. \A p \in Peer : \A t \in log[p] : t <= now'
    BY <1>1, <1>2
  <2>2. pending' # NoPass => \A p \in Peer : \A t \in log[p] : t \div 2 # now' \div 2
    BY DEF WInv, LogOK
  <2> QED
    BY <2>1, <2>2 DEF WInv, LogOK, NoPass
<1>4. RowsLogged'
  <2>1. \A r \in rows : r.at \in log[r.peer] /\ Exact(r)
    BY DEF WInv, RowsLogged
  <2>2. \A r \in rows : zero'[r.peer] < r.at => zero'[r.peer] = zero[r.peer]
    <3> SUFFICES ASSUME NEW r \in rows, zero'[r.peer] = now, zero'[r.peer] < r.at PROVE FALSE
      BY <1>1
    <3> QED
      BY <1>1
  <2>3. \A r \in rows' : r.at \in log'[r.peer] /\ Exact(r)'
    BY <2>1, <2>2 DEF Exact
  <2>4. pending' # NoPass => \A s \in pending' : Exact(s)'
    <3> SUFFICES ASSUME pending' # NoPass, NEW s \in pending' PROVE Exact(s)'
      OBVIOUS
    <3>1. pending' = pending /\ now' = now /\ s \in pending /\ pending # NoPass
      OBVIOUS
    <3>2. s.peer \in Peer /\ s.at = now /\ Exact(s)
      BY <3>1 DEF WInv, RowsLogged, IInv, PassOK
    <3>3. zero'[s.peer] < s.at => zero'[s.peer] = zero[s.peer]
      BY <3>2, <1>1
    <3> QED
      BY <3>2, <3>3 DEF Exact
  <2> QED
    BY <2>3, <2>4 DEF RowsLogged, NoPass
<1>5. OldOK'
  BY DEF WInv, OldOK
<1>6. NewestIsLast'
  <2> SUFFICES ASSUME NEW r \in rows, Recent(r.at)'
               PROVE  \E q \in rows : /\ Together(q, r)
                                      /\ \A o \in rows : Together(o, r) => o.id <= q.id /\ o.at <= q.at
    BY DEF NewestIsLast, Together, BucketOf, Recent
  <2>1. PICK t \in Nat : t = r.at
    BY <1>1
  <2>2. Recent(t)'
    BY <2>1 DEF Recent
  <2>3. Recent(t)
    BY <2>2, <1>1, <1>2, RecentBefore
  <2> QED
    BY <2>1, <2>3 DEF WInv, NewestIsLast
<1>7. SamplesHeld'
  <2> SUFFICES ASSUME ~old' \/ phase' # "off", NEW p \in live', NEW t \in log[p], Recent(t)'
               PROVE  SampleHeld(p, t)'
    BY DEF SamplesHeld
  <2>1. p \in live /\ p \in Peer /\ t \in Nat
    BY <1>1
  <2>2. Recent(t)
    BY <2>1, <1>1, <1>2, RecentBefore
  <2>3. SampleHeld(p, t)
    BY <2>1, <2>2 DEF WInv, SamplesHeld
  <2>4. PICK r \in rows : /\ r.peer = p /\ BucketOf(r.at) = BucketOf(t) /\ r.at >= t
                          /\ r.at = t \/ r.at \div 2 < (now - Raw) \div 2
    BY <2>3 DEF SampleHeld
  <2> QED
    BY <2>1, <2>4, <1>1, <1>2, HeldLater
<1> QED
  BY <1>3, <1>4, <1>5, <1>6, <1>7 DEF WInv

LEMMA sampleWindows == WInv /\ sampleInterface => WInv'
<1> SUFFICES ASSUME WInv, sampleInterface PROVE WInv'
  OBVIOUS
<1> DEFINE sample(p) == [peer |-> p, at |-> now, bytes |-> Bytes(p)]
<1>1. /\ now' = now /\ rows' = rows /\ zero' = zero /\ phase' = phase /\ live' = live
      /\ old' = old /\ log' = log /\ pending' = {sample(p) : p \in live}
  BY DEF sampleInterface, dataVars
<1>2. IInv'
  BY sampleStep DEF WInv
<1>3. LogOK'
  <2>1. \A p \in Peer : \A t \in log[p] : t \div 2 # now \div 2
    BY DEF sampleInterface, PassDue
  <2> QED
    BY <1>1, <2>1 DEF WInv, LogOK
<1>4. RowsLogged'
  <2>1. \A p \in live : /\ sample(p).peer = p /\ sample(p).at = now
                        /\ sample(p).bytes = now - zero[p]
    BY DEF Bytes
  <2> HIDE DEF sample
  <2>2. \A s \in pending' : s.at = now /\ s.bytes = now - zero[s.peer]
    BY <1>1, <2>1
  <2>3. \A s \in pending' : Exact(s)'
    BY <1>1, <2>2 DEF Exact
  <2>4. \A r \in rows' : r.at \in log'[r.peer] /\ Exact(r)'
    BY <1>1 DEF WInv, RowsLogged, Exact
  <2> QED
    BY <2>3, <2>4 DEF RowsLogged
<1>5. OldOK' /\ NewestIsLast' /\ SamplesHeld'
  BY <1>1 DEF WInv, OldOK, NewestIsLast, SamplesHeld, SampleHeld, Together, Recent
<1> QED
  BY <1>2, <1>3, <1>4, <1>5 DEF WInv

LEMMA InsertWindows == WInv /\ InsertAndPurge => WInv'
<1> SUFFICES ASSUME WInv, InsertAndPurge PROVE WInv'
  OBVIOUS
<1>1. /\ now' = now /\ zero' = zero /\ phase' = phase /\ live' = live /\ old' = old
      /\ pending # NoPass /\ pending' = NoPass
  BY DEF InsertAndPurge
<1>2. IInv'
  BY InsertStep DEF WInv
<1>3. /\ now \in Nat /\ nextID \in Nat
      /\ \A r \in rows : /\ r.at \in Nat /\ r.at <= now /\ r.id \in Nat /\ r.id < nextID
                         /\ r.peer \in Peer
      /\ live \subseteq Peer
      /\ \A p \in Peer : log[p] \subseteq Nat
      /\ \A p \in Peer : \A t \in log[p] : t \in Nat /\ t <= now
  BY WTypes
<1>4. /\ IsFiniteSet(pending) /\ phase = "run"
      /\ \A s \in pending : s.peer \in Peer /\ s.at = now /\ s.bytes \in 0..now /\ Exact(s)
      /\ \A s, o \in pending : s.peer = o.peer => s = o
      /\ \A p \in Peer : \A t \in log[p] : t \div 2 # now \div 2
  BY <1>1 DEF WInv, IInv, PassOK, RowsLogged, LogOK
<1>5. PICK N : N = Numbered(pending)
  OBVIOUS
<1>6. /\ \A r \in N : r.id >= nextID /\ r.id \in Nat
      /\ \A r \in N : \E s \in pending : r.peer = s.peer /\ r.at = s.at /\ r.bytes = s.bytes
      /\ \A r, o \in N : r.at = o.at /\ r.peer = o.peer => r = o
  <2>1. \A s \in pending : s.at \in Int /\ s.peer \in Int
    <3>1. \A p \in Peer : p \in Int
      BY PeerAssumption
    <3> QED
      BY <1>3, <1>4, <3>1
  <2>2. \A s, o \in pending : s.at = o.at /\ s.peer = o.peer => s = o
    BY <1>4
  <2>3. Cardinality(pending) \in Nat
    BY <1>4, FS_CardinalityType
  <2>4. /\ \A r \in N : r.id \in nextID .. nextID + Cardinality(pending) - 1
        /\ \A r \in N : \E s \in pending : r.peer = s.peer /\ r.at = s.at /\ r.bytes = s.bytes
        /\ \A r, o \in N : r.at = o.at /\ r.peer = o.peer => r = o
    BY <1>3, <1>4, <1>5, <2>1, <2>2, NumberedRows
  <2> QED
    BY <2>3, <2>4, <1>3
<1>7. \A r \in N : r.at = now /\ r.peer \in Peer /\ Exact(r)
  BY <1>4, <1>6 DEF Exact
<1>8. /\ \A r \in rows' : r \in rows \/ r \in N
      /\ \A r \in rows : r \notin Expired => r \in rows'
      /\ N \subseteq rows' \/ rows' \subseteq rows
  BY <1>5 DEF InsertAndPurge, Expired
<1>9. \A r \in rows' : r \notin rows => N \subseteq rows'
  BY <1>8
<1>10. \A r \in rows : Recent(r.at) => r \in rows'
  BY <1>3, <1>8, RecentNotExpired
<1>11. log' = [p \in Peer |-> log[p] \cup {s.at : s \in {x \in pending :
                  x.peer = p /\ \E r \in rows' : r.id >= nextID /\ r.peer = p}}]
  BY DEF InsertAndPurge
<1>12. \A p \in Peer : \A t \in log'[p] :
          t \in log[p] \/ (t = now /\ \E r \in rows' : r.id >= nextID /\ r.peer = p)
  BY <1>4, <1>11
<1>13. \A p \in Peer : \A t \in log[p] : t \in log'[p]
  BY <1>11
<1>14. \A r \in rows' : r \in N => now \in log'[r.peer]
  <2> SUFFICES ASSUME NEW r \in rows', r \in N PROVE now \in log'[r.peer]
    OBVIOUS
  <2>1. PICK s \in pending : r.peer = s.peer
    BY <1>6
  <2>2. s \in {x \in pending : x.peer = r.peer /\ \E q \in rows' : q.id >= nextID /\ q.peer = r.peer}
    BY <2>1, <1>6
  <2>3. r.peer \in Peer /\ s.at = now
    BY <1>4, <1>7
  <2> QED
    BY <2>2, <2>3, <1>11
<1>15. LogOK'
  <2>1. log' \in [Peer -> SUBSET Nat]
    BY <1>3, <1>4, <1>11
  <2>2. \A p \in Peer : \A t \in log'[p] : t <= now'
    BY <1>1, <1>3, <1>12
  <2>3. \A p \in Peer : \A s, t \in log'[p] : s \div 2 = t \div 2 => s = t
    BY <1>4, <1>12 DEF WInv, LogOK
  <2> QED
    BY <1>1, <2>1, <2>2, <2>3 DEF LogOK, NoPass
<1>16. RowsLogged'
  <2>1. \A r \in rows' : r.at \in log'[r.peer]
    BY <1>3, <1>7, <1>8, <1>13, <1>14 DEF WInv, RowsLogged
  <2>2. \A r \in rows' : Exact(r)
    BY <1>7, <1>8 DEF WInv, RowsLogged
  <2> QED
    BY <1>1, <2>1, <2>2 DEF RowsLogged, Exact, NoPass
<1>17. OldOK'
  BY <1>1, <1>4 DEF WInv, OldOK
<1>18. NewestIsLast'
  <2> SUFFICES ASSUME NEW r \in rows', Recent(r.at)
               PROVE  \E q \in rows' : /\ Together(q, r)
                                       /\ \A o \in rows' : Together(o, r) => o.id <= q.id /\ o.at <= q.at
    BY <1>1 DEF NewestIsLast, Together, Recent
  <2>1. CASE \E n \in N \cap rows' : Together(n, r)
    <3>1. PICK n \in N \cap rows' : Together(n, r)
      BY <2>1
    <3>2. \A o \in rows' : Together(o, r) => o.id <= n.id /\ o.at <= n.at
      <4> SUFFICES ASSUME NEW o \in rows', Together(o, r) PROVE o.id <= n.id /\ o.at <= n.at
        OBVIOUS
      <4>1. CASE o \in rows
        BY <4>1, <3>1, <1>3, <1>6, <1>7
      <4>2. CASE o \in N
        <5>1. o.at = n.at /\ o.peer = n.peer
          BY <4>2, <3>1, <1>7 DEF Together
        <5>2. o = n
          BY <4>2, <5>1, <3>1, <1>6
        <5>3. n.id \in Nat /\ n.at \in Nat
          BY <3>1, <1>3, <1>6, <1>7
        <5> QED
          BY <5>2, <5>3
      <4> QED
        BY <4>1, <4>2, <1>8
    <3> QED
      BY <3>1, <3>2
  <2>2. CASE ~\E n \in N \cap rows' : Together(n, r)
    <3>1. \A o \in rows' : Together(o, r) => o \in rows
      BY <2>2, <1>8
    <3>2. r \in rows
      BY <3>1 DEF Together
    <3>3. PICK q \in rows : /\ Together(q, r)
                            /\ \A o \in rows : Together(o, r) => o.id <= q.id /\ o.at <= q.at
      BY <3>2 DEF WInv, NewestIsLast
    <3>4. r.at <= q.at
      BY <3>2, <3>3 DEF Together
    <3>5. Recent(q.at)
      BY <1>3, <3>2, <3>4, RecentUp
    <3>6. q \in rows'
      BY <3>5, <1>10
    <3> QED
      BY <3>1, <3>3, <3>6
  <2> QED
    BY <2>1, <2>2
<1>19. SamplesHeld'
  <2> SUFFICES ASSUME NEW p \in live, NEW t \in log'[p], Recent(t)
               PROVE  SampleHeld(p, t)'
    BY <1>1 DEF SamplesHeld, Recent
  <2>1. p \in Peer /\ t \in Nat /\ now' \in Nat /\ now <= now'
    BY <1>1, <1>3, <1>12
  <2>2. CASE t \in log[p]
    <3>1. PICK r \in rows : /\ r.peer = p /\ BucketOf(r.at) = BucketOf(t) /\ r.at >= t
                            /\ r.at = t \/ r.at \div 2 < (now - Raw) \div 2
      BY <2>2, <1>4 DEF WInv, SamplesHeld, SampleHeld
    <3>2. r.at \in Nat /\ Recent(r.at)
      BY <3>1, <2>1, <1>3, RecentUp
    <3>3. r \in rows'
      BY <3>2, <1>10
    <3> QED
      BY <3>1, <3>2, <3>3, <2>1, <1>3, HeldLater
  <2>3. CASE t \notin log[p]
    <3>1. PICK r \in rows' : r.id >= nextID /\ r.peer = p
      BY <2>1, <2>3, <1>12
    <3>2. r \in N
      BY <3>1, <1>3, <1>8
    <3>3. r.at = t /\ r.at \in Nat /\ r.at >= t
      BY <3>2, <2>1, <2>3, <1>3, <1>7, <1>12
    <3>4. BucketOf(r.at) = BucketOf(t)
      BY <3>3
    <3> QED
      BY <3>1, <3>3, <3>4, <2>1, <1>3, HeldLater
  <2> QED
    BY <2>2, <2>3
<1> QED
  BY <1>2, <1>15, <1>16, <1>17, <1>18, <1>19 DEF WInv

LEMMA MaxOfSet ==
    ASSUME NEW S, S \subseteq Nat, S # {}, NEW n \in Nat, \A y \in S : y <= n
    PROVE  Max(S) \in S /\ \A y \in S : y <= Max(S)
<1> DEFINE T == {n - y : y \in S}
<1>1. T \subseteq Nat /\ T # {}
  <2>1. \A y \in S : y \in Nat /\ y <= n
    OBVIOUS
  <2>2. \A y \in S : n - y \in Nat
    BY <2>1
  <2> QED
    BY <2>2
<1>2. Min(T) \in T /\ \A z \in T : Min(T) <= z
  <2> HIDE DEF T
  <2> QED
    BY <1>1, MinOfSet
<1>3. PICK x \in S : Min(T) = n - x
  BY <1>2
<1>4. \A y \in S : y <= x
  <2> TAKE y \in S
  <2>1. n - y \in T
    OBVIOUS
  <2>2. n - x <= n - y
    BY <2>1, <1>2, <1>3
  <2>3. x \in Nat /\ y \in Nat
    OBVIOUS
  <2> QED
    BY <2>2, <2>3
<1>5. \E m \in S : \A y \in S : m >= y
  BY <1>4
<1> QED
  BY <1>5 DEF Max

LEMMA migrateWindows == WInv /\ migrateLegacySamples => WInv'
<1> SUFFICES ASSUME WInv, migrateLegacySamples PROVE WInv'
  OBVIOUS
<1>1. /\ now' = now /\ zero' = zero /\ phase' = "copied" /\ phase = "off" /\ live' = live
      /\ old' = old /\ log' = log /\ pending' = pending /\ pending = NoPass
      /\ rows' = rows \cup Numbered(Copied)
  BY DEF migrateLegacySamples, loopVars, WInv, IInv, PassOK
<1>2. IInv'
  BY migrateStep DEF WInv
<1>3. /\ now \in Nat /\ nextID \in Nat
      /\ \A r \in rows : /\ r.at \in Nat /\ r.at <= now /\ r.id \in Nat /\ r.id < nextID
                         /\ r.peer \in Peer
      /\ live \subseteq Peer
      /\ \A p \in Peer : zero[p] \in Nat
  BY WTypes
<1>4. CASE ~old
  <2>1. rows' = rows
    BY <1>1, <1>4 DEF Numbered, Copied
  <2>2. now <= now'
    BY <1>1, <1>3
  <2> QED
    BY <1>1, <1>2, <1>4, <2>1, <2>2, QuietWindows
<1>5. CASE old
  <2>1. Copied = LegacySamples /\ log = [p \in Peer |-> IF p = First THEN Legacy ELSE {}]
    BY <1>5 DEF Copied, WInv, OldOK
  <2>2. /\ IsFiniteSet(Copied)
        /\ \A s \in Copied : s.peer = First /\ s.at \in Legacy /\ s.bytes = s.at /\ s.at \in Nat
        /\ \A s, o \in Copied : s.at = o.at => s = o
    BY CopiedSamples DEF WInv
  <2>3. PICK N : N = Numbered(Copied)
    OBVIOUS
  <2>4. /\ \A r \in N : r.id >= nextID /\ r.id \in Nat
        /\ \A r \in N : r.peer = First /\ r.at \in Legacy /\ r.bytes = r.at
        /\ \A s \in Copied : \E r \in N : r.peer = s.peer /\ r.at = s.at /\ r.bytes = s.bytes
        /\ \A r, o \in N : r.at < o.at => r.id < o.id
        /\ \A r, o \in N : r.at = o.at => r = o
    <3>1. \A s \in Copied : s.at \in Int /\ s.peer \in Int
      <4>1. First \in Int
        BY FirstPeer, PeerAssumption
      <4> QED
        BY <2>2, <4>1
    <3>2. \A s, o \in Copied : s.at = o.at /\ s.peer = o.peer => s = o
      BY <2>2
    <3>3. Cardinality(Copied) \in Nat
      BY <2>2, FS_CardinalityType
    <3>4. /\ \A r \in N : r.id \in nextID .. nextID + Cardinality(Copied) - 1
          /\ \A r \in N : \E s \in Copied :
                r.peer = s.peer /\ r.at = s.at /\ r.bytes = s.bytes
          /\ \A s \in Copied : \E r \in N : r.peer = s.peer /\ r.at = s.at /\ r.bytes = s.bytes
          /\ \A r, o \in N : r.at < o.at => r.id < o.id
          /\ \A r, o \in N : r.at = o.at /\ r.peer = o.peer => r = o
      BY <1>3, <2>2, <2>3, <3>1, <3>2, NumberedRows
    <3>5. \A r \in N : r.peer = First /\ r.at \in Legacy /\ r.bytes = r.at
      BY <2>2, <3>4
    <3>6. \A r \in N : r.id >= nextID /\ r.id \in Nat
      BY <1>3, <3>3, <3>4
    <3> QED
      BY <3>4, <3>5, <3>6
  <2>5. PICK m \in Nat : m = Min(Instants)
    BY FirstInstant
  <2>6. /\ \A t \in Legacy : t \in Nat /\ t <= m
        /\ \A t \in Instants : t \in Nat /\ m <= t
    <3>1. Instants \subseteq Nat /\ Instants # {}
      BY TimesAssumption
    <3>2. \A t \in Instants : m <= t
      BY <2>5, <3>1, MinOfSet
    <3>3. \A t \in Legacy : t \in 1..m
      BY <2>5, TimesAssumption
    <3> QED
      BY <3>1, <3>2, <3>3
  <2>7. \A t \in Legacy : \E r \in N : r.peer = First /\ r.at = t
    <3> TAKE t \in Legacy
    <3> DEFINE s == [peer |-> First, at |-> t, bytes |-> t]
    <3>1. s \in Copied /\ s.peer = First /\ s.at = t
      BY <2>1 DEF LegacySamples
    <3> QED
      BY <3>1, <2>4
  <2>8. \A r \in rows' : r.peer = First /\ r.at \in Legacy
    <3>1. \A r \in rows : r.at \in log[r.peer] /\ r.peer \in Peer
      BY <1>3 DEF WInv, RowsLogged
    <3>2. \A r \in rows : r.peer = First /\ r.at \in Legacy
      BY <2>1, <3>1
    <3> QED
      BY <3>2, <1>1, <2>3, <2>4
  <2>9. LogOK'
    BY <1>1 DEF WInv, LogOK, NoPass
  <2>10. RowsLogged'
    <3>1. \A r \in rows' : r.at \in log'[r.peer]
      BY <1>1, <2>1, <2>8, FirstPeer
    <3>2. \A r \in N : Exact(r)
      <4> SUFFICES ASSUME NEW r \in N, zero[First] < r.at PROVE r.bytes = r.at - zero[First]
        BY <2>4 DEF Exact
      <4>1. zero[First] \in {0} \cup Instants
        BY FirstPeer DEF WInv, IInv, TypeOK
      <4>2. r.at \in Nat /\ r.at <= m /\ zero[First] \in Nat
        BY <2>4, <2>6, <1>3, FirstPeer
      <4>3. zero[First] \notin Instants
        BY <2>6, <4>2
      <4>4. zero[First] = 0
        BY <4>1, <4>3
      <4> QED
        BY <4>2, <4>4, <2>4
    <3>3. \A r \in rows' : Exact(r)
      BY <1>1, <2>3, <3>2 DEF WInv, RowsLogged
    <3> QED
      BY <1>1, <3>1, <3>3 DEF RowsLogged, Exact, NoPass
  <2>11. OldOK'
    BY <1>1, <2>1 DEF OldOK
  <2>12. NewestIsLast'
    <3> SUFFICES ASSUME NEW r \in rows'
                 PROVE  \E q \in rows' : /\ Together(q, r)
                                         /\ \A o \in rows' : Together(o, r) => o.id <= q.id /\ o.at <= q.at
      BY DEF NewestIsLast, Together
    <3> DEFINE S == {t \in Legacy : BucketOf(t) = BucketOf(r.at)}
    <3>1. S \subseteq Nat /\ S # {} /\ \A y \in S : y <= m
      BY <2>6, <2>8
    <3>2. PICK x : x \in S /\ \A y \in S : y <= x
      <4> HIDE DEF S
      <4> QED
        BY <3>1, MaxOfSet
    <3>3. PICK q \in N : q.peer = First /\ q.at = x
      BY <3>2, <2>7
    <3>4. Together(q, r) /\ q \in rows'
      BY <3>2, <3>3, <2>8, <1>1, <2>3 DEF Together
    <3>5. \A o \in rows' : Together(o, r) => o.id <= q.id /\ o.at <= q.at
      <4> SUFFICES ASSUME NEW o \in rows', Together(o, r) PROVE o.id <= q.id /\ o.at <= q.at
        OBVIOUS
      <4>1. o.at \in S
        BY <2>8 DEF Together
      <4>2. o.at <= q.at /\ o.at \in Nat /\ q.at \in Nat
        BY <4>1, <3>1, <3>2, <3>3
      <4>3. CASE o \in rows
        BY <4>2, <4>3, <1>3, <2>4
      <4>4. CASE o \in N
        <5>1. o.at < q.at \/ o.at = q.at
          BY <4>2
        <5>2. o.id < q.id \/ o = q
          BY <5>1, <4>4, <2>4
        <5>3. o.id \in Nat /\ q.id \in Nat
          BY <4>4, <2>4
        <5> QED
          BY <4>2, <5>2, <5>3
      <4> QED
        BY <4>3, <4>4, <1>1, <2>3
    <3> QED
      BY <3>4, <3>5
  <2>13. SamplesHeld'
    <3> SUFFICES ASSUME NEW p \in live, NEW t \in log[p] PROVE SampleHeld(p, t)'
      BY <1>1 DEF SamplesHeld
    <3>1. p = First /\ t \in Legacy /\ t \in Nat
      BY <1>3, <2>1, <2>6
    <3>2. PICK r \in N : r.peer = First /\ r.at = t
      BY <3>1, <2>7
    <3>3. r \in rows' /\ BucketOf(r.at) = BucketOf(t)
      BY <3>2, <1>1, <2>3
    <3>4. r.at >= t /\ now' \in Nat /\ now <= now'
      BY <3>1, <3>2, <1>1, <1>3
    <3> QED
      BY <3>1, <3>2, <3>3, <3>4, <1>3, HeldLater
  <2> QED
    BY <1>2, <2>9, <2>10, <2>11, <2>12, <2>13 DEF WInv
<1> QED
  BY <1>4, <1>5

LEMMA DeleteWindows == ASSUME WInv, NEW p \in Deleted, DeletePeer(p) PROVE WInv'
<1>1. /\ now' = now /\ zero' = zero /\ phase' = phase /\ live' = live \ {p} /\ old' = old
      /\ log' = log /\ pending' = pending
      /\ rows' = {r \in rows : r.peer # p} \/ rows' = rows
  BY DEF DeletePeer, loopVars
<1>2. IInv'
  BY DeleteStep DEF WInv
<1>3. now \in Nat
  BY WTypes
<1>4. OldOK'
  BY <1>1 DEF WInv, OldOK
<1>5. CASE rows' = rows
  BY <1>1, <1>2, <1>3, <1>4, <1>5, QuietWindows DEF OldOK
<1>6. CASE rows' = {r \in rows : r.peer # p}
  <2>1. LogOK'
    BY <1>1 DEF WInv, LogOK, NoPass
  <2>2. RowsLogged'
    BY <1>1, <1>6 DEF WInv, RowsLogged, Exact, NoPass
  <2>3. NewestIsLast'
    BY <1>1, <1>6 DEF WInv, NewestIsLast, Together, Recent
  <2>4. SamplesHeld'
    BY <1>1, <1>6 DEF WInv, SamplesHeld, SampleHeld, Recent
  <2> QED
    BY <1>2, <1>4, <2>1, <2>2, <2>3, <2>4 DEF WInv
<1> QED
  BY <1>1, <1>5, <1>6

(* The last row of a bucket is never thinned. *)
LEMMA LastNotThinned ==
    ASSUME NEW lo, NEW hi, NEW q \in rows, \A r \in rows : r.id \in Nat,
           \A o \in rows : Together(o, q) => o.id <= q.id
    PROVE  q \notin Thinned(lo, hi)
<1> SUFFICES ASSUME NEW o \in rows, o.peer = q.peer, BucketOf(o.at) = BucketOf(q.at), o.id > q.id
             PROVE  FALSE
  BY DEF Thinned
<1>1. o.id <= q.id /\ o.id \in Nat /\ q.id \in Nat
  BY DEF Together
<1> QED
  BY <1>1

LEMMA SliceWindows ==
    ASSUME WInv, IInv', NEW lo \in Int, NEW hi \in Int, hi % Bucket = 0, hi <= now - Raw,
           rows' = rows \ Thinned(lo, hi), log' = log, now' = now, live' = live, old' = old,
           phase' = phase, pending' = pending, zero' = zero
    PROVE  WInv'
<1>1. /\ now \in Nat /\ Raw \in Nat /\ live \subseteq Peer
      /\ \A r \in rows : r.at \in Nat /\ r.id \in Nat
      /\ \A p \in Peer : \A t \in log[p] : t \in Nat
  BY WTypes
<1>2. LogOK' /\ OldOK'
  BY DEF WInv, LogOK, OldOK, NoPass
<1>3. RowsLogged'
  BY DEF WInv, RowsLogged, Exact, NoPass
<1>4. \A r \in rows : Recent(r.at) =>
         \E q \in rows' : /\ Together(q, r)
                          /\ \A o \in rows : Together(o, r) => o.id <= q.id /\ o.at <= q.at
  <2> SUFFICES ASSUME NEW r \in rows, Recent(r.at)
               PROVE  \E q \in rows' : /\ Together(q, r)
                                       /\ \A o \in rows : Together(o, r) => o.id <= q.id /\ o.at <= q.at
    OBVIOUS
  <2>1. PICK q \in rows : /\ Together(q, r)
                          /\ \A o \in rows : Together(o, r) => o.id <= q.id /\ o.at <= q.at
    BY DEF WInv, NewestIsLast
  <2>2. \A o \in rows : Together(o, q) => o.id <= q.id
    BY <2>1 DEF Together
  <2>3. q \notin Thinned(lo, hi)
    BY <1>1, <2>2, LastNotThinned
  <2> QED
    BY <2>1, <2>3
<1>5. NewestIsLast'
  BY <1>4 DEF NewestIsLast, Together, Recent
<1>6. SamplesHeld'
  <2> SUFFICES ASSUME ~old \/ phase # "off", NEW p \in live, NEW t \in log[p], Recent(t)
               PROVE  SampleHeld(p, t)'
    BY DEF SamplesHeld, Recent
  <2>1. t \in Nat /\ now' \in Nat /\ now <= now'
    BY <1>1
  <2>2. PICK r \in rows : /\ r.peer = p /\ BucketOf(r.at) = BucketOf(t) /\ r.at >= t
                          /\ r.at = t \/ r.at \div 2 < (now - Raw) \div 2
    BY DEF WInv, SamplesHeld, SampleHeld
  <2>3. r.at \in Nat
    BY <1>1
  <2>4. CASE r \in rows'
    BY <2>1, <2>2, <2>3, <2>4, <1>1, HeldLater
  <2>5. CASE r \in Thinned(lo, hi)
    <3>1. Recent(r.at)
      BY <2>1, <2>2, <2>3, <1>1, RecentUp
    <3>2. PICK q \in rows' : /\ Together(q, r)
                             /\ \A o \in rows : Together(o, r) => o.id <= q.id /\ o.at <= q.at
      BY <3>1, <1>4
    <3>3. q \in rows /\ q.at \in Nat /\ r.at <= q.at
      BY <3>2, <1>1 DEF Together
    <3>4. r.at < hi
      <4>1. Text(r.at) < Bound(hi)
        BY <2>5 DEF Thinned
      <4>2. hi % 2 = 0
        BY AlignedEven
      <4> QED
        BY <4>1, <4>2, <2>3, TextBefore
    <3>5. q.at < hi
      BY <2>3, <3>2, <3>3, <3>4, SameSide DEF Together
    <3>6. PICK a \in Nat, c \in Int : a = q.at /\ c = now - Raw
      BY <1>1, <3>3
    <3>7. a < hi /\ hi <= c /\ hi % 2 = 0
      BY <3>5, <3>6, AlignedEven
    <3>8. a \div 2 < hi \div 2 /\ a \div 2 \in Int /\ hi \div 2 \in Int
      BY <3>7
    <3>9. hi \div 2 <= c \div 2 /\ c \div 2 \in Int
      BY <3>7
    <3>10. q.at \div 2 < (now - Raw) \div 2
      BY <3>6, <3>8, <3>9
    <3>11. q.peer = p /\ BucketOf(q.at) = BucketOf(t) /\ q.at >= t
      BY <2>1, <2>2, <2>3, <3>2, <3>3 DEF Together
    <3> QED
      BY <2>1, <3>3, <3>10, <3>11, <1>1, HeldLater
  <2> QED
    BY <2>4, <2>5
<1> QED
  BY <1>2, <1>3, <1>5, <1>6 DEF WInv

LEMMA ThinSliceWindows == WInv /\ ThinSlice => WInv'
<1> SUFFICES ASSUME WInv, ThinSlice PROVE WInv'
  OBVIOUS
<1>1. /\ now' = now /\ zero' = zero /\ phase' = phase /\ old' = old /\ log' = log
      /\ pending' = pending /\ live' = live /\ thin # NoThin
  BY DEF ThinSlice, loopVars
<1>2. IInv'
  BY ThinSliceStep DEF WInv
<1>3. now \in Nat /\ Raw \in Nat
  BY WTypes
<1>4. /\ thin.lo \in Int /\ thin.to \in Int /\ thin.lo % Bucket = 0 /\ thin.to % Bucket = 0
      /\ thin.to <= now - Raw
  BY <1>1 DEF WInv, IInv, TypeOK, TimesOK
<1>5. PICK lo \in Int, to \in Int : lo = thin.lo /\ to = thin.to
  BY <1>4
<1>6. PICK s \in Nat : s = Slice
  BY Constants
<1>7. PICK hi \in Int : hi = Min({lo + s, to})
  BY MinOfTwo
<1>8. hi % Bucket = 0 /\ hi <= to
  <2>1. lo % Bucket = 0 /\ s % Bucket = 0 /\ to % Bucket = 0
    BY <1>4, <1>5, <1>6, Constants
  <2>2. (lo + s) % Bucket = 0
    BY <2>1, AlignedSum
  <2>3. hi = IF lo + s <= to THEN lo + s ELSE to
    BY <1>7, MinOfTwo
  <2> QED
    BY <2>1, <2>2, <2>3
<1>9. hi <= now - Raw
  BY <1>3, <1>4, <1>5, <1>8
<1>10. rows' = rows \ Thinned(lo, hi) \/ rows' = rows
  <2>1. hi = Min({thin.lo + Slice, thin.to})
    BY <1>5, <1>6, <1>7
  <2> QED
    BY <2>1, <1>5 DEF ThinSlice
<1>11. CASE rows' = rows \ Thinned(lo, hi)
  BY <1>1, <1>2, <1>8, <1>9, <1>11, SliceWindows
<1>12. CASE rows' = rows
  <2>1. old' => phase' # "run"
    BY <1>1 DEF WInv, OldOK
  <2> QED
    BY <1>1, <1>2, <1>3, <1>12, <2>1, QuietWindows
<1> QED
  BY <1>10, <1>11, <1>12

LEMMA OtherWindows ==
    WInv /\ (\/ Up \/ Stop \/ ThinStart \/ \E p \in Reset : ResetTraffic(p)
             \/ \E d \in DBs : CheckpointWAL(d) \/ Pin(d) \/ Unpin(d)
             \/ \E t \in Instants : Tick(t)) => WInv'
<1> SUFFICES ASSUME WInv PROVE
      (\/ Up \/ Stop \/ ThinStart \/ \E p \in Reset : ResetTraffic(p)
       \/ \E d \in DBs : CheckpointWAL(d) \/ Pin(d) \/ Unpin(d)
       \/ \E t \in Instants : Tick(t)) => WInv'
  OBVIOUS
<1>1. /\ now \in Nat /\ now <= now /\ IInv /\ (old => phase # "run")
      /\ \A t \in Instants : t \in Nat
  BY WTypes, Constants DEF WInv, OldOK
<1>2. ASSUME Up PROVE WInv'
  <2>1. /\ rows' = rows /\ log' = log /\ now' = now /\ live' = live /\ zero' = zero
        /\ pending' = pending /\ phase = "copied"
        /\ old' => old /\ phase' # "run"
    BY <1>2 DEF Up, loopVars
  <2> QED
    BY <1>1, <1>2, <2>1, UpStep, QuietWindows
<1>3. ASSUME Stop PROVE WInv'
  <2>1. /\ rows' = rows /\ log' = log /\ now' = now /\ live' = live /\ zero' = zero
        /\ pending' = NoPass /\ phase # "off" /\ phase' # "run" /\ old' = old
    BY <1>3 DEF Stop, dataVars
  <2> QED
    BY <1>1, <1>3, <2>1, StopStep, QuietWindows
<1>4. ASSUME ThinStart PROVE WInv'
  <2>1. /\ rows' = rows /\ log' = log /\ now' = now /\ live' = live /\ zero' = zero
        /\ pending' = pending /\ phase' = phase /\ old' = old
    BY <1>4 DEF ThinStart, dataVars, loopVars
  <2> QED
    BY <1>1, <1>4, <2>1, ThinStartStep, QuietWindows
<1>5. ASSUME NEW p \in Reset, ResetTraffic(p) PROVE WInv'
  <2>1. /\ rows' = rows /\ log' = log /\ now' = now /\ live' = live
        /\ zero' = [zero EXCEPT ![p] = now]
        /\ pending' = pending /\ phase' = phase /\ old' = old
    BY <1>5 DEF ResetTraffic, loopVars
  <2>2. \A q \in Peer : zero'[q] = zero[q] \/ zero'[q] = now
    <3>1. zero \in [Peer -> {0} \cup Instants]
      BY <1>1 DEF IInv, TypeOK
    <3> QED
      BY <2>1, <3>1
  <2> QED
    BY <1>1, <1>5, <2>1, <2>2, ResetStep, QuietWindows
<1>6. ASSUME NEW d \in DBs, CheckpointWAL(d) \/ Pin(d) \/ Unpin(d) PROVE WInv'
  <2>1. UNCHANGED <<now, phase, dataVars, loopVars>>
    BY <1>6 DEF CheckpointWAL, Pin, Unpin
  <2>2. /\ rows' = rows /\ log' = log /\ now' = now /\ live' = live /\ zero' = zero
        /\ pending' = pending /\ phase' = phase /\ old' = old
    BY <2>1 DEF dataVars, loopVars
  <2> QED
    BY <1>1, <1>6, <2>2, WALStep, QuietWindows
<1>7. ASSUME NEW t \in Instants, Tick(t) PROVE WInv'
  <2>1. /\ rows' = rows /\ log' = log /\ now' = t /\ now < t /\ live' = live /\ zero' = zero
        /\ pending' = NoPass /\ phase' = phase /\ old' = old
    BY <1>7 DEF Tick, dataVars, loopVars
  <2>2. now <= now'
    BY <1>1, <2>1
  <2> QED
    BY <1>1, <1>7, <2>1, <2>2, TickStep, QuietWindows
<1> QED
  BY <1>2, <1>3, <1>4, <1>5, <1>6, <1>7

LEMMA StutterWindows == WInv /\ UNCHANGED vars => WInv'
<1> SUFFICES ASSUME WInv, UNCHANGED vars PROVE WInv'
  OBVIOUS
<1>1. IInv'
  BY StutterStep DEF WInv
<1>2. /\ rows' = rows /\ log' = log /\ now' = now /\ live' = live /\ zero' = zero
      /\ pending' = pending /\ phase' = phase /\ old' = old
  BY DEF vars, dataVars, loopVars
<1>3. now \in Nat /\ now <= now /\ (old => phase # "run")
  BY WTypes DEF WInv, OldOK
<1> QED
  BY <1>1, <1>2, <1>3, QuietWindows

LEMMA NextWindows == WInv /\ [Next]_vars => WInv'
<1> SUFFICES ASSUME WInv, [Next]_vars PROVE WInv'
  OBVIOUS
<1>1. CASE migrateLegacySamples
  BY <1>1, migrateWindows
<1>2. CASE sampleInterface
  BY <1>2, sampleWindows
<1>3. CASE InsertAndPurge
  BY <1>3, InsertWindows
<1>4. CASE \E p \in Deleted : DeletePeer(p)
  BY <1>4, DeleteWindows
<1>5. CASE ThinSlice
  BY <1>5, ThinSliceWindows
<1>6. CASE \/ Up \/ Stop \/ ThinStart \/ \E p \in Reset : ResetTraffic(p)
           \/ \E d \in DBs : CheckpointWAL(d) \/ Pin(d) \/ Unpin(d)
           \/ \E t \in Instants : Tick(t)
  BY <1>6, OtherWindows
<1>7. CASE UNCHANGED vars
  BY <1>7, StutterWindows
<1> QED
  BY <1>1, <1>2, <1>3, <1>4, <1>5, <1>6, <1>7 DEF Next
-----------------------------------------------------------------------------
(* Reading a window. *)

(* Of samples at different seconds the newest text is the newest sample.    *)
LEMMA TextOrders ==
    ASSUME NEW s \in Int, NEW t \in Int, Text(s) <= Text(t), s \div 2 = t \div 2 => s = t
    PROVE  s <= t
<1>1. /\ s \div 2 \in Int /\ t \div 2 \in Int
      /\ Text(s) \in 4 * (s \div 2) + 1 .. 4 * (s \div 2) + 2
      /\ Text(t) \in 4 * (t \div 2) + 1 .. 4 * (t \div 2) + 2
  BY DEF Text
<1>2. s \div 2 <= t \div 2
  BY <1>1
<1>3. t < s => t \div 2 <= s \div 2
  BY HalvesOrdered
<1> QED
  BY <1>1, <1>2, <1>3

LEMMA TextEarlier ==
    ASSUME NEW s \in Int, NEW t \in Int, s \div 2 < t \div 2
    PROVE  Text(s) <= Text(t)
<1>1. s \div 2 \in Int /\ t \div 2 \in Int
  OBVIOUS
<1> QED
  BY <1>1 DEF Text

(* An earlier bucket is before, also as text. *)
LEMMA BucketEarlier ==
    ASSUME NEW s \in Int, NEW t \in Int, BucketOf(s) < BucketOf(t)
    PROVE  Text(s) <= Text(t)
<1>1. Truncate(t) \in Int /\ Truncate(t) <= t /\ Truncate(t) % Bucket = 0
  BY TruncateAligned
<1>2. PICK x \in Int : x = Truncate(t)
  BY <1>1
<1>3. PICK b \in Nat : b = Bucket
  BY Constants
<1>4. b > 0 /\ x = t - (t % b) /\ s \div b < t \div b
  BY <1>2, <1>3, Constants DEF Truncate, BucketOf
<1>5. s < x
  BY <1>4
<1>6. x % 2 = 0
  BY <1>1, <1>2, AlignedEven
<1>7. s \div 2 < x \div 2 /\ x \div 2 <= t \div 2
  BY <1>1, <1>2, <1>5, <1>6
<1>8. s \div 2 \in Int /\ x \div 2 \in Int /\ t \div 2 \in Int
  OBVIOUS
<1> QED
  BY <1>7, <1>8, TextEarlier

LEMMA NewestFound ==
    ASSUME NEW C, C # {}, NEW n \in Nat, \A r \in C : r.at \in Nat /\ r.at <= n
    PROVE  Newest(C) \in C /\ \A r \in C : Text(r.at) <= Text(Newest(C).at)
<1> DEFINE S == {Text(r.at) : r \in C}
<1>1. \A t \in Nat : t <= n => Text(t) \in Nat /\ Text(t) <= 2 * n + 2
  <2> SUFFICES ASSUME NEW t \in Nat, t <= n PROVE Text(t) \in Nat /\ Text(t) <= 2 * n + 2
    OBVIOUS
  <2>1. t \div 2 \in Nat /\ 2 * (t \div 2) <= t
    OBVIOUS
  <2> QED
    BY <2>1 DEF Text
<1>2. S \subseteq Nat /\ S # {} /\ 2 * n + 2 \in Nat /\ \A y \in S : y <= 2 * n + 2
  BY <1>1
<1>3. Max(S) \in S /\ \A y \in S : y <= Max(S)
  <2> HIDE DEF S
  <2> QED
    BY <1>2, MaxOfSet
<1>4. \E r \in C : \A o \in C : Text(o.at) <= Text(r.at)
  BY <1>3
<1> QED
  BY <1>4 DEF Newest

(* With a sample to start from a window has no byte from before it, and all *)
(* the bytes since, unless the counter was reset later.                     *)
LEMMA WindowFrom ==
    ASSUME WInv, NEW p \in Peer, NEW w \in Nat, NEW r \in rows, r.peer = p,
           Text(r.at) <= Text(now - w)
    PROVE  \E q \in rows : /\ q.peer = p /\ q.at \in History(p, w) /\ r.at <= q.at
                           /\ computePeerWindow(p, w) <= now - q.at
                           /\ zero[p] < q.at => computePeerWindow(p, w) = now - q.at
<1> DEFINE C == Candidates(p, now - w)
           q == Newest(C)
<1>1. /\ now \in Nat /\ zero[p] \in Nat /\ zero[p] <= now
      /\ \A o \in rows : o.at \in Nat /\ o.at <= now /\ o.bytes \in Nat /\ o.bytes <= o.at
  BY WTypes
<1>2. r \in C /\ C \subseteq rows
  BY DEF Candidates
<1>3. q \in C /\ \A o \in C : Text(o.at) <= Text(q.at)
  <2>1. C # {} /\ \A o \in C : o.at \in Nat /\ o.at <= now
    BY <1>1, <1>2
  <2> HIDE DEF C
  <2> QED
    BY <1>1, <2>1, NewestFound
<1>4. q \in rows /\ q.peer = p /\ Text(q.at) <= Text(now - w) /\ Text(r.at) <= Text(q.at)
  BY <1>2, <1>3 DEF Candidates
<1>5. computePeerWindow(p, w) = WindowDelta(now - zero[p], q.bytes)
  BY <1>2 DEF computePeerWindow, Bytes
<1> HIDE DEF q, C
<1>6. q.at \in log[p] /\ r.at \in log[p] /\ (zero[p] < q.at => q.bytes = q.at - zero[p])
  BY <1>4 DEF WInv, RowsLogged, Exact
<1>7. q.at \in History(p, w)
  BY <1>4, <1>6 DEF History
<1>8. r.at <= q.at
  <2>1. r.at \div 2 = q.at \div 2 => r.at = q.at
    BY <1>6 DEF WInv, LogOK
  <2>2. r.at \in Int /\ q.at \in Int
    BY <1>1, <1>4
  <2> QED
    BY <1>4, <2>1, <2>2, TextOrders
<1>9. PICK n \in Nat, z \in Nat, a \in Nat, b \in Nat :
          n = now /\ z = zero[p] /\ a = q.at /\ b = q.bytes
  BY <1>1, <1>4
<1>10. z <= n /\ a <= n /\ b <= a /\ (z < a => b = a - z)
  BY <1>1, <1>4, <1>6, <1>9
<1>11. computePeerWindow(p, w) = IF n - z < b THEN n - z ELSE (n - z) - b
  BY <1>5, <1>9 DEF WindowDelta
<1>12. z < a => computePeerWindow(p, w) = n - a
  BY <1>10, <1>11
<1>13. computePeerWindow(p, w) <= n - a
  <2>1. CASE z < a
    BY <1>12, <2>1
  <2>2. CASE ~(z < a)
    BY <1>10, <1>11, <2>2
  <2> QED
    BY <2>1, <2>2
<1> QED
  BY <1>4, <1>7, <1>8, <1>9, <1>12, <1>13

LEMMA HistoryBounds ==
    ASSUME WInv, NEW p \in Peer, NEW w \in Nat, NEW S, S \subseteq History(p, w), S # {}
    PROVE  /\ Max(S) \in S /\ \A t \in S : t <= Max(S)
           /\ Min(S) \in S /\ \A t \in S : Min(S) <= t
           /\ S \subseteq log[p] /\ S \subseteq Nat
           /\ \A t \in S : t <= now
<1>1. now \in Nat /\ log[p] \subseteq Nat /\ \A t \in log[p] : t <= now
  BY WTypes
<1>2. S \subseteq log[p]
  BY DEF History
<1>3. S \subseteq Nat /\ \A t \in S : t <= now
  BY <1>1, <1>2
<1> QED
  BY <1>1, <1>2, <1>3, MaxOfSet, MinOfSet

(* A recent sample before the cutoff's bucket has a row before the cutoff.  *)
LEMMA WindowStartsLate ==
    ASSUME WInv, phase = "run", NEW p \in live, NEW w \in Nat, Kept(Earlier(p, w)) # {}
    PROVE  computePeerWindow(p, w) <= now - Max(Kept(Earlier(p, w)))
<1>1. p \in Peer /\ now \in Nat /\ \A r \in rows : r.at \in Nat
  BY WTypes
<1>2. PICK S : S = Kept(Earlier(p, w))
  OBVIOUS
<1>3. S \subseteq History(p, w) /\ S # {}
  BY <1>2 DEF Kept, Earlier
<1>4. PICK e : e = Max(S)
  OBVIOUS
<1>5. e \in S /\ e \in log[p] /\ e \in Nat
  BY <1>1, <1>3, <1>4, HistoryBounds
<1>6. Recent(e) /\ BucketOf(e) < BucketOf(now - w)
  BY <1>2, <1>5 DEF Kept, Earlier, Recent
<1>7. SampleHeld(p, e)
  BY <1>5, <1>6 DEF WInv, SamplesHeld
<1>8. PICK r \in rows : r.peer = p /\ BucketOf(r.at) = BucketOf(e) /\ r.at >= e
  BY <1>7 DEF SampleHeld
<1>9. Text(r.at) <= Text(now - w)
  <2>1. r.at \in Int /\ now - w \in Int /\ BucketOf(r.at) < BucketOf(now - w)
    BY <1>1, <1>6, <1>8
  <2> QED
    BY <2>1, BucketEarlier
<1>10. PICK q \in rows : r.at <= q.at /\ computePeerWindow(p, w) <= now - q.at
  BY <1>1, <1>8, <1>9, WindowFrom
<1>11. PICK n \in Nat, a \in Nat, b \in Nat : n = now /\ a = q.at /\ b = r.at
  BY <1>1
<1>12. e <= a /\ n - a <= n - e /\ n - a \in Int /\ n - e \in Int
  BY <1>5, <1>8, <1>10, <1>11
<1>13. computePeerWindow(p, w) \in Int
  <2>1. \A s \in rows : s.bytes \in Nat
    BY WTypes
  <2>2. zero[p] \in Nat
    BY <1>1, WTypes
  <2>3. Candidates(p, now - w) # {} => Newest(Candidates(p, now - w)) \in rows
    <3>1. Candidates(p, now - w) \subseteq rows
      BY DEF Candidates
    <3>2. \A s \in rows : s.at \in Nat /\ s.at <= now
      BY WTypes
    <3> DEFINE C == Candidates(p, now - w)
    <3>3. C # {} => Newest(C) \in C
      <4>1. \A s \in C : s.at \in Nat /\ s.at <= now
        BY <3>1, <3>2
      <4> HIDE DEF C
      <4> QED
        BY <4>1, <1>1, NewestFound
    <3> QED
      BY <3>1, <3>3
  <2> QED
    BY <2>1, <2>2, <2>3, <1>1 DEF computePeerWindow, WindowDelta, Bytes
<1> QED
  BY <1>2, <1>4, <1>10, <1>11, <1>12, <1>13

(* Unless the counter was reset nothing since the cutoff is left out.       *)
LEMMA WindowStartsEarly ==
    ASSUME WInv, NEW p \in live, NEW w \in Nat,
           History(p, w) # {}, zero[p] < Min(History(p, w))
    PROVE  computePeerWindow(p, w) >= now - Max(History(p, w))
<1>1. /\ p \in Peer /\ now \in Nat /\ \A r \in rows : r.at \in Nat
      /\ zero[p] \in Nat
  BY WTypes
<1>2. PICK h : h = History(p, w)
  OBVIOUS
<1>3. PICK m : m = Max(h)
  OBVIOUS
<1>4. PICK l : l = Min(h)
  OBVIOUS
<1>5. m \in Nat /\ l \in Nat /\ m <= now /\ \A t \in h : t \in Nat /\ l <= t /\ t <= m
  BY <1>1, <1>2, <1>3, <1>4, HistoryBounds
<1>6. zero[p] < l /\ l <= m
  BY <1>1, <1>2, <1>3, <1>4, HistoryBounds
<1>7. CASE Candidates(p, now - w) = {}
  <2>1. computePeerWindow(p, w) = now - zero[p]
    BY <1>7 DEF computePeerWindow, Bytes
  <2> QED
    BY <2>1, <1>1, <1>2, <1>3, <1>5, <1>6
<1>8. CASE Candidates(p, now - w) # {}
  <2>1. PICK r \in rows : r.peer = p /\ Text(r.at) <= Text(now - w)
    BY <1>8 DEF Candidates
  <2>2. PICK q \in rows : /\ q.at \in History(p, w)
                          /\ zero[p] < q.at => computePeerWindow(p, w) = now - q.at
    BY <1>1, <2>1, WindowFrom
  <2>3. q.at \in Nat /\ l <= q.at /\ q.at <= m
    BY <2>2, <1>2, <1>5
  <2>4. computePeerWindow(p, w) = now - q.at
    BY <2>2, <2>3, <1>1, <1>5, <1>6
  <2> QED
    BY <2>3, <2>4, <1>1, <1>2, <1>3, <1>5
<1> QED
  BY <1>7, <1>8

(* Within the raw window the newest sample is there itself: a row that      *)
(* replaced it would be from before the raw window, hence not after the     *)
(* cutoff, and a newer sample before it.                                    *)
LEMMA WindowExact ==
    ASSUME WInv, phase = "run", NEW p \in live, NEW w \in Nat, w <= Raw,
           Kept(History(p, w)) # {}, zero[p] < Min(History(p, w))
    PROVE  computePeerWindow(p, w) = now - Max(History(p, w))
<1>1. /\ p \in Peer /\ now \in Nat /\ Raw \in Nat /\ zero[p] \in Nat
      /\ \A r \in rows : r.at \in Nat
      /\ \A r \in rows : r.at \in log[r.peer]
  BY WTypes DEF WInv, RowsLogged
<1>2. PICK h : h = History(p, w)
  OBVIOUS
<1>3. PICK m : m = Max(h)
  OBVIOUS
<1>4. PICK l : l = Min(h)
  OBVIOUS
<1>5. PICK k \in h : Recent(k)
  BY <1>2 DEF Kept, Recent
<1>6. /\ m \in h /\ m \in Nat /\ l \in Nat /\ m <= now /\ m \in log[p]
      /\ \A t \in h : t \in Nat /\ l <= t /\ t <= m
  BY <1>1, <1>2, <1>3, <1>4, <1>5, HistoryBounds
<1>7. Recent(m)
  BY <1>1, <1>5, <1>6, RecentUp
<1>8. Text(m) <= Text(now - w)
  BY <1>2, <1>6 DEF History
<1>9. PICK r \in rows : /\ r.peer = p /\ BucketOf(r.at) = BucketOf(m) /\ r.at >= m
                        /\ r.at = m \/ r.at \div 2 < (now - Raw) \div 2
  BY <1>6, <1>7 DEF WInv, SamplesHeld, SampleHeld
<1>10. Text(r.at) <= Text(now - w)
  <2>1. CASE r.at = m
    BY <2>1, <1>8
  <2>2. CASE r.at \div 2 < (now - Raw) \div 2
    <3>1. PICK a \in Nat, b \in Int, c \in Int : a = r.at /\ b = now - Raw /\ c = now - w
      BY <1>1
    <3>2. b <= c
      BY <1>1, <3>1
    <3>3. a \div 2 < b \div 2 /\ b \div 2 <= c \div 2
      BY <2>2, <3>1, <3>2, HalvesOrdered
    <3>4. a \div 2 \in Int /\ b \div 2 \in Int /\ c \div 2 \in Int
      OBVIOUS
    <3>5. Text(a) <= Text(c)
      BY <3>3, <3>4, TextEarlier
    <3> QED
      BY <3>1, <3>5
  <2> QED
    BY <1>9, <2>1, <2>2
<1>11. PICK q \in rows : /\ q.at \in History(p, w) /\ r.at <= q.at
                         /\ zero[p] < q.at => computePeerWindow(p, w) = now - q.at
  BY <1>1, <1>9, <1>10, WindowFrom
<1>12. q.at \in Nat /\ r.at \in Nat /\ l <= q.at /\ q.at <= m
  BY <1>1, <1>2, <1>6, <1>11
<1>13. q.at = m
  BY <1>6, <1>9, <1>11, <1>12
<1>14. zero[p] < q.at
  BY <1>1, <1>2, <1>4, <1>6, <1>12
<1> QED
  BY <1>2, <1>3, <1>11, <1>13, <1>14

LEMMA WindowsHold == WInv => WindowBounds
<1> SUFFICES ASSUME WInv, NEW p \in Reported, NEW w \in Windows
             PROVE  LET bytes == computePeerWindow(p, w)
                        h     == History(p, w)
                    IN
                    /\ Kept(Earlier(p, w)) # {} => bytes <= now - Max(Kept(Earlier(p, w)))
                    /\ h # {} /\ zero[p] < Min(h) => bytes >= now - Max(h)
                    /\ Kept(h) # {} /\ zero[p] < Min(h) /\ w <= Raw => bytes = now - Max(h)
  BY DEF WindowBounds
<1>1. p \in live /\ phase = "run" /\ w \in Nat
  BY TimesAssumption DEF Reported, PassDue
<1> QED
  BY <1>1, WindowStartsLate, WindowStartsEarly, WindowExact

LEMMA WindowsInvariant == Spec => []WInv
BY InitWindows, NextWindows, PTL DEF Spec

(* What a pass reports of any window: nothing from before the sample that    *)
(* precedes the bucket of its cutoff, everything since unless the counter    *)
(* was reset, and exactly that within the raw window; with thinning, purges  *)
(* that fail half-way, samples copied twice and restarts in between.         *)
THEOREM WindowsAreBounded == Spec => []WindowBounds
BY WindowsInvariant, WindowsHold, PTL
=============================================================================
