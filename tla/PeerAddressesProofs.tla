------------------------- MODULE PeerAddressesProofs -------------------------
(***************************************************************************)
(* For addresses of any width and pools of any size: the scan of the       *)
(* allocator, which increments a wrapping address and stops at a broadcast *)
(* address or after a number of tries, finds the least free host of the    *)
(* first pool that has one, and no create is refused while there is one.   *)
(* For any number of creates, edits and deletes: when a peer's allocated   *)
(* address can come to be another's as well.                               *)
(***************************************************************************)
EXTENDS PeerAddresses, Integers, WellFoundedInduction, TLAPS

(* Every set of naturals has a least member. *)
Less == {ss \in Nat \X Nat : ss[1] < ss[2]}

LEMMA LessWellFounded == IsWellFoundedOn(Less, Nat)
BY NatLessThanWellFounded DEF OpToRel, Less

LEMMA Least ==
    ASSUME NEW S, S \subseteq Nat, S # {}
    PROVE  \E x \in S : \A y \in S : x <= y
<1>1. PICK x \in S : \A y \in S : ~(<<y, x>> \in Less)
  BY WFMin, LessWellFounded
<1>2. \A y \in Nat, z \in Nat : <<y, z>> \notin Less => ~(y < z)
  <2> SUFFICES ASSUME NEW y \in Nat, NEW z \in Nat, y < z PROVE <<y, z>> \in Less
    OBVIOUS
  <2>1. <<y, z>> \in Nat \X Nat /\ <<y, z>>[1] < <<y, z>>[2]
    OBVIOUS
  <2> QED
    BY <2>1 DEF Less
<1>3. \A y \in S : ~(y < x)
  BY <1>1, <1>2
<1>4. x \in Nat /\ \A y \in S : y \in Nat
  OBVIOUS
<1>5. \A y \in S : x <= y
  BY <1>3, <1>4
<1> QED
  BY <1>5

LEMMA MinIsLeast ==
    ASSUME NEW S, S \subseteq Nat, S # {}
    PROVE  Min(S) \in S /\ \A y \in S : Min(S) <= y
BY Least DEF Min
-----------------------------------------------------------------------------
(* Powers of two, by least counterexample. *)

LEMMA PowerSize == \A n \in 0..Width : 2^n \in Nat /\ 2^n >= 1 /\ (n >= 1 => 2^n >= 2)
<1> DEFINE Good(n) == 2^n \in Nat /\ 2^n >= 1 /\ (n >= 1 => 2^n >= 2)
           bad == {n \in 0..Width : ~Good(n)}
<1> SUFFICES ASSUME bad # {} PROVE FALSE
  OBVIOUS
<1>1. PICK m \in bad : \A n \in bad : m <= n
  <2>1. bad \subseteq Nat /\ bad # {}
    BY WidthAssumption
  <2> HIDE DEF bad
  <2> QED
    BY <2>1, Least
<1>2. CASE m = 0
  BY <1>2, PowersAssumption
<1>3. CASE m # 0
  <2>1. m \in 1..Width /\ m - 1 \in 0..Width /\ ~(m <= m - 1)
    BY <1>3, WidthAssumption
  <2>2. m - 1 \notin bad
    BY <1>1, <2>1
  <2>3. Good(m - 1)
    BY <2>1, <2>2
  <2>4. 2^m = 2 * 2^(m - 1)
    BY <2>1, PowersAssumption
  <2>5. \A x \in Nat : x >= 1 => 2 * x \in Nat /\ 2 * x >= 2
    OBVIOUS
  <2>6. Good(m)
    BY <2>3, <2>4, <2>5
  <2> QED
    BY <2>6
<1> QED
  BY <1>2, <1>3

LEMMA PowerDivides == \A n \in 0..Width : \E k \in Nat : 2^Width = k * 2^n
<1> DEFINE Good(d) == \E k \in Nat : 2^Width = k * 2^(Width - d)
           bad == {d \in 0..Width : ~Good(d)}
<1>1. SUFFICES bad = {}
  <2> SUFFICES ASSUME bad = {}, NEW n \in 0..Width PROVE \E k \in Nat : 2^Width = k * 2^n
    OBVIOUS
  <2>1. Width - n \in 0..Width /\ Width - (Width - n) = n
    BY WidthAssumption
  <2>2. Good(Width - n)
    BY <2>1
  <2> QED
    BY <2>1, <2>2
<1>2. SUFFICES ASSUME bad # {} PROVE FALSE
  OBVIOUS
<1>3. PICK m \in bad : \A d \in bad : m <= d
  <2>1. bad \subseteq Nat /\ bad # {}
    BY <1>2, WidthAssumption
  <2> HIDE DEF bad
  <2> QED
    BY <2>1, Least
<1>4. CASE m = 0
  <2>1. Width - 0 = Width /\ 2^Width = 1 * 2^Width
    BY PowerSize, WidthAssumption
  <2> QED
    BY <1>4, <2>1
<1>5. CASE m # 0
  <2>1. /\ m \in 1..Width /\ m - 1 \in 0..Width /\ ~(m <= m - 1)
        /\ Width - m \in 0..Width /\ Width - (m - 1) \in 1..Width
        /\ (Width - (m - 1)) - 1 = Width - m
    BY <1>5, WidthAssumption
  <2>2. Good(m - 1)
    BY <1>3, <2>1
  <2>3. PICK k \in Nat : 2^Width = k * 2^(Width - (m - 1))
    BY <2>2
  <2>4. 2^(Width - (m - 1)) = 2 * 2^(Width - m)
    BY <2>1, PowersAssumption
  <2>5. 2^(Width - m) \in Nat
    BY <2>1, PowerSize
  <2>6. \A x \in Nat : k * (2 * x) = (2 * k) * x
    OBVIOUS
  <2>7. 2^Width = (2 * k) * 2^(Width - m)
    BY <2>3, <2>4, <2>5, <2>6
  <2>8. 2 * k \in Nat
    OBVIOUS
  <2> QED
    BY <2>7, <2>8
<1> QED
  BY <1>4, <1>5
-----------------------------------------------------------------------------
(* Networks and addresses *)

LEMMA Multiple ==
    ASSUME NEW ip \in Nat, NEW s \in Nat, s >= 1, NEW k \in Nat, ip < k * s
    PROVE  /\ ip - (ip % s) \in Nat
           /\ ip - (ip % s) + s <= k * s
<1> DEFINE q == ip \div s
           r == ip % s
<1>1. q \in Nat /\ r \in Nat /\ ip = s * q + r /\ r < s
  OBVIOUS
<1> HIDE DEF q, r
<1>2. ip - r \in Nat /\ ip - r = s * q
  BY <1>1
<1>3. q < k
  BY <1>1
<1>4. s * (q + 1) <= s * k
  BY <1>1, <1>3
<1> QED
  BY <1>1, <1>2, <1>4 DEF r

LEMMA Wraps ==
    ASSUME NEW t \in Nat, t >= 1, NEW x \in Nat
    PROVE  /\ x < t => x % t = x
           /\ t <= x /\ x < 2 * t => x % t = x - t
OBVIOUS

LEMMA NetworkFits ==
    ASSUME NEW net \in Network
    PROVE  /\ net.bits \in Nat
           /\ Base(net) \in Nat /\ 2^net.bits \in Nat /\ 2^Width \in Nat
           /\ Base(net) + 2^net.bits <= 2^Width
           /\ net.bits >= 2 => 2^net.bits >= 2
<1>1. net.bits \in 0..Width /\ net.ip \in Space /\ net.bits \in Nat
  BY WidthAssumption DEF Network
<1>2. 2^Width \in Nat /\ 2^Width >= 1
  BY PowerSize, WidthAssumption
<1>3. net.ip \in Nat /\ net.ip < 2^Width
  BY <1>1, <1>2 DEF Space
<1>4. 2^net.bits \in Nat /\ 2^net.bits >= 1 /\ (net.bits >= 1 => 2^net.bits >= 2)
  BY <1>1, PowerSize
<1>5. PICK k \in Nat : 2^Width = k * 2^net.bits
  BY <1>1, PowerDivides
<1>6. Base(net) \in Nat /\ Base(net) + 2^net.bits <= 2^Width
  <2> DEFINE s == 2^net.bits
             t == 2^Width
  <2>1. s \in Nat /\ s >= 1 /\ net.ip \in Nat /\ net.ip < k * s /\ t = k * s
    BY <1>3, <1>4, <1>5
  <2>2. Base(net) = net.ip - (net.ip % s)
    BY DEF Base
  <2> HIDE DEF s, t
  <2>3. Base(net) \in Nat /\ Base(net) + s <= k * s
    BY <2>1, <2>2, Multiple
  <2> QED
    BY <2>1, <2>3 DEF s, t
<1> QED
  BY <1>1, <1>2, <1>4, <1>6
-----------------------------------------------------------------------------
(* The scan *)

(* The hosts a pool offers are the ones 1, 2, ... LastTry after its base. *)
LastTry(net) ==
    IF net.fam = "v4" THEN 2^net.bits - 2
    ELSE IF 2^net.bits - 1 <= ScanLimit THEN 2^net.bits - 1 ELSE ScanLimit

HostAt(net, i) == [fam |-> net.fam, ip |-> Base(net) + i]

LEMMA OffersAt ==
    ASSUME NEW net \in Network, net.bits >= 2
    PROVE  /\ LastTry(net) \in Nat
           /\ \A i \in 1..LastTry(net) : HostAt(net, i) \in Offers(net)
           /\ \A o \in Offers(net) : \E i \in 1..LastTry(net) : o = HostAt(net, i)
<1> DEFINE ips == IF net.fam = "v4" THEN (Base(net) + 1)..(Base(net) + 2^net.bits - 2)
                  ELSE {i \in (Base(net) + 1)..(Base(net) + 2^net.bits - 1) :
                           i <= Base(net) + ScanLimit}
<1>1. /\ Base(net) \in Nat /\ 2^net.bits \in Nat /\ 2^net.bits >= 2 /\ ScanLimit \in Nat
  BY NetworkFits, WidthAssumption
<1>2. LastTry(net) \in Nat
  BY <1>1 DEF LastTry
<1>3. ASSUME NEW i \in 1..LastTry(net) PROVE Base(net) + i \in ips
  <2>1. i \in Nat /\ i >= 1 /\ i <= LastTry(net)
    BY <1>2
  <2>2. CASE net.fam = "v4"
    <3>1. LastTry(net) = 2^net.bits - 2
      BY <2>2 DEF LastTry
    <3>2. Base(net) + i \in (Base(net) + 1)..(Base(net) + 2^net.bits - 2)
      BY <1>1, <2>1, <3>1
    <3> QED
      BY <2>2, <3>2
  <2>3. CASE net.fam # "v4"
    <3>1. LastTry(net) <= 2^net.bits - 1 /\ LastTry(net) <= ScanLimit
      BY <1>1, <2>3 DEF LastTry
    <3>2. /\ Base(net) + i \in (Base(net) + 1)..(Base(net) + 2^net.bits - 1)
          /\ Base(net) + i <= Base(net) + ScanLimit
      BY <1>1, <1>2, <2>1, <3>1
    <3> QED
      BY <2>3, <3>2
  <2> QED
    BY <2>2, <2>3
<1>4. \A ip \in ips : ip - Base(net) \in 1..LastTry(net) /\ ip = Base(net) + (ip - Base(net))
  BY <1>1, <1>2 DEF LastTry
<1>5. Offers(net) = {[fam |-> net.fam, ip |-> ip] : ip \in ips}
  BY DEF Offers
<1> HIDE DEF ips
<1>6. \A i \in 1..LastTry(net) : HostAt(net, i) \in Offers(net)
  BY <1>3, <1>5 DEF HostAt
<1>7. ASSUME NEW o \in Offers(net) PROVE \E i \in 1..LastTry(net) : o = HostAt(net, i)
  <2>1. PICK ip \in ips : o = [fam |-> net.fam, ip |-> ip]
    BY <1>5
  <2>2. ip - Base(net) \in 1..LastTry(net) /\ o = HostAt(net, ip - Base(net))
    BY <1>4, <2>1 DEF HostAt
  <2> QED
    BY <2>2
<1> QED
  BY <1>2, <1>6, <1>7

(* Within the offered hosts no increment wraps and the scan does not end. *)
LEMMA TriedOffers ==
    ASSUME NEW net \in Network, net.bits >= 2, NEW i \in 1..LastTry(net)
    PROVE  /\ Tried(net, i) = Base(net) + i
           /\ NetContains(net, Tried(net, i))
           /\ ~ScanEnds(net, i)
           /\ i \in 1..(2^Width + ScanLimit)
<1>1. /\ Base(net) \in Nat /\ 2^net.bits \in Nat /\ 2^net.bits >= 2 /\ ScanLimit \in Nat
      /\ 2^Width \in Nat /\ Base(net) + 2^net.bits <= 2^Width
  BY NetworkFits, WidthAssumption
<1>2. LastTry(net) \in Nat
  BY OffersAt
<1>3. i \in Nat /\ i >= 1 /\ i < 2^net.bits
  BY <1>1, <1>2 DEF LastTry
<1>4. Tried(net, i) = Base(net) + i
  <2>1. Base(net) + i \in Nat /\ Base(net) + i < 2^Width /\ 2^Width >= 1
    BY <1>1, <1>3
  <2> QED
    BY <1>1, <2>1, Wraps DEF Tried
<1>5. NetContains(net, Tried(net, i))
  BY <1>1, <1>3, <1>4 DEF NetContains
<1>6. ~ScanEnds(net, i)
  BY <1>1, <1>2, <1>4 DEF ScanEnds, LastTry
<1>7. i \in 1..(2^Width + ScanLimit)
  BY <1>1, <1>3
<1> QED
  BY <1>4, <1>5, <1>6, <1>7

(* Where the scan stops: at the end only when nothing offered is free, else *)
(* at an offered host.                                                      *)
LEMMA ScanStops ==
    ASSUME NEW net \in Network, net.bits >= 2, NEW used
    PROVE  \E last \in 1..(2^Width + ScanLimit) :
              /\ Scan(net, used) = IF ScanEnds(net, last) THEN NoHost
                                   ELSE [fam |-> net.fam, ip |-> Tried(net, last)]
              /\ \A i \in 1..LastTry(net) : HostAt(net, i) \notin used => last <= i
              /\ ~ScanEnds(net, last) => last \in 1..LastTry(net) /\ HostAt(net, last) \notin used
<1> DEFINE stops == {i \in 1..(2^Width + ScanLimit) :
                        ScanEnds(net, i) \/ ScanTakes(net, used, i)}
<1>1. /\ Base(net) \in Nat /\ 2^net.bits \in Nat /\ 2^net.bits >= 2 /\ ScanLimit \in Nat
      /\ 2^Width \in Nat /\ Base(net) + 2^net.bits <= 2^Width /\ ScanLimit < 2^Width
  BY NetworkFits, WidthAssumption
<1>2. net.fam = "v4" => 2^net.bits - 1 \in stops /\ ScanEnds(net, 2^net.bits - 1)
  <2> SUFFICES ASSUME net.fam = "v4"
               PROVE  2^net.bits - 1 \in stops /\ ScanEnds(net, 2^net.bits - 1)
    OBVIOUS
  <2>1. 2^net.bits - 1 \in 1..(2^Width + ScanLimit)
    BY <1>1
  <2>2. ScanEnds(net, 2^net.bits - 1)
    <3>1. /\ Base(net) + (2^net.bits - 1) \in Nat /\ Base(net) + (2^net.bits - 1) < 2^Width
          /\ 2^Width >= 1
      BY <1>1
    <3>2. Tried(net, 2^net.bits - 1) = Base(net) + (2^net.bits - 1)
      BY <1>1, <3>1, Wraps DEF Tried
    <3> QED
      BY <1>1, <3>2 DEF ScanEnds
  <2> QED
    BY <2>1, <2>2
<1>3. net.fam # "v4" => ScanLimit + 1 \in stops
  BY <1>1 DEF ScanEnds
<1>4. stops \subseteq Nat /\ stops # {}
  BY <1>1, <1>2, <1>3
<1>5. PICK last \in stops : last = Min(stops) /\ \A i \in stops : last <= i
  <2> HIDE DEF stops
  <2> QED
    BY <1>4, MinIsLeast
<1>6. Scan(net, used) = IF ScanEnds(net, last) THEN NoHost
                        ELSE [fam |-> net.fam, ip |-> Tried(net, last)]
  BY <1>5 DEF Scan, ScanFrom
<1>7. ASSUME NEW i \in 1..LastTry(net), HostAt(net, i) \notin used PROVE last <= i
  <2>1. /\ Tried(net, i) = Base(net) + i /\ NetContains(net, Tried(net, i))
        /\ i \in 1..(2^Width + ScanLimit)
    BY TriedOffers
  <2>2. ScanTakes(net, used, i)
    BY <1>7, <2>1 DEF ScanTakes, HostAt
  <2> QED
    BY <1>5, <2>1, <2>2
<1>8. ASSUME ~ScanEnds(net, last)
      PROVE  last \in 1..LastTry(net) /\ HostAt(net, last) \notin used
  <2>1. ScanTakes(net, used, last) /\ last \in 1..(2^Width + ScanLimit)
    BY <1>5, <1>8
  <2>2. last \in Nat /\ last >= 1
    BY <1>1, <2>1
  <2>3. last \in 1..LastTry(net)
    <3>1. CASE net.fam = "v4"
      <4>1. last <= 2^net.bits - 1 /\ last # 2^net.bits - 1
        BY <1>2, <1>5, <1>8, <3>1
      <4>2. LastTry(net) = 2^net.bits - 2
        BY <3>1 DEF LastTry
      <4> QED
        BY <1>1, <2>2, <4>1, <4>2
    <3>2. CASE net.fam # "v4"
      <4>1. last <= ScanLimit
        BY <1>1, <1>8, <2>2, <3>2 DEF ScanEnds
      <4>2. Base(net) + last < 2^Width => Tried(net, last) = Base(net) + last
        BY <1>1, <2>2, Wraps DEF Tried
      <4>3. Base(net) + last >= 2^Width => Tried(net, last) = Base(net) + last - 2^Width
        <5>1. Base(net) + last \in Nat /\ Base(net) + last < 2 * 2^Width /\ 2^Width >= 1
          BY <1>1, <2>2, <4>1
        <5> QED
          BY <1>1, <5>1, Wraps DEF Tried
      <4>4. /\ Tried(net, last) >= Base(net)
            /\ Tried(net, last) <= Base(net) + 2^net.bits - 1
        BY <1>1, <2>1, <4>2, <4>3 DEF ScanTakes, NetContains
      <4>5. last <= 2^net.bits - 1
        BY <1>1, <2>2, <4>1, <4>2, <4>3, <4>4
      <4> QED
        BY <1>1, <2>2, <3>2, <4>1, <4>5 DEF LastTry
    <3> QED
      BY <3>1, <3>2
  <2>4. HostAt(net, last) \notin used
    <3>1. Tried(net, last) = Base(net) + last
      BY <2>3, TriedOffers
    <3> QED
      BY <2>1, <3>1 DEF ScanTakes, HostAt
  <2> QED
    BY <2>3, <2>4
<1> QED
  BY <1>5, <1>6, <1>7, <1>8

(* A scan finds the least host that is offered and free, if there is one. *)
LEMMA ScanFinds ==
    ASSUME NEW net \in Network, net.bits >= 2, NEW used
    PROVE  /\ Scan(net, used) = NoHost => Offers(net) \ used = {}
           /\ Scan(net, used) # NoHost =>
                 /\ Scan(net, used) \in Offers(net) \ used
                 /\ \A o \in Offers(net) \ used : o.ip >= Scan(net, used).ip
<1>1. PICK last \in 1..(2^Width + ScanLimit) :
         /\ Scan(net, used) = IF ScanEnds(net, last) THEN NoHost
                              ELSE [fam |-> net.fam, ip |-> Tried(net, last)]
         /\ \A i \in 1..LastTry(net) : HostAt(net, i) \notin used => last <= i
         /\ ~ScanEnds(net, last) => last \in 1..LastTry(net) /\ HostAt(net, last) \notin used
  BY ScanStops
<1>2. /\ Base(net) \in Nat /\ LastTry(net) \in Nat /\ 2^Width \in Nat /\ ScanLimit \in Nat
  BY NetworkFits, OffersAt, WidthAssumption
<1>3. last \in Nat
  BY <1>2
<1>4. CASE ScanEnds(net, last)
  <2>1. ASSUME NEW o \in Offers(net) \ used PROVE FALSE
    <3>1. PICK i \in 1..LastTry(net) : o = HostAt(net, i)
      BY OffersAt
    <3>2. last <= i
      BY <1>1, <2>1, <3>1
    <3>3. last \in 1..LastTry(net)
      BY <1>2, <1>3, <3>2
    <3> QED
      BY <1>4, <3>3, TriedOffers
  <2> QED
    BY <1>1, <1>4, <2>1
<1>5. CASE ~ScanEnds(net, last)
  <2>1. last \in 1..LastTry(net) /\ HostAt(net, last) \notin used
    BY <1>1, <1>5
  <2>2. Tried(net, last) = Base(net) + last
    BY <2>1, TriedOffers
  <2>3. Scan(net, used) = HostAt(net, last)
    BY <1>1, <1>5, <2>2 DEF HostAt
  <2>4. Scan(net, used) \in Offers(net) \ used
    BY <2>1, <2>3, OffersAt
  <2>5. ASSUME NEW o \in Offers(net) \ used PROVE o.ip >= Scan(net, used).ip
    <3>1. PICK i \in 1..LastTry(net) : o = HostAt(net, i)
      BY OffersAt
    <3>2. last <= i /\ i \in Nat
      BY <1>1, <1>2, <3>1
    <3>3. o.ip = Base(net) + i /\ Scan(net, used).ip = Base(net) + last
      BY <2>3, <3>1 DEF HostAt
    <3> QED
      BY <1>2, <1>3, <3>2, <3>3
  <2>6. Scan(net, used) # NoHost
    <3>1. net.fam # "none"
      BY DEF Network, Family
    <3> QED
      BY <2>3, <3>1 DEF HostAt, NoHost
  <2> QED
    BY <2>4, <2>5, <2>6
<1> QED
  BY <1>4, <1>5

LEMMA OffersHosts == ASSUME NEW net \in Network, net.bits >= 2 PROVE Offers(net) \subseteq Host
<1>1. SUFFICES ASSUME NEW o \in Offers(net) PROVE o \in Host
  OBVIOUS
<1>2. PICK i \in 1..LastTry(net) : o = HostAt(net, i)
  BY OffersAt
<1>3. /\ Base(net) \in Nat /\ 2^net.bits \in Nat /\ 2^net.bits >= 2 /\ ScanLimit \in Nat
      /\ 2^Width \in Nat /\ Base(net) + 2^net.bits <= 2^Width /\ LastTry(net) \in Nat
  BY NetworkFits, OffersAt, WidthAssumption
<1>4. Base(net) + i \in Space
  BY <1>3 DEF LastTry, Space
<1> QED
  BY <1>2, <1>4 DEF HostAt, Host, Network
-----------------------------------------------------------------------------
(* The choice among pools *)

LEMMA FirstPool ==
    ASSUME NEW nets \in Seq(Network), NEW S, S \subseteq DOMAIN nets, S # {}
    PROVE  /\ FirstOf(nets, S) \in S
           /\ \A j \in S : ~Before(nets, j, FirstOf(nets, S))
<1> DEFINE four == {i \in S : nets[i].fam = "v4"}
<1>1. S \subseteq Nat /\ \A i \in S : nets[i].fam \in {"v4", "v6"}
  <2>1. DOMAIN nets = 1..Len(nets) /\ Len(nets) \in Nat /\ \A i \in DOMAIN nets : nets[i] \in Network
    OBVIOUS
  <2>2. \A n \in Network : n.fam \in {"v4", "v6"}
    BY DEF Network, Family
  <2>3. S \subseteq Nat
    BY <2>1
  <2> QED
    BY <2>1, <2>2, <2>3
<1>2. CASE four # {}
  <2>1. PICK i \in four : \A j \in four : i <= j
    <3>1. four \subseteq Nat
      BY <1>1
    <3> HIDE DEF four
    <3> QED
      BY <1>2, <3>1, Least
  <2>2. \A j \in S : ~Before(nets, j, i)
    BY <1>1, <2>1 DEF Before
  <2> QED
    BY <2>2 DEF FirstOf
<1>3. CASE four = {}
  <2>1. PICK i \in S : \A j \in S : i <= j
    BY <1>1, Least
  <2>2. \A j \in S : ~Before(nets, j, i)
    BY <1>1, <1>3, <2>1 DEF Before
  <2> QED
    BY <2>2 DEF FirstOf
<1> QED
  BY <1>2, <1>3

LEMMA AllocationIsLeast ==
    ASSUME NEW nets \in Seq(Network), NEW used
    PROVE  LET host == AllocateNextHost(nets, used)
               free(i) == Offers(nets[i]) \ used
           IN  /\ host = NoHost => \A i \in Pools(nets) : free(i) = {}
               /\ host # NoHost =>
                     \E i \in Pools(nets) :
                        /\ host \in free(i)
                        /\ \A other \in free(i) : other.ip >= host.ip
                        /\ \A j \in Pools(nets) : Before(nets, j, i) => free(j) = {}
<1> DEFINE found == {i \in Pools(nets) : Scan(nets[i], used) # NoHost}
           free(i) == Offers(nets[i]) \ used
<1>1. \A i \in Pools(nets) : nets[i] \in Network /\ nets[i].bits >= 2
  BY DEF Pools
<1>2. ASSUME NEW i \in Pools(nets)
      PROVE  /\ i \notin found => free(i) = {}
             /\ i \in found => /\ Scan(nets[i], used) \in free(i)
                               /\ \A o \in free(i) : o.ip >= Scan(nets[i], used).ip
  BY <1>1, ScanFinds
<1>3. CASE found = {}
  <2>1. AllocateNextHost(nets, used) = NoHost
    BY <1>3 DEF AllocateNextHost
  <2> QED
    BY <1>2, <1>3, <2>1
<1>4. CASE found # {}
  <2> DEFINE i == FirstOf(nets, found)
  <2>1. found \subseteq DOMAIN nets
    BY DEF Pools
  <2>2. i \in found /\ \A j \in found : ~Before(nets, j, i)
    <3> HIDE DEF found
    <3> QED
      BY <1>4, <2>1, FirstPool
  <2>3. AllocateNextHost(nets, used) = Scan(nets[i], used)
    BY <1>4 DEF AllocateNextHost
  <2>4. i \in Pools(nets) /\ Scan(nets[i], used) # NoHost
    BY <2>2
  <2>5. \A j \in Pools(nets) : Before(nets, j, i) => free(j) = {}
    BY <1>2, <2>2
  <2> HIDE DEF i
  <2> QED
    BY <1>2, <2>2, <2>3, <2>4, <2>5
<1> QED
  BY <1>3, <1>4
-----------------------------------------------------------------------------
(* The requests *)

Row == [exists: BOOLEAN, auto: BOOLEAN, assigned: SUBSET Host, allowed: SUBSET Network,
        late: SUBSET Pub]

Request == [at: {"none", "list", "insert"}, addrs: Seq(Network), host: Host \cup {NoHost},
            used: SUBSET Host, late: SUBSET Pub]

Edit == [at: {"none", "write"}, of: SUBSET Pub, assigned: SUBSET Host, allowed: SUBSET Network]

Types ==
    /\ addrs \in Addresses
    /\ peers \in [Pub -> Row]
    /\ req \in [Handler -> Request]
    /\ edit \in [Editor -> Edit]

(* What a request is about to insert is what the allocator chose. *)
Chosen ==
    \A h \in Handler : req[h].at = "insert" =>
        /\ req[h].host # NoHost
        /\ req[h].host = AllocateNextHost(req[h].addrs, req[h].used)

LEMMA Constants ==
    /\ NoRequest \in Request /\ NoPeer \in Row /\ NoEdit \in Edit
    /\ Addresses \subseteq Seq(Network)
    /\ \A hosts \in Assigned : hosts \subseteq Host
    /\ \A nets \in Allowed : nets \subseteq Network
    /\ \A h \in Host : HostRoute(h) \in Network
<1>1. <<>> \in Seq(Network)
  OBVIOUS
<1>2. \A h \in Host : h.fam \in Family /\ h.ip \in Space
  BY DEF Host
<1>3. 0 \in 0..Width
  BY WidthAssumption
<1> QED
  BY <1>1, <1>2, <1>3, AddressesAssumption
     DEF NoRequest, Request, NoPeer, Row, NoEdit, Edit, HostRoute, Network

LEMMA UsedHosts ==
    ASSUME NEW nets \in Seq(Network), Types
    PROVE  /\ CollectUsedHosts(nets, peers) \subseteq Host
           /\ \A p \in Pub : Held(peers[p]) \subseteq CollectUsedHosts(nets, peers)
<1>1. \A n \in Network : HostOf(n) \in Host
  BY DEF Network, HostOf, Host
<1>2. \A i \in DOMAIN nets : nets[i] \in Network
  OBVIOUS
<1>3. \A p \in Pub : peers[p].assigned \subseteq Host /\ peers[p].allowed \subseteq Network
  BY DEF Types, Row
<1> DEFINE own == {HostOf(nets[i]) : i \in DOMAIN nets}
           given == UNION {peers[p].assigned : p \in Pub}
           routed == UNION {{HostOf(n) : n \in {m \in peers[p].allowed : m.bits = 0}} : p \in Pub}
<1>4. own \subseteq Host
  BY <1>1, <1>2
<1>5. given \subseteq Host /\ \A p \in Pub : peers[p].assigned \subseteq given
  BY <1>3
<1>6. routed \subseteq Host
  BY <1>1, <1>3
<1>8. \A p \in Pub : {HostOf(n) : n \in {m \in peers[p].allowed : m.bits = 0}} \subseteq routed
  OBVIOUS
<1>7. CollectUsedHosts(nets, peers) = own \cup given \cup routed
  BY DEF CollectUsedHosts
<1>9. \A p \in Pub : Held(peers[p]) \subseteq given \cup routed
  BY <1>5, <1>8 DEF Held
<1> HIDE DEF own, given, routed
<1> QED
  BY <1>4, <1>5, <1>6, <1>7, <1>9

LEMMA AllocatedHost ==
    ASSUME NEW nets \in Seq(Network), NEW used, AllocateNextHost(nets, used) # NoHost
    PROVE  AllocateNextHost(nets, used) \in Host \ used
<1>1. PICK i \in Pools(nets) : AllocateNextHost(nets, used) \in Offers(nets[i]) \ used
  BY AllocationIsLeast
<1>2. nets[i] \in Network /\ nets[i].bits >= 2
  BY DEF Pools
<1> QED
  BY <1>1, <1>2, OffersHosts

(* The effect of allocatePeerIP on its request. *)
LEMMA Allocated ==
    ASSUME Types, NEW h \in Handler, allocatePeerIP(h)
    PROVE  LET used == CollectUsedHosts(req[h].addrs, peers)
               host == AllocateNextHost(req[h].addrs, used)
           IN  /\ req[h].at = "list" /\ used \subseteq Host /\ addrs' = addrs /\ peers' = peers
               /\ \A g \in Handler \ {h} : req'[g] = req[g]
               /\ host = NoHost => req'[h] = NoRequest
               /\ host # NoHost => /\ host \in Host \ used
                                   /\ req'[h] = [at |-> "insert", addrs |-> req[h].addrs,
                                                 host |-> host, used |-> used, late |-> {}]
               /\ edit' = edit
<1>1. PICK used : used = CollectUsedHosts(req[h].addrs, peers)
  OBVIOUS
<1>2. PICK host : host = AllocateNextHost(req[h].addrs, used)
  OBVIOUS
<1>3. req[h] \in Request /\ req[h].addrs \in Seq(Network)
  BY DEF Types, Request
<1>4. used \subseteq Host /\ (host # NoHost => host \in Host \ used)
  BY <1>1, <1>2, <1>3, UsedHosts, AllocatedHost
<1>5. /\ req[h].at = "list" /\ addrs' = addrs /\ peers' = peers
      /\ edit' = edit
      /\ req' = [req EXCEPT ![h] = IF host = NoHost THEN NoRequest
                                   ELSE [at |-> "insert", addrs |-> req[h].addrs,
                                         host |-> host, used |-> used, late |-> {}]]
  BY <1>1, <1>2 DEF allocatePeerIP
<1> QED
  BY <1>1, <1>2, <1>4, <1>5 DEF Types

(* A write to the row of p changes no other row, but for what it observes   *)
(* of p, and no request's choice.                                           *)
LEMMA WrittenIs ==
    ASSUME Types, NEW p \in Pub, NEW row \in Row
    PROVE  /\ Written(p, row) \in [Pub -> Row] /\ Written(p, row)[p] = row
           /\ \A q \in Pub \ {p} :
                 /\ Written(p, row)[q].assigned = peers[q].assigned
                 /\ Written(p, row)[q].allowed = peers[q].allowed
                 /\ Written(p, row)[q].auto = peers[q].auto
                 /\ peers[q].auto => Written(p, row)[q].late
                                       = LateAfter(peers[q].late, peers[q].assigned, p, row)
<1> DEFINE Row_(q) == IF q = p THEN row
                      ELSE IF peers[q].auto
                      THEN [peers[q] EXCEPT !.late = LateAfter(peers[q].late, peers[q].assigned, p, row)]
                      ELSE peers[q]
<1>1. Written(p, row) = [q \in Pub |-> Row_(q)]
  BY DEF Written
<1>2. \A hosts : \A late \in SUBSET Pub : LateAfter(late, hosts, p, row) \in SUBSET Pub
  BY DEF LateAfter
<1>3. ASSUME NEW q \in Pub \ {p}
      PROVE  /\ Row_(q) \in Row
             /\ Row_(q).assigned = peers[q].assigned
             /\ Row_(q).allowed = peers[q].allowed
             /\ Row_(q).auto = peers[q].auto
             /\ peers[q].auto => Row_(q).late = LateAfter(peers[q].late, peers[q].assigned, p, row)
  <2>1. peers[q] \in Row /\ LateAfter(peers[q].late, peers[q].assigned, p, row) \in SUBSET Pub
    BY <1>2 DEF Types, Row
  <2> QED
    BY <2>1 DEF Row
<1>4. Row_(p) = row
  OBVIOUS
<1> HIDE DEF Row_
<1> QED
  BY <1>1, <1>3, <1>4

LEMMA NotedIs ==
    ASSUME Types, NEW p \in Pub, NEW row \in Row
    PROVE  /\ Noted(p, row) \in [Handler -> Request]
           /\ \A h \in Handler :
                 /\ Noted(p, row)[h].at = req[h].at /\ Noted(p, row)[h].addrs = req[h].addrs
                 /\ Noted(p, row)[h].host = req[h].host /\ Noted(p, row)[h].used = req[h].used
                 /\ req[h].at = "insert" => Noted(p, row)[h].late
                                              = LateAfter(req[h].late, {req[h].host}, p, row)
<1> DEFINE Req(h) == IF req[h].at = "insert"
                     THEN [req[h] EXCEPT !.late = LateAfter(req[h].late, {req[h].host}, p, row)]
                     ELSE req[h]
<1>1. Noted(p, row) = [h \in Handler |-> Req(h)]
  BY DEF Noted
<1>2. \A hosts : \A late \in SUBSET Pub : LateAfter(late, hosts, p, row) \in SUBSET Pub
  BY DEF LateAfter
<1>3. ASSUME NEW h \in Handler
      PROVE  /\ Req(h) \in Request
             /\ Req(h).at = req[h].at /\ Req(h).addrs = req[h].addrs
             /\ Req(h).host = req[h].host /\ Req(h).used = req[h].used
             /\ req[h].at = "insert" => Req(h).late = LateAfter(req[h].late, {req[h].host}, p, row)
  <2>1. req[h] \in Request /\ LateAfter(req[h].late, {req[h].host}, p, row) \in SUBSET Pub
    BY <1>2 DEF Types, Request
  <2> QED
    BY <2>1 DEF Request
<1> HIDE DEF Req
<1> QED
  BY <1>1, <1>3

(* The steps that write a row: a new one with what the allocator chose, or  *)
(* one that keeps it, or one of which nothing is said.                      *)
RowWrite(p, row) ==
    /\ p \in Pub /\ row \in Row
    /\ peers' = Written(p, row)
    /\ addrs' = addrs
    /\ edit' \in [Editor -> Edit]
    /\ \/ req' = Noted(p, row)
       \/ \E h \in Handler : req[h].at = "insert" /\ req' = [Noted(p, row) EXCEPT ![h] = NoRequest]
    /\ \/ ~row.auto
       \/ peers[p].auto /\ row.assigned = peers[p].assigned /\ row.late = peers[p].late
       \/ \E h \in Handler : /\ req[h].at = "insert" /\ req' = [Noted(p, row) EXCEPT ![h] = NoRequest]
                             /\ row.assigned = {req[h].host} /\ row.late = req[h].late

LEMMA CreateWrites ==
    ASSUME Types, Chosen, NEW h \in Handler, NEW p \in Pub, CreatePeer(h, p)
    PROVE  \E row : RowWrite(p, row)
<1>1. PICK row : row = [exists |-> TRUE, auto |-> TRUE, assigned |-> {req[h].host},
                        allowed |-> {HostRoute(req[h].host)}, late |-> req[h].late]
  OBVIOUS
<1>2. /\ req[h].at = "insert" /\ peers' = Written(p, row)
      /\ req' = [Noted(p, row) EXCEPT ![h] = NoRequest] /\ addrs' = addrs /\ edit' = edit
  BY <1>1 DEF CreatePeer
<1>3. req[h].host \in Host /\ req[h].late \in SUBSET Pub
  <2>1. req[h] \in Request
    BY DEF Types
  <2> QED
    BY <1>2, <2>1 DEF Chosen, Request
<1>4. row \in Row /\ row.auto /\ row.assigned = {req[h].host} /\ row.late = req[h].late
  <2>1. HostRoute(req[h].host) \in Network
    BY <1>3, Constants
  <2> QED
    BY <1>1, <1>3, <2>1 DEF Row
<1>5. edit' \in [Editor -> Edit]
  BY <1>2 DEF Types
<1>6. RowWrite(p, row)
  BY <1>2, <1>4, <1>5 DEF RowWrite
<1> QED
  BY <1>6

LEMMA ExplicitWrites ==
    ASSUME Types, NEW p \in Pub, NEW assigned \in Assigned, NEW allowed \in Allowed,
           CreateExplicit(p, assigned, allowed)
    PROVE  \E row : RowWrite(p, row)
<1>1. PICK row : row = [exists |-> TRUE, auto |-> FALSE, assigned |-> assigned,
                        allowed |-> allowed, late |-> {}]
  OBVIOUS
<1>2. peers' = Written(p, row) /\ req' = Noted(p, row) /\ addrs' = addrs /\ edit' = edit
  BY <1>1 DEF CreateExplicit
<1>3. row \in Row /\ ~row.auto
  BY <1>1, Constants DEF Row
<1>4. RowWrite(p, row)
  BY <1>2, <1>3 DEF RowWrite, Types
<1> QED
  BY <1>4

LEMMA PatchWrites ==
    ASSUME Types, NEW e \in Editor, NEW p \in Pub, PatchPeer(e, p)
    PROVE  \E row : RowWrite(p, row)
<1>1. PICK assigned \in Assigned \cup {edit[e].assigned}, allowed \in Allowed \cup {edit[e].allowed} :
          UpdatePeer(e, p, assigned, allowed)
  BY DEF PatchPeer
<1>2. PICK auto : auto = (peers[p].auto /\ assigned = peers[p].assigned)
  OBVIOUS
<1>3. PICK row : row = [exists |-> TRUE, auto |-> auto, assigned |-> assigned,
                        allowed |-> allowed, late |-> IF auto THEN peers[p].late ELSE {}]
  OBVIOUS
<1>4. /\ peers' = Written(p, row) /\ req' = Noted(p, row) /\ addrs' = addrs
      /\ edit' = [edit EXCEPT ![e] = NoEdit]
  BY <1>1, <1>2, <1>3 DEF UpdatePeer
<1>5. assigned \subseteq Host /\ allowed \subseteq Network /\ peers[p].late \in SUBSET Pub
  <2>1. edit[e] \in Edit /\ peers[p] \in Row
    BY DEF Types
  <2>2. edit[e].assigned \subseteq Host /\ edit[e].allowed \subseteq Network
    BY <2>1 DEF Edit
  <2> QED
    BY <2>1, <2>2, Constants DEF Row
<1>6. auto \in BOOLEAN
  BY <1>2
<1>7. row \in Row
  BY <1>3, <1>5, <1>6 DEF Row
<1>8. edit' \in [Editor -> Edit]
  BY <1>4, Constants DEF Types
<1>9. \/ ~row.auto
      \/ peers[p].auto /\ row.assigned = peers[p].assigned /\ row.late = peers[p].late
  BY <1>2, <1>3
<1>10. RowWrite(p, row)
  BY <1>4, <1>7, <1>8, <1>9 DEF RowWrite
<1> QED
  BY <1>10

LEMMA DeleteWrites ==
    ASSUME Types, NEW p \in Pub, DeletePeer(p)
    PROVE  \E row : RowWrite(p, row)
<1>1. /\ peers' = Written(p, NoPeer) /\ req' = Noted(p, NoPeer) /\ addrs' = addrs
      /\ edit' = [e \in Editor |-> IF p \in edit[e].of THEN NoEdit ELSE edit[e]]
  BY DEF DeletePeer
<1>2. edit' \in [Editor -> Edit]
  BY <1>1, Constants DEF Types
<1>3. NoPeer \in Row /\ ~NoPeer.auto
  BY Constants DEF NoPeer
<1>4. RowWrite(p, NoPeer)
  BY <1>1, <1>2, <1>3 DEF RowWrite
<1> QED
  BY <1>4

(* Every other step leaves the rows alone.                                  *)
Asking(h) == GetInterface(h) \/ allocatePeerIP(h) \/ \E p \in Pub : CreateConflict(h, p)

LEMMA Steps ==
    ASSUME Types, Chosen, [Next]_vars
    PROVE  \/ \E h \in Handler : Asking(h)
           \/ \E p \in Pub, row \in Row : RowWrite(p, row)
           \/ /\ peers' = peers /\ req' = req
              /\ addrs' \in Addresses /\ edit' \in [Editor -> Edit]
<1>1. ASSUME NEW p \in Pub, \E row : RowWrite(p, row)
      PROVE  \E q \in Pub, row \in Row : RowWrite(q, row)
  BY <1>1 DEF RowWrite
<1>2. ASSUME NEW e \in Editor, NEW p \in Pub, GetPeer(e, p)
      PROVE  peers' = peers /\ req' = req /\ addrs' \in Addresses /\ edit' \in [Editor -> Edit]
  <2>1. peers[p] \in Row
    BY DEF Types
  <2>2. [at |-> "write", of |-> {p}, assigned |-> peers[p].assigned,
         allowed |-> peers[p].allowed] \in Edit
    BY <2>1 DEF Row, Edit
  <2> QED
    BY <1>2, <2>2 DEF GetPeer, Types
<1>3. ASSUME NEW nets \in Addresses, UpdateAddresses(nets)
      PROVE  peers' = peers /\ req' = req /\ addrs' \in Addresses /\ edit' \in [Editor -> Edit]
  BY <1>3 DEF UpdateAddresses, Types
<1>4. CASE UNCHANGED vars
  BY <1>4 DEF vars, Types
<1>5. CASE Next
  <2>1. ASSUME NEW h \in Handler, NEW p \in Pub, CreatePeer(h, p)
        PROVE  \E q \in Pub, row \in Row : RowWrite(q, row)
    BY <1>1, <2>1, CreateWrites
  <2>2. ASSUME NEW p \in Pub, NEW assigned \in Assigned, NEW allowed \in Allowed,
               CreateExplicit(p, assigned, allowed)
        PROVE  \E q \in Pub, row \in Row : RowWrite(q, row)
    BY <1>1, <2>2, ExplicitWrites
  <2>3. ASSUME NEW e \in Editor, NEW p \in Pub, PatchPeer(e, p)
        PROVE  \E q \in Pub, row \in Row : RowWrite(q, row)
    BY <1>1, <2>3, PatchWrites
  <2>4. ASSUME NEW p \in Pub, DeletePeer(p) PROVE \E q \in Pub, row \in Row : RowWrite(q, row)
    BY <1>1, <2>4, DeleteWrites
  <2> QED
    BY <1>2, <1>3, <1>5, <2>1, <2>2, <2>3, <2>4 DEF Next, Asking
<1> QED
  BY <1>4, <1>5

LEMMA Typed == Types /\ Chosen /\ [Next]_vars => Types'
<1> SUFFICES ASSUME Types, Chosen, [Next]_vars PROVE Types'
  OBVIOUS
<1> USE Constants
<1>1. ASSUME NEW h \in Handler, GetInterface(h) PROVE Types'
  BY <1>1 DEF GetInterface, Types, NoRequest, Request
<1>2. ASSUME NEW h \in Handler, allocatePeerIP(h) PROVE Types'
  <2>1. req'[h] \in Request
    <3>1. req[h].addrs \in Seq(Network)
      BY DEF Types, Request
    <3>2. PICK used, host :
             /\ used \subseteq Host
             /\ host = NoHost => req'[h] = NoRequest
             /\ host # NoHost => /\ host \in Host
                                 /\ req'[h] = [at |-> "insert", addrs |-> req[h].addrs,
                                               host |-> host, used |-> used, late |-> {}]
      BY <1>2, Allocated
    <3>3. CASE host = NoHost
      BY <3>2, <3>3
    <3>4. CASE host # NoHost
      BY <3>1, <3>2, <3>4 DEF Request
    <3> QED
      BY <3>3, <3>4
  <2>2. req' = [g \in Handler |-> req'[g]]
    BY <1>2 DEF allocatePeerIP, Types
  <2>3. \A g \in Handler : req'[g] \in Request
    BY <1>2, <2>1, Allocated DEF Types
  <2>4. addrs' = addrs /\ peers' = peers /\ edit' = edit
    BY <1>2 DEF allocatePeerIP
  <2> QED
    BY <2>2, <2>3, <2>4 DEF Types
<1>3. ASSUME NEW h \in Handler, NEW p \in Pub, CreateConflict(h, p) PROVE Types'
  BY <1>3 DEF CreateConflict, Types
<1>4. ASSUME NEW p \in Pub, NEW row \in Row, RowWrite(p, row) PROVE Types'
  <2>1. Written(p, row) \in [Pub -> Row] /\ Noted(p, row) \in [Handler -> Request]
    BY WrittenIs, NotedIs
  <2>2. req' \in [Handler -> Request]
    BY <1>4, <2>1 DEF RowWrite
  <2> QED
    BY <1>4, <2>1, <2>2 DEF RowWrite, Types
<1>5. CASE peers' = peers /\ req' = req /\ addrs' \in Addresses /\ edit' \in [Editor -> Edit]
  BY <1>5 DEF Types
<1> QED
  BY <1>1, <1>2, <1>3, <1>4, <1>5, Steps DEF Asking

(* Besides its scan a request only starts and ends.                         *)
SameChoice(h) ==
    /\ req'[h].at = req[h].at /\ req'[h].addrs = req[h].addrs
    /\ req'[h].host = req[h].host /\ req'[h].used = req[h].used

LEMMA OtherSteps ==
    ASSUME Types, Chosen, [Next]_vars, NEW h \in Handler, ~allocatePeerIP(h)
    PROVE  \/ SameChoice(h)
           \/ req[h].at = "none" /\ req'[h].at = "list"
           \/ req[h].at = "insert" /\ req'[h].at = "none"
<1>1. ASSUME NEW g \in Handler, GetInterface(g)
      PROVE  SameChoice(h) \/ (req[h].at = "none" /\ req'[h].at = "list")
  BY <1>1 DEF GetInterface, Types, NoRequest, Request, SameChoice
<1>2. ASSUME NEW g \in Handler, allocatePeerIP(g) PROVE SameChoice(h)
  <2>1. g # h
    BY <1>2
  <2> QED
    BY <1>2, <2>1, Allocated DEF SameChoice
<1>3. ASSUME NEW g \in Handler, NEW p \in Pub, CreateConflict(g, p)
      PROVE  SameChoice(h) \/ (req[h].at = "insert" /\ req'[h].at = "none")
  BY <1>3 DEF CreateConflict, Types, NoRequest, SameChoice
<1>4. ASSUME NEW p \in Pub, NEW row \in Row, RowWrite(p, row)
      PROVE  SameChoice(h) \/ (req[h].at = "insert" /\ req'[h].at = "none")
  <2>1. PICK noted : noted = Noted(p, row)
    OBVIOUS
  <2>2. /\ noted \in [Handler -> Request]
        /\ noted[h].at = req[h].at /\ noted[h].addrs = req[h].addrs
        /\ noted[h].host = req[h].host /\ noted[h].used = req[h].used
    BY <2>1, NotedIs
  <2>3. CASE req' = noted
    BY <2>2, <2>3 DEF SameChoice
  <2>4. ASSUME NEW g \in Handler, req[g].at = "insert", req' = [noted EXCEPT ![g] = NoRequest]
        PROVE  SameChoice(h) \/ (req[h].at = "insert" /\ req'[h].at = "none")
    BY <2>2, <2>4 DEF SameChoice, NoRequest
  <2> QED
    BY <1>4, <2>1, <2>3, <2>4 DEF RowWrite
<1>5. CASE req' = req
  BY <1>5 DEF SameChoice
<1> QED
  BY <1>1, <1>2, <1>3, <1>4, <1>5, Steps DEF Asking

LEMMA StaysChosen == Types /\ Chosen /\ [Next]_vars => Chosen'
<1> SUFFICES ASSUME Types, Chosen, [Next]_vars, NEW h \in Handler, req'[h].at = "insert"
             PROVE  /\ req'[h].host # NoHost
                    /\ req'[h].host = AllocateNextHost(req'[h].addrs, req'[h].used)
  BY DEF Chosen
<1>1. CASE allocatePeerIP(h)
  <2>1. PICK used, host :
           /\ used = CollectUsedHosts(req[h].addrs, peers)
           /\ host = AllocateNextHost(req[h].addrs, used)
    OBVIOUS
  <2>2. /\ host = NoHost => req'[h] = NoRequest
        /\ host # NoHost => req'[h] = [at |-> "insert", addrs |-> req[h].addrs,
                                       host |-> host, used |-> used, late |-> {}]
    BY <1>1, <2>1, Allocated
  <2>3. host # NoHost
    BY <2>2 DEF NoRequest
  <2> QED
    BY <2>1, <2>2, <2>3
<1>2. CASE ~allocatePeerIP(h)
  <2>1. SameChoice(h)
    BY <1>2, OtherSteps
  <2> QED
    BY <2>1 DEF Chosen, SameChoice
<1> QED
  BY <1>1, <1>2

LEMMA TypedAndChosen == Spec => [](Types /\ Chosen)
<1>1. Init => Types /\ Chosen
  BY Constants DEF Init, Types, Chosen, NoRequest, NoEdit
<1>2. (Types /\ Chosen) /\ [Next]_vars => (Types /\ Chosen)'
  BY Typed, StaysChosen
<1> QED
  BY <1>1, <1>2, PTL DEF Spec

(* What a create inserts is the least unused host of the first pool that    *)
(* has one (netutil.AllocateNextHost), for every address width, list of     *)
(* networks and set of hosts in use.                                        *)
THEOREM AllocatesLeast == Spec => []AllocatesLeastFree
<1>1. Types /\ Chosen => AllocatesLeastFree
  <2> SUFFICES ASSUME Types, Chosen, NEW h \in Handler, req[h].at = "insert"
               PROVE  \E i \in Pools(req[h].addrs) :
                         /\ req[h].host \in Offers(req[h].addrs[i]) \ req[h].used
                         /\ \A other \in Offers(req[h].addrs[i]) \ req[h].used :
                               other.ip >= req[h].host.ip
                         /\ \A j \in Pools(req[h].addrs) : Before(req[h].addrs, j, i)
                               => Offers(req[h].addrs[j]) \ req[h].used = {}
    BY DEF AllocatesLeastFree
  <2>1. PICK nets, used, host : nets = req[h].addrs /\ used = req[h].used /\ host = req[h].host
    OBVIOUS
  <2>2. nets \in Seq(Network) /\ host = AllocateNextHost(nets, used) /\ host # NoHost
    BY <2>1 DEF Types, Chosen, Request
  <2> QED
    BY <2>1, <2>2, AllocationIsLeast
<1> QED
  BY <1>1, TypedAndChosen, PTL

(* A create is answered "no address left" only when no pool offers a host   *)
(* that is not in use when allocatePeerIP lists the rows.                   *)
THEOREM RefusedWhenFull == Spec => RefusedOnlyWhenFull
<1> DEFINE Full(h) ==
             \A i \in Pools(req[h].addrs) :
                Offers(req[h].addrs[i]) \subseteq CollectUsedHosts(req[h].addrs, peers)
<1>1. ASSUME Types, Chosen, [Next]_vars, NEW h \in Handler, req[h].at = "list", req'[h].at = "none"
      PROVE  Full(h)
  <2>1. CASE allocatePeerIP(h)
    <3>1. PICK nets, used, host :
             /\ nets = req[h].addrs /\ used = CollectUsedHosts(nets, peers)
             /\ host = AllocateNextHost(nets, used)
      OBVIOUS
    <3>2. host = NoHost
      <4>1. host # NoHost => req'[h] = [at |-> "insert", addrs |-> nets, host |-> host,
                                        used |-> used, late |-> {}]
        BY <1>1, <2>1, <3>1, Allocated
      <4>2. host # NoHost => req'[h].at = "insert"
        BY <4>1
      <4> QED
        BY <1>1, <4>2
    <3>3. nets \in Seq(Network)
      BY <1>1, <3>1 DEF Types, Request
    <3>4. \A i \in Pools(nets) : Offers(nets[i]) \ used = {}
      <4>1. AllocateNextHost(nets, used) = NoHost
        BY <3>1, <3>2
      <4> QED
        BY <3>3, <4>1, AllocationIsLeast
    <3> QED
      BY <3>1, <3>4
  <2>2. CASE ~allocatePeerIP(h)
    BY <1>1, <2>2, OtherSteps DEF SameChoice
  <2> QED
    BY <2>1, <2>2
<1>2. Types /\ Chosen /\ [Next]_vars
         => [\A h \in Handler : req[h].at = "list" /\ req'[h].at = "none" =>
                \A i \in Pools(req[h].addrs) :
                   Offers(req[h].addrs[i]) \subseteq CollectUsedHosts(req[h].addrs, peers)]_vars
  BY <1>1
<1> QED
  BY <1>2, TypedAndChosen, PTL DEF Spec, RefusedOnlyWhenFull
-----------------------------------------------------------------------------
(* Who holds an allocated address *)

(* What a request is about to insert, and what a peer was allocated, others *)
(* hold only late.                                                          *)
LateOK ==
    /\ \A h \in Handler, p \in Pub :
          req[h].at = "insert" /\ req[h].host \in Held(peers[p]) => p \in req[h].late
    /\ NoSharedHost

LEMMA LateHolds ==
    ASSUME NEW p \in Pub, NEW row, NEW late, NEW hosts
    PROVE  /\ (hosts \cap Held(peers[p]) # {} => p \in late)
                 => (hosts \cap Held(row) # {} => p \in LateAfter(late, hosts, p, row))
           /\ \A q \in Pub \ {p} : q \in late => q \in LateAfter(late, hosts, p, row)
BY DEF LateAfter

(* What a write to the row of p leaves of the other rows and of requests.   *)
LEMMA WriteKeeps ==
    ASSUME Types, NEW p \in Pub, NEW row \in Row, RowWrite(p, row)
    PROVE  /\ peers'[p] = row
           /\ \A q \in Pub \ {p} :
                 /\ peers'[q].assigned = peers[q].assigned /\ peers'[q].auto = peers[q].auto
                 /\ Held(peers'[q]) = Held(peers[q])
                 /\ peers[q].auto => peers'[q].late
                                       = LateAfter(peers[q].late, peers[q].assigned, p, row)
           /\ \A h \in Handler : req'[h].at = "insert" =>
                 /\ req[h].at = "insert" /\ req'[h].host = req[h].host
                 /\ req'[h].late = LateAfter(req[h].late, {req[h].host}, p, row)
<1>1. peers' = Written(p, row)
  BY DEF RowWrite
<1>2. /\ peers'[p] = row
      /\ \A q \in Pub \ {p} :
            /\ peers'[q].assigned = peers[q].assigned /\ peers'[q].allowed = peers[q].allowed
            /\ peers'[q].auto = peers[q].auto
            /\ peers[q].auto => peers'[q].late
                                  = LateAfter(peers[q].late, peers[q].assigned, p, row)
  BY <1>1, WrittenIs
<1>3. \A q \in Pub \ {p} : Held(peers'[q]) = Held(peers[q])
  BY <1>2 DEF Held
<1>4. PICK noted : noted = Noted(p, row)
  OBVIOUS
<1>5. /\ noted \in [Handler -> Request]
      /\ \A h \in Handler :
            /\ noted[h].at = req[h].at /\ noted[h].host = req[h].host
            /\ req[h].at = "insert"
                  => noted[h].late = LateAfter(req[h].late, {req[h].host}, p, row)
  BY <1>4, NotedIs
<1>6. \/ req' = noted
      \/ \E g \in Handler : req' = [noted EXCEPT ![g] = NoRequest]
  BY <1>4 DEF RowWrite
<1>7. ASSUME NEW h \in Handler, req'[h].at = "insert" PROVE req'[h] = noted[h]
  BY <1>5, <1>6, <1>7 DEF NoRequest
<1> QED
  BY <1>2, <1>3, <1>5, <1>7

(* No peer holds what the allocator chooses, when it does.                  *)
LEMMA AsksForUnheld ==
    ASSUME Types, NEW h \in Handler, Asking(h), req'[h].at = "insert", NEW p \in Pub
    PROVE  req'[h].host \notin Held(peers[p])
<1>1. ASSUME GetInterface(h) PROVE FALSE
  BY <1>1 DEF GetInterface, Types, NoRequest
<1>2. ASSUME NEW q \in Pub, CreateConflict(h, q) PROVE FALSE
  BY <1>2 DEF CreateConflict, Types, NoRequest
<1>3. allocatePeerIP(h)
  BY <1>1, <1>2 DEF Asking
<1>4. PICK used, host :
         /\ used = CollectUsedHosts(req[h].addrs, peers)
         /\ host = AllocateNextHost(req[h].addrs, used)
  OBVIOUS
<1>5. /\ host = NoHost => req'[h] = NoRequest
      /\ host # NoHost => /\ host \notin used
                          /\ req'[h] = [at |-> "insert", addrs |-> req[h].addrs,
                                        host |-> host, used |-> used, late |-> {}]
  BY <1>3, <1>4, Allocated
<1>6. req'[h].host = host /\ host \notin used
  BY <1>5 DEF NoRequest
<1>7. req[h].addrs \in Seq(Network)
  BY DEF Types, Request
<1>8. Held(peers[p]) \subseteq used
  BY <1>4, <1>7, UsedHosts
<1> QED
  BY <1>6, <1>8

LEMMA StaysLate == Types /\ Chosen /\ LateOK /\ [Next]_vars => LateOK'
<1> SUFFICES ASSUME Types, Chosen, LateOK, [Next]_vars PROVE LateOK'
  OBVIOUS
<1>1. ASSUME NEW h \in Handler, Asking(h) PROVE LateOK'
  <2>1. peers' = peers /\ \A g \in Handler \ {h} : req'[g] = req[g]
    BY <1>1 DEF Asking, GetInterface, allocatePeerIP, CreateConflict, Types
  <2>2. req'[h].at = "insert" => \A p \in Pub : req'[h].host \notin Held(peers[p])
    BY <1>1, AsksForUnheld
  <2> QED
    BY <2>1, <2>2 DEF LateOK, NoSharedHost
<1>2. ASSUME NEW p \in Pub, NEW row \in Row, RowWrite(p, row) PROVE LateOK'
  <2>1. /\ peers'[p] = row
        /\ \A q \in Pub \ {p} :
              /\ peers'[q].assigned = peers[q].assigned /\ peers'[q].auto = peers[q].auto
              /\ Held(peers'[q]) = Held(peers[q])
              /\ peers[q].auto => peers'[q].late
                                    = LateAfter(peers[q].late, peers[q].assigned, p, row)
        /\ \A h \in Handler : req'[h].at = "insert" =>
              /\ req[h].at = "insert" /\ req'[h].host = req[h].host
              /\ req'[h].late = LateAfter(req[h].late, {req[h].host}, p, row)
    BY <1>2, WriteKeeps
  (* What is only about to be inserted. *)
  <2>2. ASSUME NEW h \in Handler, NEW q \in Pub,
               req'[h].at = "insert", req'[h].host \in Held(peers'[q])
        PROVE  q \in req'[h].late
    <3>1. PICK host : host = req[h].host
      OBVIOUS
    <3>2. req[h].at = "insert" /\ req'[h].host = host
          /\ req'[h].late = LateAfter(req[h].late, {host}, p, row)
      BY <2>1, <2>2, <3>1
    <3>3. \A r \in Pub : host \in Held(peers[r]) => r \in req[h].late
      BY <3>1, <3>2 DEF LateOK
    <3>4. CASE q = p
      <4>1. {host} \cap Held(row) # {}
        BY <2>1, <2>2, <3>2, <3>4
      <4>2. {host} \cap Held(peers[p]) # {} => p \in req[h].late
        BY <3>3
      <4> QED
        BY <3>2, <3>4, <4>1, <4>2, LateHolds
    <3>5. CASE q # p
      <4>1. q \in req[h].late
        BY <2>1, <2>2, <3>2, <3>3, <3>5
      <4> QED
        BY <3>2, <3>5, <4>1, LateHolds
    <3> QED
      BY <3>4, <3>5
  (* What a peer holds: the one written, or another beside it. *)
  <2>3. ASSUME NEW q \in Pub \ {p}, peers'[q].auto,
               peers'[q].assigned \cap Held(peers'[p]) # {}
        PROVE  p \in peers'[q].late
    <3>1. peers[q].auto /\ peers[q].assigned \cap Held(row) # {}
          /\ peers'[q].late = LateAfter(peers[q].late, peers[q].assigned, p, row)
      BY <2>1, <2>3
    <3>2. peers[q].assigned \cap Held(peers[p]) # {} => p \in peers[q].late
      BY <3>1 DEF LateOK, NoSharedHost
    <3> QED
      BY <3>1, <3>2, LateHolds
  <2>4. ASSUME NEW q \in Pub \ {p}, NEW r \in Pub \ {p}, r # q, peers'[q].auto,
               peers'[q].assigned \cap Held(peers'[r]) # {}
        PROVE  r \in peers'[q].late
    <3>1. /\ peers[q].auto /\ peers[q].assigned \cap Held(peers[r]) # {}
          /\ peers'[q].late = LateAfter(peers[q].late, peers[q].assigned, p, row)
      BY <2>1, <2>4
    <3>2. r \in peers[q].late
      BY <2>4, <3>1 DEF LateOK, NoSharedHost
    <3> QED
      BY <3>1, <3>2, LateHolds
  <2>5. ASSUME NEW r \in Pub \ {p}, row.auto, row.assigned \cap Held(peers'[r]) # {}
        PROVE  r \in row.late
    <3>1. row.assigned \cap Held(peers[r]) # {}
      BY <2>1, <2>5
    <3>2. CASE peers[p].auto /\ row.assigned = peers[p].assigned /\ row.late = peers[p].late
      BY <3>1, <3>2 DEF LateOK, NoSharedHost
    <3>3. ASSUME NEW h \in Handler, req[h].at = "insert",
                 row.assigned = {req[h].host}, row.late = req[h].late
          PROVE  r \in row.late
      <4>1. req[h].host \in Held(peers[r])
        BY <3>1, <3>3
      <4> QED
        BY <3>3, <4>1 DEF LateOK
    <3> QED
      BY <1>2, <2>5, <3>2, <3>3 DEF RowWrite
  <2>6. NoSharedHost'
    BY <2>1, <2>3, <2>4, <2>5 DEF NoSharedHost
  <2> QED
    BY <2>2, <2>6 DEF LateOK
<1>3. CASE peers' = peers /\ req' = req
  BY <1>3 DEF LateOK, NoSharedHost
<1> QED
  BY <1>1, <1>2, <1>3, Steps

(* An address the allocator gave a peer is held by another, as an assigned  *)
(* one or as a host route, only if that one got it after the create listed  *)
(* the rows: for any number of creates, explicit creates, edits (each       *)
(* written back whole) and deletes in any order.                            *)
THEOREM NoHostShared == Spec => []NoSharedHost
<1>1. Init => LateOK
  BY DEF Init, LateOK, NoSharedHost, NoRequest, NoPeer
<1>2. Types /\ Chosen /\ LateOK /\ [Next]_vars => LateOK'
  BY StaysLate
<1>3. LateOK => NoSharedHost
  BY DEF LateOK
<1> QED
  BY <1>1, <1>2, <1>3, TypedAndChosen, PTL DEF Spec
-----------------------------------------------------------------------------
(* One create at a time *)

OneAtATime == \A g, h \in Handler : g = h

Apart ==
    /\ \A h \in Handler, p \in Pub :
          req[h].at = "insert" /\ peers[p].auto => req[h].host \notin peers[p].assigned
    /\ AllocatedApart

LEMMA StaysApart == OneAtATime /\ Types /\ Chosen /\ Apart /\ [Next]_vars => Apart'
<1> SUFFICES ASSUME OneAtATime, Types, Chosen, Apart, [Next]_vars PROVE Apart'
  OBVIOUS
<1>1. ASSUME NEW h \in Handler, Asking(h) PROVE Apart'
  <2>1. peers' = peers /\ \A g \in Handler \ {h} : req'[g] = req[g]
    BY <1>1 DEF Asking, GetInterface, allocatePeerIP, CreateConflict, Types
  <2>2. req'[h].at = "insert" => \A p \in Pub : req'[h].host \notin peers[p].assigned
    BY <1>1, AsksForUnheld DEF Held
  <2> QED
    BY <2>1, <2>2 DEF Apart, AllocatedApart
<1>2. ASSUME NEW p \in Pub, NEW row \in Row, RowWrite(p, row) PROVE Apart'
  <2>1. /\ peers'[p] = row
        /\ \A q \in Pub \ {p} :
              peers'[q].assigned = peers[q].assigned /\ peers'[q].auto = peers[q].auto
        /\ \A h \in Handler : req'[h].at = "insert" =>
              req[h].at = "insert" /\ req'[h].host = req[h].host
    BY <1>2, WriteKeeps
  <2>2. CASE ~row.auto
    BY <2>1, <2>2 DEF Apart, AllocatedApart
  <2>3. CASE peers[p].auto /\ row.assigned = peers[p].assigned
    BY <2>1, <2>3 DEF Apart, AllocatedApart
  <2>4. ASSUME NEW h \in Handler, req[h].at = "insert",
               req' = [Noted(p, row) EXCEPT ![h] = NoRequest], row.assigned = {req[h].host}
        PROVE  Apart'
    <3>1. \A g \in Handler : req'[g].at # "insert"
      <4>1. Noted(p, row) \in [Handler -> Request]
        BY NotedIs
      <4> QED
        BY <2>4, <4>1 DEF NoRequest, OneAtATime
    <3>2. \A q \in Pub \ {p} : peers'[q].auto => row.assigned \cap peers'[q].assigned = {}
      BY <2>1, <2>4 DEF Apart
    <3> QED
      BY <2>1, <3>1, <3>2 DEF Apart, AllocatedApart
  <2> QED
    BY <1>2, <2>2, <2>3, <2>4 DEF RowWrite
<1>3. CASE peers' = peers /\ req' = req
  BY <1>3 DEF Apart, AllocatedApart
<1> QED
  BY <1>1, <1>2, <1>3, Steps

(* With one create at a time no two peers have one allocated address,       *)
(* whatever is created explicitly, edited, deleted or renumbered in         *)
(* between; the model checker shows that two creates get one.               *)
THEOREM AllocatedStayApart == OneAtATime => (Spec => []AllocatedApart)
<1> SUFFICES ASSUME OneAtATime PROVE Spec => []AllocatedApart
  OBVIOUS
<1>1. Init => Apart
  BY DEF Init, Apart, AllocatedApart, NoRequest, NoPeer
<1>2. Types /\ Chosen /\ Apart /\ [Next]_vars => Apart'
  BY StaysApart
<1>3. Apart => AllocatedApart
  BY DEF Apart
<1> QED
  BY <1>1, <1>2, <1>3, TypedAndChosen, PTL DEF Spec
=============================================================================
