------------------------- MODULE RequestLimiterProofs -------------------------
(* Theorems about RequestLimiter, for all values of its constants. *)
EXTENDS RequestLimiter, FiniteSetTheorems, SequenceTheorems, WellFoundedInduction, TLAPS

(* The types that the counting of slots depends on. *)
LeaseTypes ==
    /\ active \in [Keys -> Nat]
    /\ pc \in [Requests -> {"idle", "captured", "held", "rejected", "released"}]
    /\ keys \in [Requests -> SUBSET Keys]

SlotsInv == LeaseTypes /\ SlotsAreAccountedFor

LEMMA HoldersFinite == \A k : IsFiniteSet(Holders(k))
<1> TAKE k
<1>1. Holders(k) \subseteq Requests
  BY DEF Holders
<1> QED
  BY <1>1, FS_Subset, RequestsAssumption

(* A lease that begins to hold a slot makes one holder more ... *)
LEMMA OneMore ==
    ASSUME NEW k, NEW r, r \notin Holders(k), Holders(k)' = Holders(k) \cup {r}
    PROVE  Cardinality(Holders(k)') = Cardinality(Holders(k)) + 1
BY HoldersFinite, FS_AddElement

(* ... one that gives it back, one fewer, and there was one to give back. *)
LEMMA OneFewer ==
    ASSUME NEW k, NEW r, r \in Holders(k), Holders(k)' = Holders(k) \ {r}
    PROVE  /\ Cardinality(Holders(k)') = Cardinality(Holders(k)) - 1
           /\ Cardinality(Holders(k)) \in Nat \ {0}
<1>1. IsFiniteSet(Holders(k)) /\ Cardinality(Holders(k)) \in Nat
  BY HoldersFinite, FS_CardinalityType
<1>2. Cardinality(Holders(k) \ {r}) = Cardinality(Holders(k)) - 1
  BY <1>1, FS_RemoveElement
<1>3. Cardinality(Holders(k)) # 0
  BY <1>1, FS_EmptySet
<1> QED
  BY <1>1, <1>2, <1>3

LEMMA InitSlots == Init => SlotsInv
<1> SUFFICES ASSUME Init PROVE SlotsInv
  OBVIOUS
<1>1. \A k \in Keys : Holders(k) = {}
  BY DEF Init, Holders
<1> QED
  BY <1>1, FS_EmptySet DEF Init, SlotsInv, LeaseTypes, SlotsAreAccountedFor

LEMMA AdmitSlots == ASSUME SlotsInv, NEW r \in Requests, Admit(r) PROVE SlotsInv'
<1> DEFINE counted == {k \in Specs(r) : captured[r][k].max_concurrent # None}
<1> USE DEF SlotsInv, LeaseTypes
<1>1. /\ pc[r] = "captured"
      /\ active' = [k \in Keys |-> IF k \in counted THEN active[k] + 1 ELSE active[k]]
      /\ keys' = [keys EXCEPT ![r] = counted]
      /\ pc' = [pc EXCEPT ![r] = "held"]
  BY DEF Admit
<1>2. counted \subseteq Keys
  BY DEF Specs
<1>3. LeaseTypes'
  <2> HIDE DEF counted
  <2> QED
    BY <1>1, <1>2
<1>4. ASSUME NEW k \in Keys PROVE active'[k] = Cardinality(Holders(k)')
  <2> HIDE DEF counted
  <2>1. CASE k \in counted
    <3>1. r \notin Holders(k) /\ Holders(k)' = Holders(k) \cup {r}
      BY <1>1, <1>2, <2>1 DEF Holders
    <3>2. active'[k] = active[k] + 1
      BY <1>1, <2>1
    <3> QED
      BY <3>1, <3>2, OneMore DEF SlotsAreAccountedFor
  <2>2. CASE k \notin counted
    <3>1. Holders(k)' = Holders(k)
      BY <1>1, <1>2, <2>2 DEF Holders
    <3> QED
      BY <1>1, <2>2, <3>1 DEF SlotsAreAccountedFor
  <2> QED
    BY <2>1, <2>2
<1> QED
  BY <1>3, <1>4 DEF SlotsAreAccountedFor

LEMMA ReleaseSlots == ASSUME SlotsInv, NEW r \in Requests, Release(r) PROVE SlotsInv'
<1> USE DEF SlotsInv, LeaseTypes
<1>1. /\ pc[r] \in {"held", "released"}
      /\ pc' = [pc EXCEPT ![r] = "released"]
      /\ keys' = keys
      /\ active' = [k \in Keys |->
                      IF pc[r] = "held" /\ k \in keys[r] /\ active[k] > 0
                      THEN active[k] - 1 ELSE active[k]]
  BY DEF Release
<1>2. ASSUME NEW k \in Keys PROVE active'[k] = Cardinality(Holders(k)') /\ active'[k] \in Nat
  <2>1. CASE r \in Holders(k)
    <3>1. Holders(k)' = Holders(k) \ {r}
      BY <1>1 DEF Holders
    <3>2. Cardinality(Holders(k)') = active[k] - 1 /\ active[k] \in Nat \ {0}
      BY <2>1, <3>1, OneFewer DEF SlotsAreAccountedFor
    <3>3. pc[r] = "held" /\ k \in keys[r]
      BY <2>1 DEF Holders
    <3>4. active'[k] = active[k] - 1
      BY <1>1, <3>2, <3>3
    <3> QED
      BY <3>2, <3>4
  <2>2. CASE r \notin Holders(k)
    <3>1. Holders(k)' = Holders(k)
      BY <1>1, <2>2 DEF Holders
    <3>2. active'[k] = active[k]
      BY <1>1, <2>2 DEF Holders
    <3> QED
      BY <3>1, <3>2 DEF SlotsAreAccountedFor
  <2> QED
    BY <2>1, <2>2
<1>3. LeaseTypes'
  BY <1>1, <1>2
<1> QED
  BY <1>2, <1>3 DEF SlotsAreAccountedFor

(* Any other step moves only requests that hold no lease. *)
LEMMA OtherSlots ==
    ASSUME SlotsInv, LeaseTypes', active' = active, \A k \in Keys : Holders(k)' = Holders(k)
    PROVE  SlotsInv'
BY DEF SlotsInv, SlotsAreAccountedFor

LEMMA NextSlots == SlotsInv /\ [Next]_vars => SlotsInv'
<1> SUFFICES ASSUME SlotsInv, [Next]_vars PROVE SlotsInv'
  OBVIOUS
<1> USE DEF SlotsInv, LeaseTypes, buckets, requests
<1>1. ASSUME NEW r \in Requests, Capture(r) \/ Bypass(r) \/ Reject(r) \/ End(r) PROVE SlotsInv'
  <2>1. active' = active /\ LeaseTypes'
    BY <1>1 DEF Capture, Bypass, Reject, End, Forget
  <2>2. ASSUME NEW k \in Keys PROVE Holders(k)' = Holders(k)
    BY <1>1 DEF Capture, Bypass, Reject, End, Forget, Holders
  <2> QED
    BY <2>1, <2>2, OtherSlots
<1>2. CASE Reconfigure \/ Tick \/ UNCHANGED vars
  <2>1. UNCHANGED <<active, pc, keys>>
    BY <1>2 DEF Reconfigure, Tick, vars
  <2>2. \A k \in Keys : Holders(k)' = Holders(k)
    BY <2>1 DEF Holders
  <2> QED
    BY <2>1, <2>2, OtherSlots
<1> QED
  BY <1>1, <1>2, AdmitSlots, ReleaseSlots DEF Next

(* For any number of requests, tools and configurations, a bucket counts   *)
(* exactly the leases in force.                                            *)
THEOREM SlotsAccounted == Spec => []SlotsAreAccountedFor
<1>1. SlotsInv => SlotsAreAccountedFor
  BY DEF SlotsInv
<1> QED
  BY <1>1, InitSlots, NextSlots, PTL DEF Spec
(***************************************************************************)
(* Concurrency limits                                                      *)
(***************************************************************************)

(* What a request captured and holds stays as it is until it ends. *)
CaptureTypes ==
    /\ config \in Configs
    /\ captured \in [Requests -> Configs \cup {None}]
    /\ \A r \in Requests : pc[r] \in {"captured", "held"} => captured[r] \in Configs
    /\ \A r \in Requests : pc[r] = "held" =>
         \A k \in keys[r] : captured[r][k].max_concurrent \in Nat

LoadInv == SlotsInv /\ CaptureTypes /\ LoadFitsLimits

LEMMA CapturedLimit ==
    ASSUME NEW c \in Configs, NEW k \in Keys
    PROVE  c[k].max_concurrent \in Nat \cup {None}
BY ConfigsAssumption DEF LimitConfigs, Limit

LEMMA NextCapture ==
    ASSUME LeaseTypes, CaptureTypes, [Next]_vars
    PROVE  CaptureTypes'
<1> USE DEF LeaseTypes, CaptureTypes, buckets, requests
<1>1. ASSUME NEW r \in Requests, Admit(r) PROVE CaptureTypes'
  <2>1. /\ keys' = [keys EXCEPT ![r] =
                      {k \in Specs(r) : captured[r][k].max_concurrent # None}]
        /\ pc[r] = "captured" /\ pc' = [pc EXCEPT ![r] = "held"]
        /\ UNCHANGED <<config, captured>>
    BY <1>1 DEF Admit
  <2>2. \A k \in keys'[r] : captured[r][k].max_concurrent \in Nat
    BY <2>1, CapturedLimit DEF Specs
  <2> QED
    BY <2>1, <2>2
<1>2. ASSUME NEW r \in Requests,
             Capture(r) \/ Bypass(r) \/ Reject(r) \/ Release(r) \/ End(r)
      PROVE  CaptureTypes'
  BY <1>2 DEF Capture, Bypass, Reject, Release, End, Forget
<1>3. CASE Reconfigure \/ Tick \/ UNCHANGED vars
  BY <1>3 DEF Reconfigure, Tick, vars
<1> QED
  BY <1>1, <1>2, <1>3 DEF Next

(* A step that adds no holder of k keeps the limits of k. *)
LEMMA FewerHolders ==
    ASSUME CaptureTypes, LoadFitsLimits, NEW k \in Keys, Holders(k)' \subseteq Holders(k),
           \A q \in Holders(k) : captured'[q] = captured[q]
    PROVE  \A r \in Holders(k)' : Cardinality(Peers(r, k)') <= captured'[r][k].max_concurrent
<1> TAKE r \in Holders(k)'
<1>1. Peers(r, k)' \subseteq Peers(r, k) /\ Peers(r, k) \subseteq Holders(k)
  BY DEF Peers
<1>2. IsFiniteSet(Peers(r, k))
  BY <1>1, HoldersFinite, FS_Subset
<1>3. Cardinality(Peers(r, k)') <= Cardinality(Peers(r, k))
  BY <1>1, <1>2, FS_Subset
<1>4. /\ Cardinality(Peers(r, k)) \in Nat /\ Cardinality(Peers(r, k)') \in Nat
      /\ Cardinality(Peers(r, k)) <= captured[r][k].max_concurrent
  BY <1>1, <1>2, FS_Subset, FS_CardinalityType DEF LoadFitsLimits
<1>5. captured[r][k].max_concurrent \in Nat /\ captured'[r] = captured[r]
  BY DEF CaptureTypes, Holders
<1> QED
  BY <1>3, <1>4, <1>5

LEMMA AdmitLoad ==
    ASSUME LoadInv, SlotsInv', NEW r \in Requests, Admit(r), NEW k \in Keys
    PROVE  \A q \in Holders(k)' : Cardinality(Peers(q, k)') <= captured'[q][k].max_concurrent
<1> USE DEF LoadInv, SlotsInv, LeaseTypes
<1>1. /\ pc[r] = "captured" /\ pc' = [pc EXCEPT ![r] = "held"]
      /\ keys' = [keys EXCEPT ![r] =
                    {x \in Specs(r) : captured[r][x].max_concurrent # None}]
      /\ captured' = captured
  BY DEF Admit
<1>2. CASE k \notin keys'[r]
  <2>1. Holders(k)' = Holders(k)
    BY <1>1, <1>2 DEF Holders
  <2> QED
    BY <1>1, <2>1, FewerHolders
<1>3. CASE k \in keys'[r]
  <2>1. Holders(k)' = Holders(k) \cup {r} /\ r \notin Holders(k)
    BY <1>1, <1>3 DEF Holders
  <2>2. k \in Specs(r) /\ captured[r][k].max_concurrent # None
    BY <1>1, <1>3
  <2>3. captured[r][k].max_concurrent \in Nat
    BY <1>1, <2>2, CapturedLimit DEF CaptureTypes
  <2>4. active[k] < captured[r][k].max_concurrent
    BY <2>2 DEF Admit, Fits, HasSlot
  <2>5. Cardinality(Holders(k)') = Cardinality(Holders(k)) + 1
    BY <2>1, OneMore
  <2>6. Cardinality(Holders(k)') <= captured[r][k].max_concurrent
    BY <2>3, <2>4, <2>5 DEF SlotsAreAccountedFor
  <2>7. IsFiniteSet(Holders(k)') /\ Cardinality(Holders(k)') \in Nat
    BY <2>1, HoldersFinite, FS_AddElement, FS_CardinalityType
  <2> TAKE q \in Holders(k)'
  <2>8. captured[q][k].max_concurrent \in Nat
    BY <2>1, <2>3 DEF CaptureTypes, Holders
  <2>9. CASE captured[r][k].max_concurrent <= captured[q][k].max_concurrent
    <3>1. Peers(q, k)' \subseteq Holders(k)'
      BY DEF Peers
    <3>2. /\ Cardinality(Peers(q, k)') <= Cardinality(Holders(k)')
          /\ Cardinality(Peers(q, k)') \in Nat
      BY <2>7, <3>1, FS_Subset, FS_CardinalityType
    <3> QED
      BY <1>1, <2>3, <2>6, <2>7, <2>8, <2>9, <3>2
  <2>10. CASE ~(captured[r][k].max_concurrent <= captured[q][k].max_concurrent)
    <3>1. q \in Holders(k)
      BY <2>1, <2>3, <2>10
    <3>2. Peers(q, k)' = Peers(q, k)
      BY <1>1, <2>1, <2>10 DEF Peers
    <3> QED
      BY <1>1, <3>1, <3>2 DEF LoadFitsLimits
  <2> QED
    BY <2>9, <2>10
<1> QED
  BY <1>2, <1>3

LEMMA NextLoad == LoadInv /\ [Next]_vars => LoadInv'
<1> SUFFICES ASSUME LoadInv, [Next]_vars PROVE LoadInv'
  OBVIOUS
<1>1. SlotsInv' /\ CaptureTypes'
  BY NextSlots, NextCapture DEF LoadInv, SlotsInv
<1>2. ASSUME NEW k \in Keys
      PROVE  \A r \in Holders(k)' : Cardinality(Peers(r, k)') <= captured'[r][k].max_concurrent
  <2>1. ASSUME NEW r \in Requests, Admit(r)
        PROVE  \A q \in Holders(k)' : Cardinality(Peers(q, k)') <= captured'[q][k].max_concurrent
    BY <1>1, <2>1, AdmitLoad
  <2>2. ASSUME NEW r \in Requests,
               Capture(r) \/ Bypass(r) \/ Reject(r) \/ Release(r) \/ End(r)
        PROVE  Holders(k)' \subseteq Holders(k) /\ \A q \in Holders(k) : captured'[q] = captured[q]
    BY <2>2 DEF LoadInv, SlotsInv, LeaseTypes, CaptureTypes, Holders, Capture, Bypass, Reject,
                Release, End, Forget, buckets
  <2>3. CASE Reconfigure \/ Tick \/ UNCHANGED vars
    <3>1. UNCHANGED <<pc, keys, captured>>
      BY <2>3 DEF Reconfigure, Tick, vars, requests
    <3>2. Holders(k)' \subseteq Holders(k) /\ \A q \in Holders(k) : captured'[q] = captured[q]
      BY <3>1 DEF Holders
    <3> QED
      BY <3>2, FewerHolders DEF LoadInv
  <2> QED
    BY <2>1, <2>2, <2>3, FewerHolders DEF Next, LoadInv
<1> QED
  BY <1>1, <1>2 DEF LoadInv, LoadFitsLimits

(* Whatever limits are published, and whenever, at most n requests are in  *)
(* flight that were admitted under a limit of n or less.                   *)
THEOREM LoadFits == Spec => []LoadFitsLimits
<1>1. Init => LoadInv
  <2> SUFFICES ASSUME Init PROVE LoadInv
    OBVIOUS
  <2>1. \A k \in Keys : Holders(k) = {}
    BY DEF Init, Holders
  <2> QED
    BY <2>1, InitSlots DEF Init, LoadInv, CaptureTypes, LoadFitsLimits
<1>2. LoadInv => LoadFitsLimits
  BY DEF LoadInv
<1> QED
  BY <1>1, <1>2, NextLoad, PTL DEF Spec

(***************************************************************************)
(* Rates                                                                   *)
(***************************************************************************)

(* Every set of naturals but the empty one has a least element. *)
LEMMA Least ==
    ASSUME NEW S \in SUBSET Nat, S # {}
    PROVE  \E m \in S : \A n \in S : m <= n
<1> DEFINE R == OpToRel(<, Nat)
<1>1. IsWellFoundedOn(R, Nat)
  BY NatLessThanWellFounded
<1>2. \A i, j \in Nat : i < j => <<i, j>> \in R
  BY DEF OpToRel
<1> HIDE DEF R
<1>3. PICK m \in S : \A n \in S : <<n, m>> \notin R
  BY <1>1, WFMin
<1>4. ASSUME NEW n \in S
      PROVE  m <= n
  <2>1. m \in Nat /\ n \in Nat
    OBVIOUS
  <2>2. ~(n < m)
    BY <1>2, <1>3, <2>1
  <2> QED
    BY <2>1, <2>2
<1> QED
  BY <1>4

Admission == [at : 0 .. Horizon, limit : Nat]

RateTypes ==
    /\ now \in 0 .. Horizon
    /\ timestamps \in [Keys -> Seq(0 .. Horizon)]
    /\ history \in [Keys -> Seq(Admission)]

(* A bucket holds the latest admissions, and only stale ones have left it. *)
Remembers(admissions, stamps, t) ==
    /\ Len(stamps) <= Len(admissions)
    /\ \A i \in 1 .. Len(stamps) : stamps[i] = admissions[Len(admissions) - Len(stamps) + i].at
    /\ \A i \in 1 .. Len(admissions) - Len(stamps) : admissions[i].at + Window <= t

(* They are in the order of time, and the one that many places before one  *)
(* with a limit has left the window by then.                               *)
Spaced(admissions, t) ==
    /\ \A i, j \in 1 .. Len(admissions) : i <= j => admissions[i].at <= admissions[j].at
    /\ \A i \in 1 .. Len(admissions) :
        /\ admissions[i].at <= t
        /\ admissions[i].limit < i =>
             admissions[i - admissions[i].limit].at + Window <= admissions[i].at

RateInv ==
    /\ RateTypes
    /\ \A k \in Keys : Remembers(history[k], timestamps[k], now) /\ Spaced(history[k], now)

LEMMA SuffixIs ==
    ASSUME NEW S, NEW s \in Seq(S), NEW n \in 1 .. Len(s) + 1
    PROVE  /\ SubSeq(s, n, Len(s)) \in Seq(S)
           /\ Len(SubSeq(s, n, Len(s))) = Len(s) - n + 1
           /\ \A i \in 1 .. Len(s) - n + 1 : SubSeq(s, n, Len(s))[i] = s[n + i - 1]
<1>1. Len(s) \in Nat /\ \A i \in 1 .. Len(s) : s[i] \in S
  BY LenProperties
<1>2. n \in Int /\ Len(s) \in Int /\ \A i \in n .. Len(s) : s[i] \in S
  BY <1>1
<1> QED
  BY <1>1, <1>2, SubSeqProperties

(* popleft() leaves the timestamps from the first that is not stale. *)
LEMMA RecentIs ==
    ASSUME RateTypes, NEW k \in Keys
    PROVE  /\ Recent(k) \in Seq(0 .. Horizon)
           /\ Len(Recent(k)) <= Len(timestamps[k])
           /\ \A i \in 1 .. Len(Recent(k)) :
                Recent(k)[i] = timestamps[k][Len(timestamps[k]) - Len(Recent(k)) + i]
           /\ \A i \in 1 .. Len(timestamps[k]) - Len(Recent(k)) : Stale(timestamps[k][i])
           /\ Recent(k) # <<>> => ~Stale(Recent(k)[1])
<1> DEFINE stamps == timestamps[k]
           Begins(n) == /\ \A i \in 1 .. n - 1 : Stale(stamps[i])
                        /\ n <= Len(stamps) => ~Stale(stamps[n])
           S == {n \in 1 .. Len(stamps) + 1 : n <= Len(stamps) => ~Stale(stamps[n])}
           first == CHOOSE n \in 1 .. Len(stamps) + 1 : Begins(n)
<1>1. stamps \in Seq(0 .. Horizon) /\ Len(stamps) \in Nat
  BY DEF RateTypes
<1>2. \E n \in 1 .. Len(stamps) + 1 : Begins(n)
  <2>1. S \in SUBSET Nat /\ Len(stamps) + 1 \in S
    BY <1>1
  <2>2. PICK m \in S : \A n \in S : m <= n
    BY <2>1, Least
  <2>3. ASSUME NEW i \in 1 .. m - 1 PROVE Stale(stamps[i])
    BY <1>1, <2>2, <2>3
  <2> QED
    BY <2>2, <2>3
<1>3. first \in 1 .. Len(stamps) + 1 /\ Begins(first)
  <2> HIDE DEF Begins
  <2> QED
    BY <1>2
<1>4. Recent(k) = SubSeq(stamps, first, Len(stamps))
  BY DEF Recent
<1> HIDE DEF first, stamps
<1>5. /\ Recent(k) \in Seq(0 .. Horizon)
      /\ Len(Recent(k)) = Len(stamps) - first + 1
      /\ \A i \in 1 .. Len(Recent(k)) : Recent(k)[i] = stamps[first + i - 1]
  <2> DEFINE kept == SubSeq(stamps, first, Len(stamps))
  <2>1. /\ kept \in Seq(0 .. Horizon)
        /\ Len(kept) = Len(stamps) - first + 1
        /\ \A i \in 1 .. Len(stamps) - first + 1 : kept[i] = stamps[first + i - 1]
    BY <1>1, <1>3, SuffixIs
  <2> HIDE DEF kept
  <2> QED
    BY <1>4, <2>1 DEF kept
<1>6. Len(stamps) - Len(Recent(k)) = first - 1 /\ Len(Recent(k)) <= Len(stamps)
  BY <1>1, <1>3, <1>5
<1>7. Recent(k) # <<>> => ~Stale(Recent(k)[1])
  BY <1>1, <1>3, <1>5
<1>8. \A i \in 1 .. Len(Recent(k)) : Recent(k)[i] = stamps[Len(stamps) - Len(Recent(k)) + i]
  BY <1>1, <1>3, <1>5, <1>6
<1>9. \A i \in 1 .. Len(stamps) - Len(Recent(k)) : Stale(stamps[i])
  BY <1>3, <1>6
<1> QED
  BY <1>5, <1>6, <1>7, <1>8, <1>9 DEF stamps

LEMMA InitRate == Init => RateInv
BY TimeAssumption, EmptySeq DEF Init, RateInv, RateTypes, Remembers, Spaced

(* Pruning keeps what a bucket has to remember. *)
LEMMA PrunedRemembers ==
    ASSUME RateInv, NEW k \in Keys
    PROVE  Remembers(history[k], Recent(k), now)
<1> DEFINE admissions == history[k]
           stamps == timestamps[k]
           kept == Recent(k)
<1>1. /\ kept \in Seq(0 .. Horizon) /\ Len(kept) \in Nat /\ Len(kept) <= Len(stamps)
      /\ \A i \in 1 .. Len(kept) : kept[i] = stamps[Len(stamps) - Len(kept) + i]
      /\ \A i \in 1 .. Len(stamps) - Len(kept) : stamps[i] + Window <= now
  BY RecentIs DEF RateInv, Stale
<1>2. /\ Len(stamps) \in Nat /\ Len(admissions) \in Nat /\ Len(stamps) <= Len(admissions)
      /\ \A i \in 1 .. Len(stamps) : stamps[i] = admissions[Len(admissions) - Len(stamps) + i].at
      /\ \A i \in 1 .. Len(admissions) - Len(stamps) : admissions[i].at + Window <= now
  BY DEF RateInv, RateTypes, Remembers
<1> HIDE DEF admissions, stamps, kept
<1>3. \A i \in 1 .. Len(kept) : kept[i] = admissions[Len(admissions) - Len(kept) + i].at
  <2> TAKE i \in 1 .. Len(kept)
  <2>1. Len(stamps) - Len(kept) + i \in 1 .. Len(stamps)
    BY <1>1, <1>2
  <2>2. Len(admissions) - Len(stamps) + (Len(stamps) - Len(kept) + i) = Len(admissions) - Len(kept) + i
    BY <1>1, <1>2
  <2> QED
    BY <1>1, <1>2, <2>1, <2>2
<1>4. \A i \in 1 .. Len(admissions) - Len(kept) : admissions[i].at + Window <= now
  <2> TAKE i \in 1 .. Len(admissions) - Len(kept)
  <2>1. CASE i <= Len(admissions) - Len(stamps)
    BY <1>1, <1>2, <2>1
  <2>2. CASE ~(i <= Len(admissions) - Len(stamps))
    <3> DEFINE j == i - (Len(admissions) - Len(stamps))
    <3>1. j \in 1 .. Len(stamps) - Len(kept) /\ j \in 1 .. Len(stamps)
      BY <1>1, <1>2, <2>2
    <3>2. Len(admissions) - Len(stamps) + j = i
      BY <1>1, <1>2
    <3> HIDE DEF j
    <3> QED
      BY <1>1, <1>2, <3>1, <3>2
  <2> QED
    BY <2>1, <2>2
<1>5. Remembers(admissions, kept, now)
  BY <1>1, <1>2, <1>3, <1>4 DEF Remembers
<1> QED
  BY <1>5 DEF admissions, kept

(* An admission that the pruned bucket has room for keeps both. *)
LEMMA AdmissionSpaced ==
    ASSUME NEW admissions \in Seq(Admission), NEW stamps \in Seq(0 .. Horizon),
           NEW t \in 0 .. Horizon, NEW limit \in Nat, Len(stamps) < limit,
           Remembers(admissions, stamps, t), Spaced(admissions, t)
    PROVE  LET more == Append(admissions, [at |-> t, limit |-> limit])
           IN  more \in Seq(Admission) /\ Remembers(more, Append(stamps, t), t) /\ Spaced(more, t)
<1> DEFINE last == [at |-> t, limit |-> limit]
           more == Append(admissions, last)
           n == Len(admissions)
           m == Len(stamps)
<1>1. /\ last \in Admission /\ last.at = t /\ last.limit = limit
      /\ n \in Nat /\ m \in Nat /\ m <= n /\ t \in Nat /\ Window \in Nat
  BY TimeAssumption DEF Admission, Remembers
<1> HIDE DEF last
<1>2. /\ more \in Seq(Admission) /\ Len(more) = n + 1 /\ more[n + 1] = last
      /\ \A i \in 1 .. n : more[i] = admissions[i]
  BY <1>1, AppendProperties
<1>3. /\ Len(Append(stamps, t)) = m + 1 /\ Append(stamps, t)[m + 1] = t
      /\ \A i \in 1 .. m : Append(stamps, t)[i] = stamps[i]
  BY AppendProperties
<1>4. \A i \in 1 .. n : admissions[i].at \in Nat /\ admissions[i].limit \in Nat
  <2>1. \A i \in 1 .. n : admissions[i] \in Admission
    BY ElementOfSeq
  <2>2. \A e \in Admission : e.at \in Nat /\ e.limit \in Nat
    BY DEF Admission
  <2> QED
    BY <2>1, <2>2
<1>5. /\ \A i \in 1 .. m : stamps[i] = admissions[n - m + i].at
      /\ \A i \in 1 .. n - m : admissions[i].at + Window <= t
  BY DEF Remembers
<1>6. /\ \A i, j \in 1 .. n : i <= j => admissions[i].at <= admissions[j].at
      /\ \A i \in 1 .. n : admissions[i].at <= t
      /\ \A i \in 1 .. n : admissions[i].limit < i =>
             admissions[i - admissions[i].limit].at + Window <= admissions[i].at
  BY DEF Spaced
<1> DEFINE appended == Append(stamps, t)
<1> HIDE DEF more, n, m, appended
<1>7. Remembers(more, appended, t)
  <2>1. \A i \in 1 .. m + 1 : appended[i] = more[(n + 1) - (m + 1) + i].at
    <3> TAKE i \in 1 .. m + 1
    <3>1. CASE i = m + 1
      BY <1>1, <1>2, <1>3, <3>1 DEF appended
    <3>2. CASE i # m + 1
      <4>1. i \in 1 .. m /\ n - m + i \in 1 .. n /\ (n + 1) - (m + 1) + i = n - m + i
        BY <1>1, <3>2
      <4> QED
        BY <1>2, <1>3, <1>5, <4>1 DEF appended
    <3> QED
      BY <3>1, <3>2
  <2>2. \A i \in 1 .. (n + 1) - (m + 1) : more[i].at + Window <= t
    BY <1>1, <1>2, <1>5
  <2>3. Len(more) = n + 1 /\ Len(appended) = m + 1
    BY <1>2, <1>3 DEF appended
  <2>4. Len(appended) <= Len(more)
    BY <1>1, <2>3
  <2>5. \A i \in 1 .. Len(appended) : appended[i] = more[Len(more) - Len(appended) + i].at
    BY <2>1, <2>3
  <2>6. \A i \in 1 .. Len(more) - Len(appended) : more[i].at + Window <= t
    BY <2>2, <2>3
  <2> QED
    BY <2>4, <2>5, <2>6 DEF Remembers
<1>8. Spaced(more, t)
  <2>1. \A i, j \in 1 .. n + 1 : i <= j => more[i].at <= more[j].at
    <3> TAKE i, j \in 1 .. n + 1
    <3>1. CASE j = n + 1
      <4>1. more[i].at <= t
        BY <1>1, <1>2, <1>6
      <4> QED
        BY <1>1, <1>2, <3>1, <4>1
    <3>2. CASE j # n + 1
      <4> SUFFICES ASSUME i <= j PROVE more[i].at <= more[j].at
        OBVIOUS
      <4>1. i \in 1 .. n /\ j \in 1 .. n
        BY <1>1, <3>2
      <4> QED
        BY <1>2, <1>6, <4>1
    <3> QED
      BY <3>1, <3>2
  <2>2. ASSUME NEW i \in 1 .. n + 1
        PROVE  /\ more[i].at <= t
               /\ more[i].limit < i => more[i - more[i].limit].at + Window <= more[i].at
    <3>1. CASE i = n + 1
      <4>1. more[i] = last
        BY <1>2, <3>1
      <4>2. ASSUME limit < i PROVE more[i - limit].at + Window <= t
        <5>1. i - limit \in 1 .. n - m /\ i - limit \in 1 .. n
          BY <1>1, <3>1, <4>2 DEF m
        <5> QED
          BY <1>2, <1>5, <5>1
      <4> QED
        BY <1>1, <4>1, <4>2
    <3>2. CASE i # n + 1
      <4>1. i \in 1 .. n /\ more[i] = admissions[i]
        BY <1>1, <1>2, <3>2
      <4>2. ASSUME more[i].limit < i
            PROVE  more[i - more[i].limit].at + Window <= more[i].at
        <5>1. admissions[i].limit \in Nat /\ i - admissions[i].limit \in 1 .. n
          BY <1>1, <1>4, <4>1, <4>2
        <5> QED
          BY <1>2, <1>6, <4>1, <4>2, <5>1
      <4> QED
        BY <1>6, <4>1, <4>2
    <3> QED
      BY <3>1, <3>2
  <2> QED
    BY <1>2, <2>1, <2>2 DEF Spaced
<1> QED
  BY <1>2, <1>7, <1>8 DEF more, last, appended

LEMMA CapturedRate ==
    ASSUME NEW c \in Configs, NEW k \in Keys
    PROVE  c[k].requests_per_minute \in Nat \cup {None}
BY ConfigsAssumption DEF LimitConfigs, Limit

LEMMA AdmitRate ==
    ASSUME RateInv, CaptureTypes, NEW r \in Requests, Admit(r)
    PROVE  RateInv'
<1> DEFINE rate(k) == captured[r][k].requests_per_minute
           rated == {k \in Specs(r) : rate(k) # None}
<1>1. /\ now' = now
      /\ timestamps' = [k \in Keys |-> IF k \in rated THEN Append(Recent(k), now)
                                      ELSE IF k \in Specs(r) THEN Recent(k)
                                      ELSE timestamps[k]]
      /\ history' = [k \in Keys |-> IF k \in rated
                                    THEN Append(history[k], [at |-> now, limit |-> rate(k)])
                                    ELSE history[k]]
  BY DEF Admit
<1>2. now \in 0 .. Horizon
  BY DEF RateInv, RateTypes
<1>3. ASSUME NEW k \in Keys
      PROVE  /\ timestamps'[k] \in Seq(0 .. Horizon) /\ history'[k] \in Seq(Admission)
             /\ Remembers(history'[k], timestamps'[k], now) /\ Spaced(history'[k], now)
  <2>1. /\ Recent(k) \in Seq(0 .. Horizon) /\ Remembers(history[k], Recent(k), now)
        /\ timestamps[k] \in Seq(0 .. Horizon) /\ history[k] \in Seq(Admission)
        /\ Remembers(history[k], timestamps[k], now) /\ Spaced(history[k], now)
    BY RecentIs, PrunedRemembers DEF RateInv, RateTypes
  <2>2. CASE k \in rated
    <3>1. rate(k) \in Nat
      BY <2>2, CapturedRate DEF CaptureTypes, Admit
    <3>2. Len(Recent(k)) < rate(k)
      BY <2>2 DEF Admit, Fits, HasRate
    <3>3. /\ timestamps'[k] = Append(Recent(k), now)
          /\ history'[k] = Append(history[k], [at |-> now, limit |-> rate(k)])
      BY <1>1, <2>2
    <3>4. timestamps'[k] \in Seq(0 .. Horizon)
      BY <1>2, <2>1, <3>3, AppendProperties
    <3> HIDE DEF rate, rated
    <3> QED
      BY <1>2, <2>1, <3>1, <3>2, <3>3, <3>4, AdmissionSpaced
  <2>3. CASE k \notin rated
    <3>1. history'[k] = history[k] /\ timestamps'[k] \in {Recent(k), timestamps[k]}
      BY <1>1, <2>3
    <3> QED
      BY <2>1, <3>1
  <2> QED
    BY <2>2, <2>3
<1>4. timestamps' \in [Keys -> Seq(0 .. Horizon)] /\ history' \in [Keys -> Seq(Admission)]
  <2> HIDE DEF rated
  <2>1. /\ timestamps' = [k \in Keys |-> timestamps'[k]]
        /\ history' = [k \in Keys |-> history'[k]]
    BY <1>1
  <2> QED
    BY <1>3, <2>1
<1> QED
  BY <1>1, <1>2, <1>3, <1>4 DEF RateInv, RateTypes

LEMMA RejectRate ==
    ASSUME RateInv, NEW r \in Requests, Reject(r)
    PROVE  RateInv'
<1>1. /\ UNCHANGED <<now, history>>
      /\ timestamps' = [k \in Keys |-> IF k \in LookedAt(r) THEN Recent(k) ELSE timestamps[k]]
  BY DEF Reject
<1>2. ASSUME NEW k \in Keys
      PROVE  timestamps'[k] \in Seq(0 .. Horizon) /\ Remembers(history[k], timestamps'[k], now)
  <2>1. timestamps'[k] \in {Recent(k), timestamps[k]}
    BY <1>1
  <2> QED
    BY <2>1, RecentIs, PrunedRemembers DEF RateInv, RateTypes
<1> QED
  BY <1>1, <1>2 DEF RateInv, RateTypes

LEMMA TickRate ==
    ASSUME RateInv, Tick
    PROVE  RateInv'
<1>1. /\ now' = now + 1 /\ now' \in 0 .. Horizon /\ now \in Nat /\ Window \in Nat
      /\ UNCHANGED <<timestamps, history>>
  BY TimeAssumption DEF Tick, buckets, RateInv, RateTypes
<1>2. ASSUME NEW k \in Keys
      PROVE  Remembers(history[k], timestamps[k], now') /\ Spaced(history[k], now')
  <2>1. history[k] \in Seq(Admission) /\ Len(history[k]) \in Nat /\ Len(timestamps[k]) \in Nat
    BY DEF RateInv, RateTypes
  <2>2. \A i \in 1 .. Len(history[k]) : history[k][i].at \in Nat
    <3>1. \A i \in 1 .. Len(history[k]) : history[k][i] \in Admission
      BY <2>1, ElementOfSeq
    <3> QED
      BY <3>1 DEF Admission
  <2>3. Remembers(history[k], timestamps[k], now) /\ Spaced(history[k], now)
    BY DEF RateInv
  <2>4. Remembers(history[k], timestamps[k], now')
    <3>1. ASSUME NEW i \in 1 .. Len(history[k]) - Len(timestamps[k])
          PROVE  history[k][i].at + Window <= now'
      <4>1. history[k][i].at \in Nat /\ history[k][i].at + Window <= now
        BY <2>1, <2>2, <2>3 DEF Remembers
      <4> QED
        BY <1>1, <4>1
    <3> QED
      BY <2>3, <3>1 DEF Remembers
  <2>5. \A i \in 1 .. Len(history[k]) : history[k][i].at <= now'
    <3> TAKE i \in 1 .. Len(history[k])
    <3>1. history[k][i].at <= now
      BY <2>3 DEF Spaced
    <3> QED
      BY <1>1, <2>2, <3>1
  <2> QED
    BY <2>3, <2>4, <2>5 DEF Spaced
<1> QED
  BY <1>1, <1>2 DEF RateInv, RateTypes

LEMMA NextRate ==
    ASSUME RateInv, CaptureTypes, [Next]_vars
    PROVE  RateInv'
<1>1. ASSUME NEW r \in Requests, Capture(r) \/ Bypass(r) \/ Release(r) \/ End(r)
      PROVE  RateInv'
  <2>1. UNCHANGED <<now, timestamps, history>>
    BY <1>1 DEF Capture, Bypass, Release, End, buckets
  <2> QED
    BY <2>1 DEF RateInv, RateTypes
<1>2. CASE Reconfigure \/ UNCHANGED vars
  <2>1. UNCHANGED <<now, timestamps, history>>
    BY <1>2 DEF Reconfigure, buckets, vars
  <2> QED
    BY <2>1 DEF RateInv, RateTypes
<1> QED
  BY <1>1, <1>2, AdmitRate, RejectRate, TickRate DEF Next

(* The last l of n places. *)
LEMMA LastPlaces ==
    ASSUME NEW n \in Nat, NEW l \in Nat
    PROVE  IsFiniteSet(n - l + 1 .. n) /\ Cardinality(n - l + 1 .. n) = l
<1>1. n - l + 1 \in Int /\ n \in Int
  OBVIOUS
<1> QED
  BY <1>1, FS_Interval

LEMMA AtMost ==
    ASSUME NEW n \in Nat, NEW l \in Nat, NEW S \in SUBSET (n - l + 1 .. n)
    PROVE  IsFiniteSet(S) /\ Cardinality(S) \in Nat /\ Cardinality(S) <= l
<1> DEFINE places == n - l + 1 .. n
<1>1. IsFiniteSet(places) /\ Cardinality(places) = l /\ S \subseteq places
  BY LastPlaces
<1> HIDE DEF places
<1> QED
  BY <1>1, FS_Subset, FS_CardinalityType

(* In every window of a minute, wherever it begins, a bucket admits at     *)
(* most what the limit of the latest admission of the window allows.       *)
THEOREM WindowsFit == Spec => []EveryWindowFits
<1> DEFINE Inv == SlotsInv /\ CaptureTypes /\ RateInv
<1>1. Init => Inv
  BY InitSlots, InitRate DEF Init, CaptureTypes
<1>2. Inv /\ [Next]_vars => Inv'
  BY NextSlots, NextCapture, NextRate DEF SlotsInv
<1>3. RateInv => EveryWindowFits
  <2> SUFFICES ASSUME RateInv, NEW k \in Keys, NEW t \in 0 .. Horizon, NEW i \in InWindow(k, t),
                      \A j \in InWindow(k, t) : j <= i
               PROVE  Cardinality(InWindow(k, t)) <= history[k][i].limit
    BY DEF EveryWindowFits
  <2> DEFINE h == history[k]
  <2>1. /\ h \in Seq(Admission) /\ Len(h) \in Nat /\ DOMAIN h = 1 .. Len(h)
        /\ \A j \in 1 .. Len(h) : h[j].at \in Nat /\ h[j].limit \in Nat
    <3>1. h \in Seq(Admission)
      BY DEF RateInv, RateTypes
    <3>2. \A j \in 1 .. Len(h) : h[j] \in Admission
      BY <3>1, ElementOfSeq
    <3> QED
      BY <3>1, <3>2, LenProperties DEF Admission
  <2>2. /\ \A j \in InWindow(k, t) : j \in 1 .. Len(h) /\ h[j].at <= t /\ t < h[j].at + Window
        /\ i \in 1 .. Len(h)
    BY <2>1 DEF InWindow
  <2>3. Spaced(h, now)
    BY DEF RateInv
  <2> HIDE DEF h
  <2>4. ASSUME NEW j \in InWindow(k, t) PROVE j \in i - h[i].limit + 1 .. i
    <3>1. j \in 1 .. Len(h) /\ j <= i
      BY <2>2
    <3>2. SUFFICES ASSUME j <= i - h[i].limit PROVE FALSE
      BY <2>1, <2>2, <3>1
    <3> DEFINE m == i - h[i].limit
    <3>3. m \in 1 .. Len(h) /\ h[m].at + Window <= h[i].at /\ h[j].at <= h[m].at
      BY <2>1, <2>2, <2>3, <3>1, <3>2 DEF Spaced
    <3>4. h[j].at \in Nat /\ h[m].at \in Nat /\ h[i].at \in Nat /\ Window \in Nat /\ t \in Nat
      BY <2>1, <2>2, <3>1, <3>3, TimeAssumption
    <3>5. h[i].at <= t /\ t < h[j].at + Window
      BY <2>2
    <3> HIDE DEF m
    <3> QED
      BY <3>3, <3>4, <3>5
  <2>5. i \in Nat /\ h[i].limit \in Nat
    BY <2>1, <2>2
  <2>6. InWindow(k, t) \in SUBSET (i - h[i].limit + 1 .. i)
    BY <2>4
  <2> QED
    BY <2>5, <2>6, AtMost DEF h
<1> QED
  BY <1>1, <1>2, <1>3, PTL DEF Spec

(* A rejection is due: what fills the bucket are leases in force, or       *)
(* admissions of the last minute.                                          *)
LEMMA RejectionIsDue ==
    ASSUME SlotsInv, RateInv, CaptureTypes, NEW r \in Requests, pc[r] = "captured",
           NEW k \in Specs(r), ~Fits(r, k)
    PROVE  \/ /\ captured[r][k].max_concurrent # None
              /\ Cardinality(Holders(k)) >= captured[r][k].max_concurrent
           \/ /\ captured[r][k].requests_per_minute # None
              /\ Cardinality(InWindow(k, now)) >= captured[r][k].requests_per_minute
<1>1. k \in Keys /\ captured[r] \in Configs
  BY DEF Specs, CaptureTypes
<1>2. CASE ~HasSlot(r, k)
  <2>1. captured[r][k].max_concurrent \in Nat /\ ~(active[k] < captured[r][k].max_concurrent)
    BY <1>1, <1>2, CapturedLimit DEF HasSlot
  <2>2. active[k] = Cardinality(Holders(k)) /\ active[k] \in Nat
    BY <1>1 DEF SlotsInv, LeaseTypes, SlotsAreAccountedFor
  <2> QED
    BY <2>1, <2>2, KeysAssumption
<1>3. CASE ~HasRate(r, k)
  <2> DEFINE limit == captured[r][k].requests_per_minute
             h == history[k]
             kept == Recent(k)
  <2>1. limit \in Nat /\ limit # None /\ ~(Len(kept) < limit)
    BY <1>1, <1>3, CapturedRate DEF HasRate
  <2>2. /\ kept \in Seq(0 .. Horizon) /\ Len(kept) \in Nat
        /\ kept # <<>> => kept[1] + Window > now
    <3>1. /\ kept \in Seq(0 .. Horizon)
          /\ kept # <<>> => ~(kept[1] + Window <= now)
      BY <1>1, RecentIs DEF RateInv, Stale
    <3>2. kept # <<>> => kept[1] \in 0 .. Horizon
      <4>1. ASSUME NEW s \in Seq(0 .. Horizon), s # <<>> PROVE s[1] \in 0 .. Horizon
        <5>1. Len(s) \in Nat \ {0}
          BY <4>1, EmptySeq
        <5>2. 1 \in 1 .. Len(s)
          BY <5>1
        <5> QED
          BY <5>2, ElementOfSeq
      <4> QED
        BY <3>1, <4>1
    <3>3. now \in Nat /\ Window \in Nat
      BY TimeAssumption DEF RateInv, RateTypes
    <3> HIDE DEF kept
    <3>4. Len(kept) \in Nat
      BY <3>1
    <3> QED
      BY <3>1, <3>2, <3>3, <3>4
  <2>3. Remembers(h, kept, now) /\ Spaced(h, now) /\ h \in Seq(Admission) /\ Len(h) \in Nat
    BY <1>1, PrunedRemembers DEF RateInv, RateTypes
  <2>4. \A i \in 1 .. Len(h) : h[i].at \in Nat
    <3>1. \A i \in 1 .. Len(h) : h[i] \in Admission
      BY <2>3, ElementOfSeq
    <3> QED
      BY <3>1 DEF Admission
  <2> HIDE DEF h, kept, limit
  <2>5. ASSUME NEW i \in Len(h) - Len(kept) + 1 .. Len(h)
        PROVE  i \in InWindow(k, now)
    <3> DEFINE m == Len(h) - Len(kept) + 1
    <3>1. Len(kept) <= Len(h) /\ Len(kept) >= 1 /\ m \in 1 .. Len(h) /\ i \in 1 .. Len(h) /\ m <= i
      BY <2>2, <2>3, <2>5 DEF Remembers
    <3>2. kept[1] = h[m].at /\ kept # <<>>
      BY <2>2, <2>3, <3>1 DEF Remembers
    <3>3. h[m].at <= h[i].at /\ h[i].at <= now
      BY <2>3, <3>1 DEF Spaced
    <3>4. now \in Nat /\ Window \in Nat /\ h[i].at \in Nat /\ h[m].at \in Nat
      BY <2>4, <3>1, TimeAssumption DEF RateInv, RateTypes
    <3> HIDE DEF m
    <3>5. now < h[i].at + Window
      BY <2>2, <3>2, <3>3, <3>4
    <3>6. i \in DOMAIN h
      BY <2>3, <3>1
    <3> QED
      BY <3>3, <3>5, <3>6 DEF InWindow, h
  <2>6. IsFiniteSet(InWindow(k, now))
    <3>1. InWindow(k, now) \subseteq 1 .. Len(h)
      BY <2>3 DEF InWindow, h
    <3>2. IsFiniteSet(1 .. Len(h))
      BY <2>3, FS_Interval
    <3> QED
      BY <3>1, <3>2, FS_Subset
  <2>7. Cardinality(Len(h) - Len(kept) + 1 .. Len(h)) = Len(kept)
    BY <2>2, <2>3, LastPlaces
  <2>8. Len(kept) <= Cardinality(InWindow(k, now)) /\ Cardinality(InWindow(k, now)) \in Nat
    BY <2>5, <2>6, <2>7, FS_Subset, FS_CardinalityType
  <2>9. Cardinality(InWindow(k, now)) >= limit
    BY <2>1, <2>2, <2>8
  <2> QED
    BY <2>1, <2>9 DEF limit
<1> QED
  BY <1>2, <1>3 DEF Fits

(* No request is turned away while there is room for it: stale timestamps, *)
(* repeated releases and limits that were changed meanwhile take no room.  *)
THEOREM RejectionsDue == Spec => RejectionsAreDue
<1> DEFINE Inv == SlotsInv /\ CaptureTypes /\ RateInv
           Full(r, k) ==
             \/ /\ captured[r][k].max_concurrent # None
                /\ Cardinality(Holders(k)) >= captured[r][k].max_concurrent
             \/ /\ captured[r][k].requests_per_minute # None
                /\ Cardinality(InWindow(k, now)) >= captured[r][k].requests_per_minute
           Due == \A r \in Requests :
                    pc[r] = "captured" /\ pc'[r] = "rejected" => \E k \in Specs(r) : Full(r, k)
<1>1. Init => Inv
  BY InitSlots, InitRate DEF Init, CaptureTypes
<1>2. Inv /\ [Next]_vars => Inv'
  BY NextSlots, NextCapture, NextRate DEF SlotsInv
<1>3. Inv /\ [Next]_vars => [Due]_vars
  <2> SUFFICES ASSUME Inv, Next, NEW r \in Requests, pc[r] = "captured", pc'[r] = "rejected"
               PROVE  \E k \in Specs(r) : Full(r, k)
    BY DEF vars
  <2>1. \E k \in Specs(r) : ~Fits(r, k)
    <3>1. pc \in [Requests -> {"idle", "captured", "held", "rejected", "released"}]
      BY DEF SlotsInv, LeaseTypes
    <3> QED
      BY <3>1 DEF Next, Capture, Bypass, Reject, Admit, Release, End, Reconfigure, Tick, requests
  <2> QED
    BY <2>1, RejectionIsDue
<1> QED
  BY <1>1, <1>2, <1>3, PTL DEF Spec, RejectionsAreDue

(* Every variable keeps its type. *)
THEOREM TypeCorrect == Spec => []TypeOK
<1> DEFINE ToolType == tool \in [Requests -> Tools \cup {None}]
           Inv == SlotsInv /\ CaptureTypes /\ RateInv /\ ToolType
<1>1. Init => Inv
  BY InitSlots, InitRate DEF Init, CaptureTypes
<1>2. Inv /\ [Next]_vars => Inv'
  <2> SUFFICES ASSUME Inv, [Next]_vars PROVE ToolType'
    BY NextSlots, NextCapture, NextRate DEF SlotsInv
  <2> QED
    BY DEF Next, Capture, Bypass, Reject, Admit, Release, End, Reconfigure, Tick, Forget, requests,
           vars
<1>3. Inv => TypeOK
  BY DEF TypeOK, SlotsInv, LeaseTypes, CaptureTypes, RateInv, RateTypes
<1> QED
  BY <1>1, <1>2, <1>3, PTL DEF Spec
=============================================================================
