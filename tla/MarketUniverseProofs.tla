------------------------ MODULE MarketUniverseProofs ------------------------
(***************************************************************************)
(* A universe that is called full has every market there was to be read, for *)
(* any listing, page size and slice, and any number of failures and restarts. *)
(***************************************************************************)
EXTENDS MarketUniverse, SequenceTheorems, TLAPS

\* A walk has what it has to find, or has not come to it yet: it is on the list at a
\* position behind the pages that were read.
StillListed(m) == \E i \in DOMAIN listing : i > fetch.offset /\ listing[i] = m

Walking == pc = "fetch" \/ refresh = "fetch"

\* What was fetched, between the last page and its use.
Fetched == pc = "store" \/ refresh \in {"seed", "store", "done"}

WalkInv ==
    /\ Walking => \A m \in fetch.asof \ resolved : m \in fetch.got \/ StillListed(m)
    /\ Fetched => fetch.asof \ resolved \subseteq fetch.got

UniverseInv == TypeOK /\ WalkInv /\ FullHasAll

-----------------------------------------------------------------------------
(* The list and its pages *)

\* Removing a row moves the rows behind it up by one.
LEMMA RemovedRow ==
    ASSUME NEW S, NEW s \in Seq(S), NEW i \in DOMAIN s
    PROVE  /\ RemoveAt(s, i) \in Seq(S)
           /\ Len(RemoveAt(s, i)) = Len(s) - 1
           /\ \A j \in 1 .. Len(s) - 1 : RemoveAt(s, i)[j] = IF j < i THEN s[j] ELSE s[j + 1]
<1> DEFINE before == SubSeq(s, 1, i - 1)
           after == SubSeq(s, i + 1, Len(s))
<1>1. i \in 1 .. Len(s) /\ Len(s) \in Nat /\ \A j \in 1 .. Len(s) : s[j] \in S
  OBVIOUS
<1>2. /\ before \in Seq(S) /\ Len(before) = i - 1
      /\ \A j \in 1 .. i - 1 : before[j] = s[j]
  <2>1. \A j \in 1 .. i - 1 : s[j] \in S
    BY <1>1
  <2> QED
    BY <1>1, <2>1, SubSeqProperties
<1>3. /\ after \in Seq(S) /\ Len(after) = Len(s) - i
      /\ \A j \in 1 .. Len(s) - i : after[j] = s[i + j]
  <2>1. \A j \in i + 1 .. Len(s) : s[j] \in S
    BY <1>1
  <2> QED
    BY <1>1, <2>1, SubSeqProperties
<1>4. RemoveAt(s, i) = before \o after
  BY DEF RemoveAt
<1> HIDE DEF before, after
<1>5. /\ before \o after \in Seq(S)
      /\ Len(before \o after) = Len(before) + Len(after)
      /\ \A j \in 1 .. Len(before) + Len(after) :
             (before \o after)[j] = IF j <= Len(before) THEN before[j]
                                    ELSE after[j - Len(before)]
  BY <1>2, <1>3, ConcatProperties
<1>6. ASSUME NEW j \in 1 .. Len(s) - 1
      PROVE  (before \o after)[j] = IF j < i THEN s[j] ELSE s[j + 1]
  <2>1. CASE j < i
    <3>1. j \in 1 .. Len(before) + Len(after) /\ j <= Len(before) /\ j \in 1 .. i - 1
      BY <2>1, <1>1, <1>2, <1>3
    <3>2. (before \o after)[j] = before[j]
      BY <3>1, <1>5
    <3>3. before[j] = s[j]
      BY <3>1, <1>2
    <3> QED
      BY <2>1, <3>2, <3>3
  <2>2. CASE ~ (j < i)
    <3>1. (before \o after)[j] = after[j - (i - 1)]
      <4>1. j \in 1 .. Len(before) + Len(after) /\ ~ (j <= Len(before))
        BY <2>2, <1>1, <1>2, <1>3
      <4>2. (before \o after)[j] = after[j - Len(before)]
        BY <4>1, <1>5
      <4> QED
        BY <4>2, <1>2
    <3>2. j - (i - 1) \in 1 .. Len(s) - i
      BY <2>2, <1>1
    <3>3. after[j - (i - 1)] = s[i + (j - (i - 1))]
      BY <3>2, <1>3
    <3>4. i + (j - (i - 1)) = j + 1
      BY <1>1
    <3> QED
      BY <2>2, <3>1, <3>3, <3>4
  <2> QED
    BY <2>1, <2>2
<1>7. Len(before \o after) = Len(s) - 1
  BY <1>1, <1>2, <1>3, <1>5
<1> QED
  BY <1>4, <1>5, <1>6, <1>7, Zenon

\* A page has the rows behind the offset, and all that are left if it is not a full one.
LEMMA PageRows ==
    ASSUME TypeOK
    PROVE  /\ Range(Page) \subseteq Markets
           /\ \A j \in DOMAIN listing :
                  (j > fetch.offset /\ j <= fetch.offset + PageSize) => listing[j] \in Range(Page)
           /\ LastPage(Page) =>
                  \A j \in DOMAIN listing : j > fetch.offset => listing[j] \in Range(Page)
<1> DEFINE end == fetch.offset + PageSize
           last == IF end < Len(listing) THEN end ELSE Len(listing)
           start == fetch.offset + 1
<1>1. listing \in Seq(Markets) /\ fetch.offset \in Nat /\ PageSize \in Nat \ {0}
  BY UniverseAssumption DEF TypeOK, Fetches
<1>2. /\ Len(listing) \in Nat /\ DOMAIN listing = 1 .. Len(listing)
      /\ \A j \in 1 .. Len(listing) : listing[j] \in Markets
  BY <1>1
<1>3. start \in Int /\ last \in Int /\ last <= Len(listing) /\ start >= 1
  BY <1>1, <1>2
<1>4. \A j \in start .. last : listing[j] \in Markets
  BY <1>2, <1>3
<1>5. Page = SubSeq(listing, start, last)
  BY DEF Page
<1> HIDE DEF start, last
<1>6. /\ Page \in Seq(Markets)
      /\ Len(Page) = IF start <= last THEN last - start + 1 ELSE 0
      /\ \A j \in 1 .. last - start + 1 : Page[j] = listing[start + j - 1]
  BY <1>3, <1>4, <1>5, SubSeqProperties
<1>7. ASSUME NEW j \in start .. last
      PROVE  listing[j] \in Range(Page)
  <2>1. j - start + 1 \in 1 .. last - start + 1 /\ start + (j - start + 1) - 1 = j
    BY <1>3
  <2>2. Page[j - start + 1] = listing[j]
    BY <2>1, <1>6
  <2>3. j - start + 1 \in DOMAIN Page
    BY <2>1, <1>3, <1>6
  <2> QED
    BY <2>2, <2>3 DEF Range
<1>8. Range(Page) \subseteq Markets
  BY <1>6 DEF Range
<1>9. ASSUME NEW j \in DOMAIN listing, j > fetch.offset, j <= end
      PROVE  listing[j] \in Range(Page)
  <2>1. j \in start .. last
    BY <1>1, <1>2, <1>9 DEF start, last
  <2> QED
    BY <2>1, <1>7
<1>10. ASSUME LastPage(Page), NEW j \in DOMAIN listing, j > fetch.offset
       PROVE  listing[j] \in Range(Page)
  <2>1. last = Len(listing)
    <3>1. SUFFICES ASSUME end < Len(listing) PROVE FALSE
      BY <1>1, <1>2 DEF last
    <3>2. last - start + 1 = PageSize /\ start <= last
      BY <3>1, <1>1 DEF last, start
    <3> QED
      BY <3>2, <1>1, <1>6, <1>10 DEF LastPage
  <2>2. j \in start .. last
    BY <2>1, <1>1, <1>2, <1>10 DEF start
  <2> QED
    BY <2>2, <1>7
<1> QED
  BY <1>8, <1>9, <1>10

-----------------------------------------------------------------------------
(* The walk *)

\* A page brings the walk on: what it has to find is read or still to come, and is read
\* when the page was the last one.
LEMMA PageReadOn ==
    ASSUME TypeOK, WalkInv, Walking, NEW last \in BOOLEAN, ReadPage(last), UNCHANGED listing
    PROVE  /\ fetch' \in Fetches /\ fetch'.asof = fetch.asof
           /\ last => fetch.asof \ resolved \subseteq fetch'.got
           /\ ~ last => \A m \in fetch.asof \ resolved : m \in fetch'.got \/ StillListed(m)'
<1> DEFINE read == fetch.got \cup Range(Page)
           next == IF last THEN 0 ELSE fetch.offset + PageSize
<1>1. fetch \in Fetches /\ fetch.offset \in Nat /\ fetch.got \subseteq Markets
  BY DEF TypeOK, Fetches
<1>2. read \in SUBSET Markets
  BY <1>1, PageRows
<1>3. next \in Nat
  BY <1>1, UniverseAssumption
<1>4. last = LastPage(Page)
  BY DEF ReadPage
<1>5. fetch' = [fetch EXCEPT !.got = read, !.offset = next]
  BY Zenon DEF ReadPage
<1>6. fetch' \in Fetches /\ fetch'.got = read /\ fetch'.offset = next /\ fetch'.asof = fetch.asof
  <2> HIDE DEF read, next
  <2> DEFINE mid == [fetch EXCEPT !.got = read]
  <2>1. mid \in Fetches /\ mid.got = read /\ mid.asof = fetch.asof
    BY <1>1, <1>2, Zenon DEF Fetches
  <2>2. fetch' = [mid EXCEPT !.offset = next]
    BY <1>5, Zenon
  <2> HIDE DEF mid
  <2>3. /\ fetch' \in Fetches /\ fetch'.offset = next /\ fetch'.got = mid.got
        /\ fetch'.asof = mid.asof
    BY <1>3, <2>1, <2>2, Zenon DEF Fetches
  <2> QED
    BY <2>1, <2>3
<1>7. ASSUME NEW m \in fetch.asof \ resolved
      PROVE  /\ last => m \in read
             /\ ~ last => m \in read \/ StillListed(m)'
  <2>1. CASE m \in fetch.got
    BY <2>1
  <2>2. CASE StillListed(m)
    <3>1. PICK i \in DOMAIN listing : i > fetch.offset /\ listing[i] = m
      BY <2>2 DEF StillListed
    <3>2. i \in Nat
      BY <3>1 DEF TypeOK
    <3>3. CASE last
      BY <3>1, <3>3, <1>4, PageRows
    <3>4. CASE ~ last /\ i <= fetch.offset + PageSize
      BY <3>1, <3>4, PageRows
    <3>5. CASE ~ last /\ ~ (i <= fetch.offset + PageSize)
      <4>1. i > fetch'.offset /\ listing' = listing
        BY <3>2, <3>5, <1>1, <1>3, <1>6, UniverseAssumption
      <4> QED
        BY <3>1, <3>5, <4>1 DEF StillListed
    <3> QED
      BY <3>3, <3>4, <3>5
  <2> QED
    BY <2>1, <2>2 DEF WalkInv
<1> QED
  BY <1>6, <1>7

\* A market that comes is before or behind all others, and moves none over the offset.
LEMMA ListingGrows ==
    ASSUME TypeOK, NEW m \in Markets, ListMarket(m)
    PROVE  /\ listing' \in Seq(Markets) /\ IsInjective(listing')
           /\ \A n : StillListed(n) => StillListed(n)'
<1>1. listing \in Seq(Markets) /\ fetch' = fetch /\ fetch.offset \in Nat
  BY DEF TypeOK, Fetches, ListMarket
<1>2. \A i \in DOMAIN listing : listing[i] # m
  BY DEF ListMarket, Range
<1>3. IsInjective(listing)
  BY DEF TypeOK
<1>4. CASE listing' = <<m>> \o listing
  <2>1. <<m>> \in Seq(Markets) /\ Len(<<m>>) = 1 /\ <<m>>[1] = m
    OBVIOUS
  <2>2. /\ listing' \in Seq(Markets) /\ Len(listing') = 1 + Len(listing)
        /\ \A i \in 1 .. 1 + Len(listing) :
               listing'[i] = IF i <= 1 THEN <<m>>[i] ELSE listing[i - 1]
    BY <1>1, <1>4, <2>1, ConcatProperties
  <2>3. /\ DOMAIN listing' = 1 .. 1 + Len(listing) /\ Len(listing) \in Nat
        /\ DOMAIN listing = 1 .. Len(listing)
    BY <1>1, <2>2
  <2>4. listing'[1] = m /\ \A i \in DOMAIN listing : listing'[i + 1] = listing[i]
    BY <2>1, <2>2, <2>3
  <2>5. ASSUME NEW a \in DOMAIN listing', NEW b \in DOMAIN listing', listing'[a] = listing'[b]
        PROVE  a = b
    <3>1. CASE a = 1 /\ b = 1
      BY <3>1
    <3>2. CASE a = 1 /\ b # 1
      <4>1. b - 1 \in DOMAIN listing /\ listing'[b] = listing[b - 1]
        BY <2>2, <2>3, <3>2
      <4> QED
        BY <1>2, <2>4, <2>5, <3>2, <4>1
    <3>3. CASE a # 1 /\ b = 1
      <4>1. a - 1 \in DOMAIN listing /\ listing'[a] = listing[a - 1]
        BY <2>2, <2>3, <3>3
      <4> QED
        BY <1>2, <2>4, <2>5, <3>3, <4>1
    <3>4. CASE a # 1 /\ b # 1
      <4>1. /\ a - 1 \in DOMAIN listing /\ listing'[a] = listing[a - 1]
            /\ b - 1 \in DOMAIN listing /\ listing'[b] = listing[b - 1]
        BY <2>2, <2>3, <3>4
      <4>2. a - 1 = b - 1
        BY <1>3, <2>5, <4>1 DEF IsInjective
      <4> QED
        BY <4>2, <2>3
    <3> QED
      BY <3>1, <3>2, <3>3, <3>4
  <2>6. ASSUME NEW n, NEW i \in DOMAIN listing, i > fetch.offset, listing[i] = n
        PROVE  StillListed(n)'
    <3>1. i + 1 \in DOMAIN listing' /\ i + 1 > fetch'.offset /\ listing'[i + 1] = n
      BY <1>1, <2>3, <2>4, <2>6
    <3> QED
      BY <3>1 DEF StillListed
  <2> QED
    BY <2>2, <2>5, <2>6 DEF IsInjective, StillListed
<1>5. CASE listing' = Append(listing, m)
  <2>1. /\ listing' \in Seq(Markets) /\ Len(listing') = Len(listing) + 1
        /\ \A i \in 1 .. Len(listing) : listing'[i] = listing[i]
        /\ listing'[Len(listing) + 1] = m
    BY <1>1, <1>5, AppendProperties
  <2>2. /\ DOMAIN listing' = 1 .. Len(listing) + 1 /\ Len(listing) \in Nat
        /\ DOMAIN listing = 1 .. Len(listing)
    BY <1>1, <2>1
  <2>3. ASSUME NEW a \in DOMAIN listing', NEW b \in DOMAIN listing', listing'[a] = listing'[b]
        PROVE  a = b
    <3>1. \A i \in DOMAIN listing' : i \in DOMAIN listing \/ i = Len(listing) + 1
      BY <2>2
    <3> QED
      BY <3>1, <2>1, <2>2, <2>3, <1>2, <1>3 DEF IsInjective
  <2>4. ASSUME NEW n, NEW i \in DOMAIN listing, i > fetch.offset, listing[i] = n
        PROVE  StillListed(n)'
    <3>1. i \in DOMAIN listing' /\ i > fetch'.offset /\ listing'[i] = n
      BY <1>1, <2>1, <2>2, <2>4
    <3> QED
      BY <3>1 DEF StillListed
  <2> QED
    BY <2>1, <2>3, <2>4 DEF IsInjective, StillListed
<1> QED
  BY <1>4, <1>5 DEF ListMarket

\* A row that goes hides at most the one that slides over the offset.
LEMMA ListingShrinks ==
    ASSUME TypeOK, NEW i \in DOMAIN listing, ResolveMarket(i)
    PROVE  /\ listing' \in Seq(Markets) /\ IsInjective(listing')
           /\ fetch' \in Fetches /\ fetch'.got = fetch.got
           /\ fetch'.asof \subseteq fetch.asof
           /\ \A m \in fetch'.asof \ resolved' : StillListed(m) => StillListed(m)'
<1>1. /\ listing \in Seq(Markets) /\ IsInjective(listing)
      /\ fetch \in Fetches /\ fetch.offset \in Nat
  BY DEF TypeOK, Fetches
<1>2. /\ listing' \in Seq(Markets)
      /\ Len(listing') = Len(listing) - 1
      /\ \A j \in 1 .. Len(listing) - 1 :
             listing'[j] = IF j < i THEN listing[j] ELSE listing[j + 1]
  BY <1>1, RemovedRow DEF ResolveMarket
<1>3. /\ DOMAIN listing' = 1 .. Len(listing) - 1 /\ Len(listing) \in Nat
      /\ DOMAIN listing = 1 .. Len(listing)
  BY <1>1, <1>2
<1>4. IsInjective(listing')
  <2>1. ASSUME NEW a \in DOMAIN listing', NEW b \in DOMAIN listing', listing'[a] = listing'[b]
        PROVE  a = b
    <3> DEFINE at(j) == IF j < i THEN j ELSE j + 1
    <3>1. /\ at(a) \in DOMAIN listing /\ listing'[a] = listing[at(a)]
          /\ at(b) \in DOMAIN listing /\ listing'[b] = listing[at(b)]
      BY <1>2, <1>3
    <3>2. at(a) = at(b)
      <4> HIDE DEF at
      <4> QED
        BY <1>1, <2>1, <3>1 DEF IsInjective
    <3> QED
      BY <1>3, <3>2
  <2> QED
    BY <2>1 DEF IsInjective
<1>5. /\ fetch' \in Fetches /\ fetch'.got = fetch.got /\ fetch'.offset = fetch.offset
      /\ fetch'.asof = fetch.asof \ Slid(i)
  <2> DEFINE left == fetch.asof \ Slid(i)
  <2>1. left \in SUBSET Markets
    BY <1>1 DEF Fetches
  <2>2. fetch' = [fetch EXCEPT !.asof = left]
    BY Zenon DEF ResolveMarket
  <2> HIDE DEF left
  <2>3. fetch' \in Fetches /\ fetch'.got = fetch.got /\ fetch'.offset = fetch.offset
        /\ fetch'.asof = left
    BY <1>1, <2>1, <2>2, Zenon DEF Fetches
  <2> QED
    BY <2>3 DEF left
<1>6. ASSUME NEW m \in fetch'.asof \ resolved', StillListed(m)
      PROVE  StillListed(m)'
  <2>1. PICK j \in DOMAIN listing : j > fetch.offset /\ listing[j] = m
    BY <1>6 DEF StillListed
  <2>2. m # listing[i]
    BY <1>6 DEF ResolveMarket
  <2>3. m \notin Slid(i)
    BY <1>5, <1>6
  <2>4. CASE j < i
    <3>1. j \in DOMAIN listing' /\ listing'[j] = m
      BY <2>1, <2>4, <1>2, <1>3
    <3> QED
      BY <3>1, <2>1, <1>5 DEF StillListed
  <2>5. CASE j > i
    <3>1. j - 1 \in DOMAIN listing' /\ listing'[j - 1] = m
      BY <2>1, <2>5, <1>2, <1>3
    <3>2. j - 1 > fetch.offset
      <4>1. SUFFICES ASSUME ~ (j - 1 > fetch.offset) PROVE FALSE
        OBVIOUS
      <4>2. j = fetch.offset + 1 /\ i <= fetch.offset /\ fetch.offset < Len(listing)
        BY <4>1, <2>1, <2>5, <1>1, <1>3
      <4> QED
        BY <4>2, <2>1, <2>3 DEF Slid
    <3> QED
      BY <3>1, <3>2, <1>5 DEF StillListed
  <2>6. j # i
    BY <2>1, <2>2
  <2> QED
    BY <2>4, <2>5, <2>6, <1>3
<1> QED
  BY <1>2, <1>4, <1>5, <1>6

-----------------------------------------------------------------------------
(* Each step keeps the invariant *)

\* A walk begins at the first row and has all of the list to find.
LEMMA FreshFetches ==
    ASSUME TypeOK
    PROVE  /\ NewFetch \in Fetches /\ NoFetch \in Fetches
           /\ NewFetch.offset = 0 /\ NewFetch.asof = Range(listing)
           /\ NoFetch.asof = {} /\ NoFetch.got = {}
<1>1. NoFetch \in Fetches /\ NoFetch.offset = 0 /\ NoFetch.asof = {} /\ NoFetch.got = {}
  BY DEF NoFetch, Fetches
<1>2. Range(listing) \in SUBSET Markets
  BY DEF TypeOK, Range
<1>3. NewFetch \in Fetches /\ NewFetch.offset = NoFetch.offset /\ NewFetch.asof = Range(listing)
  BY <1>1, <1>2, Zenon DEF NewFetch, Fetches
<1> QED
  BY <1>1, <1>3

\* A file is written with what a fetch has got, and what that fetch had to find.
LEMMA CachedFile ==
    ASSUME TypeOK, NEW S \in SUBSET Markets
    PROVE  Cached(S) \in Files /\ Cached(S).markets = S /\ Cached(S).asof = fetch.asof
  BY DEF TypeOK, Fetches, Files, Cached

\* Faults stay within their bound.
LEMMA FaultsBounded ==
    ASSUME TypeOK, Fault \/ NoFault
    PROVE  faults' \in 0 .. MaxFaults
  BY UniverseAssumption DEF TypeOK, Fault, NoFault

\* No fetch has begun, and nothing is called full.
LEMMA InitKeeps ==
    ASSUME Init
    PROVE  UniverseInv
<1>1. {resolved, heard, leftover, universe, asof} \subseteq SUBSET Markets
  BY UniverseAssumption DEF Init
<1>2. fetch \in Fetches /\ fetch.asof = {}
  BY DEF Init, NoFetch, Fetches
<1>3. listing \in Seq(Markets) /\ IsInjective(listing)
  BY UniverseAssumption DEF Init
<1>4. faults \in 0 .. MaxFaults /\ restarts \in 0 .. MaxRestarts
  BY UniverseAssumption DEF Init
<1>5. TypeOK
  BY <1>1, <1>2, <1>3, <1>4 DEF Init, TypeOK, PCs, Refreshes
<1>6. WalkInv
  BY <1>2 DEF Init, WalkInv, Walking, Fetched
<1>7. FullHasAll
  BY DEF Init, FullHasAll
<1> QED
  BY <1>5, <1>6, <1>7 DEF UniverseInv

\* A market is listed, before or behind the others.
LEMMA ListMarketKeeps ==
    ASSUME UniverseInv, NEW m \in Markets, ListMarket(m)
    PROVE  UniverseInv'
<1>1. /\ listing' \in Seq(Markets) /\ IsInjective(listing')
      /\ \A n : StillListed(n) => StillListed(n)'
  BY ListingGrows DEF UniverseInv
<1>2. TypeOK'
  BY <1>1 DEF UniverseInv, TypeOK, ListMarket, Others, bounds
<1>3. WalkInv'
  BY <1>1 DEF UniverseInv, WalkInv, ListMarket, Others, Walking, Fetched
<1>4. FullHasAll'
  BY DEF UniverseInv, FullHasAll, ListMarket, Others
<1> QED
  BY <1>2, <1>3, <1>4 DEF UniverseInv

\* A market is resolved and leaves the list.
LEMMA ResolveMarketKeeps ==
    ASSUME UniverseInv, NEW i \in DOMAIN listing, ResolveMarket(i)
    PROVE  UniverseInv'
<1>1. /\ listing' \in Seq(Markets) /\ IsInjective(listing')
      /\ fetch' \in Fetches /\ fetch'.got = fetch.got /\ fetch'.asof \subseteq fetch.asof
      /\ \A m \in fetch'.asof \ resolved' : StillListed(m) => StillListed(m)'
  BY ListingShrinks DEF UniverseInv
<1>2. resolved' = resolved \cup {listing[i]} /\ listing[i] \in Markets
  BY DEF UniverseInv, TypeOK, ResolveMarket
<1>3. heard' \in SUBSET Markets
  BY <1>2 DEF UniverseInv, TypeOK, ResolveMarket
<1>4. TypeOK'
  BY <1>1, <1>2, <1>3 DEF UniverseInv, TypeOK, ResolveMarket, Others, bounds
<1>5. WalkInv'
  BY <1>1, <1>2 DEF UniverseInv, WalkInv, ResolveMarket, Others, Walking, Fetched
<1>6. FullHasAll'
  BY <1>2 DEF UniverseInv, FullHasAll, ResolveMarket, Others
<1> QED
  BY <1>4, <1>5, <1>6 DEF UniverseInv

\* A REST cycle reads a page; the last one makes its universe.
LEMMA FetchPageKeeps ==
    ASSUME UniverseInv, NEW last \in BOOLEAN, FetchPage(last)
    PROVE  UniverseInv'
<1>1. /\ fetch' \in Fetches /\ fetch'.asof = fetch.asof
      /\ last => fetch.asof \ resolved \subseteq fetch'.got
      /\ ~ last => \A m \in fetch.asof \ resolved : m \in fetch'.got \/ StillListed(m)'
  BY PageReadOn DEF UniverseInv, FetchPage, World, gamma, Walking
<1>2. fetch'.got \in SUBSET Markets /\ fetch.asof \in SUBSET Markets
  BY <1>1 DEF UniverseInv, TypeOK, Fetches
<1>3. refresh = "none" /\ refresh' = "none"
  BY DEF UniverseInv, TypeOK, FetchPage
<1>4. TypeOK'
  BY <1>1, <1>2, <1>3
     DEF UniverseInv, TypeOK, FetchPage, Use, World, gamma, bounds, PCs, Refreshes
<1>5. WalkInv'
  BY <1>1, <1>3 DEF UniverseInv, WalkInv, FetchPage, World, gamma, Walking, Fetched
<1>6. FullHasAll'
  BY <1>1 DEF UniverseInv, FullHasAll, FetchPage, World, gamma, Use
<1> QED
  BY <1>4, <1>5, <1>6 DEF UniverseInv

\* The refresh task reads a page.
LEMMA RefreshPageKeeps ==
    ASSUME UniverseInv, NEW last \in BOOLEAN, RefreshPage(last)
    PROVE  UniverseInv'
<1>1. /\ fetch' \in Fetches /\ fetch'.asof = fetch.asof
      /\ last => fetch.asof \ resolved \subseteq fetch'.got
      /\ ~ last => \A m \in fetch.asof \ resolved : m \in fetch'.got \/ StillListed(m)'
  BY PageReadOn DEF UniverseInv, RefreshPage, Loop, World, gamma, Walking
<1>2. TypeOK'
  BY <1>1 DEF UniverseInv, TypeOK, RefreshPage, Loop, World, gamma, bounds, Refreshes
<1>3. WalkInv'
  BY <1>1 DEF UniverseInv, TypeOK, WalkInv, RefreshPage, Loop, World, gamma, Walking, Fetched
<1>4. FullHasAll'
  BY DEF UniverseInv, FullHasAll, RefreshPage, Loop, World, gamma
<1> QED
  BY <1>2, <1>3, <1>4 DEF UniverseInv

\* The steps of the start and of a REST cycle, but for its pages.
LEMMA CycleKeeps ==
    ASSUME UniverseInv,
           \/ Boot \/ LoadCache \/ StartFull \/ StartSlice \/ Store
           \/ CycleFails \/ RestEvaluate \/ RestStarved
    PROVE  UniverseInv'
<1> USE DEF UniverseInv, World, gamma, bounds
<1>1. CASE Boot
  BY <1>1 DEF Boot, TypeOK, WalkInv, FullHasAll, Walking, Fetched, PCs
<1>2. CASE LoadCache
  <2>1. file \in Files
    BY <1>2 DEF LoadCache, CacheUsable, TypeOK
  <2>2. file.markets \in SUBSET Markets /\ file.asof \in SUBSET Markets
    BY <2>1 DEF Files
  <2>3. TypeOK'
    BY <1>2, <2>2 DEF LoadCache, Use, TypeOK, PCs
  <2>4. WalkInv' /\ FullHasAll'
    BY <1>2 DEF LoadCache, CacheUsable, Use, TypeOK, WalkInv, FullHasAll, Walking, Fetched
  <2> QED
    BY <2>3, <2>4
<1>3. CASE StartFull
  <2>1. fetch' \in Fetches /\ fetch'.offset = 0 /\ fetch'.asof = Range(listing)
    BY <1>3, FreshFetches DEF StartFull
  <2>2. refresh = "none"
    BY <1>3 DEF StartFull, TypeOK
  <2>3. \A m \in Range(listing) : \E i \in DOMAIN listing : i > 0 /\ listing[i] = m
    BY DEF Range, TypeOK
  <2>4. WalkInv'
    BY <1>3, <2>1, <2>2, <2>3 DEF StartFull, WalkInv, Walking, Fetched, StillListed
  <2>5. TypeOK' /\ FullHasAll'
    BY <1>3, <2>1 DEF StartFull, TypeOK, FullHasAll, PCs
  <2> QED
    BY <2>4, <2>5
<1>4. CASE StartSlice
  <2>1. universe' \in SUBSET Markets
    BY <1>4 DEF StartSlice, Slices, TypeOK, Range
  <2> QED
    BY <1>4, <2>1 DEF StartSlice, TypeOK, WalkInv, FullHasAll, Walking, Fetched, PCs
<1>5. CASE Store
  <2>1. fetch.got \in SUBSET Markets /\ fetch.asof \in SUBSET Markets
    BY DEF TypeOK, Fetches
  <2>2. file' \in Files /\ file'.markets = fetch.got /\ file'.asof = fetch.asof
    BY <1>5, <2>1, CachedFile DEF Store
  <2>3. fetch.asof \ resolved \subseteq fetch.got
    BY <1>5 DEF Store, WalkInv, Fetched
  <2>4. refresh = "none"
    BY <1>5 DEF Store, TypeOK
  <2>5. TypeOK'
    BY <1>5, <2>1, <2>2 DEF Store, Use, TypeOK, PCs
  <2>6. WalkInv' /\ FullHasAll'
    BY <1>5, <2>2, <2>3, <2>4 DEF Store, Use, WalkInv, FullHasAll, Walking, Fetched
  <2> QED
    BY <2>5, <2>6
<1>6. CASE CycleFails \/ RestEvaluate \/ RestStarved
  <2>1. /\ CycleEnds /\ pc # "loop" /\ mode = "rest"
        /\ leftover' \in SUBSET Markets /\ first' \in BOOLEAN /\ faults' \in 0 .. MaxFaults
    <3>1. leftover' \in SUBSET Markets
      BY <1>6 DEF CycleFails, RestEvaluate, RestStarved, SettlementPass, TypeOK
    <3>2. faults' \in 0 .. MaxFaults
      BY <1>6, FaultsBounded
         DEF CycleFails, RestEvaluate, RestStarved, SettlementPass, NoFault
    <3> QED
      BY <1>6, <3>1, <3>2 DEF CycleFails, RestEvaluate, RestStarved, TypeOK
  <2>2. fetch' \in Fetches
    BY <2>1, FreshFetches DEF CycleEnds
  <2> QED
    BY <2>1, <2>2 DEF CycleEnds, TypeOK, WalkInv, FullHasAll, Walking, Fetched, PCs
<1> QED
  BY <1>1, <1>2, <1>3, <1>4, <1>5, <1>6

\* The websocket mode after its start; time, and the ends of the process.
LEMMA LoopKeeps ==
    ASSUME UniverseInv, WsSeeded \/ WsEvaluate \/ WsStarved \/ CacheAges \/ ProcessEnds
    PROVE  UniverseInv'
<1> USE DEF UniverseInv, World, gamma, bounds
<1>1. CASE WsSeeded \/ WsEvaluate
  <2>1. leftover' \in SUBSET Markets /\ faults' \in 0 .. MaxFaults
    <3>1. leftover' \in SUBSET Markets
      BY <1>1 DEF WsSeeded, WsEvaluate, SettlementPass, TypeOK
    <3>2. faults' \in 0 .. MaxFaults
      BY <1>1, FaultsBounded DEF WsSeeded, WsEvaluate, SettlementPass
    <3> QED
      BY <3>1, <3>2
  <2>2. /\ pc \in {"seed", "loop"} /\ pc' = "loop" /\ mode = "ws"
        /\ UNCHANGED <<heard, file, mode, first, refresh, fetch, universe, full, asof,
                       listing, resolved, restarts>>
    BY <1>1 DEF WsSeeded, WsEvaluate, TypeOK
  <2>3. TypeOK'
    BY <2>1, <2>2 DEF TypeOK, PCs
  <2>4. WalkInv' /\ FullHasAll'
    BY <2>2 DEF WalkInv, FullHasAll, Walking, Fetched, StillListed
  <2> QED
    BY <2>3, <2>4
<1>2. CASE WsStarved \/ ProcessEnds
  <2>1. ProcessGone /\ restarts' \in 0 .. MaxRestarts
    BY <1>2, UniverseAssumption DEF WsStarved, ProcessEnds, TypeOK
  <2>2. fetch' \in Fetches
    BY <2>1, FreshFetches DEF ProcessGone
  <2> QED
    BY <2>1, <2>2
       DEF ProcessGone, TypeOK, WalkInv, FullHasAll, Walking, Fetched, PCs, Refreshes
<1>3. CASE CacheAges
  <2>1. file \in Files /\ file' = [file EXCEPT !.fresh = FALSE]
    BY <1>3 DEF CacheAges, TypeOK
  <2>2. file' \in Files /\ file'.markets = file.markets /\ file'.asof = file.asof
    BY <2>1, Zenon DEF Files
  <2> QED
    BY <1>3, <2>2 DEF CacheAges, TypeOK, WalkInv, FullHasAll, Walking, Fetched, StillListed
<1> QED
  BY <1>1, <1>2, <1>3

\* The refresh task, but for its pages.
LEMMA RefreshKeeps ==
    ASSUME UniverseInv,
           \/ RefreshStart \/ RefreshSeeded \/ RefreshStarved \/ RefreshFails
           \/ RefreshStored \/ RefreshUnlogged \/ Adopt
    PROVE  UniverseInv'
<1> USE DEF UniverseInv, Loop, World, gamma, bounds
<1>1. fetch.got \in SUBSET Markets /\ fetch.asof \in SUBSET Markets
  BY DEF TypeOK, Fetches
<1>2. CASE RefreshStart
  <2>1. fetch' \in Fetches /\ fetch'.offset = 0 /\ fetch'.asof = Range(listing)
    BY <1>2, FreshFetches DEF RefreshStart
  <2>2. \A m \in Range(listing) : \E i \in DOMAIN listing : i > 0 /\ listing[i] = m
    BY DEF Range, TypeOK
  <2>3. WalkInv'
    BY <1>2, <2>1, <2>2 DEF RefreshStart, WalkInv, Walking, Fetched, StillListed
  <2>4. TypeOK' /\ FullHasAll'
    BY <1>2, <2>1 DEF RefreshStart, TypeOK, FullHasAll, Refreshes
  <2> QED
    BY <2>3, <2>4
<1>3. CASE RefreshSeeded
  <2>1. pc = "loop"
    BY <1>3 DEF RefreshSeeded, TypeOK
  <2> QED
    BY <1>3, <2>1
       DEF RefreshSeeded, TypeOK, WalkInv, FullHasAll, Walking, Fetched, Refreshes
<1>4. CASE RefreshStarved \/ RefreshFails \/ RefreshUnlogged
  <2>1. fetch' \in Fetches /\ fetch' = NoFetch
    BY <1>4, FreshFetches DEF RefreshStarved, RefreshFails, RefreshUnlogged, RefreshGivesUp
  <2>2. /\ file' \in Files \cup {NoFile}
        /\ file' # NoFile => file'.asof \ resolved \subseteq file'.markets
    <3>1. CASE RefreshStarved \/ RefreshFails
      BY <3>1 DEF RefreshStarved, RefreshFails, TypeOK, FullHasAll
    <3>2. CASE RefreshUnlogged
      <4>1. universe \cup fetch.got \in SUBSET Markets
        BY <1>1 DEF TypeOK
      <4>2. fetch.asof \ resolved \subseteq fetch.got
        BY <3>2 DEF RefreshUnlogged, WalkInv, Fetched
      <4> QED
        BY <3>2, <4>1, <4>2, CachedFile DEF RefreshUnlogged
    <3> QED
      BY <1>4, <3>1, <3>2
  <2>3. /\ refresh' = "none" /\ faults' \in 0 .. MaxFaults /\ pc = "loop"
        /\ UNCHANGED <<universe, full, asof, heard, leftover, mode, pc, first, listing,
                       resolved, restarts>>
    <3>1. faults' \in 0 .. MaxFaults
      BY <1>4, FaultsBounded DEF RefreshStarved, RefreshFails, RefreshUnlogged, NoFault
    <3> QED
      BY <1>4, <3>1 DEF RefreshStarved, RefreshFails, RefreshUnlogged, RefreshGivesUp, TypeOK
  <2> QED
    BY <2>1, <2>2, <2>3 DEF TypeOK, WalkInv, FullHasAll, Walking, Fetched, Refreshes
<1>5. CASE RefreshStored
  <2>1. universe \cup fetch.got \in SUBSET Markets
    BY <1>1 DEF TypeOK
  <2>2. fetch.asof \ resolved \subseteq fetch.got
    BY <1>5 DEF RefreshStored, WalkInv, Fetched
  <2>3. /\ file' \in Files \cup {NoFile}
        /\ file' # NoFile => file'.asof \ resolved \subseteq file'.markets
        /\ faults' \in 0 .. MaxFaults /\ pc = "loop"
    <3>1. faults' \in 0 .. MaxFaults /\ pc = "loop"
      BY <1>5, FaultsBounded DEF RefreshStored, TypeOK
    <3>2. CASE file' = Cached(universe \cup fetch.got)
      BY <2>1, <2>2, <3>1, <3>2, CachedFile
    <3>3. CASE file' = file
      BY <3>1, <3>3 DEF TypeOK, FullHasAll
    <3> QED
      BY <1>5, <3>2, <3>3 DEF RefreshStored
  <2> QED
    BY <1>5, <2>2, <2>3
       DEF RefreshStored, TypeOK, WalkInv, FullHasAll, Walking, Fetched, Refreshes
<1>6. CASE Adopt
  <2>1. fetch' \in Fetches
    BY <1>6, FreshFetches DEF Adopt
  <2>2. fetch.asof \ resolved \subseteq fetch.got
    BY <1>6 DEF Adopt, WalkInv, Fetched
  <2>3. pc = "loop" /\ universe' = universe \cup fetch.got /\ asof' = fetch.asof /\ full' = TRUE
    BY <1>6 DEF Adopt, Use, TypeOK
  <2> QED
    BY <1>1, <1>6, <2>1, <2>2, <2>3
       DEF Adopt, TypeOK, WalkInv, FullHasAll, Walking, Fetched, Refreshes
<1> QED
  BY <1>2, <1>3, <1>4, <1>5, <1>6

\* Every step keeps the invariant.
LEMMA StepKeeps ==
    ASSUME UniverseInv, [Next]_vars
    PROVE  UniverseInv'
<1>1. CASE UNCHANGED vars
  BY <1>1 DEF vars, UniverseInv, TypeOK, WalkInv, FullHasAll, Walking, Fetched, StillListed
<1>2. CASE \E m \in Markets : ListMarket(m)
  BY <1>2, ListMarketKeeps
<1>3. CASE \E i \in DOMAIN listing : ResolveMarket(i)
  BY <1>3, ResolveMarketKeeps
<1>4. CASE Boot \/ LoadCache \/ RestCycle \/ WsStart \/ WsEvaluate \/ CacheAges \/ ProcessEnds
  BY <1>4, FetchPageKeeps, CycleKeeps, LoopKeeps DEF RestCycle, WsStart
<1>5. CASE RefreshTask
  BY <1>5, RefreshPageKeeps, RefreshKeeps DEF RefreshTask
<1> QED
  BY <1>1, <1>2, <1>3, <1>4, <1>5 DEF Next

-----------------------------------------------------------------------------
(* Theorems *)

\* The inductive invariant holds in every behaviour.
LEMMA UniverseInvariant == Spec => []UniverseInv
BY InitKeeps, StepKeeps, PTL DEF Spec

\* The list names a market once, a refresh runs only beside the loop of the websocket mode,
\* and every variable has its type (_refresh_market_universe, run_scan_loop).
THEOREM UniverseTypeCorrect == Spec => []TypeOK
BY UniverseInvariant, PTL DEF UniverseInv

\* A universe that is called full, in memory or in the cache file, misses no market that
\* was there to be read when its fetch began, for any listing, page size, slice and number
\* of failures and restarts (fetch_active_events, write_market_universe_cache).
THEOREM FullMissesNothing == Spec => []FullHasAll
BY UniverseInvariant, PTL DEF UniverseInv

=============================================================================
