-------------------------- MODULE DepositSweepProofs --------------------------
(***************************************************************************)
(* Proofs about pricing and the deposit sweep, for any coins, prices,      *)
(* deposits and users, any number of jobs, retries and faults.             *)
(***************************************************************************)
EXTENDS DepositSweep, FiniteSetTheorems, TLAPS

-----------------------------------------------------------------------------
(***************************************************************************)
(* The price feed.                                                         *)
(***************************************************************************)
LEMMA TimesGrows ==
  ASSUME NEW s \in Nat, NEW m \in Nat \ {0}
  PROVE  s * m \in Nat /\ s <= s * m
  <1>1. PICK k \in Nat : m = k + 1
    <2>1. m - 1 \in Nat /\ m = (m - 1) + 1
      OBVIOUS
    <2>. QED BY <2>1
  <1>2. s * m = s * k + s /\ s * k \in Nat
    BY <1>1
  <1>. QED BY <1>2

LEMMA TimesMono ==
  ASSUME NEW f \in Nat, NEW x \in Nat, NEW y \in Nat, x <= y
  PROVE  f * x \in Nat /\ f * y \in Nat /\ f * x <= f * y
  <1>1. PICK k \in Nat : y = x + k
    <2>1. y - x \in Nat /\ y = x + (y - x)
      OBVIOUS
    <2>. QED BY <2>1
  <1>2. f * y = f * x + f * k /\ f * k \in Nat /\ f * x \in Nat
    BY <1>1
  <1>. QED BY <1>2

LEMMA DivMono ==
  ASSUME NEW x \in Nat, NEW y \in Nat, NEW d \in Nat \ {0}, x <= y
  PROVE  x \div d \in Nat /\ y \div d \in Nat /\ x \div d <= y \div d
  OBVIOUS

\* The registry has a static price for what is built in.
LEMMA StaticTypes ==
  /\ staticPrices \in [Coins -> Nat]
  /\ staticPrices[Sui] \in Nat \ {0} /\ staticPrices[Ika] \in Nat \ {0}
  /\ Sui \in Coins /\ Ika \in Coins /\ workList \subseteq Coins
  BY PriceAssumption DEF staticPrices, buildRegistry, workList, Unpriced

LEMMA StaticInBounds ==
  ASSUME NEW c \in Coins
  PROVE  InBounds(c, staticPrices[c])
  <1>1. staticPrices[c] \in Nat /\ MaxDeviation \in Nat \ {0}
    BY StaticTypes, PriceAssumption
  <1>. QED BY <1>1, TimesGrows DEF InBounds

\* What a snapshot may be.
Priced(s) ==
    /\ s.prices \in [Coins -> Nat] /\ s.lastFeedSuccessAt \in Nat
    /\ s \in [prices : [Coins -> Nat], lastFeedSuccessAt : Nat,
              source : {"feed", "fallback", "mixed"}]
    /\ \A c \in Coins : InBounds(c, s.prices[c])

QuoteSound(micro) ==
    micro <= (FeeSui * staticPrices[Sui] * MaxDeviation) \div Denom
             + (FeeIka * staticPrices[Ika] * MaxDeviation) \div Denom

PriceInv ==
    /\ clock \in Nat /\ Priced(snapshot) /\ snapshot.lastFeedSuccessAt <= clock
    /\ quote \in [asked : BOOLEAN, micro : Nat] /\ QuoteSound(quote.micro)

LEMMA StaticPriced ==
  ASSUME NEW t \in Nat
  PROVE  Priced(staticSnapshot(t)) /\ staticSnapshot(t).lastFeedSuccessAt = t
  BY StaticTypes, StaticInBounds DEF Priced, staticSnapshot

LEMMA NothingIsSound == QuoteSound(0) /\ NoQuote \in [asked : BOOLEAN, micro : Nat]
  <1>. DEFINE x == FeeSui * staticPrices[Sui] * MaxDeviation
              y == FeeIka * staticPrices[Ika] * MaxDeviation
  <1>1. x \in Nat /\ y \in Nat /\ Denom \in Nat \ {0}
    BY StaticTypes, PriceAssumption
  <1>. HIDE DEF x, y
  <1>2. x \div Denom \in Nat /\ y \div Denom \in Nat
    BY <1>1, DivMono
  <1>3. QuoteSound(0)
    BY <1>2 DEF QuoteSound, x, y
  <1>. QED BY <1>3 DEF NoQuote, Unpriced

\* A leg of a quote is bounded by its static price.
LEMMA FeeBound ==
  ASSUME Priced(snapshot), NEW c \in {Sui, Ika}, NEW f \in Nat
  PROVE  /\ Fee(c, f) \in Nat
         /\ (f * staticPrices[c] * MaxDeviation) \div Denom \in Nat
         /\ Fee(c, f) <= (f * staticPrices[c] * MaxDeviation) \div Denom
  <1>. DEFINE p == snapshot.prices[c]
              st == staticPrices[c]
  <1>1. /\ c \in Coins /\ st \in Nat \ {0} /\ MaxDeviation \in Nat \ {0} /\ Denom \in Nat \ {0}
    BY StaticTypes, PriceAssumption
  <1>2. p \in Nat /\ p <= st * MaxDeviation
    BY <1>1 DEF Priced, InBounds, Unpriced
  <1>. HIDE DEF p, st
  <1>3. st * MaxDeviation \in Nat /\ f * (st * MaxDeviation) = f * st * MaxDeviation
    BY <1>1
  <1>4. f * p \in Nat /\ f * st * MaxDeviation \in Nat /\ f * p <= f * st * MaxDeviation
    BY <1>2, <1>3, TimesMono
  <1>5. /\ (f * p) \div Denom \in Nat /\ (f * st * MaxDeviation) \div Denom \in Nat
        /\ (f * p) \div Denom <= (f * st * MaxDeviation) \div Denom
    BY <1>1, <1>4, DivMono
  <1>6. Fee(c, f) = 0 \/ Fee(c, f) = (f * p) \div Denom
    BY DEF Fee, microUsdFromAtomic, p
  <1>. QED BY <1>5, <1>6 DEF st

LEMMA RefreshKeeps ==
  ASSUME PriceInv, Refresh
  PROVE  PriceInv'
  <1>1. PICK body \in [workList -> Quotes \cup {Unpriced}] : refreshNow(body)
    BY DEF Refresh
  <1>2. clock' = clock /\ quote' = quote
    BY <1>1 DEF refreshNow
  <1>3. Priced(snapshot)' /\ snapshot'.lastFeedSuccessAt \in {clock, snapshot.lastFeedSuccessAt}
    <2>1. CASE workList = {}
      <3>1. snapshot' = staticSnapshot(snapshot.lastFeedSuccessAt)
        BY <1>1, <2>1 DEF refreshNow
      <3>2. snapshot.lastFeedSuccessAt \in Nat
        BY DEF PriceInv, Priced
      <3>. QED BY <3>1, <3>2, StaticPriced DEF Priced
    <2>2. CASE workList # {}
      <3>. DEFINE hits == FeedHits(body)
                  p == [c \in Coins |-> IF c \in hits THEN body[c] ELSE staticPrices[c]]
      <3>1. /\ snapshot'.prices = p
            /\ snapshot'.lastFeedSuccessAt = (IF hits # {} THEN clock
                                             ELSE snapshot.lastFeedSuccessAt)
            /\ snapshot' = [prices |-> snapshot'.prices,
                            lastFeedSuccessAt |-> snapshot'.lastFeedSuccessAt,
                            source |-> snapshot'.source]
            /\ snapshot'.source \in {"feed", "fallback", "mixed"}
        BY <1>1, <2>2 DEF refreshNow
      <3>2. ASSUME NEW c \in Coins
            PROVE  p[c] \in Nat /\ InBounds(c, p[c])
        <4>1. CASE c \in hits
          <5>1. c \in workList /\ InBounds(c, body[c])
            BY <4>1 DEF FeedHits
          <5>2. Quotes \subseteq Nat
            BY PriceAssumption
          <5>3. body[c] \in Nat
            <6>1. body[c] \in Quotes \cup {Unpriced}
              BY <5>1
            <6>2. Unpriced \in Nat
              BY DEF Unpriced
            <6>. QED BY <5>2, <6>1, <6>2, Zenon
          <5>. QED BY <4>1, <5>1, <5>3
        <4>2. CASE c \notin hits
          BY <4>2, StaticTypes, StaticInBounds
        <4>. QED BY <4>1, <4>2
      <3>3. p \in [Coins -> Nat]
        BY <3>2
      <3>. HIDE DEF p, hits
      <3>4. snapshot'.lastFeedSuccessAt \in Nat
        BY <3>1 DEF PriceInv, Priced
      <3>. QED BY <3>1, <3>2, <3>3, <3>4 DEF Priced
    <2>. QED BY <2>1, <2>2
  <1>4. snapshot'.lastFeedSuccessAt <= clock
    BY <1>3 DEF PriceInv
  <1>. QED BY <1>2, <1>3, <1>4 DEF PriceInv

LEMMA QuoteKeeps ==
  ASSUME PriceInv, QuoteStart \/ QuoteReply \/ QuoteFails
  PROVE  PriceInv'
  <1>1. clock' = clock /\ snapshot' = snapshot
    BY DEF QuoteStart, QuoteReply, QuoteFails
  <1>2. quote' \in [asked : BOOLEAN, micro : Nat] /\ QuoteSound(quote'.micro)
    <2>1. CASE QuoteStart \/ QuoteFails
      <3>0. PICK b \in BOOLEAN : quote' = [asked |-> b, micro |-> 0]
        BY <2>1, Zenon DEF QuoteStart, QuoteFails, NoQuote, Unpriced
      <3>1. quote' \in [asked : BOOLEAN, micro : Nat] /\ quote'.micro = 0
        BY <3>0
      <3>. QED BY <3>1, NothingIsSound
    <2>2. CASE QuoteReply
      <3>1. Priced(snapshot) /\ FeeSui \in Nat /\ FeeIka \in Nat
        BY PriceAssumption DEF PriceInv
      <3>2. /\ Fee(Sui, FeeSui) \in Nat
            /\ (FeeSui * staticPrices[Sui] * MaxDeviation) \div Denom \in Nat
            /\ Fee(Sui, FeeSui) <= (FeeSui * staticPrices[Sui] * MaxDeviation) \div Denom
        BY <3>1, FeeBound
      <3>3. /\ Fee(Ika, FeeIka) \in Nat
            /\ (FeeIka * staticPrices[Ika] * MaxDeviation) \div Denom \in Nat
            /\ Fee(Ika, FeeIka) <= (FeeIka * staticPrices[Ika] * MaxDeviation) \div Denom
        BY <3>1, FeeBound
      <3>4. ikaSuiToMicroUsd \in Nat /\ QuoteSound(ikaSuiToMicroUsd)
        BY <3>2, <3>3 DEF ikaSuiToMicroUsd, QuoteSound
      <3>. QED BY <2>2, <3>4 DEF QuoteReply
    <2>. QED BY <2>1, <2>2
  <1>. QED BY <1>1, <1>2 DEF PriceInv

LEMMA PricesKeep ==
  ASSUME PriceInv, Tick \/ Refresh \/ QuoteStart \/ QuoteReply \/ QuoteFails
  PROVE  PriceInv'
  <1>1. CASE Tick
    <2>1. clock' = clock + 1 /\ snapshot' = snapshot /\ quote' = quote
      BY <1>1 DEF Tick
    <2>2. clock \in Nat /\ snapshot.lastFeedSuccessAt \in Nat /\ snapshot.lastFeedSuccessAt <= clock
      BY DEF PriceInv, Priced
    <2>3. clock + 1 \in Nat /\ snapshot.lastFeedSuccessAt <= clock + 1
      BY <2>2
    <2>. QED BY <2>1, <2>3 DEF PriceInv
  <1>. QED BY <1>1, RefreshKeeps, QuoteKeeps

-----------------------------------------------------------------------------
(***************************************************************************)
(* Requests, rows and jobs, one at a time.                                 *)
(***************************************************************************)
RequestType == [pc : {"idle", "tx", "enqueue"}, staged : [Coins -> RowType],
                last : Coins \cup {None}]

JobType == [pc : {"free", "queued", "listed", "built", "moved", "failed"},
            user : Users \cup {None}, dep : Rows \cup {None},
            types : SUBSET Coins, objs : SUBSET Rows, tries : 0 .. MaxTries]

RowsSound == \A r \in Rows : row[r] # NoRow => RowSound(r[2], row[r])

StoreTypes ==
    /\ sent \subseteq Digests /\ held \in [Digests -> SUBSET Coins]
    /\ row \in [Rows -> RowType] /\ cut \subseteq Users \X Coins /\ faults \in 0 .. MaxFaults

RequestFits(d, q, S, R) ==
    /\ q.pc = "idle" => q = NoReq
    /\ q.pc = "tx" =>
         /\ d \in S /\ \E c \in Coins : Paid[d].amount[c] > 0
         /\ \A c \in Coins :
              /\ R[<<d, c>>] = NoRow
              /\ q.staged[c] # NoRow =>
                   q.staged[c].st = "pending" /\ RowSound(c, q.staged[c])
         /\ IF q.last = None THEN \A c \in Coins : q.staged[c] = NoRow
            ELSE q.staged[q.last] # NoRow
    /\ q.pc = "enqueue" => d \in S /\ q.last # None /\ R[<<d, q.last>>] # NoRow

JobFits(b, H, R, C) ==
    \A d \in Digests, c \in Coins :
        b.dep = <<d, c>> =>
            /\ R[<<d, c>>] # NoRow /\ b.user = Paid[d].to
            /\ c \in H[d] /\ <<b.user, c>> \notin C =>
                 /\ b.pc = "listed" => c \in b.types \/ <<d, c>> \in b.objs
                 /\ b.pc = "built" => <<d, c>> \in b.objs
                 /\ b.pc # "moved"

RequestsInv == req \in [Digests -> RequestType] /\ RequestsFit
JobsInv == job \in [Jobs -> JobType] /\ JobsFit
RowsInv == StoreTypes /\ RowsSound /\ StoredWasSent /\ SweptMeansMoved

LEMMA FitsAreLocal ==
  /\ RequestsFit <=> \A d \in Digests : RequestFits(d, req[d], sent, row)
  /\ RequestsFit' <=> \A d \in Digests : RequestFits(d, req'[d], sent', row')
  /\ JobsFit <=> \A j \in Jobs : JobFits(job[j], held, row, cut)
  /\ JobsFit' <=> \A j \in Jobs : JobFits(job'[j], held', row', cut')
  <1>1. RequestsFit <=> \A d \in Digests : RequestFits(d, req[d], sent, row)
    BY Zenon DEF RequestsFit, RequestFits
  <1>2. RequestsFit' <=> \A d \in Digests : RequestFits(d, req'[d], sent', row')
    BY Zenon DEF RequestsFit, RequestFits
  <1>3. JobsFit <=> \A j \in Jobs : JobFits(job[j], held, row, cut)
    BY Zenon DEF JobsFit, JobFits
  <1>4. JobsFit' <=> \A j \in Jobs : JobFits(job'[j], held', row', cut')
    BY Zenon DEF JobsFit, JobFits
  <1>. QED BY <1>1, <1>2, <1>3, <1>4

LEMMA PartsOfInv ==
  /\ SweepInv <=> PriceInv /\ RowsInv /\ RequestsInv /\ JobsInv
  /\ SweepInv' <=> PriceInv' /\ RowsInv' /\ RequestsInv' /\ JobsInv'
  <1>1. PriceTypeOK /\ PricesAreSound /\ RatesAreSound <=> PriceInv /\ RowsSound
    BY DEF PriceTypeOK, PricesAreSound, RatesAreSound, PriceInv, Priced, QuoteSound, RowsSound
  <1>2. (PriceTypeOK /\ PricesAreSound /\ RatesAreSound)' <=> (PriceInv /\ RowsSound)'
    BY DEF PriceTypeOK, PricesAreSound, RatesAreSound, PriceInv, Priced, QuoteSound, RowsSound
  <1>3. TypeOK <=> /\ PriceTypeOK /\ StoreTypes
                   /\ req \in [Digests -> RequestType] /\ job \in [Jobs -> JobType]
    BY Zenon DEF TypeOK, StoreTypes, RequestType, JobType
  <1>4. TypeOK' <=> /\ PriceTypeOK' /\ StoreTypes'
                    /\ req' \in [Digests -> RequestType] /\ job' \in [Jobs -> JobType]
    BY Zenon DEF TypeOK, StoreTypes, RequestType, JobType
  <1>. QED BY <1>1, <1>2, <1>3, <1>4 DEF SweepInv, RowsInv, RequestsInv, JobsInv

LEMMA FreshTypes ==
  /\ NoRow \in RowType /\ NoReq \in RequestType /\ NoJob \in JobType
  /\ \A d : \A S, R : RequestFits(d, NoReq, S, R)
  /\ \A H, R, C : JobFits(NoJob, H, R, C)
  <1>1. NoRow \in RowType
    BY DEF NoRow, RowType, Unpriced
  <1>2. NoReq \in RequestType
    BY <1>1 DEF NoReq, RequestType
  <1>3. NoJob \in JobType
    BY SweepAssumption DEF NoJob, JobType
  <1>4. \A d : \A S, R : RequestFits(d, NoReq, S, R)
    BY DEF RequestFits, NoReq
  <1>5. \A H, R, C : JobFits(NoJob, H, R, C)
    BY SweepAssumption DEF JobFits, NoJob
  <1>. QED BY <1>1, <1>2, <1>3, <1>4, <1>5

\* The coins of a stored deposit only ever leave, its rows stay, and so does what
\* is known of its listings.
Settling ==
  /\ cut \subseteq cut'
  /\ \A d \in Digests, c \in Coins : row[<<d, c>>] # NoRow =>
        row'[<<d, c>>] # NoRow /\ held'[d] \subseteq held[d]

LEMMA JobSettles ==
  ASSUME Settling, NEW b, JobFits(b, held, row, cut)
  PROVE  JobFits(b, held', row', cut')
  BY DEF Settling, JobFits

\* A step of one job.
LEMMA JobMoves ==
  ASSUME JobsInv, Settling, NEW j \in Jobs, NEW b \in JobType,
         job' = [job EXCEPT ![j] = b], JobFits(b, held', row', cut')
  PROVE  JobsInv'
  <1>1. job \in [Jobs -> JobType] /\ \A i \in Jobs : JobFits(job[i], held, row, cut)
    BY FitsAreLocal DEF JobsInv
  <1>2. ASSUME NEW i \in Jobs
        PROVE  JobFits(job'[i], held', row', cut')
    <2>1. CASE i = j
      BY <1>1, <2>1
    <2>2. CASE i # j
      BY <1>1, <2>2, JobSettles
    <2>. QED BY <2>1, <2>2
  <1>3. job' \in [Jobs -> JobType]
    BY <1>1
  <1>. QED BY <1>2, <1>3, FitsAreLocal DEF JobsInv

LEMMA JobsSettle ==
  ASSUME JobsInv, Settling, UNCHANGED job
  PROVE  JobsInv'
  <1>1. job \in [Jobs -> JobType] /\ \A i \in Jobs : JobFits(job[i], held, row, cut)
    BY FitsAreLocal DEF JobsInv
  <1>2. ASSUME NEW i \in Jobs
        PROVE  JobFits(job'[i], held', row', cut')
    BY <1>1, JobSettles
  <1>. QED BY <1>1, <1>2, FitsAreLocal DEF JobsInv

\* A step of one request that leaves the rows alone.
LEMMA RequestMoves ==
  ASSUME RequestsInv, UNCHANGED <<sent, row>>, NEW d \in Digests, NEW q \in RequestType,
         req' = [req EXCEPT ![d] = q], RequestFits(d, q, sent, row)
  PROVE  RequestsInv'
  <1>1. req \in [Digests -> RequestType] /\ \A e \in Digests : RequestFits(e, req[e], sent, row)
    BY FitsAreLocal DEF RequestsInv
  <1>2. ASSUME NEW e \in Digests
        PROVE  RequestFits(e, req'[e], sent', row')
    <2>1. CASE e = d
      BY <1>1, <2>1
    <2>2. CASE e # d
      BY <1>1, <2>2
    <2>. QED BY <2>1, <2>2
  <1>3. req' \in [Digests -> RequestType]
    BY <1>1
  <1>. QED BY <1>2, <1>3, FitsAreLocal DEF RequestsInv

-----------------------------------------------------------------------------
(***************************************************************************)
(* Declaring a deposit.                                                    *)
(***************************************************************************)
LEMMA StillSettling ==
  ASSUME UNCHANGED <<row, held, cut>>
  PROVE  Settling
  BY DEF Settling

LEMMA RowsStutter ==
  ASSUME RowsInv, UNCHANGED <<sent, held, row, cut>>, faults' \in 0 .. MaxFaults
  PROVE  RowsInv'
  BY DEF RowsInv, StoreTypes, RowsSound, StoredWasSent, SweptMeansMoved

LEMMA PriceStutter ==
  ASSUME PriceInv, UNCHANGED priceVars
  PROVE  PriceInv'
  BY DEF PriceInv, priceVars, Priced

LEMMA FaultTypes ==
  ASSUME faults \in 0 .. MaxFaults, Fault \/ UNCHANGED faults
  PROVE  faults' \in 0 .. MaxFaults
  BY SweepAssumption DEF Fault

LEMMA SendKeeps ==
  ASSUME SweepInv, NEW d \in Digests, Send(d)
  PROVE  SweepInv'
  <1>1. PriceInv /\ RowsInv /\ RequestsInv /\ JobsInv
    BY PartsOfInv
  <1>2. /\ d \notin sent /\ sent' = sent \cup {d}
        /\ held' = [held EXCEPT ![d] = {c \in Coins : Paid[d].amount[c] > 0}]
        /\ UNCHANGED <<priceVars, row, req, job, cut, faults>>
    BY DEF Send
  <1>3. StoreTypes /\ RowsSound /\ StoredWasSent /\ SweptMeansMoved
    BY <1>1 DEF RowsInv
  <1>4. /\ held' \in [Digests -> SUBSET Coins] /\ sent' \subseteq Digests
        /\ \A e \in Digests \ {d} : held'[e] = held[e]
    BY <1>2, <1>3 DEF StoreTypes
  <1>5. \A c \in Coins : row[<<d, c>>] = NoRow
    BY <1>2, <1>3 DEF StoredWasSent
  <1>6. Settling
    BY <1>2, <1>4, <1>5 DEF Settling
  <1>7. SweptMeansMoved'
    <2>1. NoRow.st # "swept"
      BY DEF NoRow
    <2>. QED BY <1>2, <1>3, <1>4, <1>5, <2>1 DEF SweptMeansMoved
  <1>8. RowsInv'
    BY <1>2, <1>3, <1>4, <1>7 DEF RowsInv, StoreTypes, RowsSound, StoredWasSent
  <1>9. RequestsInv'
    BY <1>1, <1>2 DEF RequestsInv, RequestsFit
  <1>. QED BY <1>1, <1>2, <1>6, <1>8, <1>9, JobsSettle, PriceStutter, PartsOfInv

\* What is paid is still there to be staged.
LEMMA VerifiedParts ==
  ASSUME NEW d \in Digests, NEW u, verifyDeposit(d, u) # {}
  PROVE  d \in sent /\ \E c \in Coins : Paid[d].amount[c] > 0
  BY DEF verifyDeposit

LEMMA DeclareKeeps ==
  ASSUME SweepInv, NEW d \in Digests, NEW u \in Users, Declare(d, u)
  PROVE  SweepInv'
  <1>1. PriceInv /\ RowsInv /\ RequestsInv /\ JobsInv
    BY PartsOfInv
  <1>. DEFINE q == [NoReq EXCEPT !.pc = "tx"]
  <1>2. /\ req[d].pc = "idle" /\ \A c \in Coins : row[<<d, c>>] = NoRow
        /\ verifyDeposit(d, u) # {} /\ req' = [req EXCEPT ![d].pc = "tx"]
        /\ UNCHANGED <<priceVars, sent, held, row, job, cut, faults>>
    BY DEF Declare
  <1>3. req \in [Digests -> RequestType] /\ req[d] = NoReq
    BY <1>1, <1>2, FitsAreLocal DEF RequestsInv, RequestFits
  <1>4. req' = [req EXCEPT ![d] = q]
    BY <1>2, <1>3
  <1>5. q \in RequestType
    BY FreshTypes DEF RequestType
  <1>6. RequestFits(d, q, sent, row)
    <2>1. /\ q.pc = "tx" /\ q.last = None
          /\ \A c \in Coins : q.staged[c] = NoRow
      BY DEF NoReq
    <2>2. d \in sent /\ \E c \in Coins : Paid[d].amount[c] > 0
      BY <1>2, VerifiedParts
    <2>. HIDE DEF q
    <2>. QED BY <1>2, <2>1, <2>2 DEF RequestFits
  <1>. HIDE DEF q
  <1>7. RequestsInv'
    BY <1>1, <1>2, <1>4, <1>5, <1>6, RequestMoves
  <1>8. RowsInv' /\ JobsInv' /\ PriceInv'
    BY <1>1, <1>2, RowsStutter, StillSettling, JobsSettle, PriceStutter DEF RowsInv, StoreTypes
  <1>. QED BY <1>7, <1>8, PartsOfInv

\* The price an insert takes is sound at that moment.
LEMMA InsertKeeps ==
  ASSUME SweepInv, NEW d \in Digests, NEW c \in Coins, InsertRow(d, c)
  PROVE  SweepInv'
  <1>1. PriceInv /\ RowsInv /\ RequestsInv /\ JobsInv
    BY PartsOfInv
  <1>. DEFINE n == [st |-> "pending", rate |-> snapshot.prices[c],
                    age |-> clock - snapshot.lastFeedSuccessAt]
              q == [req[d] EXCEPT !.staged[c] = n, !.last = c]
  <1>2. /\ req[d].pc = "tx" /\ PricesFresh
        /\ req' = [req EXCEPT ![d].staged[c] = n, ![d].last = c]
        /\ UNCHANGED <<priceVars, sent, held, row, job, cut, faults>>
    BY DEF InsertRow, Creditable
  <1>3. /\ req \in [Digests -> RequestType] /\ req[d] \in RequestType
        /\ RequestFits(d, req[d], sent, row)
    BY <1>1, FitsAreLocal DEF RequestsInv
  <1>4. /\ clock \in Nat /\ snapshot.lastFeedSuccessAt \in Nat
        /\ snapshot.lastFeedSuccessAt <= clock
        /\ snapshot.prices[c] \in Nat /\ InBounds(c, snapshot.prices[c])
    BY <1>1 DEF PriceInv, Priced
  <1>5. n \in RowType /\ n # NoRow
    BY <1>4 DEF RowType, NoRow
  <1>6. n.st = "pending" /\ RowSound(c, n)
    BY <1>2, <1>4 DEF RowSound, PricesFresh
  <1>. HIDE DEF n
  <1>7. req' = [req EXCEPT ![d] = q]
    BY <1>2, <1>3
  <1>8. /\ q \in RequestType /\ q.pc = "tx" /\ q.last = c /\ q.staged[c] = n
        /\ \A e \in Coins \ {c} : q.staged[e] = req[d].staged[e]
    BY <1>2, <1>3, <1>5 DEF RequestType
  <1>. HIDE DEF q
  <1>9. RequestFits(d, q, sent, row)
    <2>1. c # None
      BY SweepAssumption
    <2>2. /\ d \in sent /\ \E e \in Coins : Paid[d].amount[e] > 0
          /\ \A e \in Coins : row[<<d, e>>] = NoRow
      BY <1>2, <1>3 DEF RequestFits
    <2>3. \A e \in Coins : q.staged[e] # NoRow =>
            q.staged[e].st = "pending" /\ RowSound(e, q.staged[e])
      BY <1>2, <1>3, <1>6, <1>8 DEF RequestFits
    <2>. QED BY <1>5, <1>8, <2>1, <2>2, <2>3 DEF RequestFits
  <1>10. RequestsInv'
    BY <1>1, <1>2, <1>7, <1>8, <1>9, RequestMoves
  <1>11. RowsInv' /\ JobsInv' /\ PriceInv'
    BY <1>1, <1>2, RowsStutter, StillSettling, JobsSettle, PriceStutter DEF RowsInv, StoreTypes
  <1>. QED BY <1>10, <1>11, PartsOfInv

LEMMA InsertFailsKeeps ==
  ASSUME SweepInv, NEW d \in Digests, InsertFails(d)
  PROVE  SweepInv'
  <1>1. PriceInv /\ RowsInv /\ RequestsInv /\ JobsInv
    BY PartsOfInv
  <1>2. /\ req' = [req EXCEPT ![d] = NoReq]
        /\ UNCHANGED <<priceVars, sent, held, row, job, cut, faults>>
    BY DEF InsertFails
  <1>3. RequestsInv'
    <2>1. NoReq \in RequestType /\ RequestFits(d, NoReq, sent, row)
      BY FreshTypes
    <2>. QED BY <1>1, <1>2, <2>1, RequestMoves
  <1>4. RowsInv' /\ JobsInv' /\ PriceInv'
    BY <1>1, <1>2, RowsStutter, StillSettling, JobsSettle, PriceStutter DEF RowsInv, StoreTypes
  <1>. QED BY <1>3, <1>4, PartsOfInv

\* Rows are stored where there were none, each priced soundly, and the request
\* has inserted at least one.
LEMMA CommitKeeps ==
  ASSUME SweepInv, NEW d \in Digests, CommitRows(d)
  PROVE  SweepInv'
  <1>1. PriceInv /\ RowsInv /\ RequestsInv /\ JobsInv
    BY PartsOfInv
  <1>. DEFINE z == req[d]
              q == [NoReq EXCEPT !.pc = "enqueue", !.last = z.last]
  <1>2. /\ z.pc = "tx" /\ Unstaged(d) = {}
        /\ row' = [r \in Rows |-> IF r[1] = d THEN z.staged[r[2]] ELSE row[r]]
        /\ req' = [req EXCEPT ![d] = q]
        /\ UNCHANGED <<priceVars, sent, held, job, cut, faults>>
    BY DEF CommitRows
  <1>3. /\ req \in [Digests -> RequestType] /\ z \in RequestType
        /\ \A e \in Digests : RequestFits(e, req[e], sent, row)
    BY <1>1, FitsAreLocal DEF RequestsInv
  <1>4. /\ d \in sent /\ \E c \in Coins : Paid[d].amount[c] > 0
        /\ \A c \in Coins : /\ row[<<d, c>>] = NoRow
                            /\ z.staged[c] # NoRow =>
                                 z.staged[c].st = "pending" /\ RowSound(c, z.staged[c])
        /\ IF z.last = None THEN \A c \in Coins : z.staged[c] = NoRow
           ELSE z.staged[z.last] # NoRow
    BY <1>2, <1>3 DEF RequestFits
  <1>5. z.last \in Coins /\ z.last # None /\ z.staged[z.last] # NoRow
    <2>1. ASSUME z.last = None
          PROVE  FALSE
      <3>1. PICK c \in Coins : Paid[d].amount[c] > 0
        BY <1>4
      <3>2. z.staged[c] = NoRow
        BY <1>4, <2>1
      <3>3. c \in Unstaged(d)
        BY <1>4, <3>1, <3>2 DEF Unstaged, verifyDeposit
      <3>. QED BY <1>2, <3>3
    <2>. QED BY <1>3, <1>4, <2>1 DEF RequestType
  <1>6. q \in RequestType /\ q.pc = "enqueue" /\ q.last = z.last
    BY <1>3, FreshTypes DEF RequestType, NoReq
  <1>. HIDE DEF z, q
  <1>7. StoreTypes /\ RowsSound /\ StoredWasSent /\ SweptMeansMoved
    BY <1>1 DEF RowsInv
  <1>8. /\ row' \in [Rows -> RowType]
        /\ \A c \in Coins : row'[<<d, c>>] = z.staged[c]
        /\ \A e \in Digests \ {d}, c \in Coins : row'[<<e, c>>] = row[<<e, c>>]
    <2>1. row \in [Rows -> RowType] /\ z.staged \in [Coins -> RowType]
      BY <1>3, <1>7 DEF StoreTypes, RequestType
    <2>2. \A r \in Rows : r[1] \in Digests /\ r[2] \in Coins
      BY DEF Rows
    <2>3. \A e \in Digests, c \in Coins : <<e, c>> \in Rows
      BY DEF Rows
    <2>. QED BY <1>2, <2>1, <2>2, <2>3
  <1>9. Settling
    BY <1>2, <1>4, <1>8 DEF Settling
  <1>10. RowsInv'
    <2>1. RowsSound'
      <3>1. ASSUME NEW e \in Digests, NEW c \in Coins, row'[<<e, c>>] # NoRow
            PROVE  RowSound(c, row'[<<e, c>>])
        <4>1. CASE e = d
          BY <1>4, <1>8, <3>1, <4>1
        <4>2. CASE e # d
          <5>1. <<e, c>> \in Rows /\ <<e, c>>[2] = c /\ row'[<<e, c>>] = row[<<e, c>>]
            BY <1>8, <4>2 DEF Rows
          <5>. QED BY <1>7, <3>1, <5>1 DEF RowsSound
        <4>. QED BY <4>1, <4>2
      <3>2. \A r \in Rows : r = <<r[1], r[2]>> /\ r[1] \in Digests /\ r[2] \in Coins
        BY DEF Rows
      <3>3. ASSUME NEW r \in Rows, row'[r] # NoRow
            PROVE  RowSound(r[2], row'[r])
        <4>1. r = <<r[1], r[2]>> /\ r[1] \in Digests /\ r[2] \in Coins
          BY <3>2
        <4>. QED BY <3>1, <3>3, <4>1
      <3>. QED BY <3>3 DEF RowsSound, RowSound, InBounds
    <2>2. StoredWasSent'
      BY <1>2, <1>4, <1>7, <1>8 DEF StoredWasSent
    <2>3. SweptMeansMoved'
      <3>1. ASSUME NEW c \in Coins
            PROVE  row'[<<d, c>>].st # "swept"
        BY <1>4, <1>8 DEF NoRow
      <3>. QED BY <1>2, <1>7, <1>8, <3>1 DEF SweptMeansMoved
    <2>4. StoreTypes'
      BY <1>2, <1>7, <1>8 DEF StoreTypes
    <2>. QED BY <2>1, <2>2, <2>3, <2>4 DEF RowsInv
  <1>11. RequestsInv'
    <2>1. ASSUME NEW e \in Digests
          PROVE  RequestFits(e, req'[e], sent', row')
      <3>1. CASE e = d
        <4>1. req'[e] = q
          BY <1>2, <1>3, <3>1
        <4>. QED BY <1>2, <1>4, <1>5, <1>6, <1>8, <3>1, <4>1 DEF RequestFits
      <3>2. CASE e # d
        <4>1. req'[e] = req[e] /\ sent' = sent
          BY <1>2, <1>3, <3>2
        <4>2. \A c \in Coins : row'[<<e, c>>] = row[<<e, c>>]
          BY <1>8, <3>2
        <4>3. req[e].last \in Coins \cup {None} /\ RequestFits(e, req[e], sent, row)
          BY <1>3 DEF RequestType
        <4>. QED BY <4>1, <4>2, <4>3 DEF RequestFits
      <3>. QED BY <3>1, <3>2
    <2>2. req' \in [Digests -> RequestType]
      BY <1>2, <1>3, <1>6
    <2>. QED BY <2>1, <2>2, FitsAreLocal DEF RequestsInv
  <1>12. JobsInv' /\ PriceInv'
    BY <1>1, <1>2, <1>9, JobsSettle, PriceStutter
  <1>. QED BY <1>10, <1>11, <1>12, PartsOfInv

LEMMA NewJobTypes ==
  ASSUME NEW u \in Users \cup {None}, NEW dep \in Rows \cup {None}
  PROVE  /\ NewJob(u, dep) \in JobType
         /\ NewJob(u, dep).pc = "queued" /\ NewJob(u, dep).user = u /\ NewJob(u, dep).dep = dep
  <1>1. NoJob \in JobType
    BY FreshTypes
  <1>. QED BY <1>1 DEF NewJob, JobType

LEMMA EnqueueKeeps ==
  ASSUME SweepInv, NEW d \in Digests, EnqueueSweep(d)
  PROVE  SweepInv'
  <1>1. PriceInv /\ RowsInv /\ RequestsInv /\ JobsInv
    BY PartsOfInv
  <1>. DEFINE c == req[d].last
              b == NewJob(Paid[d].to, <<d, c>>)
  <1>2. /\ req[d].pc = "enqueue" /\ req' = [req EXCEPT ![d] = NoReq]
        /\ UNCHANGED <<priceVars, sent, held, row, cut, faults>>
    BY DEF EnqueueSweep
  <1>3. PICK j \in Jobs : job' = [job EXCEPT ![j] = b]
    BY DEF EnqueueSweep, Free
  <1>4. c \in Coins /\ row[<<d, c>>] # NoRow
    <2>1. RequestFits(d, req[d], sent, row) /\ c \in Coins \cup {None}
      BY <1>1, FitsAreLocal DEF RequestsInv, RequestType
    <2>. QED BY <1>2, <2>1 DEF RequestFits
  <1>5. Paid[d].to \in Users /\ <<d, c>> \in Rows
    BY <1>4, SweepAssumption DEF Rows
  <1>6. b \in JobType /\ b.pc = "queued" /\ b.user = Paid[d].to /\ b.dep = <<d, c>>
    BY <1>5, NewJobTypes
  <1>. HIDE DEF b, c
  <1>7. JobFits(b, held', row', cut')
    BY <1>2, <1>4, <1>6 DEF JobFits
  <1>8. JobsInv'
    BY <1>1, <1>2, <1>3, <1>6, <1>7, StillSettling, JobMoves
  <1>9. RequestsInv'
    <2>1. NoReq \in RequestType /\ RequestFits(d, NoReq, sent, row)
      BY FreshTypes
    <2>. QED BY <1>1, <1>2, <2>1, RequestMoves
  <1>10. RowsInv' /\ PriceInv'
    BY <1>1, <1>2, RowsStutter, PriceStutter DEF RowsInv, StoreTypes
  <1>. QED BY <1>8, <1>9, <1>10, PartsOfInv

LEMMA JobFacts ==
  ASSUME JobsInv, NEW j \in Jobs
  PROVE  job \in [Jobs -> JobType] /\ job[j] \in JobType /\ JobFits(job[j], held, row, cut)
  BY FitsAreLocal DEF JobsInv

\* A job that starts again starts from nothing.
LEMMA AgainFits ==
  ASSUME JobsInv, NEW j \in Jobs
  PROVE  Again(j) \in JobType /\ JobFits(Again(j), held, row, cut)
  <1>. DEFINE z == job[j]
              n == NewJob(z.user, z.dep)
              b == [n EXCEPT !.tries = z.tries + 1]
  <1>1. z \in JobType /\ JobFits(z, held, row, cut)
    BY JobFacts
  <1>2. n \in JobType /\ n.pc = "queued" /\ n.user = z.user /\ n.dep = z.dep
    BY <1>1, NewJobTypes DEF JobType
  <1>. HIDE DEF n
  <1>3. CASE z.tries < MaxTries
    <2>1. z.tries + 1 \in 0 .. MaxTries
      BY <1>1, <1>3, SweepAssumption DEF JobType
    <2>2. b \in JobType /\ b.pc = "queued" /\ b.user = z.user /\ b.dep = z.dep
      BY <1>2, <2>1 DEF JobType
    <2>3. Again(j) = b
      BY <1>3 DEF Again, n
    <2>. HIDE DEF b
    <2>. QED BY <1>1, <2>2, <2>3 DEF JobFits
  <1>4. CASE ~(z.tries < MaxTries)
    BY <1>4, FreshTypes DEF Again
  <1>. QED BY <1>3, <1>4

LEMMA RestartKeeps ==
  ASSUME SweepInv, ApiRestart
  PROVE  SweepInv'
  <1>1. PriceInv /\ RowsInv /\ RequestsInv /\ JobsInv
    BY PartsOfInv
  <1>2. /\ Fault /\ req' = [d \in Digests |-> NoReq] /\ quote' = NoQuote
        /\ snapshot' = staticSnapshot(0) /\ UNCHANGED <<clock, sent, held, row, cut>>
    BY DEF ApiRestart, warmPriceFeed
  <1>3. PriceInv'
    <2>1. Priced(snapshot)' /\ snapshot'.lastFeedSuccessAt = 0
      BY <1>2, StaticPriced DEF Priced
    <2>2. quote' \in [asked : BOOLEAN, micro : Nat] /\ QuoteSound(quote'.micro)
      <3>1. NoQuote.micro = 0
        BY DEF NoQuote, Unpriced
      <3>. QED BY <1>2, <3>1, NothingIsSound
    <2>3. clock \in Nat /\ 0 <= clock
      BY <1>1 DEF PriceInv
    <2>. QED BY <1>2, <2>1, <2>2, <2>3 DEF PriceInv
  <1>4. RequestsInv'
    <2>1. \A d \in Digests : RequestFits(d, req'[d], sent', row')
      BY <1>2, FreshTypes
    <2>2. req' \in [Digests -> RequestType]
      BY <1>2, FreshTypes
    <2>. QED BY <2>1, <2>2, FitsAreLocal DEF RequestsInv
  <1>5. RowsInv'
    <2>1. faults' \in 0 .. MaxFaults
      BY <1>1, <1>2, FaultTypes DEF RowsInv, StoreTypes
    <2>. QED BY <1>1, <1>2, <2>1, RowsStutter
  <1>6. JobsInv'
    <2>1. ASSUME NEW j \in Jobs
          PROVE  job'[j] \in JobType /\ JobFits(job'[j], held, row, cut)
      <3>1. job'[j] = job[j] \/ job'[j] = Again(j)
        BY DEF ApiRestart
      <3>. QED BY <1>1, <3>1, JobFacts, AgainFits
    <2>2. job' \in [Jobs -> JobType]
      <3>1. job' = [j \in Jobs |-> job'[j]]
        BY DEF ApiRestart
      <3>. QED BY <2>1, <3>1
    <2>. QED BY <1>2, <2>1, <2>2, FitsAreLocal DEF JobsInv
  <1>. QED BY <1>3, <1>4, <1>5, <1>6, PartsOfInv

-----------------------------------------------------------------------------
(***************************************************************************)
(* Sweeping.                                                               *)
(***************************************************************************)
LEMMA HeldByParts ==
  ASSUME NEW u
  PROVE  /\ HeldBy(u) \subseteq Rows /\ eligible(u) \subseteq Coins
         /\ \A d \in Digests, c \in Coins :
              <<d, c>> \in HeldBy(u) <=> Paid[d].to = u /\ c \in held[d]
         /\ \A d \in Digests, c \in Coins :
              <<d, c>> \in HeldBy(u) => c \in eligible(u) /\ <<d, c>> \in CoinsOf(u, c)
  <1>1. /\ HeldBy(u) \subseteq Rows
        /\ \A d \in Digests, c \in Coins :
             <<d, c>> \in HeldBy(u) <=> Paid[d].to = u /\ c \in held[d]
    BY DEF HeldBy, Rows
  <1>2. eligible(u) \subseteq Coins
    <2>1. \A r \in Rows : r[2] \in Coins
      BY DEF Rows
    <2>. QED BY <1>1, <2>1 DEF eligible
  <1>3. ASSUME NEW d \in Digests, NEW c \in Coins, <<d, c>> \in HeldBy(u)
        PROVE  c \in eligible(u) /\ <<d, c>> \in CoinsOf(u, c)
    <2>1. <<d, c>>[2] = c
      OBVIOUS
    <2>. QED BY <1>3, <2>1 DEF eligible, CoinsOf
  <1>. QED BY <1>1, <1>2, <1>3

\* A coin of the job's deposit that is there is of a type found.
LEMMA BalancesKeep ==
  ASSUME JobsInv, NEW j \in Jobs, ListBalances(j)
  PROVE  JobsInv'
  <1>. DEFINE z == job[j]
              b == [z EXCEPT !.pc = "listed", !.types = eligible(z.user)]
  <1>1. /\ job \in [Jobs -> JobType] /\ z \in JobType /\ JobFits(z, held, row, cut)
    BY JobFacts
  <1>2. UNCHANGED <<held, row, cut>>
    BY DEF ListBalances
  <1>3. CASE job' = [job EXCEPT ![j] = NoJob]
    BY <1>2, <1>3, FreshTypes, StillSettling, JobMoves
  <1>4. CASE job' = [job EXCEPT ![j] = b]
    <2>1. eligible(z.user) \subseteq Coins
      BY HeldByParts
    <2>2. b \in JobType
      BY <1>1, <2>1 DEF JobType
    <2>3. b.dep = z.dep /\ b.user = z.user /\ b.pc = "listed" /\ b.types = eligible(z.user)
      BY <1>1 DEF JobType
    <2>. HIDE DEF b
    <2>4. JobFits(b, held', row', cut')
      BY <1>1, <1>2, <2>3, HeldByParts DEF JobFits
    <2>. QED BY <1>2, <1>4, <2>2, <2>4, StillSettling, JobMoves
  <1>5. job' = [job EXCEPT ![j] = NoJob] \/ job' = [job EXCEPT ![j] = b]
    BY DEF ListBalances
  <1>. QED BY <1>3, <1>4, <1>5

\* A coin of the job's deposit that is there is among those listed, or its listing
\* was cut.
LEMMA CoinsKeep ==
  ASSUME JobsInv, cut \subseteq Users \X Coins, NEW j \in Jobs, NEW c \in Coins, ListCoins(j, c)
  PROVE  JobsInv' /\ cut' \subseteq Users \X Coins /\ cut \subseteq cut'
  <1>. DEFINE z == job[j]
              all == CoinsOf(z.user, c)
              pc == IF z.types = {c} THEN "built" ELSE "listed"
  <1>1. /\ job \in [Jobs -> JobType] /\ z \in JobType /\ JobFits(z, held, row, cut)
    BY JobFacts
  <1>2. z.pc = "listed" /\ c \in z.types /\ UNCHANGED <<held, row>>
    BY DEF ListCoins
  <1>3. PICK page \in Page(all) :
          /\ job' = [job EXCEPT ![j].pc = pc, ![j].types = z.types \ {c},
                               ![j].objs = z.objs \cup page]
          /\ cut' = IF page = all THEN cut ELSE cut \cup {<<z.user, c>>}
    BY DEF ListCoins
  <1>4. all \subseteq Rows /\ page \subseteq all
    BY <1>3, HeldByParts DEF CoinsOf, Page
  <1>. DEFINE b == [z EXCEPT !.pc = pc, !.types = z.types \ {c}, !.objs = z.objs \cup page]
  <1>5. job' = [job EXCEPT ![j] = b]
    BY <1>1, <1>3
  <1>6. b \in JobType
    BY <1>1, <1>4 DEF JobType
  <1>7. /\ b.dep = z.dep /\ b.user = z.user /\ b.pc = pc
        /\ b.types = z.types \ {c} /\ b.objs = z.objs \cup page
    BY <1>1 DEF JobType
  <1>8. page = all \/ <<z.user, c>> \in cut'
    BY <1>3
  <1>9. cut \subseteq cut' /\ cut' \subseteq cut \cup {<<z.user, c>>}
    BY <1>3
  <1>10. cut' \subseteq Users \X Coins
    <2>1. CASE z.user \in Users
      BY <1>9, <2>1
    <2>2. CASE z.user \notin Users
      <3>1. all = {}
        BY <2>2, SweepAssumption DEF CoinsOf, HeldBy, Rows
      <3>. QED BY <1>3, <1>4, <3>1
    <2>. QED BY <2>1, <2>2
  <1>. HIDE DEF b
  <1>11. ASSUME NEW d \in Digests, NEW e \in Coins, b.dep = <<d, e>>,
                e \in held'[d], <<b.user, e>> \notin cut'
         PROVE  <<d, e>> \in b.objs \/ (e \in b.types /\ b.pc = "listed")
    <2>1. /\ z.user = Paid[d].to /\ e \in held[d] /\ <<z.user, e>> \notin cut
          /\ e \in z.types \/ <<d, e>> \in z.objs
      BY <1>1, <1>2, <1>7, <1>9, <1>11 DEF JobFits
    <2>2. CASE e = c
      <3>1. <<d, e>> \in all
        BY <2>1, <2>2, HeldByParts
      <3>. QED BY <1>7, <1>8, <1>11, <2>2, <3>1
    <2>3. CASE e # c
      BY <1>7, <2>1, <2>3
    <2>. QED BY <2>2, <2>3
  <1>12. b.pc \in {"listed", "built"} /\ (b.pc = "built" => b.types = {})
    BY <1>7
  <1>13. JobFits(b, held', row', cut')
    BY <1>1, <1>2, <1>7, <1>11, <1>12 DEF JobFits
  <1>14. Settling
    BY <1>2, <1>9 DEF Settling
  <1>. QED BY <1>5, <1>6, <1>9, <1>10, <1>13, <1>14, JobMoves

\* What a transaction moves is gone, and nothing comes back.
LEMMA DrainKeeps ==
  ASSUME RowsInv, JobsInv, NEW j \in Jobs, NEW label \in {"moved", "failed"},
         job[j].pc = "built", Drain(j), Ran(j, label), UNCHANGED <<sent, row, cut>>,
         faults' \in 0 .. MaxFaults
  PROVE  RowsInv' /\ JobsInv'
  <1>. DEFINE z == job[j]
              b == [z EXCEPT !.pc = label, !.types = {}, !.objs = {}]
  <1>1. /\ job \in [Jobs -> JobType] /\ z \in JobType /\ JobFits(z, held, row, cut)
    BY JobFacts
  <1>2. /\ held \in [Digests -> SUBSET Coins] /\ StoreTypes /\ RowsSound /\ StoredWasSent
        /\ SweptMeansMoved
    BY DEF RowsInv, StoreTypes
  <1>3. /\ held' \in [Digests -> SUBSET Coins]
        /\ \A d \in Digests : held'[d] \subseteq held[d]
        /\ \A d \in Digests, c \in Coins : <<d, c>> \in z.objs => c \notin held'[d]
    BY <1>2 DEF Drain
  <1>4. Settling
    BY <1>3 DEF Settling
  <1>5. RowsInv'
    BY <1>2, <1>3 DEF RowsInv, StoreTypes, RowsSound, StoredWasSent, SweptMeansMoved
  <1>6. job' = [job EXCEPT ![j] = b]
    BY <1>1 DEF Ran
  <1>7. b \in JobType /\ b.dep = z.dep /\ b.user = z.user /\ b.pc = label
    BY <1>1 DEF JobType
  <1>. HIDE DEF b
  <1>8. JobFits(b, held', row', cut')
    BY <1>1, <1>3, <1>7 DEF JobFits
  <1>. QED BY <1>4, <1>5, <1>6, <1>7, <1>8, JobMoves

LEMMA RejectedKeeps ==
  ASSUME JobsInv, NEW j \in Jobs, SweepRejected(j)
  PROVE  JobsInv'
  <1>. DEFINE z == job[j]
              b == [z EXCEPT !.pc = "failed", !.types = {}, !.objs = {}]
  <1>1. /\ job \in [Jobs -> JobType] /\ z \in JobType /\ JobFits(z, held, row, cut)
    BY JobFacts
  <1>2. job' = [job EXCEPT ![j] = b] /\ UNCHANGED <<held, row, cut>>
    BY <1>1 DEF SweepRejected, Ran
  <1>3. b \in JobType /\ b.dep = z.dep /\ b.user = z.user /\ b.pc = "failed"
    BY <1>1 DEF JobType
  <1>. HIDE DEF b
  <1>4. JobFits(b, held', row', cut')
    BY <1>1, <1>2, <1>3 DEF JobFits
  <1>. QED BY <1>2, <1>3, <1>4, StillSettling, JobMoves

\* A mark changes the status of the job's own row, to swept only where the coin
\* has left.
LEMMA MarkKeeps ==
  ASSUME RowsInv, RequestsInv, JobsInv, NEW j \in Jobs, NEW status \in {"swept", "failed"},
         Mark(j, status), status = "swept" => job[j].pc = "moved",
         UNCHANGED <<sent, held, req, cut, faults>>
  PROVE  RowsInv' /\ RequestsInv' /\ Settling
  <1>. DEFINE z == job[j]
  <1>1. /\ z \in JobType /\ JobFits(z, held, row, cut)
    BY JobFacts
  <1>2. StoreTypes /\ RowsSound /\ StoredWasSent /\ SweptMeansMoved
    BY DEF RowsInv
  <1>3. row \in [Rows -> RowType] /\ \A d \in Digests, c \in Coins : <<d, c>> \in Rows
    BY <1>2 DEF StoreTypes, Rows
  <1>4. /\ row' = [r \in Rows |-> IF r = z.dep THEN [row[r] EXCEPT !.st = status] ELSE row[r]]
    BY DEF Mark
  <1>5. ASSUME NEW d \in Digests, NEW c \in Coins, <<d, c>> = z.dep
        PROVE  row[<<d, c>>] # NoRow /\ (z.pc = "moved" => c \notin held[d] \/ <<Paid[d].to, c>> \in cut)
    BY <1>1, <1>5 DEF JobFits
  <1>. HIDE DEF z
  <1>6. ASSUME NEW r \in RowType
        PROVE  LET m == [r EXCEPT !.st = status]
               IN  /\ m \in RowType /\ m # NoRow /\ m.st = status
                   /\ m.rate = r.rate /\ m.age = r.age
    BY DEF RowType, NoRow
  <1>7. row' \in [Rows -> RowType]
    BY <1>3, <1>4, <1>6
  <1>8. ASSUME NEW d \in Digests, NEW c \in Coins
        PROVE  /\ row'[<<d, c>>] # NoRow <=> row[<<d, c>>] # NoRow
               /\ row'[<<d, c>>].rate = row[<<d, c>>].rate /\ row'[<<d, c>>].age = row[<<d, c>>].age
               /\ row'[<<d, c>>].st = "swept" =>
                    c \notin held[d] \/ <<Paid[d].to, c>> \in cut
    <2>1. <<d, c>> \in Rows /\ row[<<d, c>>] \in RowType
      BY <1>3
    <2>2. CASE <<d, c>> = z.dep
      <3>1. row'[<<d, c>>] = [row[<<d, c>>] EXCEPT !.st = status]
        BY <1>4, <2>1, <2>2
      <3>2. status = "swept" => c \notin held[d] \/ <<Paid[d].to, c>> \in cut
        BY <1>5, <2>2 DEF z
      <3>. QED BY <1>5, <1>6, <2>1, <2>2, <3>1, <3>2
    <2>3. CASE <<d, c>> # z.dep
      <3>1. row'[<<d, c>>] = row[<<d, c>>]
        BY <1>4, <2>1, <2>3
      <3>. QED BY <1>2, <3>1 DEF SweptMeansMoved
    <2>. QED BY <2>2, <2>3
  <1>9. Settling
    BY <1>8 DEF Settling
  <1>10. RowsInv'
    <2>1. RowsSound'
      <3>1. ASSUME NEW r \in Rows, row'[r] # NoRow
            PROVE  RowSound(r[2], row'[r])
        <4>1. r[1] \in Digests /\ r[2] \in Coins /\ r = <<r[1], r[2]>>
          BY DEF Rows
        <4>2. /\ row[r] # NoRow /\ row'[r].rate = row[r].rate /\ row'[r].age = row[r].age
          BY <1>8, <3>1, <4>1
        <4>3. RowSound(r[2], row[r])
          BY <1>2, <4>2 DEF RowsSound
        <4>. QED BY <4>2, <4>3 DEF RowSound
      <3>. QED BY <3>1 DEF RowsSound, RowSound, InBounds
    <2>2. StoredWasSent' /\ SweptMeansMoved'
      BY <1>2, <1>8 DEF StoredWasSent, SweptMeansMoved
    <2>3. StoreTypes'
      BY <1>2, <1>7 DEF StoreTypes
    <2>. QED BY <2>1, <2>2, <2>3 DEF RowsInv
  <1>11. RequestsInv'
    <2>1. ASSUME NEW d \in Digests
          PROVE  RequestFits(d, req'[d], sent', row')
      <3>1. RequestFits(d, req[d], sent, row) /\ req[d].last \in Coins \cup {None}
        BY FitsAreLocal DEF RequestsInv, RequestType
      <3>2. \A c \in Coins : row'[<<d, c>>] # NoRow <=> row[<<d, c>>] # NoRow
        BY <1>8
      <3>. QED BY <3>1, <3>2 DEF RequestFits
    <2>. QED BY <2>1, FitsAreLocal DEF RequestsInv
  <1>. QED BY <1>9, <1>10, <1>11

LEMMA SweepsKeep ==
  ASSUME SweepInv, NEW j \in Jobs, SweepStep(j) \/ SweepUnanswered(j) \/ WorkerCrash(j)
  PROVE  SweepInv'
  <1>1. PriceInv /\ RowsInv /\ RequestsInv /\ JobsInv
    BY PartsOfInv
  <1>2. UNCHANGED <<priceVars, sent, req>>
    BY DEF SweepStep, SweepUnanswered, WorkerCrash, ListBalances, ListCoins, SweepLands,
           SweepRejected, markDepositSwept, markDepositSweepFailed, jobVars
  <1>3. PriceInv'
    BY <1>1, <1>2, PriceStutter
  <1>4. faults \in 0 .. MaxFaults
    BY <1>1 DEF RowsInv, StoreTypes
  <1>5. faults' \in 0 .. MaxFaults
    <2>1. Fault \/ UNCHANGED faults
      BY DEF SweepStep, SweepUnanswered, WorkerCrash, ListBalances, ListCoins, SweepLands,
             SweepRejected, markDepositSwept, markDepositSweepFailed
    <2>. QED BY <1>4, <2>1, FaultTypes
  <1>6. ASSUME UNCHANGED row
        PROVE  RequestsInv'
    BY <1>1, <1>2, <1>6 DEF RequestsInv, RequestsFit
  <1>7. CASE ListBalances(j)
    <2>1. UNCHANGED <<held, row, cut>>
      BY <1>7 DEF ListBalances
    <2>. QED BY <1>1, <1>2, <1>3, <1>5, <1>6, <1>7, <2>1, BalancesKeep, RowsStutter, PartsOfInv
  <1>7a. CASE \E c \in Coins : ListCoins(j, c)
    <2>1. PICK c \in Coins : ListCoins(j, c)
      BY <1>7a
    <2>2. UNCHANGED <<held, row>>
      BY <2>1 DEF ListCoins
    <2>3. JobsInv' /\ cut' \subseteq Users \X Coins /\ cut \subseteq cut'
      BY <1>1, <2>1, CoinsKeep DEF RowsInv, StoreTypes
    <2>4. RowsInv'
      BY <1>1, <1>2, <1>5, <2>2, <2>3
         DEF RowsInv, StoreTypes, RowsSound, StoredWasSent, SweptMeansMoved
    <2>. QED BY <1>3, <1>6, <2>2, <2>3, <2>4, PartsOfInv
  <1>8. CASE SweepLands(j) \/ SweepUnanswered(j)
    <2>1. /\ job[j].pc = "built" /\ Drain(j) /\ (Ran(j, "moved") \/ Ran(j, "failed"))
          /\ UNCHANGED <<row, cut>>
      BY <1>8 DEF SweepLands, SweepUnanswered
    <2>2. RowsInv' /\ JobsInv'
      BY <1>1, <1>2, <1>5, <2>1, DrainKeeps
    <2>. QED BY <1>3, <1>6, <2>1, <2>2, PartsOfInv
  <1>9. CASE SweepRejected(j)
    <2>1. UNCHANGED <<held, row, cut>>
      BY <1>9 DEF SweepRejected
    <2>. QED BY <1>1, <1>2, <1>3, <1>5, <1>6, <1>9, <2>1, RejectedKeeps, RowsStutter, PartsOfInv
  <1>10. CASE markDepositSwept(j)
    <2>1. /\ job[j].pc = "moved" /\ Mark(j, "swept") /\ job' = [job EXCEPT ![j] = NoJob]
          /\ UNCHANGED <<held, cut, faults>>
      BY <1>10 DEF markDepositSwept
    <2>2. RowsInv' /\ RequestsInv' /\ Settling
      BY <1>1, <1>2, <2>1, MarkKeeps
    <2>3. JobsInv'
      BY <1>1, <2>1, <2>2, FreshTypes, JobMoves
    <2>. QED BY <1>3, <2>2, <2>3, PartsOfInv
  <1>11. CASE markDepositSweepFailed(j)
    <2>1. /\ Mark(j, "failed") /\ job' = [job EXCEPT ![j] = Again(j)]
          /\ UNCHANGED <<held, cut, faults>>
      BY <1>11 DEF markDepositSweepFailed
    <2>2. RowsInv' /\ RequestsInv' /\ Settling
      BY <1>1, <1>2, <2>1, MarkKeeps
    <2>3. Again(j) \in JobType /\ JobFits(Again(j), held, row, cut)
      BY <1>1, AgainFits
    <2>4. JobsInv'
      BY <1>1, <2>1, <2>2, <2>3, JobSettles, JobMoves
    <2>. QED BY <1>3, <2>2, <2>4, PartsOfInv
  <1>12. CASE WorkerCrash(j)
    <2>1. job' = [job EXCEPT ![j] = Again(j)] /\ UNCHANGED <<held, row, cut>>
      BY <1>12 DEF WorkerCrash
    <2>2. Again(j) \in JobType /\ JobFits(Again(j), held, row, cut)
      BY <1>1, AgainFits
    <2>3. JobsInv'
      BY <1>1, <2>1, <2>2, StillSettling, JobMoves
    <2>. QED BY <1>1, <1>2, <1>3, <1>5, <1>6, <2>1, <2>3, RowsStutter, PartsOfInv
  <1>. QED BY <1>7, <1>7a, <1>8, <1>9, <1>10, <1>11, <1>12 DEF SweepStep

\* The jobs of billing.sweep-retry name no row, and so mark none.
LEMMA RetryKeeps ==
  ASSUME SweepInv, SweepRetry
  PROVE  SweepInv'
  <1>1. PriceInv /\ RowsInv /\ RequestsInv /\ JobsInv
    BY PartsOfInv
  <1>2. UNCHANGED <<priceVars, sent, held, row, req, cut, faults>>
    BY DEF SweepRetry
  <1>3. PICK S \in Picks :
          \E f \in Injection({Paid[r[1]].to : r \in S}, Free) :
            job' = [j \in Jobs |-> IF \E u \in {Paid[r[1]].to : r \in S} : f[u] = j
                                   THEN NewJob(CHOOSE u \in {Paid[r[1]].to : r \in S} : f[u] = j,
                                               None)
                                   ELSE job[j]]
    BY Zenon DEF SweepRetry
  <1>. DEFINE who == {Paid[r[1]].to : r \in S}
  <1>4. who \subseteq Users
    <2>1. S \subseteq Rows
      BY DEF Picks, Stuck
    <2>2. \A r \in Rows : r[1] \in Digests
      BY DEF Rows
    <2>3. \A d \in Digests : Paid[d].to \in Users
      BY SweepAssumption
    <2>. QED BY <2>1, <2>2, <2>3
  <1>5. PICK f \in Injection(who, Free) :
          job' = [j \in Jobs |-> IF \E u \in who : f[u] = j
                                 THEN NewJob(CHOOSE u \in who : f[u] = j, None)
                                 ELSE job[j]]
    BY ONLY <1>3
  <1>. HIDE DEF who
  <1>6. ASSUME NEW u \in Users
        PROVE  NewJob(u, None) \in JobType /\ JobFits(NewJob(u, None), held, row, cut)
    <2>1. NewJob(u, None) \in JobType /\ NewJob(u, None).dep = None
      BY NewJobTypes
    <2>. QED BY <2>1, SweepAssumption DEF JobFits
  <1>7. ASSUME NEW j \in Jobs
        PROVE  job'[j] \in JobType /\ JobFits(job'[j], held, row, cut)
    <2>1. CASE \E u \in who : f[u] = j
      <3>. DEFINE u == CHOOSE u \in who : f[u] = j
      <3>1. u \in who
        BY <2>1
      <3>2. job'[j] = NewJob(u, None)
        BY <1>5, <2>1
      <3>. HIDE DEF u
      <3>. QED BY <1>4, <1>6, <3>1, <3>2
    <2>2. CASE ~\E u \in who : f[u] = j
      BY <1>1, <1>5, <2>2, JobFacts
    <2>. QED BY <2>1, <2>2
  <1>8. job' \in [Jobs -> JobType]
    BY <1>5, <1>7
  <1>9. JobsInv'
    <2>1. \A j \in Jobs : JobFits(job'[j], held', row', cut')
      BY <1>2, <1>7
    <2>. QED BY <1>8, <2>1, FitsAreLocal DEF JobsInv
  <1>10. RequestsInv'
    BY <1>1, <1>2 DEF RequestsInv, RequestsFit
  <1>11. RowsInv' /\ PriceInv'
    BY <1>1, <1>2, RowsStutter, PriceStutter DEF RowsInv, StoreTypes
  <1>. QED BY <1>9, <1>10, <1>11, PartsOfInv

-----------------------------------------------------------------------------
(***************************************************************************)
(* The inductive invariant and the theorems.                               *)
(***************************************************************************)
LEMMA SweepStarts ==
  ASSUME Init
  PROVE  SweepInv
  <1>1. PriceInv
    <2>1. Priced(snapshot) /\ snapshot.lastFeedSuccessAt = 0
      BY StaticPriced DEF Init, PriceInit
    <2>2. quote \in [asked : BOOLEAN, micro : Nat] /\ QuoteSound(quote.micro)
      <3>1. NoQuote.micro = 0
        BY DEF NoQuote, Unpriced
      <3>. QED BY <3>1, NothingIsSound DEF Init, PriceInit
    <2>. QED BY <2>1, <2>2 DEF Init, PriceInit, PriceInv
  <1>2. /\ \A r \in Rows : row[r] = NoRow
        /\ \A d \in Digests, c \in Coins : <<d, c>> \in Rows
    BY DEF Init, Rows
  <1>3. RowsInv
    <2>1. StoreTypes
      BY FreshTypes, SweepAssumption DEF Init, StoreTypes
    <2>2. SweptMeansMoved
      BY DEF Init, SweptMeansMoved
    <2>. QED BY <1>2, <2>1, <2>2 DEF RowsInv, RowsSound, StoredWasSent
  <1>4. RequestsInv
    <2>1. \A d \in Digests : RequestFits(d, req[d], sent, row)
      BY FreshTypes DEF Init
    <2>2. req \in [Digests -> RequestType]
      BY FreshTypes DEF Init
    <2>. QED BY <2>1, <2>2, FitsAreLocal DEF RequestsInv
  <1>5. JobsInv
    <2>1. \A j \in Jobs : JobFits(job[j], held, row, cut)
      BY FreshTypes DEF Init
    <2>2. job \in [Jobs -> JobType]
      BY FreshTypes DEF Init
    <2>. QED BY <2>1, <2>2, FitsAreLocal DEF JobsInv
  <1>. QED BY <1>1, <1>3, <1>4, <1>5, PartsOfInv

LEMMA SweepSteps ==
  ASSUME SweepInv, [Next]_vars
  PROVE  SweepInv'
  <1>1. ASSUME NEW d \in Digests,
               \/ Send(d) \/ InsertFails(d) \/ CommitRows(d) \/ EnqueueSweep(d)
               \/ \E u \in Users : Declare(d, u)
               \/ \E c \in Coins : InsertRow(d, c)
        PROVE  SweepInv'
    BY <1>1, SendKeeps, InsertFailsKeeps, CommitKeeps, EnqueueKeeps, DeclareKeeps, InsertKeeps
  <1>2. CASE Sweeps
    BY <1>2, SweepsKeep DEF Sweeps
  <1>3. CASE SweepRetry
    BY <1>3, RetryKeeps
  <1>4. CASE ApiRestart
    BY <1>4, RestartKeeps
  <1>5. ASSUME PriceInv', UNCHANGED sweepVars
        PROVE  SweepInv'
    <2>1. PriceInv /\ RowsInv /\ RequestsInv /\ JobsInv
      BY PartsOfInv
    <2>2. UNCHANGED <<sent, held, row, req, job, cut, faults>>
      BY <1>5 DEF sweepVars
    <2>3. RequestsInv'
      BY <2>1, <2>2 DEF RequestsInv, RequestsFit
    <2>4. RowsInv' /\ JobsInv'
      BY <2>1, <2>2, RowsStutter, StillSettling, JobsSettle DEF RowsInv, StoreTypes
    <2>. QED BY <1>5, <2>3, <2>4, PartsOfInv
  <1>6. CASE Prices
    <2>1. PriceInv /\ UNCHANGED sweepVars
      BY <1>6, PartsOfInv DEF Prices
    <2>. QED BY <1>5, <1>6, <2>1, PricesKeep DEF Prices
  <1>7. CASE UNCHANGED vars
    <2>1. PriceInv /\ UNCHANGED sweepVars /\ UNCHANGED priceVars
      BY <1>7, PartsOfInv DEF vars
    <2>. QED BY <1>5, <2>1, PriceStutter
  <1>. QED BY <1>1, <1>2, <1>3, <1>4, <1>6, <1>7, Zenon DEF Next, Deposits

LEMMA SweepInvariant == Spec => []SweepInv
  BY SweepStarts, SweepSteps, PTL DEF Spec

\* Every variable of the sweep and of the price feed keeps its type.
THEOREM SweepTypeCorrect == Spec => []TypeOK
  <1>1. SweepInv => TypeOK
    BY DEF SweepInv
  <1>. QED BY <1>1, SweepInvariant, PTL

\* No deposit is credited at a rate out of bounds or from a feed gone stale, and
\* no quote is above its bounds, whatever refreshes and restarts come between.
THEOREM RatesStaySound == Spec => []RatesAreSound
  <1>1. SweepInv => RatesAreSound
    BY DEF SweepInv
  <1>. QED BY <1>1, SweepInvariant, PTL

\* A row that says swept is the row of coins that have left the address, unless the
\* address has held more objects of their type than one listing returns.
THEOREM SweptRowsMoved == Spec => []SweptMeansMoved
  <1>1. SweepInv => SweptMeansMoved
    BY DEF SweepInv
  <1>. QED BY <1>1, SweepInvariant, PTL
=============================================================================
