------------------------- MODULE StreamFetch_proofs -------------------------
(***************************************************************************)
(* Proofs about StreamFetch, for every value of its constants: any items,  *)
(* any limits, any number of threads.                                      *)
(***************************************************************************)
EXTENDS StreamFetch, FiniteSetTheorems, WellFoundedInduction, TLAPS

-----------------------------------------------------------------------------
(* The shape of the pool.                                                  *)

\* The threads that are about to write a chunk.
Writers == {w \in Workers : pool.busy[w].at = "write"}

Pools(L, B) ==
    [left : L, busy : [Workers -> [at : {"idle", "check", "write"}, left : B]],
     total : Nat, abort : BOOLEAN, missing : BOOLEAN, cut : BOOLEAN]

\* How much is left, of the playlist and of a segment, plays no part.
PoolInv ==
    /\ \E L, B : pool \in Pools(L, B)
    /\ limits \in [min : Nat, max : Nat, cap : Nat]
    /\ stage = "rest" => pool = NoPool

\* The total is over the limit exactly when the event is set, and the threads
\* that have looked at the event before it was set are all that may still write.
BytesInv ==
    /\ IF pool.abort THEN pool.total > limits.max ELSE pool.total <= limits.max
    /\ pool.abort => limits.max # 0
    /\ limits.max # 0 =>
         pool.total + Cardinality(Writers) <= limits.max + Cardinality(Workers)

\* A pool of threads that has done nothing yet but read the playlist.
LEMMA FreshPool ==
    ASSUME NEW n
    PROVE  LET p == [NoPool EXCEPT !.left = n]
           IN  /\ \E L, B : p \in Pools(L, B)
               /\ p.total = 0 /\ p.abort = FALSE
               /\ \A w \in Workers : p.busy[w].at = "idle"
<1> DEFINE p == [NoPool EXCEPT !.left = n]
<1>1. p \in Pools({n, 0}, {0})
  BY DEF NoPool, Pools
<1>2. p.total = 0 /\ p.abort = FALSE /\ \A w \in Workers : p.busy[w].at = "idle"
  BY DEF NoPool
<1> QED
  BY <1>1, <1>2

\* The pool of an item that is not in the third strategy.
LEMMA EmptyPool ==
    /\ \E L, B : NoPool \in Pools(L, B)
    /\ NoPool.total = 0 /\ NoPool.abort = FALSE
    /\ \A w \in Workers : NoPool.busy[w].at = "idle"
<1>1. NoPool \in Pools({0}, {0})
  BY DEF NoPool, Pools
<1>2. NoPool.total = 0 /\ NoPool.abort = FALSE
      /\ \A w \in Workers : NoPool.busy[w].at = "idle"
  BY DEF NoPool
<1> QED
  BY <1>1, <1>2

\* The threads that write are threads.
LEMMA WritersBounded ==
    /\ IsFiniteSet(Writers) /\ Cardinality(Writers) \in Nat
    /\ Cardinality(Workers) \in Nat /\ Cardinality(Writers) <= Cardinality(Workers)
<1>1. Writers \subseteq Workers /\ IsFiniteSet(Workers)
  BY FetchAssumption DEF Writers
<1> QED
  BY <1>1, FS_Subset, FS_CardinalityType

\* What one thread does to the pool.
LEMMA ThreadMoves ==
    ASSUME NEW w \in Workers, NEW at \in {"idle", "check", "write"}, NEW left,
           \E L, B : pool \in Pools(L, B)
    PROVE  LET p == Busy(w, at, left)
           IN  /\ \E L, B : p \in Pools(L, B)
               /\ p.total = pool.total /\ p.abort = pool.abort
               /\ \A v \in Workers : p.busy[v].at = IF v = w THEN at ELSE pool.busy[v].at
<1> DEFINE p == Busy(w, at, left)
<1>1. PICK L, B : pool \in Pools(L, B)
  OBVIOUS
<1>2. p \in Pools(L, B \cup {left})
  BY <1>1 DEF Busy, Pools
<1>3. /\ p.total = pool.total /\ p.abort = pool.abort
      /\ \A v \in Workers : p.busy[v].at = IF v = w THEN at ELSE pool.busy[v].at
  BY <1>1 DEF Busy, Pools
<1> QED
  BY <1>2, <1>3

-----------------------------------------------------------------------------
(* BytesBounded.                                                           *)

\* A pool in which nothing was counted and nobody writes is within bounds.
LEMMA FreshBytes ==
    ASSUME limits.max \in Nat, pool.total = 0, pool.abort = FALSE,
           \A w \in Workers : pool.busy[w].at = "idle"
    PROVE  BytesInv
<1>1. Writers = {}
  BY DEF Writers
<1>2. Cardinality(Writers) = 0 /\ Cardinality(Workers) \in Nat
  BY <1>1, FS_EmptySet, WritersBounded
<1> QED
  BY <1>2 DEF BytesInv

\* The end of an item in a run.
LEMMA RestKeeps ==
    ASSUME NEW judged, PoolInv, Rests(judged)
    PROVE  PoolInv' /\ BytesInv'
<1>1. pool' = NoPool /\ limits' = limits
  BY DEF Rests
<1>2. PoolInv'
  BY <1>1, EmptyPool DEF PoolInv
<1>3. /\ limits'.max \in Nat /\ pool'.total = 0 /\ pool'.abort = FALSE
      /\ \A w \in Workers : pool'.busy[w].at = "idle"
  BY <1>1, EmptyPool DEF PoolInv
<1>4. Writers' = {}
  BY <1>3 DEF Writers
<1>5. Cardinality(Writers') = 0 /\ Cardinality(Workers) \in Nat
  BY <1>4, FS_EmptySet, WritersBounded
<1>6. BytesInv'
  BY <1>3, <1>5 DEF BytesInv
<1> QED
  BY <1>2, <1>6

\* A step of another strategy, which leaves the pool as it is.
LEMMA OthersKeep ==
    ASSUME PoolInv, BytesInv, UNCHANGED <<pool, limits>>, stage' # "rest"
    PROVE  PoolInv' /\ BytesInv'
BY DEF PoolInv, BytesInv, Writers

\* A thread that does not write before or after its step.
LEMMA NobodyNewWrites ==
    ASSUME PoolInv, BytesInv, UNCHANGED <<limits, stage>>, stage # "rest",
           \E L, B : pool' \in Pools(L, B),
           pool'.total = pool.total, pool'.abort = pool.abort,
           \A v \in Workers : pool'.busy[v].at = "write" <=> pool.busy[v].at = "write"
    PROVE  PoolInv' /\ BytesInv'
<1>1. Writers' = Writers
  BY DEF Writers
<1> QED
  BY <1>1 DEF PoolInv, BytesInv

\* TakeSegment.
LEMMA TakeKeeps ==
    ASSUME NEW w \in Workers, PoolInv, BytesInv, TakeSegment(w)
    PROVE  PoolInv' /\ BytesInv'
<1>1. stage # "rest" /\ UNCHANGED <<limits, stage>> /\ pool.busy[w].at = "idle"
  BY DEF TakeSegment, PoolStep
<1>2. PICK L, B : pool \in Pools(L, B)
  BY DEF PoolInv
<1>3. CASE pool' = [Busy(w, "check", SegmentChunks) EXCEPT !.left = @ - 1]
  <2> DEFINE p == Busy(w, "check", SegmentChunks)
  <2>1. /\ \E M, C : p \in Pools(M, C)
        /\ p.total = pool.total /\ p.abort = pool.abort
        /\ \A v \in Workers : p.busy[v].at = IF v = w THEN "check" ELSE pool.busy[v].at
    BY <1>2, ThreadMoves
  <2> HIDE DEF p
  <2>2. PICK M, C : p \in Pools(M, C)
    BY <2>1
  <2>3. pool' = [p EXCEPT !.left = @ - 1]
    BY <1>3 DEF p
  <2>4. pool' \in Pools(M \cup {p.left - 1}, C)
    BY <2>2, <2>3 DEF Pools
  <2>5. pool'.total = p.total /\ pool'.abort = p.abort /\ pool'.busy = p.busy
    BY <2>2, <2>3 DEF Pools
  <2> QED
    BY <1>1, <2>1, <2>4, <2>5, NobodyNewWrites
<1>4. CASE pool' = [pool EXCEPT !.left = @ - 1, !.missing = TRUE]
  <2>1. pool' \in Pools(L \cup {pool.left - 1}, B)
    BY <1>2, <1>4 DEF Pools
  <2>2. pool'.total = pool.total /\ pool'.abort = pool.abort /\ pool'.busy = pool.busy
    BY <1>2, <1>4 DEF Pools
  <2> QED
    BY <1>1, <2>1, <2>2, NobodyNewWrites
<1> QED
  BY <1>3, <1>4 DEF TakeSegment

\* SegmentBreaks.
LEMMA BreakKeeps ==
    ASSUME NEW w \in Workers, PoolInv, BytesInv, SegmentBreaks(w)
    PROVE  PoolInv' /\ BytesInv'
<1>1. /\ stage # "rest" /\ UNCHANGED <<limits, stage>> /\ pool.busy[w].at = "check"
      /\ pool' = [Busy(w, "idle", 0) EXCEPT !.cut = TRUE]
  BY DEF SegmentBreaks, PoolStep, Idle
<1> DEFINE p == Busy(w, "idle", 0)
<1>2. /\ \E M, C : p \in Pools(M, C)
      /\ p.total = pool.total /\ p.abort = pool.abort
      /\ \A v \in Workers : p.busy[v].at = IF v = w THEN "idle" ELSE pool.busy[v].at
  BY ThreadMoves DEF PoolInv
<1>3. pool' = [p EXCEPT !.cut = TRUE]
  BY <1>1
<1> HIDE DEF p
<1>4. PICK M, C : p \in Pools(M, C)
  BY <1>2
<1>5. pool' \in Pools(M, C)
  BY <1>3, <1>4 DEF Pools
<1>6. pool'.total = p.total /\ pool'.abort = p.abort /\ pool'.busy = p.busy
  BY <1>3, <1>4 DEF Pools
<1> QED
  BY <1>1, <1>2, <1>5, <1>6, NobodyNewWrites

\* CheckAbort: the one step that lets a thread write, and only while the total
\* is not over the limit.
LEMMA CheckKeeps ==
    ASSUME NEW w \in Workers, PoolInv, BytesInv, CheckAbort(w)
    PROVE  PoolInv' /\ BytesInv'
<1>1. stage # "rest" /\ UNCHANGED <<limits, stage>> /\ pool.busy[w].at = "check"
  BY DEF CheckAbort, PoolStep
<1>2. CASE pool' = Idle(w)
  <2>1. /\ \E M, C : pool' \in Pools(M, C)
        /\ pool'.total = pool.total /\ pool'.abort = pool.abort
        /\ \A v \in Workers :
              pool'.busy[v].at = IF v = w THEN "idle" ELSE pool.busy[v].at
    BY <1>2, ThreadMoves DEF PoolInv, Idle
  <2> QED
    BY <1>1, <2>1, NobodyNewWrites
<1>3. CASE ~pool.abort /\ pool' = Busy(w, "write", pool.busy[w].left)
  <2>1. \E M, C : pool' \in Pools(M, C)
    BY <1>3, ThreadMoves DEF PoolInv
  <2>2. pool'.total = pool.total /\ pool'.abort = pool.abort
    BY <1>3, ThreadMoves DEF PoolInv
  <2>3. PoolInv'
    BY <1>1, <2>1 DEF PoolInv
  <2>4. Writers' \subseteq Workers /\ IsFiniteSet(Workers)
    BY FetchAssumption DEF Writers
  <2>5. /\ Cardinality(Writers') \in Nat /\ Cardinality(Workers) \in Nat
        /\ Cardinality(Writers') <= Cardinality(Workers)
    BY <2>4, FS_Subset, FS_CardinalityType
  <2>6. pool.total \in Nat /\ limits.max \in Nat
    BY DEF PoolInv, Pools
  <2>7. BytesInv'
    BY <1>1, <1>3, <2>2, <2>5, <2>6 DEF BytesInv
  <2> QED
    BY <2>3, <2>7
<1> QED
  BY <1>2, <1>3 DEF CheckAbort

\* WriteChunk: what is counted is no longer about to be written.
LEMMA WriteKeeps ==
    ASSUME NEW w \in Workers, PoolInv, BytesInv, WriteChunk(w)
    PROVE  PoolInv' /\ BytesInv'
<1>1. stage # "rest" /\ UNCHANGED <<limits, stage>> /\ pool.busy[w].at = "write"
  BY DEF WriteChunk, PoolStep
<1> DEFINE total == IF limits.max = 0 THEN 0 ELSE pool.total + 1
           p == Busy(w, "check", pool.busy[w].left - 1)
<1>2. pool' = [p EXCEPT !.total = total, !.abort = @ \/ total > limits.max]
  BY DEF WriteChunk
<1>3. /\ \E M, C : p \in Pools(M, C)
      /\ p.total = pool.total /\ p.abort = pool.abort
      /\ \A v \in Workers : p.busy[v].at = IF v = w THEN "check" ELSE pool.busy[v].at
  BY ThreadMoves DEF PoolInv
<1>4. /\ pool.total \in Nat /\ pool.abort \in BOOLEAN /\ limits.max \in Nat
      /\ total \in Nat
  BY DEF PoolInv, Pools
<1> HIDE DEF p
<1>5. PICK M, C : p \in Pools(M, C)
  BY <1>3
<1>6. /\ pool'.total = total /\ pool'.busy = p.busy
      /\ pool'.abort = (pool.abort \/ total > limits.max)
  BY <1>2, <1>3, <1>5 DEF Pools
<1>7. pool' \in Pools(M, C)
  BY <1>2, <1>4, <1>5 DEF Pools
<1>8. PoolInv'
  BY <1>1, <1>7 DEF PoolInv
<1>9. Writers' = Writers \ {w} /\ w \in Writers
  BY <1>1, <1>3, <1>6 DEF Writers
<1>10. /\ Cardinality(Writers') = Cardinality(Writers) - 1
       /\ Cardinality(Writers) \in Nat /\ Cardinality(Workers) \in Nat
  BY <1>9, WritersBounded, FS_RemoveElement
<1>11. BytesInv'
  <2>1. limits' = limits
    BY <1>1
  <2>2. CASE limits.max = 0
    BY <1>4, <1>6, <2>1, <2>2 DEF BytesInv
  <2>3. CASE limits.max # 0
    <3>1. pool'.total = pool.total + 1
      BY <1>6, <2>3
    <3>2. pool'.abort <=> pool.abort \/ pool.total + 1 > limits.max
      BY <1>6, <2>3
    <3>3. IF pool'.abort THEN pool'.total > limits'.max ELSE pool'.total <= limits'.max
      <4>1. CASE pool.total + 1 > limits.max
        BY <2>1, <3>1, <3>2, <4>1
      <4>2. CASE ~(pool.total + 1 > limits.max)
        <5>1. ~pool.abort
          BY <1>4, <4>2 DEF BytesInv
        <5> QED
          BY <1>4, <2>1, <3>1, <3>2, <4>2, <5>1
      <4> QED
        BY <4>1, <4>2
    <3>4. pool.total + Cardinality(Writers) <= limits.max + Cardinality(Workers)
      BY <2>3 DEF BytesInv
    <3>5. pool'.total + Cardinality(Writers') <= limits'.max + Cardinality(Workers)
      BY <1>4, <1>10, <2>1, <3>1, <3>4
    <3> QED
      BY <2>1, <2>3, <3>3, <3>5 DEF BytesInv
  <2> QED
    BY <2>2, <2>3
<1> QED
  BY <1>8, <1>11

\* The two invariants together, over every step.
LEMMA PoolStepKeeps ==
    ASSUME PoolInv, BytesInv, [FetchNext]_fetchVars
    PROVE  PoolInv' /\ BytesInv'
<1>1. ASSUME NEW l \in LimitChoices, Begin(l) PROVE PoolInv' /\ BytesInv'
  <2>1. pool = NoPool /\ pool' = pool /\ limits' = l /\ stage' = "choose"
    BY <1>1 DEF Begin, PoolInv
  <2>2. PoolInv'
    BY <2>1, FetchAssumption DEF PoolInv
  <2>3. /\ limits'.max \in Nat /\ pool'.total = 0 /\ pool'.abort = FALSE
        /\ \A w \in Workers : pool'.busy[w].at = "idle"
    BY <2>1, FetchAssumption, EmptyPool
  <2>4. Writers' = {}
    BY <2>3 DEF Writers
  <2>5. Cardinality(Writers') = 0 /\ Cardinality(Workers) \in Nat
    BY <2>4, FS_EmptySet, WritersBounded
  <2>6. BytesInv'
    BY <2>3, <2>5 DEF BytesInv
  <2> QED
    BY <2>2, <2>6
<1>2. ASSUME PlaylistRead PROVE PoolInv' /\ BytesInv'
  <2>1. /\ pool' = [NoPool EXCEPT !.left = Segments]
        /\ limits' = limits /\ stage' = "segments"
    BY <1>2 DEF PlaylistRead, Goes
  <2>2. /\ \E L, B : pool' \in Pools(L, B)
        /\ pool'.total = 0 /\ pool'.abort = FALSE
        /\ \A w \in Workers : pool'.busy[w].at = "idle"
    BY <2>1, FreshPool
  <2>3. PoolInv'
    BY <2>1, <2>2 DEF PoolInv
  <2>4. Writers' = {} /\ limits'.max \in Nat
    BY <2>1, <2>2 DEF Writers, PoolInv
  <2>5. Cardinality(Writers') = 0 /\ Cardinality(Workers) \in Nat
    BY <2>4, FS_EmptySet, WritersBounded
  <2>6. BytesInv'
    BY <2>2, <2>4, <2>5 DEF BytesInv
  <2> QED
    BY <2>3, <2>6
<1>3. ASSUME \/ ChooseRefuses \/ GateRefuses \/ NothingServed
             \/ FileRefused \/ FileKept \/ FileFails
             \/ EstimateRefuses \/ CapRefuses \/ PyavAborts \/ PoolAborts
             \/ StreamFails \/ CompleteRefuses \/ CompleteKeeps
      PROVE  PoolInv' /\ BytesInv'
  <2>1. \E judged : Rests(judged)
    BY <1>3 DEF ChooseRefuses, GateRefuses, NothingServed, FileRefused, FileKept,
                FileFails, EstimateRefuses, CapRefuses, PyavAborts, PoolAborts,
                StreamFails, CompleteRefuses, CompleteKeeps, Filtered, Passed, Keeps
  <2> QED
    BY <2>1, RestKeeps
<1>4. ASSUME \/ Choose \/ GatePasses \/ EstimatePasses \/ PyavDone \/ PyavFails
             \/ FfmpegDone \/ FfmpegFails \/ PoolDone \/ MuxDone \/ MuxFails
             \/ ConcatDone
      PROVE  PoolInv' /\ BytesInv'
  <2>1. UNCHANGED <<pool, limits>> /\ stage' # "rest"
    BY <1>4 DEF Choose, GatePasses, EstimatePasses, PyavDone, PyavFails, FfmpegDone,
                FfmpegFails, PoolDone, MuxDone, MuxFails, ConcatDone, Goes, Leaves
  <2> QED
    BY <2>1, OthersKeep
<1>5. CASE UNCHANGED fetchVars
  BY <1>5 DEF fetchVars, PoolInv, BytesInv, Writers
<1> QED
  BY <1>1, <1>2, <1>3, <1>4, <1>5, TakeKeeps, CheckKeeps, WriteKeeps, BreakKeeps
  DEF FetchNext

\* Both hold in the beginning.
LEMMA PoolStarts == FetchInit => PoolInv /\ BytesInv
<1> SUFFICES ASSUME FetchInit PROVE PoolInv /\ BytesInv
  OBVIOUS
<1>1. pool = NoPool /\ limits = NoLimits /\ stage = "rest"
  BY DEF FetchInit
<1>2. PoolInv
  BY <1>1, EmptyPool DEF PoolInv, NoLimits
<1>3. BytesInv
  BY <1>1, EmptyPool, FreshBytes DEF NoLimits
<1> QED
  BY <1>2, <1>3

\* The pool is a pool, and what it may still count is bounded (the
\* locals of _try_segment_download).
THEOREM PoolCorrect == FetchSpec => [](PoolInv /\ BytesInv)
<1>1. FetchInit => PoolInv /\ BytesInv
  BY PoolStarts
<1>2. PoolInv /\ BytesInv /\ [FetchNext]_fetchVars => (PoolInv /\ BytesInv)'
  BY PoolStepKeeps
<1> QED
  BY <1>1, <1>2, PTL DEF FetchSpec

(* A stream that turns out too long costs at most one chunk per thread over *)
(* the limit, for any number of threads and any limit (download_ts).        *)
THEOREM BytesCorrect == FetchSpec => []BytesBounded
<1>1. PoolInv /\ BytesInv => BytesBounded
  <2> SUFFICES ASSUME PoolInv, BytesInv, limits.max # 0
               PROVE  pool.total <= limits.max + Cardinality(Workers)
    BY DEF BytesBounded
  <2>1. pool.total + Cardinality(Writers) <= limits.max + Cardinality(Workers)
    BY DEF BytesInv
  <2>2. pool.total \in Nat /\ limits.max \in Nat
    BY DEF PoolInv, Pools
  <2> QED
    BY <2>1, <2>2, WritersBounded
<1> QED
  BY <1>1, PoolCorrect, PTL

-----------------------------------------------------------------------------
(* RefusedOnce.                                                            *)

\* What a refusal saw is on record, and is outside the limits it was made for.
JudgedInv == last.judged => Outside(last.limits, evidence.observed)

\* A refusal that saw a size leaves it on record.
LEMMA RefusalKept ==
    ASSUME NEW observed, NEW estimated, Filtered(observed, estimated),
           observed # {} => Outside(limits, observed)
    PROVE  JudgedInv'
<1>1. last' = [limits |-> limits, judged |-> observed # {}]
  BY DEF Filtered, Rests
<1>2. observed # {} => evidence'.observed = observed
  BY DEF Filtered
<1>3. last'.limits = limits /\ (last'.judged => observed # {})
  BY <1>1
<1>4. CASE observed = {}
  BY <1>3, <1>4 DEF JudgedInv
<1>5. CASE observed # {}
  BY <1>2, <1>3, <1>5 DEF JudgedInv, Outside
<1> QED
  BY <1>4, <1>5

\* Every step keeps it; a pool that aborts has counted more than the limit.
LEMMA JudgedStep ==
    ASSUME PoolInv, BytesInv, JudgedInv, [FetchNext]_fetchVars
    PROVE  JudgedInv'
<1>1. ASSUME ChooseRefuses \/ GateRefuses \/ CapRefuses PROVE JudgedInv'
  BY <1>1, RefusalKept DEF ChooseRefuses, GateRefuses, CapRefuses
<1>2. ASSUME EstimateRefuses PROVE JudgedInv'
  BY <1>2, RefusalKept DEF EstimateRefuses
<1>3. ASSUME FileRefused PROVE JudgedInv'
  BY <1>3, RefusalKept DEF FileRefused
<1>4. ASSUME PyavAborts PROVE JudgedInv'
  <2>1. PICK n \in 1..Playlist.bytes : n > limits.max /\ Filtered({n}, {})
    BY <1>4 DEF PyavAborts
  <2>2. Outside(limits, {n})
    BY <1>4, <2>1 DEF PyavAborts, Outside
  <2> QED
    BY <2>1, <2>2, RefusalKept
<1>5. ASSUME PoolAborts PROVE JudgedInv'
  <2>1. pool.abort /\ Filtered({pool.total}, {})
    BY <1>5 DEF PoolAborts
  <2>2. limits.max # 0 /\ pool.total > limits.max
    BY <2>1 DEF BytesInv
  <2>3. Outside(limits, {pool.total})
    BY <2>2 DEF Outside
  <2> QED
    BY <2>1, <2>3, RefusalKept
<1>6. ASSUME CompleteRefuses PROVE JudgedInv'
  BY <1>6, RefusalKept DEF CompleteRefuses
<1>7. ASSUME NothingServed \/ FileKept \/ FileFails \/ StreamFails \/ CompleteKeeps
      PROVE  JudgedInv'
  <2>1. Rests(FALSE)
    BY <1>7 DEF NothingServed, FileKept, FileFails, StreamFails, CompleteKeeps,
                Passed, Keeps
  <2> QED
    BY <2>1 DEF Rests, JudgedInv
<1>8. ASSUME \/ \E l \in LimitChoices : Begin(l)
             \/ Choose \/ GatePasses \/ EstimatePasses \/ PyavDone \/ PyavFails
             \/ FfmpegDone \/ FfmpegFails \/ PlaylistRead \/ PoolDone
             \/ \E w \in Workers : \/ TakeSegment(w) \/ CheckAbort(w)
                                   \/ WriteChunk(w) \/ SegmentBreaks(w)
             \/ MuxDone \/ MuxFails \/ ConcatDone
             \/ UNCHANGED fetchVars
      PROVE  JudgedInv'
  <2>1. UNCHANGED <<last, evidence>>
    BY <1>8 DEF Begin, Choose, GatePasses, EstimatePasses, PyavDone, PyavFails,
                FfmpegDone, FfmpegFails, PlaylistRead, PoolDone, MuxDone, MuxFails,
                ConcatDone, TakeSegment, CheckAbort, WriteChunk, SegmentBreaks,
                PoolStep, Goes, Leaves, fetchVars
  <2> QED
    BY <2>1 DEF JudgedInv, Outside
<1> QED
  BY <1>1, <1>2, <1>3, <1>4, <1>5, <1>6, <1>7, <1>8 DEF FetchNext

(* An item whose size was seen and refused is not asked for again while the *)
(* limits are what they were (record_filter_observation, _size_evidence).   *)
THEOREM RefusedCorrect == FetchSpec => RefusedOnce
<1>1. FetchInit => JudgedInv
  BY DEF FetchInit, JudgedInv
<1>2. JudgedInv /\ PoolInv /\ BytesInv /\ [FetchNext]_fetchVars => JudgedInv'
  BY JudgedStep
<1>3. JudgedInv =>
         [GatePasses => ~(last.judged /\ last.limits = limits)]_fetchVars
  <2> SUFFICES ASSUME JudgedInv, GatePasses, last.judged, last.limits = limits
               PROVE  FALSE
    OBVIOUS
  <2>1. Outside(limits, evidence.observed)
    BY DEF JudgedInv
  <2>2. evidence.observed # {}
    BY <2>1 DEF Outside
  <2>3. SizeEvidence = evidence.observed
    BY <2>2 DEF SizeEvidence
  <2> QED
    BY <2>1, <2>3 DEF GatePasses
<1> QED
  BY <1>1, <1>2, <1>3, PoolCorrect, PTL DEF FetchSpec, RefusedOnce

-----------------------------------------------------------------------------
(* The choice of a rendition and of a playlist.                            *)

\* A finite set of renditions has one that no other is sharper than.
LEMMA SharpestExists ==
    ASSUME NEW rs, IsFiniteSet(rs), rs # {}, \A r \in rs : r.px \in Nat
    PROVE  Sharpest(rs) \in rs /\ \A q \in rs : q.px <= Sharpest(rs).px
<1> DEFINE Sharp(Q, r) == r \in Q /\ \A q \in Q : q.px <= r.px
           Blunt == {Q \in SUBSET rs : Q # {} /\ \A r \in Q : ~Sharp(Q, r)}
<1>1. ASSUME Blunt # {} PROVE FALSE
  <2>1. IsWellFoundedOn(StrictSubsetOrdering(rs), SUBSET rs)
    BY FS_StrictSubsetOrderingWellFounded, FS_FiniteSubsetsOfFinite
  <2>2. PICK Q \in Blunt : \A P \in Blunt : <<P, Q>> \notin StrictSubsetOrdering(rs)
    <3>1. Blunt \subseteq SUBSET rs
      OBVIOUS
    <3> HIDE DEF Blunt
    <3> QED
      BY <1>1, <2>1, <3>1, WFMin
  <2>3. PICK r \in Q : TRUE
    BY <2>2
  <2>4. PICK q \in Q : ~(q.px <= r.px)
    BY <2>2, <2>3
  <2>5. Q \ {r} \in SUBSET rs /\ Q \ {r} # {} /\ Q \ {r} # Q
    BY <2>2, <2>3, <2>4
  <2>6. <<Q \ {r}, Q>> \in StrictSubsetOrdering(rs)
    BY <2>2, <2>5 DEF StrictSubsetOrdering
  <2>7. PICK m \in Q \ {r} : Sharp(Q \ {r}, m)
    BY <2>2, <2>5, <2>6
  <2>8. q.px <= m.px /\ {q.px, m.px, r.px} \subseteq Nat
    BY <2>2, <2>3, <2>4, <2>7
  <2>9. Sharp(Q, m)
    BY <2>4, <2>7, <2>8
  <2> QED
    BY <2>2, <2>7, <2>9
<1>2. \E r \in rs : \A q \in rs : q.px <= r.px
  BY <1>1
<1> QED
  BY <1>2 DEF Sharpest

\* What an item offers.
LEMMA OfferType ==
    ASSUME offer \in Offers
    PROVE  /\ Cardinality(offer.default) <= 1 /\ Cardinality(offer.spare) <= 1
           /\ \A rs \in {offer.default, offer.variants, offer.spare, offer.spareVariants} :
                 /\ IsFiniteSet(rs)
                 /\ \A r \in rs :
                       /\ r.px \in Nat /\ r.bytes \in Nat /\ IsFiniteSet(r.hls)
                       /\ \A p \in r.hls : /\ p.px \in Nat /\ p.nominal \in Nat
                                           /\ p.bytes \in Nat \ {0}
BY OfferAssumption

\* The sharpest of those that fit is one of them.
LEMMA SharpestFits ==
    ASSUME NEW rs, IsFiniteSet(rs), \A r \in rs : r.px \in Nat, NEW cap,
           Fitting(rs, cap) # {}
    PROVE  Sharpest(Fitting(rs, cap)) \in Fitting(rs, cap)
<1>1. IsFiniteSet(Fitting(rs, cap)) /\ \A r \in Fitting(rs, cap) : r.px \in Nat
  BY FS_Subset DEF Fitting
<1> QED
  BY <1>1, SharpestExists

\* A set of at most one element.
LEMMA AtMostOne ==
    ASSUME NEW S, IsFiniteSet(S)
    PROVE  Cardinality(S) <= 1 <=> S = {} \/ \E x : S = {x}
<1>1. Cardinality(S) \in Nat /\ (Cardinality(S) = 0 <=> S = {})
  BY FS_CardinalityType, FS_EmptySet
<1>2. Cardinality(S) = 1 <=> \E x : S = {x}
  BY FS_Singleton
<1> QED
  BY <1>1, <1>2

\* Everything that may be chosen for an item.
Served1(r) == r \in offer.default \cup offer.variants \cup offer.spare \cup offer.spareVariants

\* At most one rendition of the item is chosen.
LEMMA ChosenOne ==
    ASSUME offer \in Offers, NEW cap
    PROVE  Chosen(cap) = {} \/ \E r : Served1(r) /\ Chosen(cap) = {r}
<1>1. Fitting(offer.variants, cap) # {} =>
          Sharpest(Fitting(offer.variants, cap)) \in offer.variants
  BY OfferType, SharpestFits DEF Fitting
<1>2. Fitting(offer.spareVariants, cap) # {} =>
          Sharpest(Fitting(offer.spareVariants, cap)) \in offer.spareVariants
  BY OfferType, SharpestFits DEF Fitting
<1>3. BestVariant(cap) = {} \/ \E r \in offer.variants : BestVariant(cap) = {r}
  BY <1>1 DEF BestVariant
<1>4. /\ offer.default = {} \/ \E r : offer.default = {r}
      /\ offer.spare = {} \/ \E r : offer.spare = {r}
  BY OfferType, AtMostOne
<1>5. Sharper(cap) \subseteq offer.default
  BY DEF Sharper, Fitting
<1>6. StandIn(cap) = {} \/ \E r : Served1(r) /\ StandIn(cap) = {r}
  BY <1>2, <1>4 DEF StandIn, Served1
<1> QED
  BY <1>3, <1>4, <1>5, <1>6 DEF Chosen, Served1

\* What is chosen fits, but for the default of a stand-in.
LEMMA ChosenFits ==
    ASSUME offer \in Offers, NEW cap, ~OverCap(cap), NEW r \in Chosen(cap),
           offer.default # {} \/ BestVariant(cap) # {}, r.px # 0
    PROVE  Fits(r, cap)
<1>1. CASE Sharper(cap) # {}
  BY <1>1 DEF Chosen, Sharper, Fitting
<1>2. CASE Sharper(cap) = {} /\ BestVariant(cap) # {}
  <2>1. Fitting(offer.variants, cap) # {} /\ r = Sharpest(Fitting(offer.variants, cap))
    BY <1>2 DEF BestVariant, Chosen
  <2>2. r \in Fitting(offer.variants, cap)
    BY <2>1, OfferType, SharpestFits
  <2> QED
    BY <2>2 DEF Fitting
<1>3. CASE Sharper(cap) = {} /\ BestVariant(cap) = {}
  <2>1. r \in offer.default
    BY <1>3 DEF Chosen
  <2>2. cap = 0
    BY <1>3, <2>1 DEF OverCap
  <2> QED
    BY <2>2 DEF Fits
<1> QED
  BY <1>1, <1>2, <1>3

\* The playlist is one of the rendition's; if it was not refused for the cap, it
\* fits the cap or has no known resolution.
LEMMA PlaylistFits ==
    ASSUME offer \in Offers, NEW cap, rendition = Chosen(cap), rendition # {},
           Served.hls # {}
    PROVE  /\ Playlist \in Served.hls
           /\ Playlist.px \in Nat /\ Playlist.bytes \in Nat \ {0}
           /\ Declared \subseteq Nat
           /\ ~CapRefusesAll /\ Playlist.px # 0 => Fits(Playlist, limits.cap)
<1>1. PICK r : Served1(r) /\ rendition = {r}
  BY ChosenOne
<1>2. Served = r
  BY <1>1 DEF Served
<1>3. /\ IsFiniteSet(Served.hls)
      /\ \A p \in Served.hls : /\ p.px \in Nat /\ p.nominal \in Nat
                               /\ p.bytes \in Nat \ {0}
  BY <1>1, <1>2, OfferType DEF Served1
<1>4. Sharpest(Served.hls) \in Served.hls
  BY <1>3, SharpestExists
<1>5. Declared \subseteq Nat
  BY <1>3, <1>4 DEF Declared
<1>6. CASE Fitting(Served.hls, limits.cap) # {}
  <2>1. Playlist \in Fitting(Served.hls, limits.cap)
    BY <1>3, <1>6, SharpestFits DEF Playlist
  <2> QED
    BY <1>3, <1>5, <2>1 DEF Fitting
<1>7. CASE Fitting(Served.hls, limits.cap) = {}
  <2>1. Playlist = Sharpest(Served.hls)
    BY <1>7 DEF Playlist
  <2> QED
    BY <1>3, <1>4, <1>5, <1>7, <2>1 DEF CapRefusesAll
<1> QED
  BY <1>6, <1>7

-----------------------------------------------------------------------------
(* KeptAsAsked.                                                            *)

\* The stages of the three strategies, which share the output file.
Streaming == {"pyav", "ffmpeg", "playlist", "segments", "mux", "concat", "complete"}

\* An output file is of the playlist chosen for this run.
OfPlaylist(file) ==
    /\ file.state \in {"whole", "cut", "part"} /\ file.bytes \in Nat \ {0}
    /\ file.px = Playlist.px

\* What is worked on is what was chosen under the limits of the run, and the
\* output file of a strategy that reported success is not left over.
RenditionInv ==
    /\ offer \in Offers
    /\ stage \in {"rest", "choose", "gate", "file", "estimate"} \cup Streaming
    /\ IF stage \in {"rest", "choose"} THEN rendition = {}
       ELSE rendition = Chosen(limits.cap) /\ ~OverCap(limits.cap)
    /\ stage \notin {"rest", "choose", "gate"} => rendition # {}
    /\ stage \in {"estimate"} \cup Streaming => Served.hls # {}
    /\ stage \in {"segments", "mux", "concat", "complete"} => ~CapRefusesAll

OutInv ==
    /\ stage \notin Streaming => out = {}
    /\ \A file \in out : OfPlaylist(file) /\ (stage = "complete" => file.state # "part")

KeptInv ==
    /\ kept # {} => stage = "rest"
    /\ kept = {} \/ \E file : kept = {file}
    /\ KeptAsAsked

\* What the strategies may leave behind.
LEMMA StrategyFiles ==
    ASSUME RenditionInv, stage \in Streaming
    PROVE  /\ \A file \in {Whole, Part} \cup Cut : OfPlaylist(file)
           /\ \A file \in {Whole} \cup Cut : file.state # "part"
<1>1. Playlist.px \in Nat /\ Playlist.bytes \in Nat \ {0}
  BY PlaylistFits DEF RenditionInv, Streaming
<1>2. OfPlaylist(Whole) /\ OfPlaylist(Part) /\ Whole.state # "part"
  BY <1>1 DEF Whole, Part, OfPlaylist
<1>3. ASSUME NEW file \in Cut PROVE OfPlaylist(file) /\ file.state # "part"
  <2>1. PICK n \in 1..(Playlist.bytes - 1) : file = [Whole EXCEPT !.state = "cut", !.bytes = n]
    BY DEF Cut
  <2>2. file.state = "cut" /\ file.bytes = n /\ file.px = Playlist.px
    BY <2>1 DEF Whole
  <2>3. n \in Nat \ {0}
    BY <1>1, <2>1
  <2> QED
    BY <2>2, <2>3 DEF OfPlaylist
<1> QED
  BY <1>2, <1>3

\* A step that ends the item's run keeps nothing or what it was asked for.
LEMMA RestChosen ==
    ASSUME NEW judged, RenditionInv, OutInv, KeptInv, Rests(judged), stage # "rest",
           \/ kept' = kept
           \/ \E file : /\ kept' = {file} /\ file.state # "part"
                        /\ file.measured => ~Outside(limits, {file.bytes})
                        /\ ~StandInDefault /\ file.px # 0 => Fits(file, limits.cap)
    PROVE  RenditionInv' /\ OutInv' /\ KeptInv'
<1>1. /\ offer' = offer /\ limits' = limits /\ stage' = "rest"
      /\ rendition' = {} /\ out' = {} /\ kept = {}
  BY DEF Rests, KeptInv
<1>2. RenditionInv' /\ OutInv'
  <2>1. stage' \notin {"estimate"} \cup Streaming
    BY <1>1 DEF Streaming
  <2>2. RenditionInv'
    BY <1>1, <2>1 DEF RenditionInv
  <2>3. OutInv'
    BY <1>1 DEF OutInv
  <2> QED
    BY <2>2, <2>3
<1>3. CASE kept' = kept
  <2>1. kept' = {} /\ KeptAsAsked'
    BY <1>1, <1>3 DEF KeptAsAsked
  <2> QED
    BY <1>2, <2>1 DEF KeptInv
<1>4. CASE \E file : /\ kept' = {file} /\ file.state # "part"
                     /\ file.measured => ~Outside(limits, {file.bytes})
                     /\ ~StandInDefault /\ file.px # 0 => Fits(file, limits.cap)
  <2>1. StandInDefault' <=> StandInDefault
    BY <1>1 DEF StandInDefault, BestVariant, Fitting, Fits
  <2>2. PICK file : /\ kept' = {file} /\ file.state # "part"
                    /\ file.measured => ~Outside(limits, {file.bytes})
                    /\ ~StandInDefault /\ file.px # 0 => Fits(file, limits.cap)
    BY <1>4
  <2>3. /\ Outside(limits', {file.bytes}) <=> Outside(limits, {file.bytes})
        /\ Fits(file, limits'.cap) <=> Fits(file, limits.cap)
    BY <1>1
  <2>4. KeptAsAsked'
    BY <2>1, <2>2, <2>3 DEF KeptAsAsked
  <2>5. \E f : kept' = {f}
    BY <2>2
  <2> QED
    BY <1>1, <1>2, <2>4, <2>5 DEF KeptInv
<1> QED
  BY <1>2, <1>3, <1>4

\* A step that goes on with the same rendition.
LEMMA GoesOn ==
    ASSUME NEW to, RenditionInv, OutInv, KeptInv, Goes(to),
           stage \notin {"rest", "choose"}, rendition' = rendition, rendition # {},
           to \in {"file", "estimate"} \cup Streaming,
           to \in {"estimate"} \cup Streaming => Served.hls # {},
           to \in {"segments", "mux", "concat", "complete"} => ~CapRefusesAll,
           to \notin Streaming => out' = {},
           \A file \in out' : OfPlaylist(file) /\ (to = "complete" => file.state # "part")
    PROVE  RenditionInv' /\ OutInv' /\ KeptInv'
<1>1. /\ offer' = offer /\ limits' = limits /\ kept' = kept /\ stage' = to
      /\ rendition' = rendition /\ kept = {}
  BY DEF Goes, KeptInv
<1>2. /\ Served' = Served /\ (CapRefusesAll' <=> CapRefusesAll) /\ Playlist' = Playlist
      /\ Chosen(limits.cap)' = Chosen(limits.cap)
      /\ (OverCap(limits.cap)' <=> OverCap(limits.cap))
  BY <1>1 DEF Served, CapRefusesAll, Playlist, Fitting, Fits, Chosen, Sharper, BestVariant,
              StandIn, OverCap
<1>3. RenditionInv'
  BY <1>1, <1>2 DEF RenditionInv, Streaming
<1>4. OutInv'
  BY <1>1, <1>2 DEF OutInv, OfPlaylist
<1>5. KeptInv'
  BY <1>1 DEF KeptInv, KeptAsAsked
<1> QED
  BY <1>3, <1>4, <1>5

\* The three together, over every step.
LEMMA ChoiceStep ==
    ASSUME RenditionInv, OutInv, KeptInv, [FetchNext]_fetchVars
    PROVE  RenditionInv' /\ OutInv' /\ KeptInv'
<1>1. ASSUME NEW l \in LimitChoices, Begin(l)
      PROVE  RenditionInv' /\ OutInv' /\ KeptInv'
  BY <1>1 DEF Begin, RenditionInv, OutInv, KeptInv, KeptAsAsked, Streaming
<1>2. ASSUME Choose PROVE RenditionInv' /\ OutInv' /\ KeptInv'
  <2>1. /\ stage = "choose" /\ stage' = "gate" /\ ~OverCap(limits.cap)
        /\ rendition' = Chosen(limits.cap) /\ out' = out /\ out = {} /\ kept = {}
        /\ limits' = limits /\ offer' = offer /\ kept' = kept
    BY <1>2 DEF Choose, Goes, OutInv, Streaming, KeptInv
  <2>2. /\ Chosen(limits.cap)' = Chosen(limits.cap)
        /\ (OverCap(limits.cap)' <=> OverCap(limits.cap))
    BY <2>1 DEF Fitting, Fits, Chosen, Sharper, BestVariant, StandIn, OverCap
  <2> QED
    BY <2>1, <2>2 DEF RenditionInv, OutInv, KeptInv, KeptAsAsked, Streaming
<1>3. ASSUME \/ ChooseRefuses \/ GateRefuses \/ NothingServed \/ FileRefused
             \/ FileFails \/ EstimateRefuses \/ CapRefuses \/ PyavAborts
             \/ PoolAborts \/ StreamFails \/ CompleteRefuses
      PROVE  RenditionInv' /\ OutInv' /\ KeptInv'
  <2>1. stage # "rest" /\ kept' = kept /\ \E judged : Rests(judged)
    BY <1>3 DEF ChooseRefuses, GateRefuses, NothingServed, FileRefused, FileFails,
                EstimateRefuses, CapRefuses, PyavAborts, PoolAborts, PoolOver,
                StreamFails, CompleteRefuses, Filtered, Passed
  <2> QED
    BY <2>1, RestChosen
<1>4. ASSUME FileKept PROVE RenditionInv' /\ OutInv' /\ KeptInv'
  <2>1. PICK known \in BOOLEAN : /\ known => ~Outside(limits, {Served.bytes})
                                 /\ Keeps(PlainFile(known))
    BY <1>4 DEF FileKept
  <2>2. stage = "file" /\ rendition = Chosen(limits.cap) /\ ~OverCap(limits.cap)
        /\ rendition # {} /\ offer \in Offers
    BY <1>4 DEF FileKept, RenditionInv, Streaming
  <2>3. Served \in Chosen(limits.cap)
    BY <2>2 DEF Served
  <2>4. ~StandInDefault /\ Served.px # 0 => Fits(Served, limits.cap)
    BY <2>2, <2>3, ChosenFits DEF StandInDefault
  <2>5. LET file == PlainFile(known)
        IN  /\ file.state # "part" /\ file.px = Served.px /\ file.bytes = Served.bytes
            /\ file.measured = known
    BY DEF PlainFile
  <2>6. Rests(FALSE) /\ kept' = {PlainFile(known)}
    BY <2>1 DEF Keeps
  <2>7. ~StandInDefault /\ PlainFile(known).px # 0 => Fits(PlainFile(known), limits.cap)
    BY <2>4, <2>5 DEF Fits
  <2> QED
    BY <2>1, <2>2, <2>5, <2>6, <2>7, RestChosen
<1>5. ASSUME CompleteKeeps PROVE RenditionInv' /\ OutInv' /\ KeptInv'
  <2>1. PICK file \in out : Rests(FALSE) /\ kept' = {file}
    BY <1>5 DEF CompleteKeeps, Keeps
  <2>2. stage = "complete" /\ ~Outside(limits, Size)
    BY <1>5 DEF CompleteKeeps
  <2>3. OfPlaylist(file) /\ file.state # "part"
    BY <2>2 DEF OutInv
  <2>4. ~Outside(limits, {file.bytes})
    BY <2>2 DEF Outside, Size
  <2>5. Playlist.px # 0 => Fits(Playlist, limits.cap)
    BY <2>2, PlaylistFits DEF RenditionInv, Streaming
  <2>6. file.px # 0 => Fits(file, limits.cap)
    BY <2>3, <2>5 DEF OfPlaylist, Fits
  <2> QED
    BY <2>1, <2>2, <2>3, <2>4, <2>6, RestChosen
<1>6. ASSUME GatePasses PROVE RenditionInv' /\ OutInv' /\ KeptInv'
  <2>1. PICK r \in rendition : Goes(IF r.hls = {} THEN "file" ELSE "estimate")
    BY <1>6 DEF GatePasses
  <2>2. stage = "gate" /\ rendition' = rendition /\ out' = out /\ out = {}
    BY <1>6 DEF GatePasses, OutInv, Streaming
  <2>3. rendition = Chosen(limits.cap) /\ offer \in Offers
    BY <2>2 DEF RenditionInv
  <2>4. rendition = {r} /\ Served = r
    BY <2>3, ChosenOne DEF Served
  <2> QED
    BY <2>1, <2>2, <2>4, GoesOn DEF Streaming
<1>7. ASSUME EstimatePasses PROVE RenditionInv' /\ OutInv' /\ KeptInv'
  <2>1. /\ stage = "estimate" /\ Goes("pyav") /\ rendition' = rendition /\ out' = out
        /\ out = {} /\ rendition # {} /\ Served.hls # {}
    BY <1>7 DEF EstimatePasses, OutInv, RenditionInv, Streaming
  <2> QED
    BY <2>1, GoesOn DEF Streaming
<1>8. ASSUME \/ PyavDone \/ FfmpegDone \/ MuxDone \/ ConcatDone
             \/ PyavFails \/ FfmpegFails \/ MuxFails
      PROVE  RenditionInv' /\ OutInv' /\ KeptInv'
  <2>1. /\ stage \in Streaming /\ rendition # {} /\ Served.hls # {} /\ rendition' = rendition
        /\ stage \notin {"rest", "choose"}
    BY <1>8 DEF PyavDone, FfmpegDone, MuxDone, ConcatDone, PyavFails, FfmpegFails, MuxFails,
                Streaming, RenditionInv, Leaves
  <2>2. CASE PyavDone \/ FfmpegDone \/ MuxDone \/ ConcatDone
    <3>1. ~CapRefusesAll
      BY <2>2 DEF PyavDone, FfmpegDone, MuxDone, ConcatDone, RenditionInv
    <3>2. \E file \in {Whole} \cup Cut : out' = {file} /\ Goes("complete")
      BY <2>2 DEF PyavDone, FfmpegDone, MuxDone, ConcatDone, Muxed, Leaves
    <3> QED
      BY <2>1, <3>1, <3>2, StrategyFiles, GoesOn DEF Streaming
  <2>3. CASE PyavFails
    <3>1. Goes("ffmpeg") /\ out' \subseteq {Part}
      BY <2>3 DEF PyavFails, Leaves
    <3> QED
      BY <2>1, <3>1, StrategyFiles, GoesOn DEF Streaming
  <2>4. CASE FfmpegFails
    <3>1. Goes("playlist") /\ out' \subseteq out \cup {Part}
      BY <2>4 DEF FfmpegFails, Leaves
    <3> QED
      BY <2>1, <3>1, StrategyFiles, GoesOn DEF Streaming, OutInv
  <2>5. CASE MuxFails
    <3>1. stage = "mux" /\ Goes("concat") /\ out' \subseteq out \cup {Part}
      BY <2>5 DEF MuxFails, Leaves
    <3>2. ~CapRefusesAll
      BY <3>1 DEF RenditionInv
    <3> QED
      BY <2>1, <3>1, <3>2, StrategyFiles, GoesOn DEF Streaming, OutInv
  <2> QED
    BY <1>8, <2>2, <2>3, <2>4, <2>5
<1>9. ASSUME PlaylistRead \/ PoolDone PROVE RenditionInv' /\ OutInv' /\ KeptInv'
  <2>1. /\ stage \in {"playlist", "segments"} /\ ~CapRefusesAll
        /\ Goes("segments") \/ Goes("mux")
        /\ rendition' = rendition /\ out' = out /\ rendition # {} /\ Served.hls # {}
    BY <1>9 DEF PlaylistRead, PoolDone, PoolOver, RenditionInv, Streaming
  <2> QED
    BY <2>1, GoesOn DEF Streaming, OutInv
<1>10. ASSUME \/ UNCHANGED fetchVars
              \/ \E w \in Workers : \/ TakeSegment(w) \/ CheckAbort(w)
                                     \/ WriteChunk(w) \/ SegmentBreaks(w)
       PROVE  RenditionInv' /\ OutInv' /\ KeptInv'
  <2>1. UNCHANGED <<offer, limits, stage, rendition, out, kept>>
    BY <1>10 DEF TakeSegment, CheckAbort, WriteChunk, SegmentBreaks, PoolStep, fetchVars
  <2>2. /\ Served' = Served /\ (CapRefusesAll' <=> CapRefusesAll) /\ Playlist' = Playlist
        /\ Chosen(limits.cap)' = Chosen(limits.cap)
        /\ (OverCap(limits.cap)' <=> OverCap(limits.cap))
    BY <2>1 DEF Served, CapRefusesAll, Playlist, Fitting, Fits, Chosen, Sharper, BestVariant,
                StandIn, OverCap
  <2>3. RenditionInv' /\ OutInv'
    BY <2>1, <2>2 DEF RenditionInv, OutInv, OfPlaylist
  <2>4. KeptInv'
    BY <2>1 DEF KeptInv, KeptAsAsked, StandInDefault, BestVariant, Fitting, Fits, Outside
  <2> QED
    BY <2>3, <2>4
<1> QED
  BY <1>1, <1>2, <1>3, <1>4, <1>5, <1>6, <1>7, <1>8, <1>9, <1>10 DEF FetchNext

(* What reaches the library was written by the strategy that reported      *)
(* success and keeps the limits it was fetched under, whatever items and   *)
(* limits there are (parse_media_info, download_m3u8, _download_m3u8_file, *)
(* _download_regular_file).                                                *)
THEOREM KeptCorrect == FetchSpec => []KeptAsAsked
<1>1. FetchInit => RenditionInv /\ OutInv /\ KeptInv
  BY DEF FetchInit, RenditionInv, OutInv, KeptInv, KeptAsAsked, Streaming
<1>2. RenditionInv /\ OutInv /\ KeptInv /\ [FetchNext]_fetchVars
         => (RenditionInv /\ OutInv /\ KeptInv)'
  BY ChoiceStep
<1>3. KeptInv => KeptAsAsked
  BY DEF KeptInv
<1> QED
  BY <1>1, <1>2, <1>3, PTL DEF FetchSpec

-----------------------------------------------------------------------------
(* The types.                                                              *)

\* A value that may be missing: nothing, or one number.
Measured(sizes) == sizes = {} \/ \E n \in Nat : sizes = {n}

\* What is on record are numbers, and there is one output file at most.
SizesInv ==
    /\ limits \in LimitChoices \cup {NoLimits}
    /\ Measured(evidence.observed) /\ Measured(evidence.estimated)
    /\ pool.left \in Nat
    /\ out = {} \/ \E file : out = {file}

\* What an item's run ends with is a number, if anything.
LEMMA RestSizes ==
    ASSUME SizesInv, NEW observed, NEW estimated, Measured(observed), Measured(estimated),
           Filtered(observed, estimated) \/ (\E judged : Rests(judged) /\ evidence' = evidence)
    PROVE  SizesInv'
<1>1. /\ limits' = limits /\ out' = {} /\ pool' = NoPool
      /\ \/ evidence' = evidence
         \/ /\ evidence'.observed \in {observed, evidence.observed}
            /\ evidence'.estimated \in {estimated, evidence.estimated}
  BY DEF Filtered, Rests
<1>2. NoPool.left = 0
  BY DEF NoPool
<1> QED
  BY <1>1, <1>2 DEF SizesInv, Measured

\* The number of segments of a playlist.
LEMMA SegmentsType ==
    ASSUME Playlist.bytes \in Nat \ {0}
    PROVE  Segments \in Nat
<1> DEFINE n == Playlist.bytes + SegmentChunks - 1
<1>1. n \in Nat /\ SegmentChunks \in Nat \ {0}
  BY FetchAssumption
<1> HIDE DEF n
<1>2. n \div SegmentChunks \in Nat
  BY <1>1
<1> QED
  BY <1>2 DEF n, Segments

\* Every step records numbers.
LEMMA SizesStep ==
    ASSUME PoolInv, RenditionInv, OutInv, SizesInv, [FetchNext]_fetchVars
    PROVE  SizesInv'
<1>1. Measured({})
  BY DEF Measured
<1>2. PICK L, B : pool \in Pools(L, B)
  BY DEF PoolInv
<1>3. ASSUME NEW l \in LimitChoices, Begin(l) PROVE SizesInv'
  BY <1>3 DEF Begin, SizesInv
<1>4. ASSUME ChooseRefuses \/ GateRefuses \/ CapRefuses PROVE SizesInv'
  BY <1>1, <1>4, RestSizes DEF ChooseRefuses, GateRefuses, CapRefuses
<1>5. ASSUME NothingServed \/ FileKept \/ FileFails \/ StreamFails \/ CompleteKeeps
      PROVE  SizesInv'
  <2>1. Rests(FALSE) /\ evidence' = evidence
    BY <1>5 DEF NothingServed, FileKept, FileFails, StreamFails, CompleteKeeps, Passed, Keeps
  <2> QED
    BY <1>1, <2>1, RestSizes
<1>6. ASSUME FileRefused PROVE SizesInv'
  <2>1. rendition = Chosen(limits.cap) /\ rendition # {} /\ offer \in Offers
    BY <1>6 DEF FileRefused, RenditionInv, Streaming
  <2>2. PICK r : Served1(r) /\ rendition = {r}
    BY <2>1, ChosenOne
  <2>3. Served.bytes \in Nat
    BY <2>1, <2>2, OfferType DEF Served, Served1
  <2>4. Measured({Served.bytes})
    BY <2>3 DEF Measured
  <2> QED
    BY <1>1, <1>6, <2>4, RestSizes DEF FileRefused
<1>7. ASSUME EstimateRefuses PROVE SizesInv'
  <2>1. Declared \subseteq Nat
    BY <1>7, PlaylistFits DEF EstimateRefuses, RenditionInv
  <2>2. Measured(Declared)
    BY <2>1 DEF Measured, Declared
  <2> QED
    BY <1>1, <1>7, <2>2, RestSizes DEF EstimateRefuses
<1>8. ASSUME PyavAborts PROVE SizesInv'
  <2>1. Playlist.bytes \in Nat
    BY <1>8, PlaylistFits DEF PyavAborts, RenditionInv, Streaming
  <2>2. PICK n \in 1..Playlist.bytes : Filtered({n}, {})
    BY <1>8 DEF PyavAborts
  <2>3. Measured({n})
    BY <2>1, <2>2 DEF Measured
  <2> QED
    BY <1>1, <2>2, <2>3, RestSizes
<1>9. ASSUME PoolAborts PROVE SizesInv'
  <2>1. Measured({pool.total})
    BY <1>2 DEF Pools, Measured
  <2> QED
    BY <1>1, <1>9, <2>1, RestSizes DEF PoolAborts
<1>10. ASSUME CompleteRefuses PROVE SizesInv'
  <2>1. CASE out = {}
    <3>1. Size = {}
      BY <2>1 DEF Size
    <3> QED
      BY <1>1, <1>10, <3>1, RestSizes DEF CompleteRefuses
  <2>2. CASE out # {}
    <3>1. PICK file : out = {file}
      BY <2>2 DEF SizesInv
    <3>2. Size = {file.bytes} /\ file.bytes \in Nat
      BY <3>1 DEF Size, OutInv, OfPlaylist
    <3>3. Measured(Size)
      BY <3>2 DEF Measured
    <3> QED
      BY <1>1, <1>10, <3>3, RestSizes DEF CompleteRefuses
  <2> QED
    BY <2>1, <2>2
<1>11. ASSUME \/ Choose \/ GatePasses \/ EstimatePasses \/ PyavDone \/ PyavFails
              \/ FfmpegDone \/ FfmpegFails \/ PoolDone \/ MuxDone \/ MuxFails
              \/ ConcatDone
       PROVE  SizesInv'
  <2>1. UNCHANGED <<limits, evidence, pool>>
    BY <1>11 DEF Choose, GatePasses, EstimatePasses, PyavDone, PyavFails, FfmpegDone,
                 FfmpegFails, PoolDone, MuxDone, MuxFails, ConcatDone, Goes, Leaves
  <2>2. out' = out \/ out' = {} \/ \E file : out' = {file}
    BY <1>11 DEF Choose, GatePasses, EstimatePasses, PyavDone, PyavFails, FfmpegDone,
                 FfmpegFails, PoolDone, MuxDone, MuxFails, ConcatDone, Leaves
  <2> QED
    BY <2>1, <2>2 DEF SizesInv
<1>12. ASSUME PlaylistRead PROVE SizesInv'
  <2>1. UNCHANGED <<limits, evidence, out>> /\ pool' = [NoPool EXCEPT !.left = Segments]
    BY <1>12 DEF PlaylistRead, Goes
  <2>2. Playlist.bytes \in Nat \ {0}
    BY <1>12, PlaylistFits DEF PlaylistRead, RenditionInv, Streaming
  <2>3. pool'.left \in Nat
    BY <2>1, <2>2, SegmentsType DEF NoPool
  <2> QED
    BY <2>1, <2>3 DEF SizesInv
<1>13. ASSUME NEW w \in Workers,
              TakeSegment(w) \/ CheckAbort(w) \/ WriteChunk(w) \/ SegmentBreaks(w)
       PROVE  SizesInv'
  <2>1. UNCHANGED <<limits, evidence, out>>
    BY <1>13 DEF TakeSegment, CheckAbort, WriteChunk, SegmentBreaks, PoolStep
  <2>2. pool'.left = pool.left \/ (pool.left > 0 /\ pool'.left = pool.left - 1)
    BY <1>2, <1>13 DEF TakeSegment, CheckAbort, WriteChunk, SegmentBreaks, Busy, Idle, Pools
  <2>3. pool'.left \in Nat
    BY <2>2 DEF SizesInv
  <2> QED
    BY <2>1, <2>3 DEF SizesInv
<1>14. CASE UNCHANGED fetchVars
  BY <1>14 DEF fetchVars, SizesInv
<1> QED
  BY <1>3, <1>4, <1>5, <1>6, <1>7, <1>8, <1>9, <1>10, <1>11, <1>12, <1>13, <1>14
  DEF FetchNext

(* Types of the item's state, for any items: one rendition and one file at *)
(* most, evidence in numbers (Media.meta_info, _try_segment_download).     *)
THEOREM FetchTypeCorrect == FetchSpec => []FetchTypeOK
<1> DEFINE Choice == RenditionInv /\ OutInv /\ KeptInv
<1>1. FetchInit => Choice /\ SizesInv
  BY DEF FetchInit, RenditionInv, OutInv, KeptInv, KeptAsAsked, Streaming, SizesInv, Measured,
         NoPool
<1>2. Choice /\ [FetchNext]_fetchVars => Choice'
  BY ChoiceStep
<1>3. Choice /\ PoolInv /\ SizesInv /\ [FetchNext]_fetchVars => SizesInv'
  BY SizesStep
<1>4. Choice /\ PoolInv /\ SizesInv => FetchTypeOK
  <2> SUFFICES ASSUME RenditionInv, OutInv, KeptInv, PoolInv, SizesInv PROVE FetchTypeOK
    OBVIOUS
  <2>1. Cardinality({}) <= 1 /\ \A x : Cardinality({x}) <= 1
    BY FS_EmptySet, FS_Singleton
  <2>2. rendition = {} \/ \E r : rendition = {r}
    BY ChosenOne DEF RenditionInv
  <2>3. Cardinality(rendition) <= 1 /\ Cardinality(kept) <= 1
    BY <2>1, <2>2 DEF KeptInv
  <2>4. \A file \in out : file.state \in {"whole", "cut", "part"} /\ file.bytes > 0
    BY DEF OutInv, OfPlaylist
  <2>5. \A known \in {evidence.observed, evidence.estimated} :
           Cardinality(known) <= 1 /\ known \subseteq Nat
    BY <2>1 DEF SizesInv, Measured
  <2>6. pool.left \in Nat /\ pool.total \in Nat
    BY DEF SizesInv, PoolInv, Pools
  <2> QED
    BY <2>3, <2>4, <2>5, <2>6 DEF FetchTypeOK, SizesInv
<1> QED
  BY <1>1, <1>2, <1>3, <1>4, PoolCorrect, PTL DEF FetchSpec
=============================================================================
