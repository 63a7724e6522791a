---------------------------- MODULE StreamFetch ----------------------------
(***************************************************************************)
(* One media item over several runs, between the limits of filters.media   *)
(* and the transfer: the choice of a rendition, the gates, a plain file,   *)
(* or a stream by three strategies that share one output file.             *)
(*                                                                         *)
(* Sizes are counted in chunks of a download, resolutions by their rank;   *)
(* 0 stands for an unknown size or resolution and for a limit that is off. *)
(* A value that may be missing is a set of at most one element.  Duration  *)
(* limits are left out: nothing is learned about a duration.               *)
(***************************************************************************)
EXTENDS Integers, FiniteSets

CONSTANTS
    Offers,         \* items: [default, variants, spare, spareVariants], sets
                    \* of renditions [px, bytes, hls]; hls is {} for a file,
                    \* else a set of [px, bytes, nominal] playlists
    LimitChoices,   \* limits of a run: [min, max, cap]
    Workers,        \* threads of the segment download
    SegmentChunks,  \* chunks of a segment
    MaxFetchRuns    \* bound: runs

ASSUME FetchAssumption ==
    /\ LimitChoices \subseteq [min : Nat, max : Nat, cap : Nat]
    /\ IsFiniteSet(Workers)
    /\ SegmentChunks \in Nat \ {0}

\* An item has finitely many renditions, a rendition finitely many playlists.
ASSUME OfferAssumption ==
    \A o \in Offers :
        /\ Cardinality(o.default) <= 1 /\ Cardinality(o.spare) <= 1
        /\ \A rs \in {o.default, o.variants, o.spare, o.spareVariants} :
              /\ IsFiniteSet(rs)
              /\ \A r \in rs :
                    /\ r.px \in Nat /\ r.bytes \in Nat /\ IsFiniteSet(r.hls)
                    /\ \A p \in r.hls : /\ p.px \in Nat /\ p.nominal \in Nat
                                        /\ p.bytes \in Nat \ {0}

VARIABLES
    offer,          \* the item as the service describes it
    limits,         \* of the present run
    fetchRuns,      \* runs so far
    stage,          \* where the item is
    rendition,      \* what was chosen: [px, bytes, hls], at most one
    evidence,       \* meta_info: [observed, estimated]
    out,            \* the output file of the three strategies
    pool,           \* the segment download
    kept,           \* the file that was moved into the library
    last            \* history: limits of the last run, and whether it ended
                    \* in a refusal that observed a size

fetchVars == <<offer, limits, fetchRuns, stage, rendition, evidence, out, pool,
               kept, last>>

NoLimits == [min |-> 0, max |-> 0, cap |-> 0]
NoPool == [left |-> 0, busy |-> [w \in Workers |-> [at |-> "idle", left |-> 0]],
           total |-> 0, abort |-> FALSE, missing |-> FALSE, cut |-> FALSE]

FetchInit ==
    /\ offer \in Offers /\ limits = NoLimits /\ fetchRuns = 0
    /\ stage = "rest" /\ rendition = {}
    /\ evidence = [observed |-> {}, estimated |-> {}]
    /\ out = {} /\ pool = NoPool /\ kept = {}
    /\ last = [limits |-> NoLimits, judged |-> FALSE]

-----------------------------------------------------------------------------
(* The limits.                                                             *)

\* size_verdict: is one of the sizes (at most one) outside the limits?
Outside(l, sizes) ==
    \E n \in sizes : \/ l.min # 0 /\ n < l.min
                     \/ l.max # 0 /\ n > l.max

\* A cap lets through what is known to fit.
Fits(r, cap) == cap = 0 \/ (r.px # 0 /\ r.px <= cap)
Fitting(rs, cap) == {r \in rs : Fits(r, cap)}
Sharpest(rs) == CHOOSE r \in rs : \A q \in rs : q.px <= r.px

SizeEvidenceLatestGuess ==
    IF evidence.estimated # {} THEN evidence.estimated ELSE evidence.observed

\* _size_evidence: what was observed wins over what was estimated.
SizeEvidence ==
    IF evidence.observed # {} THEN evidence.observed ELSE evidence.estimated

-----------------------------------------------------------------------------
(* The end of an item in a run; record_filter_observation keeps what a     *)
(* refusal learned and leaves what it did not learn as it was.             *)

Rests(judged) ==
    /\ stage' = "rest" /\ rendition' = {} /\ out' = {} /\ pool' = NoPool
    /\ last' = [limits |-> limits, judged |-> judged]
    /\ UNCHANGED <<offer, limits, fetchRuns>>

\* Faulty variant: a refusal does not keep what it observed.
FilteredForgetful(observed, estimated) ==
    /\ Rests(observed # {})
    /\ evidence' = [evidence EXCEPT !.estimated =
                       IF estimated = {} THEN @ ELSE estimated]
    /\ UNCHANGED kept

Filtered(observed, estimated) ==
    /\ Rests(observed # {})
    /\ evidence' = [observed |-> IF observed = {} THEN evidence.observed ELSE observed,
                    estimated |-> IF estimated = {} THEN evidence.estimated ELSE estimated]
    /\ UNCHANGED kept

Passed == Rests(FALSE) /\ UNCHANGED <<evidence, kept>>

Keeps(file) == Rests(FALSE) /\ kept' = {file} /\ UNCHANGED evidence

-----------------------------------------------------------------------------
(* parse_media_info: the sharpest variant that fits, the default if it     *)
(* fits and is sharper, and if neither has a known resolution what there   *)
(* is; a preview stands in for an item that is not served at all, and its  *)
(* default is taken whatever the cap says.                                 *)

BestVariant(cap) ==
    IF Fitting(offer.variants, cap) = {} THEN {}
    ELSE {Sharpest(Fitting(offer.variants, cap))}

Sharper(cap) ==
    {d \in Fitting(offer.default, cap) : \A b \in BestVariant(cap) : d.px > b.px}

OverCap(cap) ==
    /\ BestVariant(cap) = {} /\ Sharper(cap) = {} /\ cap # 0
    /\ \E r \in offer.default \cup offer.variants : r.px # 0

StandIn(cap) ==
    IF Fitting(offer.spareVariants, cap) # {}
    THEN {Sharpest(Fitting(offer.spareVariants, cap))} ELSE offer.spare

Chosen(cap) ==
    IF Sharper(cap) # {} THEN Sharper(cap)
    ELSE IF BestVariant(cap) # {} THEN BestVariant(cap)
    ELSE IF offer.default # {} THEN offer.default
    ELSE StandIn(cap)

Begin(l) ==
    /\ stage = "rest" /\ fetchRuns < MaxFetchRuns /\ kept = {}
    /\ fetchRuns' = fetchRuns + 1 /\ limits' = l /\ stage' = "choose"
    /\ UNCHANGED <<offer, rendition, evidence, out, pool, kept, last>>

Goes(to) == stage' = to
            /\ UNCHANGED <<offer, limits, fetchRuns, evidence, kept, last>>

Choose ==
    /\ stage = "choose" /\ ~OverCap(limits.cap)
    /\ rendition' = Chosen(limits.cap) /\ Goes("gate")
    /\ UNCHANGED <<out, pool>>

ChooseRefuses == stage = "choose" /\ OverCap(limits.cap) /\ Filtered({}, {})

\* check_media_filters, asked before anything is requested.
GateRefuses == stage = "gate" /\ Outside(limits, SizeEvidence) /\ Filtered({}, {})

GatePasses ==
    /\ stage = "gate" /\ ~Outside(limits, SizeEvidence)
    /\ \E r \in rendition : Goes(IF r.hls = {} THEN "file" ELSE "estimate")
    /\ UNCHANGED <<rendition, out, pool>>

\* _validate_media: nothing to download.
NothingServed ==
    stage = "gate" /\ ~Outside(limits, SizeEvidence) /\ rendition = {} /\ Passed

-----------------------------------------------------------------------------
(* _download_regular_file: the declared length, if there is one, is judged *)
(* before the body, which goes to a temporary sibling and is moved whole.  *)

Served == CHOOSE r \in rendition : TRUE

PlainFile(known) == [state |-> "whole", px |-> Served.px, bytes |-> Served.bytes,
                     measured |-> known]

FileRefused ==
    /\ stage = "file" /\ Outside(limits, {Served.bytes})
    /\ Filtered({Served.bytes}, {})

FileKept ==
    /\ stage = "file"
    /\ \E known \in BOOLEAN :
          /\ known => ~Outside(limits, {Served.bytes})
          /\ Keeps(PlainFile(known))

FileFails == stage = "file" /\ Passed

-----------------------------------------------------------------------------
(* estimate_stream_size_gate: the bitrate of the sharpest playlist of all, *)
(* whatever the cap; it is not asked if no size is limited, and passes if  *)
(* the playlists cannot be read.                                           *)

Declared == {n \in {Sharpest(Served.hls).nominal} : n # 0}

EstimateRefuses ==
    stage = "estimate" /\ Outside(limits, Declared) /\ Filtered({}, Declared)

EstimatePasses ==
    /\ stage = "estimate" /\ Goes("pyav")
    /\ UNCHANGED <<rendition, out, pool>>

(* _get_highest_quality_variant_url, asked by each strategy again.         *)
CapRefusesAll ==
    /\ Fitting(Served.hls, limits.cap) = {}
    /\ \E p \in Served.hls : p.px # 0
Playlist ==
    IF Fitting(Served.hls, limits.cap) # {}
    THEN Sharpest(Fitting(Served.hls, limits.cap)) ELSE Sharpest(Served.hls)

CapRefuses ==
    stage \in {"pyav", "ffmpeg", "playlist"} /\ CapRefusesAll /\ Filtered({}, {})

\* The output file after a strategy; a cut one has lost some of its parts.
Whole == [state |-> "whole", px |-> Playlist.px, bytes |-> Playlist.bytes,
          measured |-> TRUE]
Cut == {[Whole EXCEPT !.state = "cut", !.bytes = n] : n \in 1..(Playlist.bytes - 1)}
Part == [Whole EXCEPT !.state = "part", !.bytes = 1]

Leaves(file, to) == out' = file /\ Goes(to) /\ UNCHANGED <<rendition, pool>>

(* Tier 1, _try_direct_download_pyav.  The size is looked at every 512     *)
(* packets: a stream that is too long may or may not be noticed.           *)

PyavAborts ==
    /\ stage = "pyav" /\ ~CapRefusesAll /\ limits.max # 0
    /\ \E n \in 1..Playlist.bytes : n > limits.max /\ Filtered({n}, {})

PyavDone ==
    /\ stage = "pyav" /\ ~CapRefusesAll
    /\ \E file \in {Whole} \cup Cut : Leaves({file}, "complete")

\* What was written so far stays, unless the playlist was not even read.
PyavFails ==
    /\ stage = "pyav"
    /\ \/ Leaves({}, "ffmpeg")
       \/ ~CapRefusesAll /\ Leaves({Part}, "ffmpeg")

(* Tier 2, _try_direct_download_ffmpeg, which does not know max_bytes: a   *)
(* result without both streams is unlinked, another failure leaves what    *)
(* ffmpeg wrote, or what was there before it started.                      *)

FfmpegDone ==
    /\ stage = "ffmpeg" /\ ~CapRefusesAll
    /\ \E file \in {Whole} \cup Cut : Leaves({file}, "complete")

FfmpegFails ==
    /\ stage = "ffmpeg"
    /\ \/ Leaves(out, "playlist")
       \/ ~CapRefusesAll /\ \E file \in {{}, {Part}} : Leaves(file, "playlist")

-----------------------------------------------------------------------------
(* Tier 3, _try_segment_download: a pool of threads with a total under a   *)
(* lock and an event that stops them.                                      *)

Segments == (Playlist.bytes + SegmentChunks - 1) \div SegmentChunks

PlaylistRead ==
    /\ stage = "playlist" /\ ~CapRefusesAll
    /\ pool' = [NoPool EXCEPT !.left = Segments]
    /\ Goes("segments") /\ UNCHANGED <<rendition, out>>

Busy(w, at, left) == [pool EXCEPT !.busy[w] = [at |-> at, left |-> left]]
Idle(w) == Busy(w, "idle", 0)

PoolStep == UNCHANGED <<offer, limits, fetchRuns, stage, rendition, evidence,
                        out, kept, last>>

TakeSegment(w) ==
    /\ stage = "segments" /\ pool.left > 0 /\ pool.busy[w].at = "idle"
    /\ \/ ~pool.abort /\ pool' = [Busy(w, "check", SegmentChunks) EXCEPT !.left = @ - 1]
       \/ pool' = [pool EXCEPT !.left = @ - 1, !.missing = TRUE]
    /\ PoolStep

\* Faulty variant: the abort event does not end a segment.
CheckedOnlyAtStart(w) ==
    /\ stage = "segments" /\ pool.busy[w].at = "check"
    /\ pool' = IF pool.busy[w].left = 0 THEN Idle(w)
               ELSE Busy(w, "write", pool.busy[w].left)
    /\ PoolStep

\* A chunk has come: the event is looked at first, and written to after.
CheckAbort(w) ==
    /\ stage = "segments" /\ pool.busy[w].at = "check"
    /\ pool' = IF pool.abort \/ pool.busy[w].left = 0 THEN Idle(w)
               ELSE Busy(w, "write", pool.busy[w].left)
    /\ PoolStep

\* The total is counted, under the lock, only if there is a limit.
WriteChunk(w) ==
    /\ stage = "segments" /\ pool.busy[w].at = "write"
    /\ LET total == IF limits.max = 0 THEN 0 ELSE pool.total + 1
       IN  pool' = [Busy(w, "check", pool.busy[w].left - 1)
                      EXCEPT !.total = total, !.abort = @ \/ total > limits.max]
    /\ PoolStep

\* The connection breaks: the file of the segment is there, and too short.
SegmentBreaks(w) ==
    /\ stage = "segments" /\ pool.busy[w].at = "check" /\ pool.busy[w].left > 0
    /\ pool' = [Idle(w) EXCEPT !.cut = TRUE]
    /\ PoolStep

PoolOver == /\ stage = "segments" /\ pool.left = 0
            /\ \A w \in Workers : pool.busy[w].at = "idle"

PoolAborts == PoolOver /\ pool.abort /\ Filtered({pool.total}, {})

PoolDone ==
    /\ PoolOver /\ ~pool.abort /\ ~pool.missing
    /\ Goes("mux") /\ UNCHANGED <<rendition, out, pool>>

\* M3U8Error: a playlist that cannot be read, a segment without a file, or
\* segments that neither muxer takes.  The item is passed over.
StreamFails ==
    /\ \/ stage \in {"playlist", "concat"}
       \/ PoolOver /\ ~pool.abort /\ pool.missing
    /\ Passed

\* Both muxers write over what is there, and leave out what is damaged; short
\* segments always make a cut file.
Muxed == Cut \cup (IF pool.cut THEN {} ELSE {Whole})

MuxDone ==
    /\ stage = "mux"
    /\ \E file \in Muxed : Leaves({file}, "complete")

MuxFails ==
    /\ stage = "mux"
    /\ \E file \in {out, {Part}} : Leaves(file, "concat")

\* Faulty variant: the concat takes what the other muxer left behind.
ConcatTakesWhatIsThere ==
    /\ stage = "concat"
    /\ \E file \in Muxed \cup out : Leaves({file}, "complete")

ConcatDone ==
    /\ stage = "concat"
    /\ \E file \in Muxed : Leaves({file}, "complete")

(* _download_m3u8_file: the size of the file decides in the end.           *)

Size == {file.bytes : file \in out}

CompleteRefuses ==
    stage = "complete" /\ Outside(limits, Size) /\ Filtered(Size, {})

CompleteKeeps ==
    /\ stage = "complete" /\ ~Outside(limits, Size)
    /\ \E file \in out : Keeps(file)

-----------------------------------------------------------------------------
FetchNext ==
    \/ \E l \in LimitChoices : Begin(l)
    \/ Choose \/ ChooseRefuses \/ GateRefuses \/ GatePasses \/ NothingServed
    \/ FileRefused \/ FileKept \/ FileFails
    \/ EstimateRefuses \/ EstimatePasses \/ CapRefuses
    \/ PyavAborts \/ PyavDone \/ PyavFails \/ FfmpegDone \/ FfmpegFails
    \/ PlaylistRead \/ PoolAborts \/ PoolDone \/ StreamFails
    \/ \E w \in Workers : \/ TakeSegment(w) \/ CheckAbort(w)
                          \/ WriteChunk(w) \/ SegmentBreaks(w)
    \/ MuxDone \/ MuxFails \/ ConcatDone \/ CompleteRefuses \/ CompleteKeeps

FetchSpec == FetchInit /\ [][FetchNext]_fetchVars

-----------------------------------------------------------------------------
(* Properties.                                                             *)

(* Types: one rendition and one output file at most; the evidence is a     *)
(* number of chunks (Media.meta_info, the fields of _try_segment_download).*)
FetchTypeOK ==
    /\ limits \in LimitChoices \cup {NoLimits}
    /\ Cardinality(rendition) <= 1 /\ Cardinality(kept) <= 1
    /\ \A file \in out : file.state \in {"whole", "cut", "part"} /\ file.bytes > 0
    /\ \A known \in {evidence.observed, evidence.estimated} :
          Cardinality(known) <= 1 /\ known \subseteq Nat
    /\ pool.left \in Nat /\ pool.total \in Nat

\* The stand-in's default rendition, the one file the cap does not hold for: it
\* is taken when the item has no default and no variant that is known to fit.
StandInDefault == offer.default = {} /\ BestVariant(limits.cap) = {}

(* What reaches the library was written by the strategy that reported      *)
(* success, never left over by one that failed before, and keeps the       *)
(* limits it was fetched under as far as they could be known               *)
(* (download_m3u8, _download_m3u8_file, _download_regular_file).           *)
KeptAsAsked ==
    \A file \in kept :
        /\ file.state # "part"
        /\ file.measured => ~Outside(limits, {file.bytes})
        /\ ~StandInDefault /\ file.px # 0 => Fits(file, limits.cap)

(* A stream that turns out too long costs at most one chunk per thread     *)
(* over the limit (download_ts's event and the total under the lock).      *)
BytesBounded ==
    limits.max # 0 => pool.total <= limits.max + Cardinality(Workers)

(* An item whose size was seen and refused is not asked for again while    *)
(* the limits are what they were (record_filter_observation, _size_evidence)*)
RefusedOnce ==
    [][GatePasses => ~(last.judged /\ last.limits = limits)]_fetchVars

(* docs/configuration/config_options.md:285 "Only when every               *)
(* known-resolution rendition exceeds the cap is the item skipped" and     *)
(* "the highest rendition at or below the cap is downloaded".              *)
CapKept == \A file \in kept : file.px # 0 => Fits(file, limits.cap)

(* docs/configuration/config_options.md:256 "Loosening the limits in a     *)
(* later run picks the same item up again": after a run with limits as     *)
(* tight, the evidence refuses only renditions that this run's exclude.    *)
Tighter(l) ==
    /\ l.min >= limits.min
    /\ limits.max = 0 \/ l.max \in 1..limits.max
    /\ limits.cap = 0 \/ l.cap \in 1..limits.cap

LoosenedPicksUp ==
    [][GateRefuses /\ Tighter(last.limits) =>
          \A r \in rendition :
             r.hls = {} => Outside(limits, {r.bytes})]_fetchVars
=============================================================================
