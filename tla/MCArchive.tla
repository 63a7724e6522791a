----------------------------- MODULE MCArchive -----------------------------
(***************************************************************************)
(* The archive of a creator: the folder and the rows that describe it, and *)
(* the transfer of one item under changing limits.  Library takes every    *)
(* transfer that succeeds as one step and StreamFetch takes it apart; no   *)
(* state is shared, so one run checks them side by side: `part` says which *)
(* of them moves.                                                          *)
(***************************************************************************)
EXTENDS Library, StreamFetch, TLC

CONSTANTS Parts, v, p, s, t, X, Y, image, stream
VARIABLE part

allVars == <<part, libraryVars, fetchVars>>

(* Two creators with a stream in common; one of them has an image and a    *)
(* preview that looks the same.                                            *)
OwnerMC == (v :> X) @@ (p :> X) @@ (s :> X) @@ (t :> Y)
ContentMC == (v :> image) @@ (p :> image) @@ (s :> stream) @@ (t :> stream)
InheritedMC == ({"utc", "local", "hash2"} \X {v}) \cup ({"utc", "preview"} \X {p})
               \cup ({"utc", "hash2"} \X {s})
BreakableMC == {"utc"} \X {v, s}

(* A picture in two sizes, one of unknown resolution, a post whose picture *)
(* is not served but for its preview, one whose variant has no known size  *)
(* and whose preview stands in for it, and a stream in two qualities that  *)
(* declares less than it has; 720 lines rank 1, 1080 rank 2.               *)
Rendition(px, bytes) == [px |-> px, bytes |-> bytes, hls |-> {}]
Quality(px, bytes, nominal) == [px |-> px, bytes |-> bytes, nominal |-> nominal]
Item(default, variants, spare, spareVariants) ==
    [default |-> default, variants |-> variants,
     spare |-> spare, spareVariants |-> spareVariants]
Streamed(px, qualities) == [px |-> px, bytes |-> 0, hls |-> qualities]

OffersMC ==
    {Item({Rendition(2, 6)}, {Rendition(1, 2)}, {}, {}),
     Item({Rendition(0, 4)}, {Rendition(0, 2)}, {}, {}),
     Item({}, {}, {Rendition(2, 6)}, {Rendition(0, 2)}),
     Item({}, {Rendition(0, 2)}, {Rendition(2, 6)}, {}),
     Item({}, {}, {}, {}),
     Item({Rendition(2, 6)}, {Streamed(2, {Quality(1, 2, 2), Quality(2, 8, 4)})}, {}, {}),
     Item({}, {Streamed(0, {Quality(2, 6, 0)})}, {}, {}),
     Item({}, {Streamed(0, {Quality(0, 4, 3)})}, {}, {})}

LimitsMC == [min : {0, 3}, max : {0, 4}, cap : {0, 1}]

ArchiveInit ==
    /\ part \in Parts /\ LibraryInit /\ FetchInit
    /\ part # "library" => \A n \in Names : disk[n] = "absent"
    /\ part # "fetch" => offer = Item({}, {}, {}, {})
ArchiveNext == /\ \/ part = "library" /\ LibraryNext /\ UNCHANGED fetchVars
                  \/ part = "fetch" /\ FetchNext /\ UNCHANGED libraryVars
               /\ UNCHANGED part
ArchiveSpec == ArchiveInit /\ [][ArchiveNext]_allVars

\* Both parts are well typed (fileio/dedupe.py, download/media.py, m3u8.py).
ArchiveTypeOK == LibraryTypeOK /\ FetchTypeOK
=============================================================================
