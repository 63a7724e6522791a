------------------------------ MODULE Library ------------------------------
(***************************************************************************)
(* A creator's folder and the Media rows that describe it: the scan that   *)
(* dedupe_init makes before a walk, the repair of preview names, and the   *)
(* download of the items of the walk with its deduplication by hash.       *)
(*                                                                         *)
(* A file name is a form and the row whose id it carries; the form is what *)
(* an earlier release or a filter on previews made of the rest of it.      *)
(* download_id, when the best rendition is a variant, is the variant's id: *)
(* the file is then named after a row that is not the item's own.          *)
(* One folder per creator (separate_timeline and separate_messages off);   *)
(* content never changes under an id.                                      *)
(***************************************************************************)
EXTENDS Naturals, FiniteSets

CONSTANTS
    Items,          \* account media of the walks
    Creators,
    Owner,          \* item -> creator
    Content,        \* item -> hash of its content (images: perceptual)
    Streams,        \* items served as m3u8
    Varied,         \* items whose best rendition is a variant
    Previews,       \* items seen as previews only
    RepairModes,    \* values the user gives repair_previews (a BOOLEAN set)
    Inherited,      \* <<form, item>> that may lie in the folders at first
    Breakable,      \* those of them that may be unreadable, alone of their row
    MaxInherited,   \* bound: files that do
    MaxPasses,      \* bound: passes over a creator
    MaxDeletes,     \* bound: files the user removes
    MaxFaults,      \* bound: failed downloads, filtered items, crashes
    None

Row(i) == <<i, "own">>
EffectiveRow(i) == IF i \in Varied THEN <<i, "variant">> ELSE Row(i)
Rows == {Row(i) : i \in Items} \cup {EffectiveRow(i) : i \in Items}
RowsOf(c) == {r \in Rows : Owner[r[1]] = c}

Forms == {"utc", "local", "hash2", "preview"}
FileName(form, i) == <<form, EffectiveRow(i)>>
Names == {FileName(form, i) : form \in Forms, i \in Items}
Hashes == {Content[i] : i \in Items}

(* get_file_name: the marker of a preview, and the id of the rendition. *)
Canonical(i) == FileName(IF i \in Previews THEN "preview" ELSE "utc", i)

\* Faulty variant: the id of the rendition is taken out of the name.
NormalizedDropsId(name) == <<"utc">>

(* normalize_filename of a name without its hash2 part. *)
Normalized(name) ==
    <<IF name[1] \in {"local", "hash2"} THEN "utc" ELSE name[1], name[2]>>

\* Every item has an owner among the creators; a file that is absent or
\* unreadable has no hash, and None stands for nothing else.
ASSUME LibraryAssumption ==
    /\ \A i \in Items : Owner[i] \in Creators
    /\ {"absent", "corrupt"} \cap Hashes = {}
    /\ None \notin Items \cup Creators \cup Hashes \cup Names
                 \cup {"dedupe", "save", "unlink", "repoint"}

VARIABLES
    disk,       \* name -> hash of the file, "absent", or "corrupt"
    rows,       \* row -> [known, downloaded, hash, name]
    job,        \* the pass: creator, phase, what is left, the snapshot
    cur,        \* the item between two effects of its download
    count,      \* passes, deletes, faults so far
    unseen,     \* history: creators whose rows may name files that went,
                \* until a scan of the creator starts
    torn,       \* history: a file went, or a scan or a repair was cut
    done        \* history: items a walk has gone through since, their
                \* content not removed nor their file moved away from their row

libraryVars == <<disk, rows, job, cur, count, unseen, torn, done>>

NoRow == [known |-> FALSE, downloaded |-> FALSE, hash |-> None, name |-> None]
Rest == [creator |-> None, phase |-> "rest", todo |-> {}, seen |-> {}]
NoItem == [item |-> None, step |-> None]

CreatorOf(name) == Owner[name[2][1]]
Exists(name) == name # None /\ disk[name] # "absent"
Folder(c) == {n \in Names : Exists(n) /\ CreatorOf(n) = c}

(* _check_file_exists and file_exists_in_download_path look below the      *)
(* folder of the creator of the pass and nowhere else.                     *)
ExistsHere(name) == Exists(name) /\ CreatorOf(name) = job.creator

Recorded(r) == rows[r].downloaded /\ rows[r].hash # None /\ rows[r].name # None

LibraryInit ==
    /\ \E there \in SUBSET {FileName(p[1], p[2]) : p \in Inherited} :
       \E broken \in SUBSET (there \cap {FileName(p[1], p[2]) : p \in Breakable}) :
          /\ Cardinality(there) <= MaxInherited
          /\ \A n \in broken, m \in there : n[2] = m[2] => n = m
          /\ disk = [n \in Names |-> IF n \in broken THEN "corrupt"
                                     ELSE IF n \in there THEN Content[n[2][1]]
                                     ELSE "absent"]
    /\ \E past \in SUBSET {n \in Names : disk[n] \in Hashes /\ n[1] = "utc"} :
          rows = [r \in Rows |->
                    IF <<"utc", r>> \notin past THEN NoRow
                    ELSE [known |-> TRUE, downloaded |-> TRUE,
                          hash |-> Content[r[1]], name |-> <<"utc", r>>]]
    /\ job = Rest /\ cur = NoItem
    /\ count = [passes |-> 0, deletes |-> 0, faults |-> 0]
    /\ unseen = {} /\ torn = FALSE /\ done = {}

Count(k) == count' = [count EXCEPT ![k] = @ + 1]
Phase(p) == job.phase = p /\ cur = NoItem

-----------------------------------------------------------------------------
(* dedupe_init: one snapshot of the folder serves the registration of its  *)
(* files and the check of the rows at the end.                             *)

Snapshot(c) ==
    /\ Phase("rest") /\ count.passes < MaxPasses
    /\ job' = [creator |-> c, phase |-> "register",
               todo |-> Folder(c), seen |-> Folder(c)]
    /\ Count("passes") /\ unseen' = unseen \ {c}
    /\ UNCHANGED <<disk, rows, cur, done, torn>>

(* The name a trusted row keeps: its own if that file is still there. *)
KeptName(r, name) ==
    IF rows[r].name # None /\ rows[r].name # name /\ ExistsHere(rows[r].name)
    THEN rows[r].name ELSE name

(* get_or_create_media, trusting the name: no file is hashed.  A hash2     *)
(* name brings a hash, but only to a row that this call creates.           *)
Known(r, name) ==
    [rows EXCEPT ![r].name = KeptName(r, name), ![r].downloaded = TRUE]

Created(r, name, hash) ==
    [rows EXCEPT ![r] = [known |-> TRUE, downloaded |-> TRUE,
                         hash |-> hash, name |-> name]]

HasTwin(hash) == hash # None /\ \E q \in Rows : rows[q].hash = hash

Trusted(n) ==
    LET r == n[2]
        hash == IF n[1] = "hash2" THEN Content[r[1]] ELSE None
    IN  IF rows[r].known THEN Known(r, Normalized(n))
        ELSE IF HasTwin(hash) THEN rows
        ELSE Created(r, Normalized(n), hash)

(* The hash2 files come first; the others are registered concurrently. *)
Register(n) ==
    /\ Phase("register") /\ n \in job.todo
    /\ n[1] = "hash2" \/ \A m \in job.todo : m[1] # "hash2"
    /\ rows' = Trusted(n)
    /\ job' = [job EXCEPT !.todo = @ \ {n}]
    /\ UNCHANGED <<disk, cur, count, unseen, done, torn>>

StartCheck ==
    /\ Phase("register") /\ job.todo = {}
    /\ job' = [job EXCEPT !.phase = "check",
                          !.todo = {r \in RowsOf(job.creator) : rows[r].downloaded}]
    /\ UNCHANGED <<disk, rows, cur, count, unseen, done, torn>>

\* Faulty variant: a row that has a hash keeps its file, there or not.
CheckedByHash(r) ==
    IF rows[r].name \in job.seen \/ rows[r].hash # None THEN rows
    ELSE [rows EXCEPT ![r] = [@ EXCEPT !.downloaded = FALSE, !.name = None]]

(* A row keeps its file only if the snapshot has a file of that very name: *)
(* what a row was told of a name that was normalized is forgotten here.    *)
Checked(r) ==
    IF rows[r].name \in job.seen THEN rows
    ELSE [rows EXCEPT ![r] = [@ EXCEPT !.downloaded = FALSE,
                                       !.hash = None, !.name = None]]

Check(r) ==
    /\ Phase("check") /\ r \in job.todo
    /\ rows' = Checked(r)
    /\ job' = [job EXCEPT !.todo = @ \ {r}]
    /\ UNCHANGED <<disk, cur, count, unseen, done, torn>>

-----------------------------------------------------------------------------
(* repair_preview_folder_items: files of known previews that carry the     *)
(* plain marker are moved to the marker of previews.  The ids of previews  *)
(* are their own: a file named after a variant is not taken for one.       *)

StartRepair ==
    /\ Phase("check") /\ job.todo = {}
    /\ \E on \in RepairModes :
          job' = [job EXCEPT !.phase = "repair",
             !.todo = {n \in Folder(job.creator) : /\ on /\ n[2][1] \in Previews \ Varied
                                                   /\ rows[n[2]].known
                                                   /\ n[1] \in {"utc", "local"}}]
    /\ UNCHANGED <<disk, rows, cur, count, unseen, done, torn>>

(* _safe_move: onto a free name, or away if the same bytes are there; a    *)
(* different file under the target is left alone.                          *)
Moved(from, to) ==
    IF ~Exists(to) THEN [disk EXCEPT ![to] = disk[from], ![from] = "absent"]
    ELSE IF disk[from] = disk[to] THEN [disk EXCEPT ![from] = "absent"]
    ELSE disk

Naming(n, except) == {Owner[r[1]] : r \in {q \in Rows \ except : rows[q].name = n}}

RepairMove(n) ==
    /\ Phase("repair") /\ n \in job.todo
    /\ disk' = Moved(n, <<"preview", n[2]>>)
    /\ cur' = IF disk' = disk THEN NoItem ELSE [item |-> n[2][1], step |-> "repoint"]
    /\ job' = [job EXCEPT !.todo = @ \ {n}]
    /\ unseen' = IF disk' = disk THEN unseen ELSE unseen \cup Naming(n, {n[2]})
    /\ done' = IF disk' = disk THEN done
               ELSE {i \in done : EffectiveRow(i) = n[2] \/ rows[Row(i)].name # n}
    /\ UNCHANGED <<rows, count, torn>>

(* Only the row of the id in the name; another row may name the file too. *)
Repoint ==
    /\ cur.step = "repoint"
    /\ LET r == EffectiveRow(cur.item)
       IN  rows' = [rows EXCEPT ![r].name = <<"preview", r>>]
    /\ cur' = NoItem
    /\ UNCHANGED <<disk, job, count, unseen, done, torn>>

-----------------------------------------------------------------------------
(* The walk of the creator: fetch_and_process_media makes the rows known,  *)
(* download_media takes the items one after the other.                     *)

ItemsOf(c) == {i \in Items : Owner[i] = c}

FetchPages ==
    /\ Phase("repair") /\ job.todo = {}
    /\ job' = [job EXCEPT !.phase = "walk", !.todo = ItemsOf(job.creator)]
    /\ rows' = [r \in Rows |-> IF r \in RowsOf(job.creator)
                               THEN [rows[r] EXCEPT !.known = TRUE] ELSE rows[r]]
    /\ UNCHANGED <<disk, cur, count, unseen, done, torn>>

Gone(i) == job' = [job EXCEPT !.todo = @ \ {i}]

(* What a walk has gone through counts only when no row can still trust a  *)
(* file that is gone: for content that two creators have, never again once *)
(* a file went (see StreamDuplicate).                                      *)
Private(h) == \A i, k \in Items : Content[i] = h /\ Content[k] = h => Owner[i] = Owner[k]
Sound(h) == unseen = {} /\ (torn => Private(h))
Through(i) == done' = IF Sound(Content[i]) THEN done \cup {i} ELSE done

(* _should_skip_media asks the item's own row, also for a variant. *)
SkipRecorded(i) ==
    /\ Phase("walk") /\ i \in job.todo /\ Recorded(Row(i))
    /\ Gone(i) /\ Through(i)
    /\ UNCHANGED <<disk, rows, cur, count, unseen, torn>>

(* A media filter (it is asked before the row is), or a playlist that      *)
(* cannot be read: the item is passed over and the batch goes on.          *)
PassOver(i) ==
    /\ Phase("walk") /\ i \in job.todo
    /\ count.faults < MaxFaults
    /\ Gone(i) /\ Count("faults")
    /\ UNCHANGED <<disk, rows, cur, unseen, done, torn>>

(* DownloadError leaves the batch, and so does the hash of an existing     *)
(* file that is not readable.                                              *)
Abort ==
    /\ job' = Rest /\ cur' = NoItem
    /\ UNCHANGED <<disk, rows, unseen, done, torn>>

FetchFails(i) ==
    /\ Phase("walk") /\ i \in job.todo /\ ~Recorded(Row(i))
    /\ count.faults < MaxFaults
    /\ Count("faults") /\ Abort

Unreadable(i) ==
    /\ Phase("walk") /\ i \in job.todo /\ ~Recorded(Row(i))
    /\ disk[Canonical(i)] = "corrupt"
    /\ Abort /\ UNCHANGED count

(* A file that exists is hashed, then fetched again for a comparison with  *)
(* the own row's hash (None here): it never matches, so the file is taken  *)
(* a second time and put over it.                                          *)
Wanted(i) ==
    /\ Phase("walk") /\ i \in job.todo /\ ~Recorded(Row(i))
    /\ disk[Canonical(i)] # "corrupt"

(* _download_regular_file: a temporary sibling, then one move. *)
Fetch(i) ==
    /\ Wanted(i) /\ i \notin Streams
    /\ disk' = [disk EXCEPT ![Canonical(i)] = Content[i]]
    /\ cur' = [item |-> i, step |-> "dedupe"] /\ Gone(i)
    /\ UNCHANGED <<rows, count, unseen, done, torn>>

(* _download_m3u8_file: hashed in a temporary folder.  A downloaded row of *)
(* that hash, any creator's, is enough: its file is not looked for.        *)
StreamTwins(i) ==
    {r \in Rows : /\ rows[r].downloaded /\ rows[r].hash = Content[i]
                  /\ r # EffectiveRow(i)}

\* Faulty variant: a finished stream is recorded without its hash.
MarkedNameOnly(r, hash, name) ==
    [rows EXCEPT ![r] = [@ EXCEPT !.downloaded = TRUE, !.name = name]]

Marked(r, hash, name) ==
    [rows EXCEPT ![r] = [@ EXCEPT !.downloaded = TRUE,
                                  !.hash = hash, !.name = name]]

StreamDuplicate(i) ==
    /\ Wanted(i) /\ i \in Streams
    /\ \E twin \in StreamTwins(i) :
          rows' = Marked(Row(i), Content[i], rows[twin].name)
    /\ Gone(i) /\ Through(i)
    /\ UNCHANGED <<disk, cur, count, unseen, torn>>

FetchStream(i) ==
    /\ Wanted(i) /\ i \in Streams
    /\ StreamTwins(i) = {}
    /\ disk' = [disk EXCEPT ![Canonical(i)] = Content[i]]
    /\ cur' = [item |-> i, step |-> "save"] /\ Gone(i)
    /\ UNCHANGED <<rows, count, unseen, done, torn>>

SaveStream ==
    /\ cur.step = "save"
    /\ rows' = Marked(Row(cur.item), Content[cur.item], Canonical(cur.item))
    /\ cur' = NoItem /\ Through(cur.item)
    /\ UNCHANGED <<disk, job, count, unseen, torn>>

-----------------------------------------------------------------------------
(* dedupe_media_file: the row is the one of the id in the file's name.     *)

At(step) == cur.step = step
File == Canonical(cur.item)
Hash == Content[cur.item]
Target == EffectiveRow(cur.item)

Settled == cur' = NoItem /\ Through(cur.item)
          /\ UNCHANGED <<job, count, unseen, torn>>
ThenUnlink == cur' = [cur EXCEPT !.step = "unlink"]
          /\ UNCHANGED <<disk, job, count, unseen, done, torn>>

(* The row already has this name. *)
SameName ==
    /\ At("dedupe") /\ rows[Target].name = File
    /\ rows' = Marked(Target, IF rows[Target].hash = None THEN Hash
                              ELSE rows[Target].hash, File)
    /\ Settled /\ UNCHANGED disk

(* The row has no file: another downloaded row of the same hash, if its    *)
(* file is there, takes this one in; otherwise the file is the row's.      *)
References ==
    {r \in Rows \ {Target} : rows[r].downloaded /\ rows[r].hash = Hash}

\* Faulty variant: a row that names a file is taken to have it.
BackedOnPaper(r) == rows[r].name # None

Backed(r) == ExistsHere(rows[r].name)

NewNameDuplicate ==
    /\ At("dedupe") /\ rows[Target].name = None
    /\ \E r \in References :
          Backed(r) /\ rows' = Marked(Target, Hash, rows[r].name)
    /\ ThenUnlink

(* Only the first row the store finds is looked at. *)
NewName ==
    /\ At("dedupe") /\ rows[Target].name = None
    /\ References = {} \/ \E r \in References : ~Backed(r)
    /\ rows' = Marked(Target, Hash, File)
    /\ Settled /\ UNCHANGED disk

(* The row names another file of the same content. *)
OtherNameDuplicate ==
    /\ At("dedupe") /\ rows[Target].name \notin {None, File}
    /\ rows[Target].hash = Hash /\ Backed(Target)
    /\ ThenUnlink /\ UNCHANGED rows

OtherNameGone ==
    /\ At("dedupe") /\ rows[Target].name \notin {None, File}
    /\ rows[Target].hash = Hash /\ ~Backed(Target)
    /\ rows' = Marked(Target, Hash, File)
    /\ Settled /\ UNCHANGED disk

(* The row names another file whose hash is not known: any row of the same *)
(* hash decides, and the item's own row is the one that is updated.        *)
ByHash == {r \in Rows : rows[r].hash = Hash}
HashUnknown == /\ At("dedupe") /\ rows[Target].name \notin {None, File}
               /\ rows[Target].hash = None

ByHashDuplicate ==
    /\ HashUnknown
    /\ \E r \in ByHash :
          Backed(r) /\ rows' = Marked(Row(cur.item), Hash, rows[r].name)
    /\ ThenUnlink

ByHashNew ==
    /\ HashUnknown /\ ByHash = {}
    /\ rows' = Marked(Row(cur.item), Hash, File)
    /\ Settled /\ UNCHANGED disk

Unlink ==
    /\ At("unlink")
    /\ disk' = [disk EXCEPT ![File] = "absent"]
    /\ Settled /\ UNCHANGED rows

Dedupe == SameName \/ NewNameDuplicate \/ NewName \/ OtherNameDuplicate
          \/ OtherNameGone \/ ByHashDuplicate \/ ByHashNew \/ Unlink

-----------------------------------------------------------------------------
EndPass ==
    /\ Phase("walk") /\ job.todo = {}
    /\ Abort /\ UNCHANGED count

Crash ==
    /\ job.phase # "rest" /\ count.faults < MaxFaults
    /\ Count("faults") /\ job' = Rest /\ cur' = NoItem
    /\ LET cut == job.phase \in {"register", "check"} \/ cur.step = "repoint"
       IN  /\ unseen' = IF cut THEN unseen \cup {job.creator} ELSE unseen
           /\ torn' = (torn \/ cut)
    /\ UNCHANGED <<disk, rows, done>>

(* The user: outside of any order with the program. *)
UserDeletes(n) ==
    /\ count.deletes < MaxDeletes /\ Exists(n)
    /\ disk' = [disk EXCEPT ![n] = "absent"]
    /\ Count("deletes")
    /\ unseen' = unseen \cup {CreatorOf(n)} \cup Naming(n, {})
    /\ torn' = TRUE /\ done' = {i \in done : Content[i] # disk[n]}
    /\ UNCHANGED <<rows, job, cur>>

Step(i) ==
    \/ SkipRecorded(i) \/ PassOver(i) \/ FetchFails(i) \/ Unreadable(i)
    \/ Fetch(i) \/ StreamDuplicate(i) \/ FetchStream(i)

Program ==
    \/ \E c \in Creators : Snapshot(c)
    \/ \E n \in Names : Register(n) \/ RepairMove(n)
    \/ \E r \in Rows : Check(r)
    \/ \E i \in Items : Step(i)
    \/ StartCheck \/ StartRepair \/ FetchPages \/ Repoint \/ SaveStream
    \/ Dedupe \/ EndPass

LibraryNext == Program \/ Crash \/ \E n \in Names : UserDeletes(n)

LibrarySpec == LibraryInit /\ [][LibraryNext]_libraryVars

-----------------------------------------------------------------------------
(* Properties.                                                             *)

Held == {disk[n] : n \in Names} \cap Hashes

(* Types: a row is a Media row with its three download fields, a file is   *)
(* absent, unreadable or has the content of an item.                       *)
LibraryTypeOK ==
    /\ disk \in [Names -> Hashes \cup {"absent", "corrupt"}]
    /\ rows \in [Rows -> [known : BOOLEAN, downloaded : BOOLEAN,
                          hash : Hashes \cup {None}, name : Names \cup {None}]]
    /\ job.creator \in Creators \cup {None} /\ job.seen \subseteq Names
    /\ cur.step \in {None, "dedupe", "save", "unlink", "repoint"}
    /\ unseen \subseteq Creators /\ torn \in BOOLEAN /\ done \subseteq Items

(* No step of the program takes the last file of a content: nothing is     *)
(* moved over or away from it, and a download is given up for a duplicate  *)
(* only while another file has the same content.                           *)
LastCopyKept ==
    [][/\ (count.deletes' = count.deletes /\ cur.step # "unlink") => Held \subseteq Held'
       /\ (cur'.step = "unlink" /\ cur.step # "unlink") =>
             \E n \in Names \ {File} : disk[n] = Hash]_libraryVars

(* What a walk has gone through, whether fetched, skipped or taken as a    *)
(* duplicate, is in the library: no row vouches for content nobody has.    *)
AllContentPresent == \A i \in done : Content[i] \in Held

(* A later walk does not fetch again what a walk has gone through, except  *)
(* items whose best rendition is a variant (see NothingRefetched), and     *)
(* those whose row named a file that the repair moved: only the row of the *)
(* id in its name follows it, and the next scan forgets the others.        *)
NoRefetch ==
    [][\A i \in done \ Varied : ~Fetch(i) /\ ~FetchStream(i)]_libraryVars

(* process_media_download promises "None if already downloaded"; it asks   *)
(* the item's own row, and the deduplication marks the variant's.          *)
NothingRefetched ==
    [][\A i \in done : ~Fetch(i) /\ ~FetchStream(i)]_libraryVars

=============================================================================
