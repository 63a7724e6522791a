--------------------------- MODULE Library_proofs ---------------------------
(***************************************************************************)
(* Proofs about Library, for every value of its constants, and about it    *)
(* and StreamFetch side by side: the types, that the program never takes   *)
(* the last file of a content, and that what a walk has gone through is    *)
(* in the library.                                                         *)
(*                                                                         *)
(* A download is given up for a row that vouches for another file, and     *)
(* the danger is that the other file is the one just fetched: a row that   *)
(* names it was told so before the item was.  The invariant excludes it:   *)
(* of the rows that vouch for the file of an item one is the item's own.   *)
(***************************************************************************)
EXTENDS MCArchive, StreamFetch_proofs, TLAPS

USE LibraryAssumption

-----------------------------------------------------------------------------
(* Names, rows and items.                                                  *)

\* The rows of an item, and the name its file is fetched to.
LEMMA ItemNames ==
    ASSUME NEW i \in Items
    PROVE  /\ Row(i) \in Rows /\ Row(i)[1] = i
           /\ EffectiveRow(i) \in Rows /\ EffectiveRow(i)[1] = i
           /\ Canonical(i) \in Names /\ Canonical(i)[2] = EffectiveRow(i)
           /\ Canonical(i)[1] = IF i \in Previews THEN "preview" ELSE "utc"
           /\ Content[i] \in Hashes /\ Owner[i] \in Creators
<1>1. /\ Row(i) \in Rows /\ Row(i)[1] = i
      /\ EffectiveRow(i) \in Rows /\ EffectiveRow(i)[1] = i
  BY DEF Row, EffectiveRow, Rows
<1>2. Canonical(i) = <<IF i \in Previews THEN "preview" ELSE "utc", EffectiveRow(i)>>
  BY DEF Canonical, FileName
<1>3. /\ Canonical(i)[2] = EffectiveRow(i)
      /\ Canonical(i)[1] = IF i \in Previews THEN "preview" ELSE "utc"
  BY <1>2
<1>4. Canonical(i) \in Names
  BY DEF Canonical, Names, Forms
<1> QED
  BY <1>1, <1>3, <1>4 DEF Hashes

\* A row is one of the two of its item.
LEMMA RowParts ==
    ASSUME NEW r \in Rows
    PROVE  r[1] \in Items /\ (r = Row(r[1]) \/ r = EffectiveRow(r[1]))
  BY DEF Rows, Row, EffectiveRow

\* The parts of a name: its form, and the row it carries; another form of it
\* is a name too, and an item's name tells the item.
LEMMA NameParts ==
    ASSUME NEW n \in Names
    PROVE  /\ n[1] \in Forms /\ n[2] \in Rows /\ n[2][1] \in Items
           /\ n[2] = EffectiveRow(n[2][1]) /\ n = <<n[1], n[2]>>
           /\ \A f \in Forms : <<f, n[2]>> \in Names
           /\ Normalized(n) \in Names /\ Normalized(n)[2] = n[2]
           /\ n[1] \in {"utc", "preview"} => Normalized(n) = n
           /\ CreatorOf(n) \in Creators /\ CreatorOf(n) = Owner[n[2][1]]
<1>1. PICK form \in Forms, i \in Items : n = <<form, EffectiveRow(i)>>
  BY DEF Names, FileName
<1>2. n[1] = form /\ n[2] = EffectiveRow(i)
  BY <1>1
<1>3. EffectiveRow(i) \in Rows /\ EffectiveRow(i)[1] = i
  BY ItemNames
<1>4. \A f \in Forms : <<f, n[2]>> \in Names
  BY <1>2 DEF Names, FileName
<1>5. /\ Normalized(n) \in Names /\ Normalized(n)[2] = n[2]
      /\ n[1] \in {"utc", "preview"} => Normalized(n) = n
  <2>1. /\ Normalized(n) = <<IF n[1] \in {"local", "hash2"} THEN "utc" ELSE n[1], n[2]>>
        /\ (IF n[1] \in {"local", "hash2"} THEN "utc" ELSE n[1]) \in Forms
    BY <1>1, <1>2 DEF Normalized, Forms
  <2> QED
    BY <1>1, <1>2, <1>4, <2>1
<1> QED
  BY <1>1, <1>2, <1>3, <1>4, <1>5 DEF CreatorOf

-----------------------------------------------------------------------------
(* Types, and where the pass is.                                           *)

Phases == {"rest", "register", "check", "repair", "walk"}
Steps == {None, "dedupe", "save", "unlink", "repoint"}
RowType == [known : BOOLEAN, downloaded : BOOLEAN,
            hash : Hashes \cup {None}, name : Names \cup {None}]

\* LibraryTypeOK, with the types of the parts it leaves out.
Typed ==
    /\ disk \in [Names -> Hashes \cup {"absent", "corrupt"}]
    /\ rows \in [Rows -> RowType]
    /\ job \in [creator : Creators \cup {None}, phase : Phases,
                todo : SUBSET (Names \cup Rows \cup Items), seen : SUBSET Names]
    /\ cur \in [item : Items \cup {None}, step : Steps]
    /\ count \in [passes : Nat, deletes : Nat, faults : Nat]
    /\ unseen \subseteq Creators /\ torn \in BOOLEAN /\ done \subseteq Items

\* What a pass has before it: names to register, rows to check, plain names of
\* previews to repair, items of the creator to download.
Ahead ==
    /\ job.phase # "rest" => job.creator \in Creators
    /\ job.phase = "register" => job.todo \subseteq job.seen
    /\ job.phase = "check" => job.todo \subseteq RowsOf(job.creator)
    /\ job.phase = "repair" => job.todo \subseteq
          {n \in Names : /\ n[2][1] \in Previews /\ n[1] \in {"utc", "local"}
                         /\ CreatorOf(n) = job.creator}
    /\ job.phase = "walk" => job.todo \subseteq ItemsOf(job.creator)

\* The item between two effects is one of the creator, in the walk or, after a
\* move, in the repair; only items that are no streams are deduplicated so.
Between ==
    /\ cur.step = None => cur.item = None
    /\ cur.step # None => cur.item \in Items /\ Owner[cur.item] = job.creator
    /\ cur.step = "repoint" => job.phase = "repair"
    /\ cur.step \in {"dedupe", "unlink", "save"} => job.phase = "walk"
    /\ cur.step \in {"dedupe", "unlink"} => cur.item \notin Streams

Placed == Typed /\ Ahead /\ Between

\* What the assignment to one row does.
LEMMA MarkedIs ==
    ASSUME rows \in [Rows -> RowType], NEW r \in Rows, NEW h \in Hashes,
           NEW n \in Names \cup {None}
    PROVE  /\ Marked(r, h, n) \in [Rows -> RowType]
           /\ Marked(r, h, n)[r].downloaded /\ Marked(r, h, n)[r].hash = h
           /\ Marked(r, h, n)[r].name = n
           /\ Marked(r, h, n)[r].known = rows[r].known
           /\ \A q \in Rows : q # r => Marked(r, h, n)[q] = rows[q]
<1> DEFINE w == [rows[r] EXCEPT !.downloaded = TRUE, !.hash = h, !.name = n]
<1>1. rows[r] \in RowType
  OBVIOUS
<1>2. /\ w \in RowType /\ w.downloaded /\ w.hash = h /\ w.name = n
      /\ w.known = rows[r].known
  BY <1>1 DEF RowType
<1>3. Marked(r, h, n) = [rows EXCEPT ![r] = w]
  BY DEF Marked
<1> HIDE DEF w
<1> QED
  BY <1>2, <1>3

\* A row that names no file of the snapshot is cleared.
LEMMA CheckedIs ==
    ASSUME rows \in [Rows -> RowType], NEW r \in Rows
    PROVE  /\ Checked(r) \in [Rows -> RowType]
           /\ \/ rows[r].name \in job.seen /\ Checked(r) = rows
              \/ /\ rows[r].name \notin job.seen
                 /\ ~Checked(r)[r].downloaded /\ Checked(r)[r].hash = None
                 /\ Checked(r)[r].name = None /\ Checked(r)[r].known = rows[r].known
           /\ \A q \in Rows : q # r => Checked(r)[q] = rows[q]
<1> DEFINE w == [rows[r] EXCEPT !.downloaded = FALSE, !.hash = None, !.name = None]
<1>1. rows[r] \in RowType
  OBVIOUS
<1>2. /\ w \in RowType /\ ~w.downloaded /\ w.hash = None /\ w.name = None
      /\ w.known = rows[r].known
  BY <1>1 DEF RowType
<1>3. Checked(r) = IF rows[r].name \in job.seen THEN rows ELSE [rows EXCEPT ![r] = w]
  BY DEF Checked
<1> HIDE DEF w
<1>4. CASE rows[r].name \in job.seen
  BY <1>3, <1>4
<1>5. CASE rows[r].name \notin job.seen
  BY <1>2, <1>3, <1>5
<1> QED
  BY <1>4, <1>5

\* A registered name changes at most its own row: the row is known and
\* downloaded then, and named after the file or keeps a file that is there;
\* it takes a hash only with a hash2 name, and only if it was not known.
LEMMA TrustedIs ==
    ASSUME rows \in [Rows -> RowType], NEW n \in Names
    PROVE  /\ Trusted(n) \in [Rows -> RowType]
           /\ \A q \in Rows : q # n[2] => Trusted(n)[q] = rows[q]
           /\ \/ Trusted(n) = rows
              \/ /\ rows[n[2]].known /\ Trusted(n)[n[2]].known
                 /\ Trusted(n)[n[2]].downloaded
                 /\ Trusted(n)[n[2]].hash = rows[n[2]].hash
                 /\ Trusted(n)[n[2]].name = KeptName(n[2], Normalized(n))
              \/ /\ ~rows[n[2]].known /\ Trusted(n)[n[2]].known
                 /\ Trusted(n)[n[2]].downloaded
                 /\ Trusted(n)[n[2]].name = Normalized(n)
                 /\ Trusted(n)[n[2]].hash =
                        IF n[1] = "hash2" THEN Content[n[2][1]] ELSE None
<1> DEFINE r == n[2]
           hash == IF n[1] = "hash2" THEN Content[r[1]] ELSE None
           keep == KeptName(r, Normalized(n))
           w == [rows[r] EXCEPT !.name = keep, !.downloaded = TRUE]
           z == [known |-> TRUE, downloaded |-> TRUE, hash |-> hash, name |-> Normalized(n)]
<1>1. r \in Rows /\ r[1] \in Items /\ Normalized(n) \in Names
  BY NameParts
<1>2. hash \in Hashes \cup {None}
  BY <1>1, ItemNames
<1>3. rows[r] \in RowType
  BY <1>1
<1>4. keep \in Names
  BY <1>1, <1>3 DEF KeptName, RowType
<1> HIDE DEF r, hash, keep
<1>5. /\ w \in RowType /\ w.downloaded /\ w.hash = rows[r].hash /\ w.name = keep
      /\ w.known = rows[r].known
  BY <1>3, <1>4 DEF RowType
<1>6. /\ z \in RowType /\ z.downloaded /\ z.hash = hash /\ z.name = Normalized(n)
      /\ z.known
  BY <1>1, <1>2 DEF RowType
<1>7. Trusted(n) = IF rows[r].known THEN Known(r, Normalized(n))
                   ELSE IF HasTwin(hash) THEN rows
                   ELSE Created(r, Normalized(n), hash)
  BY DEF Trusted, r, hash
<1>8. Known(r, Normalized(n)) = [rows EXCEPT ![r] = w]
  BY <1>1 DEF Known, keep
<1>9. Created(r, Normalized(n), hash) = [rows EXCEPT ![r] = z]
  BY DEF Created
<1> HIDE DEF w, z
<1>10. CASE rows[r].known
  <2>1. Trusted(n) = [rows EXCEPT ![r] = w]
    BY <1>7, <1>8, <1>10
  <2>2. /\ Trusted(n) \in [Rows -> RowType] /\ Trusted(n)[r] = w
        /\ \A q \in Rows : q # r => Trusted(n)[q] = rows[q]
    BY <1>1, <1>5, <2>1
  <2>3. w.known
    BY <1>5, <1>10
  <2>4. /\ rows[n[2]].known /\ Trusted(n)[n[2]].known /\ Trusted(n)[n[2]].downloaded
        /\ Trusted(n)[n[2]].hash = rows[n[2]].hash
        /\ Trusted(n)[n[2]].name = KeptName(n[2], Normalized(n))
    BY <1>5, <1>10, <2>2, <2>3 DEF r, keep
  <2> QED
    BY <2>2, <2>4 DEF r
<1>11. CASE ~rows[r].known /\ HasTwin(hash)
  BY <1>7, <1>11
<1>12. CASE ~rows[r].known /\ ~HasTwin(hash)
  <2>1. Trusted(n) = [rows EXCEPT ![r] = z]
    BY <1>7, <1>9, <1>12
  <2>2. /\ Trusted(n) \in [Rows -> RowType] /\ Trusted(n)[r] = z
        /\ \A q \in Rows : q # r => Trusted(n)[q] = rows[q]
    BY <1>1, <1>6, <2>1
  <2>3. /\ ~rows[n[2]].known /\ Trusted(n)[n[2]].known /\ Trusted(n)[n[2]].downloaded
        /\ Trusted(n)[n[2]].name = Normalized(n)
        /\ Trusted(n)[n[2]].hash = IF n[1] = "hash2" THEN Content[n[2][1]] ELSE None
    BY <1>6, <1>12, <2>2 DEF r, hash
  <2> QED
    BY <2>2, <2>3 DEF r
<1> QED
  BY <1>10, <1>11, <1>12

-----------------------------------------------------------------------------
(* The types hold throughout.                                              *)

JobType == [creator : Creators \cup {None}, phase : Phases,
            todo : SUBSET (Names \cup Rows \cup Items), seen : SUBSET Names]

\* One thing less to do.
LEMMA JobLess ==
    ASSUME job \in JobType, NEW x
    PROVE  LET less == [job EXCEPT !.todo = @ \ {x}]
           IN  /\ less \in JobType /\ less.creator = job.creator
               /\ less.phase = job.phase /\ less.seen = job.seen
               /\ less.todo = job.todo \ {x}
  BY DEF JobType

\* The next phase, with its own things to do.
LEMMA JobNext ==
    ASSUME job \in JobType, NEW phase \in Phases,
           NEW T, T \subseteq Names \cup Rows \cup Items
    PROVE  LET next == [job EXCEPT !.phase = phase, !.todo = T]
           IN  /\ next \in JobType /\ next.creator = job.creator
               /\ next.phase = phase /\ next.seen = job.seen /\ next.todo = T
  BY DEF JobType

\* Between passes nothing is under way.
LEMMA RestIs ==
    /\ Rest \in JobType /\ Rest.phase = "rest"
    /\ NoItem \in [item : Items \cup {None}, step : Steps]
    /\ NoItem.step = None /\ NoItem.item = None
  BY DEF Rest, JobType, Phases, NoItem, Steps

\* A counter that goes up.
LEMMA CountType ==
    ASSUME count \in [passes : Nat, deletes : Nat, faults : Nat],
           NEW k \in {"passes", "deletes", "faults"}, Count(k)
    PROVE  /\ count' \in [passes : Nat, deletes : Nat, faults : Nat]
           /\ count'.deletes = count.deletes + (IF k = "deletes" THEN 1 ELSE 0)
<1>1. count' = [count EXCEPT ![k] = @ + 1]
  BY DEF Count
<1>2. CASE k = "passes"
  BY <1>1, <1>2
<1>3. CASE k = "deletes"
  BY <1>1, <1>3
<1>4. CASE k = "faults"
  BY <1>1, <1>4
<1> QED
  BY <1>2, <1>3, <1>4

\* What Through adds to the items gone through.
LEMMA ThroughType ==
    ASSUME done \subseteq Items, NEW i \in Items, Through(i)
    PROVE  done' \subseteq Items
  BY DEF Through

\* Rows belong to creators.
LEMMA NamingType == ASSUME NEW n, NEW S PROVE Naming(n, S) \subseteq Creators
<1> SUFFICES ASSUME NEW r \in Rows PROVE Owner[r[1]] \in Creators
  BY DEF Naming
<1> QED
  BY RowParts, ItemNames

\* The program starts in its place.
LEMMA PlacedStart == LibraryInit => Placed
<1> SUFFICES ASSUME LibraryInit PROVE Placed
  OBVIOUS
<1>1. disk \in [Names -> Hashes \cup {"absent", "corrupt"}]
  <2> DEFINE Told(there, broken) ==
               [n \in Names |-> IF n \in broken THEN "corrupt"
                                ELSE IF n \in there THEN Content[n[2][1]]
                                ELSE "absent"]
  <2>1. \E there, broken : disk = Told(there, broken)
    <3>1. PICK there \in SUBSET {FileName(f[1], f[2]) : f \in Inherited} :
             \E broken \in SUBSET (there \cap {FileName(f[1], f[2]) : f \in Breakable}) :
                disk = Told(there, broken)
      BY DEF LibraryInit
    <3>2. PICK broken : disk = Told(there, broken)
      BY <3>1
    <3> HIDE DEF Told
    <3> QED
      BY <3>2
  <2>2. \A n \in Names : Content[n[2][1]] \in Hashes
    BY NameParts, ItemNames
  <2>3. \A there, broken : Told(there, broken) \in [Names -> Hashes \cup {"absent", "corrupt"}]
    BY <2>2
  <2> QED
    BY <2>1, <2>3
<1>2. rows \in [Rows -> RowType]
  <2>1. PICK past \in SUBSET {n \in Names : disk[n] \in Hashes /\ n[1] = "utc"} :
           rows = [r \in Rows |->
                     IF <<"utc", r>> \notin past THEN NoRow
                     ELSE [known |-> TRUE, downloaded |-> TRUE,
                           hash |-> Content[r[1]], name |-> <<"utc", r>>]]
    BY DEF LibraryInit
  <2>2. NoRow \in RowType
    BY DEF NoRow, RowType
  <2>3. ASSUME NEW r \in Rows, <<"utc", r>> \in past
        PROVE  [known |-> TRUE, downloaded |-> TRUE,
                hash |-> Content[r[1]], name |-> <<"utc", r>>] \in RowType
    <3>1. Content[r[1]] \in Hashes /\ <<"utc", r>> \in Names
      BY <2>3, RowParts, ItemNames
    <3> QED
      BY <3>1 DEF RowType
  <2> QED
    BY <2>1, <2>2, <2>3
<1>3. /\ job \in JobType /\ job.phase = "rest" /\ cur.step = None /\ cur.item = None
      /\ cur \in [item : Items \cup {None}, step : Steps]
  BY RestIs DEF LibraryInit
<1>4. count \in [passes : Nat, deletes : Nat, faults : Nat]
  BY DEF LibraryInit
<1>5. unseen \subseteq Creators /\ torn \in BOOLEAN /\ done \subseteq Items
  BY DEF LibraryInit
<1> QED
  BY <1>1, <1>2, <1>3, <1>4, <1>5 DEF Placed, Typed, JobType, Ahead, Between

\* The steps of the scan.
LEMMA PlacedScan ==
    ASSUME Placed
    PROVE  /\ \A c \in Creators : Snapshot(c) => Placed'
           /\ \A n \in Names : Register(n) => Placed'
           /\ StartCheck => Placed'
           /\ \A r \in Rows : Check(r) => Placed'
           /\ StartRepair => Placed'
<1> USE DEF Placed, Ahead, Between, Phase
<1>0. /\ job \in JobType
      /\ cur = NoItem => cur.step = None /\ cur.item = None
      /\ job.creator \in Creators \cup {None}
  BY RestIs DEF Typed, JobType
<1>1. ASSUME NEW c \in Creators, Snapshot(c) PROVE Placed'
  <2>1. job' = [creator |-> c, phase |-> "register", todo |-> Folder(c), seen |-> Folder(c)]
    BY <1>1 DEF Snapshot
  <2>2. Folder(c) \subseteq Names
    BY DEF Folder
  <2>3. /\ job' \in JobType /\ job'.creator = c /\ job'.phase = "register"
        /\ job'.todo = job'.seen
    BY <2>1, <2>2 DEF JobType, Phases
  <2>4. count' \in [passes : Nat, deletes : Nat, faults : Nat]
    BY <1>1, CountType DEF Snapshot, Typed
  <2>5. cur.step = None /\ UNCHANGED <<disk, rows, cur, done, torn>> /\ unseen' \subseteq unseen
    BY <1>0, <1>1 DEF Snapshot
  <2>6. Typed'
    BY <2>3, <2>4, <2>5 DEF Typed, JobType
  <2> QED
    BY <2>3, <2>5, <2>6
<1>2. ASSUME NEW n \in Names, Register(n) PROVE Placed'
  <2>1. /\ job.phase = "register" /\ cur.step = None
        /\ job' = [job EXCEPT !.todo = @ \ {n}]
        /\ rows' = Trusted(n) /\ UNCHANGED <<disk, cur, count, unseen, done, torn>>
    BY <1>0, <1>2 DEF Register
  <2>2. /\ job' \in JobType /\ job'.creator = job.creator /\ job'.phase = "register"
        /\ job'.seen = job.seen /\ job'.todo \subseteq job.todo
    BY <1>0, <2>1, JobLess DEF Phases
  <2>3. rows' \in [Rows -> RowType]
    BY <2>1, TrustedIs DEF Typed
  <2>4. Typed'
    BY <2>1, <2>2, <2>3 DEF Typed, JobType
  <2> QED
    BY <2>1, <2>2, <2>4
<1>3. ASSUME StartCheck PROVE Placed'
  <2> DEFINE T == {r \in RowsOf(job.creator) : rows[r].downloaded}
  <2>1. /\ job.phase = "register" /\ cur.step = None
        /\ job' = [job EXCEPT !.phase = "check", !.todo = T]
        /\ UNCHANGED <<disk, rows, cur, count, unseen, done, torn>>
    BY <1>0, <1>3 DEF StartCheck
  <2>2. T \subseteq RowsOf(job.creator) /\ T \subseteq Names \cup Rows \cup Items
    BY DEF RowsOf
  <2> HIDE DEF T
  <2>3. /\ job' \in JobType /\ job'.creator = job.creator /\ job'.phase = "check"
        /\ job'.todo = T
    BY <1>0, <2>1, <2>2, JobNext DEF Phases
  <2>4. Typed'
    BY <2>1, <2>3 DEF Typed, JobType
  <2> QED
    BY <2>1, <2>2, <2>3, <2>4
<1>4. ASSUME NEW r \in Rows, Check(r) PROVE Placed'
  <2>1. /\ job.phase = "check" /\ cur.step = None
        /\ job' = [job EXCEPT !.todo = @ \ {r}]
        /\ rows' = Checked(r) /\ UNCHANGED <<disk, cur, count, unseen, done, torn>>
    BY <1>0, <1>4 DEF Check
  <2>2. /\ job' \in JobType /\ job'.creator = job.creator /\ job'.phase = "check"
        /\ job'.todo \subseteq job.todo
    BY <1>0, <2>1, JobLess DEF Phases
  <2>3. rows' \in [Rows -> RowType]
    BY <2>1, CheckedIs DEF Typed
  <2>4. Typed'
    BY <2>1, <2>2, <2>3 DEF Typed, JobType
  <2> QED
    BY <2>1, <2>2, <2>4
<1>5. ASSUME StartRepair PROVE Placed'
  <2> DEFINE T(on) == {n \in Folder(job.creator) : /\ on /\ n[2][1] \in Previews \ Varied
                                                   /\ rows[n[2]].known
                                                   /\ n[1] \in {"utc", "local"}}
             Plain == {n \in Names : /\ n[2][1] \in Previews /\ n[1] \in {"utc", "local"}
                                     /\ CreatorOf(n) = job.creator}
  <2>1. /\ job.phase = "check" /\ cur.step = None
        /\ UNCHANGED <<disk, rows, cur, count, unseen, done, torn>>
    BY <1>0, <1>5 DEF StartRepair
  <2>2. \E on \in RepairModes : job' = [job EXCEPT !.phase = "repair", !.todo = T(on)]
    BY <1>5 DEF StartRepair
  <2>3. \A on : T(on) \subseteq Plain
    BY DEF Folder
  <2>4. Plain \in SUBSET (Names \cup Rows \cup Items)
    OBVIOUS
  <2> HIDE DEF T, Plain
  <2>5. PICK S : /\ S \subseteq Names \cup Rows \cup Items /\ S \subseteq Plain
                 /\ job' = [job EXCEPT !.phase = "repair", !.todo = S]
    <3>1. PICK on : job' = [job EXCEPT !.phase = "repair", !.todo = T(on)]
      BY <2>2
    <3> QED
      BY <2>3, <2>4, <3>1
  <2>6. /\ job' \in JobType /\ job'.creator = job.creator /\ job'.phase = "repair"
        /\ job'.todo \subseteq Plain
    <3>1. job' = [job EXCEPT !.phase = "repair", !.todo = S] /\ "repair" \in Phases
      BY <2>5 DEF Phases
    <3>2. job' \in JobType /\ job'.creator = job.creator /\ job'.phase = "repair"
          /\ job'.todo = S
      <4> HIDE DEF Placed, Ahead, Between, Phase
      <4>1. S \in SUBSET (Names \cup Rows \cup Items)
        BY <2>5
      <4> QED
        BY <1>0, <3>1, <4>1 DEF JobType
    <3> QED
      BY <2>5, <3>2
  <2>7. Typed'
    BY <2>1, <2>6 DEF Typed, JobType
  <2> QED
    BY <2>1, <2>6, <2>7 DEF Plain
<1> QED
  BY <1>1, <1>2, <1>3, <1>4, <1>5

\* The steps of the repair, and the pages of the walk.
LEMMA PlacedRepair ==
    ASSUME Placed
    PROVE  /\ \A n \in Names : RepairMove(n) => Placed'
           /\ Repoint => Placed'
           /\ FetchPages => Placed'
<1> USE DEF Placed, Ahead, Between, Phase
<1>0. /\ job \in JobType
      /\ cur = NoItem => cur.step = None /\ cur.item = None
      /\ cur.step \in Steps /\ cur.item \in Items \cup {None}
  BY RestIs DEF Typed, JobType
<1>1. ASSUME NEW n \in Names, RepairMove(n) PROVE Placed'
  <2>1. /\ job.phase = "repair" /\ cur.step = None /\ n \in job.todo
        /\ disk' = Moved(n, <<"preview", n[2]>>)
        /\ cur' = IF disk' = disk THEN NoItem ELSE [item |-> n[2][1], step |-> "repoint"]
        /\ job' = [job EXCEPT !.todo = @ \ {n}]
        /\ unseen' \subseteq unseen \cup Naming(n, {n[2]})
        /\ done' \subseteq done /\ UNCHANGED <<rows, count, torn>>
    BY <1>0, <1>1 DEF RepairMove
  <2>2. /\ job' \in JobType /\ job'.creator = job.creator /\ job'.phase = "repair"
        /\ job'.todo \subseteq job.todo
    BY <1>0, <2>1, JobLess DEF Phases
  <2>3. disk' \in [Names -> Hashes \cup {"absent", "corrupt"}]
    <3>1. <<"preview", n[2]>> \in Names
      BY NameParts DEF Forms
    <3> QED
      BY <2>1, <3>1 DEF Moved, Typed
  <2>4. unseen' \subseteq Creators
    BY <2>1, NamingType DEF Typed
  <2>5. n[2][1] \in Items /\ Owner[n[2][1]] = job.creator
    BY <2>1, NameParts
  <2>6. /\ cur' \in [item : Items \cup {None}, step : Steps]
        /\ \/ cur'.step = None /\ cur'.item = None
           \/ cur'.step = "repoint" /\ cur'.item = n[2][1]
    BY <2>1, <2>5, RestIs DEF Steps
  <2>7. Typed'
    BY <2>1, <2>2, <2>3, <2>4, <2>6 DEF Typed, JobType
  <2> QED
    BY <2>1, <2>2, <2>5, <2>6, <2>7
<1>2. ASSUME Repoint PROVE Placed'
  <2> DEFINE r == EffectiveRow(cur.item)
             w == [rows[r] EXCEPT !.name = <<"preview", r>>]
  <2>1. /\ cur.step = "repoint" /\ cur.item \in Items /\ job.phase = "repair"
        /\ rows' = [rows EXCEPT ![r].name = <<"preview", r>>]
        /\ cur' = NoItem /\ UNCHANGED <<disk, job, count, unseen, done, torn>>
    BY <1>2 DEF Repoint
  <2>2. r \in Rows /\ <<"preview", r>> \in Names
    BY <2>1, ItemNames DEF Names, Forms, FileName
  <2> HIDE DEF r
  <2>3. rows[r] \in RowType /\ rows' = [rows EXCEPT ![r] = w]
    BY <2>1, <2>2 DEF Typed
  <2>4. w \in RowType
    BY <2>2, <2>3 DEF RowType
  <2> HIDE DEF w
  <2>5. rows' \in [Rows -> RowType]
    BY <2>3, <2>4 DEF Typed
  <2>6. Typed'
    BY <2>1, <2>5, RestIs DEF Typed
  <2> QED
    BY <2>1, <2>6, RestIs
<1>3. ASSUME FetchPages PROVE Placed'
  <2> DEFINE w(r) == [rows[r] EXCEPT !.known = TRUE]
  <2>1. /\ job.phase = "repair" /\ cur.step = None
        /\ job' = [job EXCEPT !.phase = "walk", !.todo = ItemsOf(job.creator)]
        /\ rows' = [r \in Rows |-> IF r \in RowsOf(job.creator) THEN w(r) ELSE rows[r]]
        /\ UNCHANGED <<disk, cur, count, unseen, done, torn>>
    BY <1>0, <1>3 DEF FetchPages
  <2>2. ItemsOf(job.creator) \subseteq Names \cup Rows \cup Items
    BY DEF ItemsOf
  <2>3. /\ job' \in JobType /\ job'.creator = job.creator /\ job'.phase = "walk"
        /\ job'.todo = ItemsOf(job.creator)
    BY <1>0, <2>1, <2>2, JobNext DEF Phases
  <2>4. ASSUME NEW r \in Rows PROVE w(r) \in RowType
    <3>1. rows[r] \in RowType
      BY DEF Typed
    <3> QED
      BY <3>1 DEF RowType
  <2> HIDE DEF w
  <2>5. rows' \in [Rows -> RowType]
    BY <2>1, <2>4 DEF Typed
  <2>6. Typed'
    BY <2>1, <2>3, <2>5 DEF Typed, JobType
  <2> QED
    BY <2>1, <2>3, <2>6
<1> QED
  BY <1>1, <1>2, <1>3

\* The steps that only end an item or the pass.
LEMMA PlacedQuiet ==
    ASSUME Placed
    PROVE  /\ \A i \in Items : SkipRecorded(i) \/ PassOver(i) => Placed'
           /\ \A i \in Items : FetchFails(i) \/ Unreadable(i) => Placed'
           /\ EndPass => Placed'
           /\ Crash => Placed'
<1> USE DEF Placed, Ahead, Between, Phase
<1>0. /\ job \in JobType
      /\ cur = NoItem => cur.step = None /\ cur.item = None
  BY RestIs DEF Typed, JobType
<1>1. ASSUME NEW i \in Items, SkipRecorded(i) \/ PassOver(i) PROVE Placed'
  <2>1. /\ job.phase = "walk" /\ cur.step = None
        /\ job' = [job EXCEPT !.todo = @ \ {i}]
        /\ UNCHANGED <<disk, rows, cur, unseen, torn>>
    BY <1>0, <1>1 DEF SkipRecorded, PassOver, Gone
  <2>2. /\ job' \in JobType /\ job'.creator = job.creator /\ job'.phase = "walk"
        /\ job'.todo \subseteq job.todo
    BY <1>0, <2>1, JobLess DEF Phases
  <2>3. count' \in [passes : Nat, deletes : Nat, faults : Nat]
    BY <1>1, CountType DEF SkipRecorded, PassOver, Typed
  <2>4. done' \subseteq Items
    BY <1>1, ThroughType DEF SkipRecorded, PassOver, Typed
  <2>5. Typed'
    BY <2>1, <2>2, <2>3, <2>4 DEF Typed, JobType
  <2> QED
    BY <2>1, <2>2, <2>5
<1>2. ASSUME job' = Rest, cur' = NoItem, UNCHANGED <<disk, rows, done>>,
             count' \in [passes : Nat, deletes : Nat, faults : Nat],
             unseen' \subseteq Creators, torn' \in BOOLEAN
      PROVE  Placed'
  BY <1>2, RestIs DEF Typed, JobType
<1>3. ASSUME NEW i \in Items, FetchFails(i) \/ Unreadable(i) PROVE Placed'
  <2>1. Abort /\ (UNCHANGED count \/ Count("faults"))
    BY <1>3 DEF FetchFails, Unreadable
  <2>2. count' \in [passes : Nat, deletes : Nat, faults : Nat]
    BY <2>1, CountType DEF Typed
  <2> QED
    BY <1>2, <2>1, <2>2 DEF Abort, Typed
<1>4. ASSUME EndPass PROVE Placed'
  BY <1>2, <1>4 DEF EndPass, Abort, Typed
<1>5. ASSUME Crash PROVE Placed'
  <2> DEFINE cut == job.phase \in {"register", "check"} \/ cur.step = "repoint"
  <2>1. /\ job.phase # "rest" /\ Count("faults") /\ job' = Rest /\ cur' = NoItem
        /\ unseen' = IF cut THEN unseen \cup {job.creator} ELSE unseen
        /\ torn' = (torn \/ cut) /\ UNCHANGED <<disk, rows, done>>
    BY <1>5 DEF Crash
  <2>2. count' \in [passes : Nat, deletes : Nat, faults : Nat]
    BY <2>1, CountType DEF Typed
  <2>3. unseen' \subseteq Creators
    BY <2>1 DEF Typed
  <2>4. torn' \in BOOLEAN
    BY <2>1
  <2> QED
    BY <1>2, <2>1, <2>2, <2>3, <2>4
<1> QED
  BY <1>1, <1>3, <1>4, <1>5

\* The steps of a download before its deduplication, and a stream's.
LEMMA PlacedFetch ==
    ASSUME Placed
    PROVE  /\ \A i \in Items : Fetch(i) \/ FetchStream(i) => Placed'
           /\ \A i \in Items : StreamDuplicate(i) => Placed'
           /\ SaveStream => Placed'
<1> USE DEF Placed, Ahead, Between, Phase
<1>0. /\ job \in JobType
      /\ cur = NoItem => cur.step = None /\ cur.item = None
      /\ cur.step \in Steps /\ cur.item \in Items \cup {None}
  BY RestIs DEF Typed, JobType
<1>1. ASSUME NEW i \in Items, Fetch(i) \/ FetchStream(i) PROVE Placed'
  <2>1. /\ job.phase = "walk" /\ i \in job.todo /\ cur.step = None
        /\ disk' = [disk EXCEPT ![Canonical(i)] = Content[i]]
        /\ job' = [job EXCEPT !.todo = @ \ {i}]
        /\ UNCHANGED <<rows, count, unseen, done, torn>>
        /\ \/ i \notin Streams /\ cur' = [item |-> i, step |-> "dedupe"]
           \/ cur' = [item |-> i, step |-> "save"]
    BY <1>0, <1>1 DEF Fetch, FetchStream, Wanted, Gone
  <2>2. /\ job' \in JobType /\ job'.creator = job.creator /\ job'.phase = "walk"
        /\ job'.todo \subseteq job.todo
    BY <1>0, <2>1, JobLess DEF Phases
  <2>3. disk' \in [Names -> Hashes \cup {"absent", "corrupt"}]
    BY <2>1, ItemNames DEF Typed
  <2>4. Owner[i] = job.creator
    BY <2>1 DEF ItemsOf
  <2>5. /\ cur' \in [item : Items \cup {None}, step : Steps] /\ cur'.item = i
        /\ cur'.step \in {"save", "dedupe"}
        /\ cur'.step = "dedupe" => i \notin Streams
    BY <2>1 DEF Steps
  <2>6. Typed'
    BY <2>1, <2>2, <2>3, <2>5 DEF Typed, JobType
  <2> QED
    BY <2>1, <2>2, <2>4, <2>5, <2>6
<1>2. ASSUME NEW i \in Items, StreamDuplicate(i) PROVE Placed'
  <2>1. /\ job.phase = "walk" /\ cur.step = None
        /\ job' = [job EXCEPT !.todo = @ \ {i}] /\ Through(i)
        /\ UNCHANGED <<disk, cur, count, unseen, torn>>
    BY <1>0, <1>2 DEF StreamDuplicate, Wanted, Gone
  <2>2. PICK twin \in StreamTwins(i) : rows' = Marked(Row(i), Content[i], rows[twin].name)
    BY <1>2 DEF StreamDuplicate
  <2>3. rows[twin].name \in Names \cup {None}
    BY DEF StreamTwins, Typed, RowType
  <2>4. rows' \in [Rows -> RowType]
    BY <2>2, <2>3, ItemNames, MarkedIs DEF Typed
  <2>5. /\ job' \in JobType /\ job'.creator = job.creator /\ job'.phase = "walk"
        /\ job'.todo \subseteq job.todo
    BY <1>0, <2>1, JobLess DEF Phases
  <2>6. done' \subseteq Items
    BY <2>1, ThroughType DEF Typed
  <2>7. Typed'
    BY <2>1, <2>4, <2>5, <2>6 DEF Typed, JobType
  <2> QED
    BY <2>1, <2>5, <2>7
<1>3. ASSUME SaveStream PROVE Placed'
  <2>1. /\ cur.item \in Items /\ job.phase = "walk"
        /\ rows' = Marked(Row(cur.item), Content[cur.item], Canonical(cur.item))
        /\ cur' = NoItem /\ Through(cur.item)
        /\ UNCHANGED <<disk, job, count, unseen, torn>>
    BY <1>3 DEF SaveStream
  <2>2. rows' \in [Rows -> RowType]
    BY <2>1, ItemNames, MarkedIs DEF Typed
  <2>3. done' \subseteq Items
    BY <2>1, ThroughType DEF Typed
  <2>4. Typed'
    BY <2>1, <2>2, <2>3, RestIs DEF Typed
  <2> QED
    BY <2>1, <2>4, RestIs
<1> QED
  BY <1>1, <1>2, <1>3

\* The deduplication leaves the job where it is, and ends with the item or
\* leaves its file to be unlinked.
LEMMA PlacedDedupe == ASSUME Placed, Dedupe PROVE Placed'
<1> USE DEF Placed, Ahead, Between, At
<1>1. /\ cur.item \in Items /\ cur.step \in {"dedupe", "unlink"} /\ UNCHANGED job
      /\ cur' = [cur EXCEPT !.step = "unlink"] \/ cur' = NoItem
      /\ UNCHANGED <<count, unseen, torn>> /\ (UNCHANGED done \/ Through(cur.item))
  BY DEF Dedupe, SameName, NewNameDuplicate, NewName, OtherNameDuplicate, OtherNameGone,
         HashUnknown, ByHashDuplicate, ByHashNew, Unlink, Settled, ThenUnlink
<1>2. /\ Target \in Rows /\ Row(cur.item) \in Rows /\ File \in Names
      /\ Hash \in Hashes
      /\ \A r \in Rows : /\ rows[r].name \in Names \cup {None}
                         /\ rows[r].hash \in Hashes \cup {None}
  BY <1>1, ItemNames DEF Target, File, Hash, Typed, RowType
<1>3. rows' \in [Rows -> RowType]
  <2>1. ASSUME NEW r \in Rows, NEW h \in Hashes, NEW n \in Names \cup {None},
               rows' = Marked(r, h, n)
        PROVE  rows' \in [Rows -> RowType]
    BY <2>1, MarkedIs DEF Typed
  <2>2. CASE SameName
    <3>1. (IF rows[Target].hash = None THEN Hash ELSE rows[Target].hash) \in Hashes
      BY <1>2
    <3> QED
      BY <1>2, <2>1, <2>2, <3>1 DEF SameName
  <2>3. CASE NewNameDuplicate
    BY <1>2, <2>1, <2>3 DEF NewNameDuplicate, References
  <2>4. CASE NewName \/ OtherNameGone \/ ByHashNew
    BY <1>2, <2>1, <2>4 DEF NewName, OtherNameGone, ByHashNew
  <2>5. CASE ByHashDuplicate
    BY <1>2, <2>1, <2>5 DEF ByHashDuplicate, ByHash
  <2>6. CASE OtherNameDuplicate \/ Unlink
    BY <2>6 DEF OtherNameDuplicate, Unlink, Settled, Typed
  <2> QED
    BY <2>2, <2>3, <2>4, <2>5, <2>6 DEF Dedupe
<1>4. disk' \in [Names -> Hashes \cup {"absent", "corrupt"}]
  <2>1. UNCHANGED disk \/ disk' = [disk EXCEPT ![File] = "absent"]
    BY DEF Dedupe, SameName, NewNameDuplicate, NewName, OtherNameDuplicate, OtherNameGone,
           HashUnknown, ByHashDuplicate, ByHashNew, Unlink, Settled, ThenUnlink
  <2> QED
    BY <1>2, <2>1 DEF Typed
<1>5. done' \subseteq Items
  BY <1>1, ThroughType DEF Typed
<1>6. /\ cur' \in [item : Items \cup {None}, step : Steps]
      /\ \/ cur'.step = "unlink" /\ cur'.item = cur.item
         \/ cur'.step = None /\ cur'.item = None
  BY <1>1, RestIs DEF Typed, Steps
<1>7. Typed'
  BY <1>1, <1>3, <1>4, <1>5, <1>6 DEF Typed
<1> QED
  BY <1>1, <1>6, <1>7

\* The user takes a file.
LEMMA PlacedUser == ASSUME Placed, NEW n \in Names, UserDeletes(n) PROVE Placed'
<1>1. /\ disk' = [disk EXCEPT ![n] = "absent"] /\ Count("deletes")
      /\ unseen' = unseen \cup {CreatorOf(n)} \cup Naming(n, {})
      /\ torn' = TRUE /\ done' \subseteq done /\ UNCHANGED <<rows, job, cur>>
  BY DEF UserDeletes
<1>2. disk' \in [Names -> Hashes \cup {"absent", "corrupt"}]
  BY <1>1 DEF Placed, Typed
<1>3. unseen' \subseteq Creators
  BY <1>1, NamingType, NameParts DEF Placed, Typed
<1>4. count' \in [passes : Nat, deletes : Nat, faults : Nat]
  BY <1>1, CountType DEF Placed, Typed
<1>5. Typed'
  BY <1>1, <1>2, <1>3, <1>4 DEF Placed, Typed
<1> QED
  BY <1>1, <1>5 DEF Placed, Ahead, Between

\* Every step keeps the types and the place of the pass.
LEMMA PlacedStep == Placed /\ [LibraryNext]_libraryVars => Placed'
<1>1. ASSUME Placed, Program PROVE Placed'
  BY <1>1, PlacedScan, PlacedRepair, PlacedQuiet, PlacedFetch, PlacedDedupe
  DEF Program, Step
<1>2. ASSUME Placed, Crash PROVE Placed'
  BY <1>2, PlacedQuiet
<1>3. ASSUME Placed, NEW n \in Names, UserDeletes(n) PROVE Placed'
  BY <1>3, PlacedUser
<1>4. ASSUME Placed, UNCHANGED libraryVars PROVE Placed'
  BY <1>4 DEF libraryVars, Placed, Typed, Ahead, Between
<1> QED
  BY <1>1, <1>2, <1>3, <1>4 DEF LibraryNext

\* Every variable keeps its type, whatever fails and whatever the user takes.
THEOREM LibraryTypeCorrect == LibrarySpec => []LibraryTypeOK
<1>1. Placed => LibraryTypeOK
  BY DEF Placed, Typed, LibraryTypeOK, RowType, Steps
<1> QED
  BY <1>1, PlacedStart, PlacedStep, PTL DEF LibrarySpec

-----------------------------------------------------------------------------
(* The inductive invariant of the last copy.                               *)

\* What a row says of a file is true of its name: the hash is the one of the
\* row's item and of the item whose name it keeps; a row that is no stream's
\* names a file in the folder of its creator.
VouchesFor(r, w) ==
    /\ w.hash # None =>
          /\ w.known /\ w.downloaded /\ w.name # None
          /\ w.hash = Content[r[1]] /\ Content[w.name[2][1]] = w.hash
    /\ r[1] \notin Streams /\ w.name # None => CreatorOf(w.name) = Owner[r[1]]
RowsVouch == \A r \in Rows : VouchesFor(r, rows[r])

\* A file that is there and readable has the content its name says.
FilesTold == \A n \in Names : disk[n] \in {"absent", "corrupt", Content[n[2][1]]}

\* An unreadable file lies where its item would be fetched to, alone of its
\* row, and no row vouches for it.
BrokenApart == \A n \in Names : disk[n] = "corrupt" =>
    /\ n = Canonical(n[2][1]) /\ rows[n[2]].hash = None
    /\ \A m \in Names : m[2] = n[2] /\ m # n => disk[m] = "absent"
    /\ \A q \in Rows : rows[q].name = n => rows[q].hash = None

\* A row that vouches for the file an item is fetched to is the item's own or
\* its rendition's, or one of these two vouches for the file as well: always
\* while the file is there, and from the scan to the end of the walk even if
\* it is not.
Claims(r, i) == rows[r].hash # None /\ rows[r].name = Canonical(i)
Anchored(i) == Claims(Row(i), i) \/ Claims(EffectiveRow(i), i)
InReach(i) == \/ Exists(Canonical(i))
              \/ job.phase \in {"repair", "walk"} /\ Owner[i] = job.creator
ClaimsAnchored == \A i \in Items \ Streams, r \in Rows :
    Claims(r, i) /\ InReach(i) => Anchored(i)

\* The scan's snapshot is the folder as it is; a row that it has checked names
\* a file of it.
ScanSees ==
    /\ job.phase \in {"register", "check"} => job.seen = Folder(job.creator)
    /\ job.phase = "check" => \A r \in RowsOf(job.creator) :
           rows[r].downloaded => r \in job.todo \/ rows[r].name \in job.seen

\* In the walk the rows of the creator are known; a download under way is of
\* an item whose row had no hash, and its file is not unreadable.
UnderWay ==
    /\ job.phase = "walk" => \A r \in RowsOf(job.creator) : rows[r].known
    /\ cur.step = "dedupe" => rows[Row(cur.item)].hash = None
    /\ cur.step \in {"dedupe", "save"} => disk[Canonical(cur.item)] # "corrupt"
    /\ cur.step = "repoint" => cur.item \in Previews

Vouched == RowsVouch /\ FilesTold /\ BrokenApart /\ ClaimsAnchored /\ ScanSees /\ UnderWay

\* The steps by what they change.
SamePlace == job'.phase = job.phase /\ job'.creator = job.creator
Still == UNCHANGED <<rows, disk>> /\ (job'.phase \in {"repair", "walk"} => SamePlace)
Fetched(i) == /\ disk' = [disk EXCEPT ![Canonical(i)] = Content[i]]
              /\ disk[Canonical(i)] # "corrupt" /\ rows[Row(i)].hash = None
              /\ job.phase = "walk" /\ Owner[i] = job.creator
              /\ UNCHANGED rows /\ SamePlace
Taken(n) == disk' = [disk EXCEPT ![n] = "absent"] /\ UNCHANGED rows /\ SamePlace
MarkedFor(k) == \E x \in {Row(k), EffectiveRow(k)}, n \in Names :
    /\ rows' = Marked(x, Content[k], n) /\ UNCHANGED disk /\ SamePlace
    /\ n = Canonical(k) \/ \E q \in Rows : rows[q].hash = Content[k] /\ rows[q].name = n
    /\ k \notin Streams => CreatorOf(n) = Owner[k]
    /\ k \notin Streams => rows[x].hash = None \/ rows[x].name = None \/ n = Canonical(k)
    /\ disk[Canonical(k)] # "corrupt" /\ rows[x].known

\* A row of a creator's item is one of the creator's rows.
LEMMA OwnRows ==
    ASSUME NEW i \in Items
    PROVE  /\ Row(i) \in RowsOf(Owner[i]) /\ EffectiveRow(i) \in RowsOf(Owner[i])
           /\ \A c : i \in ItemsOf(c) => Owner[i] = c
  BY ItemNames DEF RowsOf, ItemsOf

\* A row without a hash or a name is not recorded, and the other way round.
LEMMA NotRecorded ==
    ASSUME Placed, RowsVouch, NEW r \in Rows
    PROVE  ~Recorded(r) <=> rows[r].hash = None
  BY DEF RowsVouch, VouchesFor, Recorded

\* Every marking of a row is of one of the two rows of an item, with its hash
\* and its name or the name of a row of the same hash.
LEMMA StreamMarks ==
    ASSUME Placed, Vouched,
           (\E i \in Items : StreamDuplicate(i)) \/ SaveStream
    PROVE  \E k \in Items : MarkedFor(k)
<1> USE DEF Vouched
<1>1. ASSUME NEW i \in Items, StreamDuplicate(i) PROVE MarkedFor(i)
  <2>1. /\ job.phase = "walk" /\ i \in job.todo /\ i \in Streams
        /\ disk[Canonical(i)] # "corrupt" /\ UNCHANGED disk
        /\ job' = [job EXCEPT !.todo = @ \ {i}]
    BY <1>1 DEF StreamDuplicate, Wanted, Gone, Phase
  <2>2. PICK twin \in StreamTwins(i) : rows' = Marked(Row(i), Content[i], rows[twin].name)
    BY <1>1 DEF StreamDuplicate
  <2>3. twin \in Rows /\ rows[twin].hash = Content[i]
    BY DEF StreamTwins
  <2>4. rows[twin].name # None /\ rows[twin].name \in Names
    BY <2>3, ItemNames DEF RowsVouch, VouchesFor, Placed, Typed, RowType
  <2>5. SamePlace
    BY <2>1, JobLess DEF SamePlace, Placed, Typed, JobType
  <2>6. rows[Row(i)].known
    BY <2>1, OwnRows DEF Placed, Ahead, UnderWay
  <2> QED
    BY <2>1, <2>2, <2>3, <2>4, <2>5, <2>6 DEF MarkedFor
<1>2. ASSUME SaveStream PROVE MarkedFor(cur.item) /\ cur.item \in Items
  <2>1. /\ cur.item \in Items /\ job.phase = "walk" /\ Owner[cur.item] = job.creator
        /\ rows' = Marked(Row(cur.item), Content[cur.item], Canonical(cur.item))
        /\ UNCHANGED <<disk, job>>
    BY <1>2 DEF SaveStream, Placed, Between
  <2>2. disk[Canonical(cur.item)] # "corrupt"
    BY <1>2 DEF SaveStream, UnderWay
  <2>3. rows[Row(cur.item)].known
    BY <2>1, OwnRows DEF UnderWay
  <2>4. Canonical(cur.item) \in Names /\ CreatorOf(Canonical(cur.item)) = Owner[cur.item]
    BY <2>1, ItemNames DEF CreatorOf
  <2> QED
    BY <2>1, <2>2, <2>3, <2>4 DEF MarkedFor, SamePlace
<1> QED
  BY <1>1, <1>2

\* The same of the markings of the deduplication.
LEMMA DedupeMarks ==
    ASSUME Placed, Vouched,
           SameName \/ NewNameDuplicate \/ NewName \/ OtherNameGone
               \/ ByHashDuplicate \/ ByHashNew
    PROVE  cur.item \in Items /\ MarkedFor(cur.item)
<1> DEFINE k == cur.item
<1> USE DEF Vouched, At, File, Hash, Target
<1>1. /\ cur.step = "dedupe" /\ UNCHANGED <<disk, job>>
  BY DEF SameName, NewNameDuplicate, NewName, OtherNameGone, HashUnknown,
         ByHashDuplicate, ByHashNew, Settled, ThenUnlink
<1>2. /\ k \in Items /\ k \notin Streams /\ Owner[k] = job.creator /\ job.phase = "walk"
  BY <1>1 DEF Placed, Between
<1>3. /\ disk[Canonical(k)] # "corrupt" /\ rows[Row(k)].hash = None
      /\ rows[Row(k)].known /\ rows[EffectiveRow(k)].known
  BY <1>1, <1>2, OwnRows DEF UnderWay
<1>4. /\ Canonical(k) \in Names /\ CreatorOf(Canonical(k)) = Owner[k]
      /\ EffectiveRow(k) \in Rows /\ EffectiveRow(k)[1] = k
  BY <1>2, ItemNames DEF CreatorOf
<1> HIDE DEF k
<1>5. ASSUME NEW x \in {Row(k), EffectiveRow(k)}, rows' = Marked(x, Content[k], Canonical(k))
      PROVE  MarkedFor(k)
  BY <1>1, <1>3, <1>4, <1>5 DEF MarkedFor, SamePlace
<1>6. ASSUME NEW x \in {Row(k), EffectiveRow(k)}, NEW q \in Rows,
             rows[q].hash = Content[k], Backed(q),
             rows[x].hash = None \/ rows[x].name = None,
             rows' = Marked(x, Content[k], rows[q].name)
      PROVE  MarkedFor(k)
  <2>1. rows[q].name \in Names /\ CreatorOf(rows[q].name) = Owner[k]
    BY <1>2, <1>6 DEF Backed, ExistsHere, Exists, Placed, Typed, RowType
  <2> QED
    BY <1>1, <1>3, <1>6, <2>1 DEF MarkedFor, SamePlace
<1>7. CASE SameName
  <2>1. rows[EffectiveRow(k)].hash \in {None, Content[k]}
    BY <1>4 DEF RowsVouch, VouchesFor
  <2>2. rows' = Marked(EffectiveRow(k), Content[k], Canonical(k))
    BY <1>7, <2>1 DEF SameName, k
  <2> QED
    BY <1>2, <1>5, <2>2 DEF k
<1>8. CASE NewNameDuplicate
  <2>1. PICK r \in References : Backed(r) /\ rows' = Marked(Target, Hash, rows[r].name)
    BY <1>8 DEF NewNameDuplicate
  <2> QED
    BY <1>2, <1>6, <1>8, <2>1 DEF NewNameDuplicate, References, k
<1>9. CASE NewName \/ OtherNameGone \/ ByHashNew
  <2>1. rows' = Marked(EffectiveRow(k), Content[k], Canonical(k))
        \/ rows' = Marked(Row(k), Content[k], Canonical(k))
    BY <1>9 DEF NewName, OtherNameGone, ByHashNew, k
  <2> QED
    BY <1>2, <1>5, <2>1 DEF k
<1>10. CASE ByHashDuplicate
  <2>1. PICK r \in ByHash : Backed(r) /\ rows' = Marked(Row(cur.item), Hash, rows[r].name)
    BY <1>10 DEF ByHashDuplicate
  <2> QED
    BY <1>2, <1>3, <1>6, <2>1 DEF ByHash, k
<1> QED
  BY <1>7, <1>8, <1>9, <1>10

\* The steps that change neither a row nor a file.
LEMMA StillSteps ==
    ASSUME Placed
    PROVE  /\ \A c \in Creators : Snapshot(c) => Still
           /\ StartCheck => Still
           /\ \A i \in Items : SkipRecorded(i) \/ PassOver(i) => Still
           /\ \A i \in Items : FetchFails(i) \/ Unreadable(i) => Still
           /\ OtherNameDuplicate \/ EndPass \/ Crash => Still
<1>0. job \in JobType
  BY DEF Placed, Typed, JobType
<1>1. ASSUME NEW c \in Creators, Snapshot(c) PROVE Still
  <2>1. job' = [creator |-> c, phase |-> "register", todo |-> Folder(c), seen |-> Folder(c)]
        /\ UNCHANGED <<disk, rows>>
    BY <1>1 DEF Snapshot
  <2>2. job'.phase = "register"
    BY <2>1
  <2> QED
    BY <2>1, <2>2 DEF Still
<1>2. ASSUME StartCheck PROVE Still
  <2>1. job'.phase = "check" /\ UNCHANGED <<disk, rows>>
    BY <1>0, <1>2 DEF StartCheck, JobType
  <2> QED
    BY <2>1 DEF Still
<1>3. ASSUME NEW i \in Items, SkipRecorded(i) \/ PassOver(i) PROVE Still
  <2>1. job' = [job EXCEPT !.todo = @ \ {i}] /\ UNCHANGED <<disk, rows>>
    BY <1>3 DEF SkipRecorded, PassOver, Gone
  <2> QED
    BY <1>0, <2>1, JobLess DEF Still, SamePlace
<1>4. ASSUME NEW i \in Items, FetchFails(i) \/ Unreadable(i) PROVE Still
  BY <1>4, RestIs DEF FetchFails, Unreadable, Abort, Still
<1>5. OtherNameDuplicate => Still
  BY DEF OtherNameDuplicate, ThenUnlink, Still, SamePlace
<1>6. EndPass \/ Crash => Still
  BY RestIs DEF EndPass, Crash, Abort, Still
<1> QED
  BY <1>1, <1>2, <1>3, <1>4, <1>5, <1>6

\* The steps that write a file, or take one.
LEMMA FileSteps ==
    ASSUME Placed, Vouched
    PROVE  /\ \A i \in Items : Fetch(i) \/ FetchStream(i) => Fetched(i)
           /\ Unlink => \E n \in Names : Taken(n)
           /\ \A n \in Names : UserDeletes(n) => Taken(n)
<1>1. ASSUME NEW i \in Items, Fetch(i) \/ FetchStream(i) PROVE Fetched(i)
  <2>1. /\ job.phase = "walk" /\ i \in job.todo /\ ~Recorded(Row(i))
        /\ disk[Canonical(i)] # "corrupt"
        /\ disk' = [disk EXCEPT ![Canonical(i)] = Content[i]]
        /\ job' = [job EXCEPT !.todo = @ \ {i}] /\ UNCHANGED rows
    BY <1>1 DEF Fetch, FetchStream, Wanted, Gone, Phase
  <2>2. rows[Row(i)].hash = None
    BY <2>1, ItemNames, NotRecorded DEF Vouched
  <2>3. SamePlace
    BY <2>1, JobLess DEF SamePlace, Placed, Typed, JobType
  <2>4. Owner[i] = job.creator
    BY <2>1 DEF Placed, Ahead, ItemsOf
  <2> QED
    BY <2>1, <2>2, <2>3, <2>4 DEF Fetched
<1>2. Unlink => \E n \in Names : Taken(n)
  <2> SUFFICES ASSUME Unlink PROVE Taken(File) /\ File \in Names
    OBVIOUS
  <2> QED
    BY ItemNames DEF Unlink, At, Settled, Taken, SamePlace, File, Placed, Between
<1>3. ASSUME NEW n \in Names, UserDeletes(n) PROVE Taken(n)
  BY <1>3 DEF UserDeletes, Taken, SamePlace
<1> QED
  BY <1>1, <1>2, <1>3

\* Every step, by what it changes.
Scanned == \/ \E n \in Names : Register(n)
           \/ \E r \in Rows : Check(r)
           \/ StartRepair
Mended == (\E n \in Names : RepairMove(n)) \/ Repoint \/ FetchPages
Downloaded == (\E k \in Items : MarkedFor(k)) \/ (\E i \in Items : Fetched(i))
Effect == Still \/ Scanned \/ Mended \/ Downloaded \/ \E n \in Names : Taken(n)

\* Every step is one of these.
LEMMA Effects == ASSUME Placed, Vouched, LibraryNext PROVE Effect
<1>1. ASSUME NEW i \in Items, Step(i) PROVE Effect
  <2>1. CASE SkipRecorded(i) \/ PassOver(i) \/ FetchFails(i) \/ Unreadable(i)
    BY <2>1, StillSteps DEF Effect
  <2>2. CASE Fetch(i) \/ FetchStream(i)
    BY <2>2, FileSteps DEF Effect, Downloaded
  <2>3. CASE StreamDuplicate(i)
    BY <2>3, StreamMarks DEF Effect, Downloaded
  <2> QED
    BY <1>1, <2>1, <2>2, <2>3 DEF Step
<1>2. ASSUME Dedupe PROVE Effect
  <2>1. CASE OtherNameDuplicate
    BY <2>1, StillSteps DEF Effect
  <2>2. CASE Unlink
    BY <2>2, FileSteps DEF Effect
  <2>3. CASE SameName \/ NewNameDuplicate \/ NewName \/ OtherNameGone
               \/ ByHashDuplicate \/ ByHashNew
    BY <2>3, DedupeMarks DEF Effect, Downloaded
  <2> QED
    BY <1>2, <2>1, <2>2, <2>3 DEF Dedupe
<1>3. SaveStream => Effect
  BY StreamMarks DEF Effect, Downloaded
<1>4. (\E c \in Creators : Snapshot(c)) \/ StartCheck \/ EndPass \/ Crash => Effect
  BY StillSteps DEF Effect
<1>5. (\E n \in Names : UserDeletes(n)) => Effect
  BY FileSteps DEF Effect
<1>6. Scanned \/ Mended => Effect
  BY DEF Effect
<1> QED
  BY <1>1, <1>2, <1>3, <1>4, <1>5, <1>6 DEF LibraryNext, Program, Scanned, Mended

-----------------------------------------------------------------------------
(* Rows and files keep telling the truth.                                  *)

\* What a row that was marked, cleared or registered says.
LEMMA VouchesStep ==
    ASSUME Placed, Vouched, Effect, Placed'
    PROVE  RowsVouch'
<1> SUFFICES ASSUME NEW r \in Rows PROVE VouchesFor(r, rows'[r])
  BY DEF RowsVouch
<1> USE DEF Placed, Vouched
<1>0. /\ VouchesFor(r, rows[r]) /\ rows \in [Rows -> RowType] /\ r[1] \in Items
      /\ rows[r] \in RowType /\ rows[r].name \in Names \cup {None}
  BY RowParts DEF RowsVouch, Typed, RowType
<1>1. CASE rows'[r] = rows[r]
  BY <1>0, <1>1
<1>2. ASSUME NEW n \in Names, Register(n) PROVE VouchesFor(r, rows'[r])
  <2>1. rows' = Trusted(n)
    BY <1>2 DEF Register
  <2>2. CASE r # n[2] \/ Trusted(n) = rows
    BY <1>0, <1>1, <2>1, <2>2, TrustedIs
  <2>3. /\ Normalized(n) \in Names /\ Normalized(n)[2] = n[2]
        /\ CreatorOf(Normalized(n)) = Owner[n[2][1]]
    BY NameParts
  <2>4. CASE /\ r = n[2] /\ rows'[r].known /\ rows'[r].downloaded
             /\ rows'[r].hash = rows[r].hash
             /\ rows'[r].name = KeptName(r, Normalized(n))
    <3>1. rows'[r].name \in {rows[r].name, Normalized(n)} /\ rows'[r].name # None
      BY <2>3, <2>4 DEF KeptName
    <3>2. CASE rows'[r].name = rows[r].name
      BY <1>0, <2>4, <3>1, <3>2 DEF VouchesFor
    <3>3. CASE rows'[r].name = Normalized(n)
      BY <1>0, <2>3, <2>4, <3>1, <3>3 DEF VouchesFor
    <3> QED
      BY <3>1, <3>2, <3>3
  <2>5. CASE /\ r = n[2] /\ rows'[r].known /\ rows'[r].downloaded
             /\ rows'[r].name = Normalized(n)
             /\ rows'[r].hash = IF n[1] = "hash2" THEN Content[n[2][1]] ELSE None
    BY <2>3, <2>5 DEF VouchesFor
  <2> QED
    BY <1>0, <2>1, <2>2, <2>4, <2>5, TrustedIs
<1>3. ASSUME NEW q \in Rows, Check(q) PROVE VouchesFor(r, rows'[r])
  <2>1. rows' = Checked(q)
    BY <1>3 DEF Check
  <2>2. CASE rows'[r].hash = None /\ rows'[r].name = None
    BY <2>2 DEF VouchesFor
  <2> QED
    BY <1>0, <1>1, <2>1, <2>2, CheckedIs
<1>4. ASSUME NEW n \in Names, RepairMove(n) PROVE VouchesFor(r, rows'[r])
  BY <1>1, <1>4 DEF RepairMove
<1>5. ASSUME Repoint PROVE VouchesFor(r, rows'[r])
  <2> DEFINE x == EffectiveRow(cur.item)
             to == <<"preview", x>>
  <2>1. cur.item \in Items /\ rows' = [rows EXCEPT ![x].name = to]
    BY <1>5 DEF Repoint, Between
  <2>2. x \in Rows /\ to[2] = x /\ to \in Names
    BY <2>1, ItemNames DEF Names, Forms, FileName
  <2>3. CreatorOf(to) = Owner[x[1]]
    BY <2>2 DEF CreatorOf
  <2> HIDE DEF x, to
  <2>4. CASE r # x
    BY <1>0, <1>1, <2>1, <2>4
  <2>5. CASE r = x
    <3>1. rows'[r] = [rows[r] EXCEPT !.name = to]
      BY <1>0, <2>1, <2>2, <2>5
    <3>2. /\ rows'[r].name = to /\ rows'[r].hash = rows[r].hash
          /\ rows'[r].known = rows[r].known /\ rows'[r].downloaded = rows[r].downloaded
      BY <1>0, <3>1 DEF RowType
    <3>3. to # None
      BY <2>2
    <3> QED
      BY <1>0, <2>2, <2>3, <2>5, <3>2, <3>3 DEF VouchesFor
  <2> QED
    BY <2>4, <2>5
<1>6. ASSUME FetchPages PROVE VouchesFor(r, rows'[r])
  <2>1. rows'[r] = rows[r] \/ rows'[r] = [rows[r] EXCEPT !.known = TRUE]
    BY <1>0, <1>6 DEF FetchPages
  <2>2. CASE rows'[r] = [rows[r] EXCEPT !.known = TRUE]
    <3>1. /\ rows'[r].name = rows[r].name /\ rows'[r].hash = rows[r].hash
          /\ rows'[r].known /\ rows'[r].downloaded = rows[r].downloaded
      BY <1>0, <2>2 DEF RowType
    <3> QED
      BY <1>0, <3>1 DEF VouchesFor
  <2> QED
    BY <1>1, <2>1, <2>2
<1>7. ASSUME NEW k \in Items, MarkedFor(k) PROVE VouchesFor(r, rows'[r])
  <2>1. PICK x \in {Row(k), EffectiveRow(k)}, n \in Names :
           /\ rows' = Marked(x, Content[k], n)
           /\ n = Canonical(k) \/ \E q \in Rows : rows[q].hash = Content[k] /\ rows[q].name = n
           /\ k \notin Streams => CreatorOf(n) = Owner[k]
           /\ rows[x].known
    BY <1>7 DEF MarkedFor
  <2>2. x \in Rows /\ x[1] = k /\ Content[k] \in Hashes /\ Canonical(k)[2][1] = k
    BY ItemNames
  <2>3. Content[n[2][1]] = Content[k]
    BY <2>1, <2>2 DEF RowsVouch, VouchesFor
  <2>4. CASE r # x
    BY <1>0, <1>1, <2>1, <2>2, <2>4, MarkedIs
  <2>5. CASE r = x
    <3>1. /\ rows'[r].downloaded /\ rows'[r].hash = Content[k] /\ rows'[r].name = n
          /\ rows'[r].known = rows[r].known
      BY <1>0, <2>1, <2>2, <2>5, MarkedIs
    <3> QED
      BY <2>1, <2>2, <2>3, <2>5, <3>1 DEF VouchesFor
  <2> QED
    BY <2>4, <2>5
<1>8. CASE StartRepair \/ Still \/ (\E i \in Items : Fetched(i)) \/ (\E n \in Names : Taken(n))
  BY <1>1, <1>8 DEF StartRepair, Still, Fetched, Taken
<1> QED
  BY <1>2, <1>3, <1>4, <1>5, <1>6, <1>7, <1>8 DEF Effect, Scanned, Mended, Downloaded

\* A move puts the bytes under the new name, and takes them from the old one.
LEMMA MovedIs ==
    ASSUME Placed, Vouched, NEW n \in Names, RepairMove(n)
    PROVE  LET to == <<"preview", n[2]>>
           IN  /\ to \in Names /\ to # n /\ to[2] = n[2] /\ n[1] \in {"utc", "local"}
               /\ n[2][1] \in Previews /\ disk[n] # "corrupt"
               /\ Owner[n[2][1]] = job.creator /\ job.phase = "repair" /\ SamePlace
               /\ UNCHANGED rows
               /\ \A m \in Names \ {n, to} : disk'[m] = disk[m]
               /\ \/ UNCHANGED disk
                  \/ ~Exists(to) /\ disk'[to] = disk[n] /\ disk'[n] = "absent"
                  \/ disk'[to] = disk[to] /\ disk[to] = disk[n] /\ disk'[n] = "absent"
<1> DEFINE to == <<"preview", n[2]>>
<1>1. /\ job.phase = "repair" /\ n \in job.todo /\ disk' = Moved(n, to)
      /\ job' = [job EXCEPT !.todo = @ \ {n}] /\ UNCHANGED rows
  BY DEF RepairMove, Phase
<1>2. n[2][1] \in Previews /\ n[1] \in {"utc", "local"} /\ CreatorOf(n) = job.creator
  BY <1>1 DEF Placed, Ahead
<1>3. to \in Names /\ to # n /\ to[2] = n[2]
  BY <1>2, NameParts DEF Forms
<1>4. disk[n] # "corrupt"
  <2>1. Canonical(n[2][1])[1] = "preview"
    BY <1>2, NameParts, ItemNames
  <2> QED
    BY <1>2, <2>1 DEF Vouched, BrokenApart
<1>5. SamePlace
  BY <1>1, JobLess DEF SamePlace, Placed, Typed, JobType
<1>6. /\ \A m \in Names \ {n, to} : disk'[m] = disk[m]
      /\ \/ UNCHANGED disk
         \/ ~Exists(to) /\ disk'[to] = disk[n] /\ disk'[n] = "absent"
         \/ disk'[to] = disk[to] /\ disk[to] = disk[n] /\ disk'[n] = "absent"
  <2> HIDE DEF to
  <2>1. disk \in [Names -> Hashes \cup {"absent", "corrupt"}]
    BY DEF Placed, Typed
  <2>2. CASE ~Exists(to)
    BY <1>1, <1>3, <2>1, <2>2 DEF Moved
  <2>3. CASE Exists(to) /\ disk[n] = disk[to]
    BY <1>1, <1>3, <2>1, <2>3 DEF Moved
  <2>4. CASE Exists(to) /\ disk[n] # disk[to]
    BY <1>1, <2>4 DEF Moved
  <2> QED
    BY <2>2, <2>3, <2>4
<1> QED
  BY <1>1, <1>2, <1>3, <1>4, <1>5, <1>6 DEF CreatorOf

\* Every readable file has the content its name says; none becomes unreadable,
\* and none comes to lie beside an unreadable one of its row.
LEMMA FilesStep ==
    ASSUME Placed, Vouched, Effect
    PROVE  /\ FilesTold'
           /\ \A n \in Names : disk'[n] = "corrupt" =>
                 /\ disk[n] = "corrupt"
                 /\ \A m \in Names : m[2] = n[2] /\ m # n => disk'[m] = "absent"
<1> USE DEF Vouched
<1>1. CASE UNCHANGED disk
  BY <1>1 DEF FilesTold, BrokenApart
<1>2. ASSUME NEW i \in Items, Fetched(i)
      PROVE  /\ FilesTold'
             /\ \A n \in Names : disk'[n] = "corrupt" =>
                   /\ disk[n] = "corrupt"
                   /\ \A m \in Names : m[2] = n[2] /\ m # n => disk'[m] = "absent"
  <2>1. /\ disk' = [disk EXCEPT ![Canonical(i)] = Content[i]]
        /\ Canonical(i) \in Names /\ Canonical(i)[2][1] = i /\ Content[i] # "corrupt"
        /\ disk[Canonical(i)] # "corrupt"
    BY <1>2, ItemNames DEF Fetched
  <2>2. \A m \in Names : disk'[m] = IF m = Canonical(i) THEN Content[i] ELSE disk[m]
    BY <2>1 DEF Placed, Typed
  <2>3. FilesTold'
    BY <2>1, <2>2 DEF FilesTold
  <2>4. ASSUME NEW n \in Names, disk'[n] = "corrupt"
        PROVE  /\ disk[n] = "corrupt"
               /\ \A m \in Names : m[2] = n[2] /\ m # n => disk'[m] = "absent"
    <3>1. disk[n] = "corrupt" /\ n = Canonical(n[2][1])
      BY <2>1, <2>2, <2>4 DEF BrokenApart
    <3>2. n[2] # Canonical(i)[2]
      BY <2>1, <3>1
    <3> QED
      BY <2>2, <3>1, <3>2 DEF BrokenApart
  <2> QED
    BY <2>3, <2>4
<1>3. ASSUME NEW n0 \in Names, RepairMove(n0)
      PROVE  /\ FilesTold'
             /\ \A n \in Names : disk'[n] = "corrupt" =>
                   /\ disk[n] = "corrupt"
                   /\ \A m \in Names : m[2] = n[2] /\ m # n => disk'[m] = "absent"
  <2> DEFINE to == <<"preview", n0[2]>>
  <2>1. /\ to \in Names /\ to # n0 /\ to[2] = n0[2] /\ disk[n0] # "corrupt"
        /\ \A m \in Names \ {n0, to} : disk'[m] = disk[m]
        /\ \/ UNCHANGED disk
           \/ ~Exists(to) /\ disk'[to] = disk[n0] /\ disk'[n0] = "absent"
           \/ disk'[to] = disk[to] /\ disk[to] = disk[n0] /\ disk'[n0] = "absent"
    BY <1>3, MovedIs
  <2> HIDE DEF to
  <2>2. FilesTold'
    BY <2>1 DEF FilesTold
  <2>3. ASSUME NEW n \in Names, disk'[n] = "corrupt"
        PROVE  /\ disk[n] = "corrupt"
               /\ \A m \in Names : m[2] = n[2] /\ m # n => disk'[m] = "absent"
    <3>1. disk[n] = "corrupt" /\ n # n0
      BY <2>1, <2>3
    <3>2. ASSUME NEW m \in Names, m[2] = n[2], m # n PROVE disk'[m] = "absent"
      <4>1. disk[m] = "absent"
        BY <3>1, <3>2 DEF BrokenApart
      <4>2. CASE m = to
        <5>1. disk[n0] = "absent"
          BY <2>1, <3>1, <3>2, <4>2 DEF BrokenApart
        <5> QED
          BY <2>1, <4>1, <4>2, <5>1
      <4> QED
        BY <2>1, <4>1, <4>2
    <3> QED
      BY <3>1, <3>2
  <2> QED
    BY <2>2, <2>3
<1>4. ASSUME NEW n0 \in Names, Taken(n0)
      PROVE  /\ FilesTold'
             /\ \A n \in Names : disk'[n] = "corrupt" =>
                   /\ disk[n] = "corrupt"
                   /\ \A m \in Names : m[2] = n[2] /\ m # n => disk'[m] = "absent"
  <2>1. \A m \in Names : disk'[m] = IF m = n0 THEN "absent" ELSE disk[m]
    BY <1>4 DEF Taken, Placed, Typed
  <2> QED
    BY <2>1 DEF FilesTold, BrokenApart
<1>5. CASE Still \/ Scanned \/ Repoint \/ FetchPages \/ (\E k \in Items : MarkedFor(k))
  <2>1. UNCHANGED disk
    BY <1>5 DEF Still, Scanned, Register, Check, StartRepair, Repoint, FetchPages, MarkedFor
  <2> QED
    BY <1>1, <2>1
<1> QED
  BY <1>2, <1>3, <1>4, <1>5 DEF Effect, Mended, Downloaded

\* No row comes to vouch for an unreadable file, or for one beside it.
LEMMA BrokenRows ==
    ASSUME Placed, Vouched, Effect, NEW n \in Names, disk[n] = "corrupt"
    PROVE  /\ rows'[n[2]].hash = None
           /\ \A q \in Rows : rows'[q].name = n => rows'[q].hash = None
<1> USE DEF Placed, Vouched
<1>0. /\ n = Canonical(n[2][1]) /\ rows[n[2]].hash = None /\ n[2] \in Rows
      /\ \A m \in Names : m[2] = n[2] /\ m # n => disk[m] = "absent"
      /\ \A q \in Rows : rows[q].name = n => rows[q].hash = None
      /\ rows \in [Rows -> RowType] /\ n[2][1] \in Items
  BY NameParts DEF BrokenApart, Typed
<1>1. CASE \A q \in Rows : rows'[q].hash = rows[q].hash /\ rows'[q].name = rows[q].name
  BY <1>0, <1>1
<1>2. ASSUME NEW m \in Names, Register(m)
      PROVE  /\ rows'[n[2]].hash = None
             /\ \A q \in Rows : rows'[q].name = n => rows'[q].hash = None
  <2>1. rows' = Trusted(m) /\ job.phase = "register" /\ m \in job.todo
    BY <1>2 DEF Register, Phase
  <2>2. /\ \A q \in Rows : q # m[2] => rows'[q] = rows[q]
        /\ \/ rows' = rows
           \/ /\ rows'[m[2]].hash = rows[m[2]].hash
              /\ rows'[m[2]].name \in {rows[m[2]].name, Normalized(m)}
           \/ /\ rows'[m[2]].name = Normalized(m)
              /\ rows'[m[2]].hash = IF m[1] = "hash2" THEN Content[m[2][1]] ELSE None
    BY <1>0, <2>1, TrustedIs DEF KeptName
  <2>3. m[2] \in Rows /\ Normalized(m)[2] = m[2]
    BY NameParts
  <2>4. m[2] = n[2] => m[1] # "hash2"
    <3>1. SUFFICES ASSUME m[2] = n[2], m[1] = "hash2" PROVE FALSE
      OBVIOUS
    <3>2. disk[m] # "absent"
      BY <2>1 DEF Ahead, ScanSees, Folder, Exists
    <3>3. n[1] # "hash2"
      BY <1>0, ItemNames
    <3> QED
      BY <1>0, <3>1, <3>2, <3>3
  <2>5. CASE rows' = rows
    BY <1>1, <2>5
  <2>6. CASE /\ rows'[m[2]].hash = rows[m[2]].hash
             /\ rows'[m[2]].name \in {rows[m[2]].name, Normalized(m)}
    <3>1. rows'[n[2]].hash = None
      BY <1>0, <2>2, <2>6
    <3>2. ASSUME NEW q \in Rows, rows'[q].name = n PROVE rows'[q].hash = None
      <4>1. CASE q # m[2]
        BY <1>0, <2>2, <3>2, <4>1
      <4>2. CASE q = m[2] /\ rows'[q].name = rows[q].name
        BY <1>0, <2>6, <3>2, <4>2
      <4>3. CASE q = m[2] /\ rows'[q].name = Normalized(m)
        BY <1>0, <2>3, <2>6, <3>2, <4>3
      <4> QED
        BY <2>6, <4>1, <4>2, <4>3
    <3> QED
      BY <3>1, <3>2
  <2>7. CASE /\ rows'[m[2]].name = Normalized(m)
             /\ rows'[m[2]].hash = IF m[1] = "hash2" THEN Content[m[2][1]] ELSE None
    <3>1. rows'[n[2]].hash = None
      BY <1>0, <2>2, <2>4, <2>7
    <3>2. ASSUME NEW q \in Rows, rows'[q].name = n PROVE rows'[q].hash = None
      <4>1. CASE q # m[2]
        BY <1>0, <2>2, <3>2, <4>1
      <4>2. CASE q = m[2]
        BY <2>3, <2>4, <2>7, <3>2, <4>2
      <4> QED
        BY <4>1, <4>2
    <3> QED
      BY <3>1, <3>2
  <2> QED
    BY <2>2, <2>5, <2>6, <2>7
<1>3. ASSUME NEW r \in Rows, Check(r)
      PROVE  /\ rows'[n[2]].hash = None
             /\ \A q \in Rows : rows'[q].name = n => rows'[q].hash = None
  BY <1>0, <1>3, CheckedIs DEF Check
<1>4. ASSUME Repoint
      PROVE  /\ rows'[n[2]].hash = None
             /\ \A q \in Rows : rows'[q].name = n => rows'[q].hash = None
  <2> DEFINE x == EffectiveRow(cur.item)
             to == <<"preview", x>>
  <2>1. cur.item \in Items /\ rows' = [rows EXCEPT ![x].name = to]
    BY <1>4 DEF Repoint, Between
  <2>2. x \in Rows /\ to[2] = x
    BY <2>1, ItemNames
  <2> HIDE DEF x, to
  <2>3. /\ \A q \in Rows : rows'[q].hash = rows[q].hash
        /\ \A q \in Rows : q # x => rows'[q].name = rows[q].name
        /\ rows'[x].name = to
    <3>1. rows[x] \in RowType /\ rows' = [rows EXCEPT ![x] = [rows[x] EXCEPT !.name = to]]
      BY <1>0, <2>1, <2>2
    <3>2. /\ [rows[x] EXCEPT !.name = to].hash = rows[x].hash
          /\ [rows[x] EXCEPT !.name = to].name = to
      BY <3>1 DEF RowType
    <3> QED
      BY <1>0, <2>2, <3>1, <3>2
  <2> QED
    BY <1>0, <2>2, <2>3
<1>5. ASSUME FetchPages
      PROVE  \A q \in Rows : rows'[q].hash = rows[q].hash /\ rows'[q].name = rows[q].name
  <2> SUFFICES ASSUME NEW q \in Rows
               PROVE  rows'[q].hash = rows[q].hash /\ rows'[q].name = rows[q].name
    OBVIOUS
  <2>1. rows[q] \in RowType
    BY <1>0
  <2>2. rows'[q] = rows[q] \/ rows'[q] = [rows[q] EXCEPT !.known = TRUE]
    BY <1>5 DEF FetchPages
  <2> QED
    BY <2>1, <2>2 DEF RowType
<1>6. ASSUME NEW k \in Items, MarkedFor(k)
      PROVE  /\ rows'[n[2]].hash = None
             /\ \A q \in Rows : rows'[q].name = n => rows'[q].hash = None
  <2>1. PICK x \in {Row(k), EffectiveRow(k)}, m \in Names :
           /\ rows' = Marked(x, Content[k], m)
           /\ m = Canonical(k) \/ \E q \in Rows : rows[q].hash = Content[k] /\ rows[q].name = m
           /\ disk[Canonical(k)] # "corrupt"
    BY <1>6 DEF MarkedFor
  <2>2. x \in Rows /\ x[1] = k /\ Content[k] \in Hashes
    BY ItemNames
  <2>3. k # n[2][1]
    BY <1>0, <2>1
  <2>4. m # n
    <3>1. Content[k] # None
      BY <2>2
    <3> QED
      BY <1>0, <2>1, <3>1
  <2>5. /\ \A q \in Rows : q # x => rows'[q] = rows[q]
        /\ rows'[x].name = m
    BY <1>0, <2>1, <2>2, MarkedIs
  <2> QED
    BY <1>0, <2>2, <2>3, <2>4, <2>5
<1>7. CASE StartRepair \/ Still \/ (\E i \in Items : Fetched(i))
           \/ (\E m \in Names : Taken(m)) \/ (\E m \in Names : RepairMove(m))
  BY <1>1, <1>7 DEF StartRepair, Still, Fetched, Taken, RepairMove
<1> QED
  BY <1>1, <1>2, <1>3, <1>4, <1>5, <1>6, <1>7 DEF Effect, Scanned, Mended, Downloaded

\* Unreadable files stay where they are, with no row that vouches for them.
LEMMA BrokenStep == ASSUME Placed, Vouched, Effect PROVE BrokenApart'
<1> SUFFICES ASSUME NEW n \in Names, disk'[n] = "corrupt"
             PROVE  /\ n = Canonical(n[2][1]) /\ rows'[n[2]].hash = None
                    /\ \A m \in Names : m[2] = n[2] /\ m # n => disk'[m] = "absent"
                    /\ \A q \in Rows : rows'[q].name = n => rows'[q].hash = None
  BY DEF BrokenApart
<1>1. /\ disk[n] = "corrupt"
      /\ \A m \in Names : m[2] = n[2] /\ m # n => disk'[m] = "absent"
  BY FilesStep
<1> QED
  BY <1>1, BrokenRows DEF Vouched, BrokenApart

-----------------------------------------------------------------------------
(* The scan, the walk, and the rows that vouch for the same file.          *)

\* The user takes no file while a scan is under way.
QuietStep == count'.deletes # count.deletes => job.phase \notin {"register", "check"}
QuietScans == [][QuietStep]_libraryVars

\* The folder changes in a scan only if the user takes a file.
LEMMA ScanKeepsDisk ==
    ASSUME Placed, LibraryNext, QuietStep, job'.phase \in {"register", "check"}
    PROVE  /\ UNCHANGED disk
           /\ \/ \E c \in Creators : Snapshot(c)
              \/ job.phase = "register" /\ \E n \in Names : Register(n)
              \/ job.phase = "register" /\ StartCheck
              \/ job.phase = "check" /\ \E r \in Rows : Check(r)
<1> DEFINE Goal == /\ UNCHANGED disk
                   /\ \/ \E c \in Creators : Snapshot(c)
                      \/ job.phase = "register" /\ \E n \in Names : Register(n)
                      \/ job.phase = "register" /\ StartCheck
                      \/ job.phase = "check" /\ \E r \in Rows : Check(r)
<1>0. job \in JobType
  BY DEF Placed, Typed, JobType
<1>1. ASSUME (\E c \in Creators : Snapshot(c)) \/ (\E n \in Names : Register(n))
             \/ StartCheck \/ (\E r \in Rows : Check(r))
      PROVE  Goal
  BY <1>1 DEF Snapshot, Register, StartCheck, Check, Phase
<1>2. ASSUME NEW n \in Names, RepairMove(n) PROVE FALSE
  <2>1. job.phase = "repair" /\ job' = [job EXCEPT !.todo = @ \ {n}]
    BY <1>2 DEF RepairMove, Phase
  <2> QED
    BY <1>0, <2>1, JobLess
<1>3. ASSUME NEW i \in Items, Step(i) PROVE FALSE
  <2>1. /\ job.phase = "walk"
        /\ job' = [job EXCEPT !.todo = @ \ {i}] \/ job' = Rest
    BY <1>3 DEF Step, SkipRecorded, PassOver, FetchFails, Unreadable, Fetch, Wanted,
                StreamDuplicate, FetchStream, Phase, Gone, Abort
  <2> QED
    BY <1>0, <2>1, JobLess, RestIs
<1>4. ASSUME StartRepair \/ FetchPages PROVE FALSE
  <2>1. job'.phase \in {"repair", "walk"}
    BY <1>0, <1>4 DEF StartRepair, FetchPages, JobType
  <2> QED
    BY <2>1
<1>5. ASSUME Repoint \/ SaveStream PROVE FALSE
  BY <1>5 DEF Repoint, SaveStream, Placed, Between
<1>6. ASSUME Dedupe PROVE FALSE
  <2>1. cur.step \in {"dedupe", "unlink"} /\ UNCHANGED job
    BY <1>6
    DEF Dedupe, SameName, NewNameDuplicate, NewName, OtherNameDuplicate, OtherNameGone, At,
        HashUnknown, ByHashDuplicate, ByHashNew, Unlink, Settled, ThenUnlink
  <2> QED
    BY <2>1 DEF Placed, Between
<1>7. ASSUME EndPass \/ Crash PROVE FALSE
  BY <1>7, RestIs DEF EndPass, Crash, Abort
<1>8. ASSUME NEW n \in Names, UserDeletes(n) PROVE FALSE
  <2>1. UNCHANGED job /\ count'.deletes = count.deletes + 1 /\ count.deletes \in Nat
    BY <1>8, CountType DEF UserDeletes, Placed, Typed
  <2> QED
    BY <2>1 DEF QuietStep
<1> HIDE DEF Goal
<1>9. Goal
  BY <1>1, <1>2, <1>3, <1>4, <1>5, <1>6, <1>7, <1>8 DEF LibraryNext, Program
<1> QED
  BY <1>9 DEF Goal

\* The snapshot stays the folder, and every row of the creator that was
\* downloaded when the check began is still to be checked or names a file of it.
LEMMA ScanStep ==
    ASSUME Placed, Vouched, LibraryNext, QuietStep
    PROVE  ScanSees'
<1> SUFFICES ASSUME job'.phase \in {"register", "check"}
             PROVE  /\ job'.seen = Folder(job'.creator)
                    /\ job'.phase = "check" => \A r \in RowsOf(job'.creator) :
                         rows'[r].downloaded => r \in job'.todo \/ rows'[r].name \in job'.seen
  BY ScanKeepsDisk DEF ScanSees, Folder, Exists
<1> USE DEF Vouched
<1>0. /\ job \in JobType /\ UNCHANGED disk /\ rows \in [Rows -> RowType]
  BY ScanKeepsDisk DEF Placed, Typed, JobType
<1>1. ASSUME NEW c \in Creators, Snapshot(c)
      PROVE  job'.seen = Folder(job'.creator) /\ job'.phase = "register"
  <2>1. job' = [creator |-> c, phase |-> "register", todo |-> Folder(c), seen |-> Folder(c)]
    BY <1>1 DEF Snapshot
  <2> QED
    BY <2>1
<1>2. ASSUME NEW n \in Names, Register(n), job.phase = "register"
      PROVE  job'.seen = Folder(job'.creator) /\ job'.phase = "register"
  BY <1>0, <1>2, JobLess DEF Register, ScanSees
<1>3. ASSUME StartCheck, job.phase = "register"
      PROVE  /\ job'.seen = Folder(job'.creator)
             /\ \A r \in RowsOf(job'.creator) :
                    rows'[r].downloaded => r \in job'.todo \/ rows'[r].name \in job'.seen
  <2> DEFINE T == {r \in RowsOf(job.creator) : rows[r].downloaded}
  <2>1. job' = [job EXCEPT !.phase = "check", !.todo = T] /\ UNCHANGED rows
    BY <1>3 DEF StartCheck
  <2> HIDE DEF T
  <2>2. job'.creator = job.creator /\ job'.todo = T /\ job'.seen = job.seen
    BY <1>0, <2>1 DEF JobType
  <2> QED
    BY <1>0, <1>3, <2>1, <2>2 DEF ScanSees, T
<1>4. ASSUME NEW r \in Rows, Check(r), job.phase = "check"
      PROVE  /\ job'.seen = Folder(job'.creator)
             /\ \A q \in RowsOf(job'.creator) :
                    rows'[q].downloaded => q \in job'.todo \/ rows'[q].name \in job'.seen
  <2>1. rows' = Checked(r) /\ job' = [job EXCEPT !.todo = @ \ {r}]
    BY <1>4 DEF Check
  <2>2. job'.creator = job.creator /\ job'.todo = job.todo \ {r} /\ job'.seen = job.seen
    BY <1>0, <2>1, JobLess
  <2>3. ASSUME NEW q \in RowsOf(job.creator), rows'[q].downloaded
        PROVE  q \in job'.todo \/ rows'[q].name \in job'.seen
    <3>1. q \in Rows
      BY DEF RowsOf
    <3>2. CASE q = r
      BY <1>0, <2>1, <2>2, <2>3, <3>2, CheckedIs
    <3>3. CASE q # r
      BY <1>0, <1>4, <2>1, <2>2, <2>3, <3>1, <3>3, CheckedIs DEF ScanSees
    <3> QED
      BY <3>2, <3>3
  <2> QED
    BY <1>0, <1>4, <2>2, <2>3 DEF ScanSees
<1> QED
  BY <1>0, <1>1, <1>2, <1>3, <1>4, ScanKeepsDisk

\* The walk knows its rows, and what is under way stays as it was started.
LEMMA UnderWayStep ==
    ASSUME Placed, Vouched, LibraryNext, Effect
    PROVE  UnderWay'
<1> USE DEF Vouched
<1>0. job \in JobType /\ rows \in [Rows -> RowType]
  BY DEF Placed, Typed, JobType
<1>1. job'.phase = "walk" => \A r \in RowsOf(job'.creator) : rows'[r].known
  <2> SUFFICES ASSUME job'.phase = "walk", NEW r \in RowsOf(job'.creator)
               PROVE  rows'[r].known
    OBVIOUS
  <2>0. r \in Rows
    BY DEF RowsOf
  <2>1. ASSUME FetchPages PROVE rows'[r].known
    <3>1. job' = [job EXCEPT !.phase = "walk", !.todo = ItemsOf(job.creator)]
          /\ rows' = [q \in Rows |-> IF q \in RowsOf(job.creator)
                                     THEN [rows[q] EXCEPT !.known = TRUE] ELSE rows[q]]
      BY <2>1 DEF FetchPages
    <3>2. job'.creator = job.creator
      BY <1>0, <3>1 DEF JobType
    <3>3. rows'[r] = [rows[r] EXCEPT !.known = TRUE] /\ rows[r] \in RowType
      BY <1>0, <2>0, <3>1, <3>2
    <3> QED
      BY <3>3 DEF RowType
  <2>2. ASSUME NEW k \in Items, MarkedFor(k) PROVE rows'[r].known
    <3>1. PICK x \in {Row(k), EffectiveRow(k)}, n \in Names :
             rows' = Marked(x, Content[k], n) /\ rows[x].known /\ SamePlace
      BY <2>2 DEF MarkedFor
    <3>2. x \in Rows /\ Content[k] \in Hashes
      BY ItemNames
    <3>3. rows[r].known
      BY <3>1 DEF SamePlace, UnderWay
    <3> QED
      BY <1>0, <2>0, <3>1, <3>2, <3>3, MarkedIs
  <2>3. ASSUME UNCHANGED rows, SamePlace PROVE rows'[r].known
    BY <2>3 DEF SamePlace, UnderWay
  <2>4. CASE Still \/ (\E i \in Items : Fetched(i)) \/ (\E n \in Names : Taken(n))
    BY <2>3, <2>4 DEF Still, Fetched, Taken
  <2>5. CASE \E n \in Names : RepairMove(n)
    BY <2>3, <2>5, MovedIs
  <2>6. CASE Repoint
    BY <2>6 DEF Repoint, Placed, Between
  <2>7. CASE Scanned
    <3>1. (\E n \in Names : Register(n)) \/ (\E r0 \in Rows : Check(r0)) =>
             job'.phase \in {"register", "check"}
      BY <1>0, JobLess DEF Register, Check, Phase
    <3>2. StartRepair => job'.phase = "repair"
      BY <1>0 DEF StartRepair, JobType
    <3> QED
      BY <2>7, <3>1, <3>2 DEF Scanned
  <2> QED
    BY <2>1, <2>2, <2>4, <2>5, <2>6, <2>7 DEF Effect, Mended, Downloaded
<1>2. /\ cur'.step = "dedupe" => rows'[Row(cur'.item)].hash = None
      /\ cur'.step \in {"dedupe", "save"} => disk'[Canonical(cur'.item)] # "corrupt"
  <2> SUFFICES ASSUME cur'.step \in {"dedupe", "save"}
               PROVE  /\ cur'.step = "dedupe" => rows'[Row(cur'.item)].hash = None
                      /\ disk'[Canonical(cur'.item)] # "corrupt"
    OBVIOUS
  <2>1. ASSUME NEW i \in Items, Fetch(i) \/ FetchStream(i)
        PROVE  /\ cur'.step = "dedupe" => rows'[Row(cur'.item)].hash = None
               /\ disk'[Canonical(cur'.item)] # "corrupt"
    <3>1. /\ cur'.item = i /\ Fetched(i) /\ Content[i] \in Hashes /\ Canonical(i) \in Names
      BY <2>1, FileSteps, ItemNames DEF Fetch, FetchStream
    <3>2. disk'[Canonical(i)] = Content[i] /\ rows'[Row(i)].hash = None
      BY <3>1 DEF Fetched, Placed, Typed
    <3> QED
      BY <3>1, <3>2
  <2>2. ASSUME NEW n \in Names, UserDeletes(n)
        PROVE  /\ cur'.step = "dedupe" => rows'[Row(cur'.item)].hash = None
               /\ disk'[Canonical(cur'.item)] # "corrupt"
    <3>1. disk' = [disk EXCEPT ![n] = "absent"] /\ UNCHANGED <<rows, cur>>
      BY <2>2 DEF UserDeletes
    <3>2. cur.item \in Items /\ Canonical(cur.item) \in Names
      BY <3>1, ItemNames DEF Placed, Between
    <3> QED
      BY <3>1, <3>2 DEF UnderWay, Placed, Typed
  <2>3. ASSUME UNCHANGED cur, cur.step = None PROVE FALSE
    BY <2>3
  <2>4. ASSUME cur'.step \in {None, "unlink", "repoint"} PROVE FALSE
    BY <2>4
  <2>5. cur = NoItem => cur.step = None
    BY RestIs
  <2>6. ASSUME (\E c \in Creators : Snapshot(c)) \/ (\E n \in Names : Register(n))
               \/ (\E r \in Rows : Check(r)) \/ StartCheck \/ StartRepair \/ FetchPages
        PROVE  FALSE
    BY <2>3, <2>5, <2>6
    DEF Snapshot, Register, Check, StartCheck, StartRepair, FetchPages, Phase
  <2>7. ASSUME NEW i \in Items,
               SkipRecorded(i) \/ PassOver(i) \/ StreamDuplicate(i)
        PROVE  FALSE
    BY <2>3, <2>5, <2>7 DEF SkipRecorded, PassOver, StreamDuplicate, Wanted, Phase
  <2>8. ASSUME NEW i \in Items, FetchFails(i) \/ Unreadable(i) PROVE FALSE
    BY <2>4, <2>8, RestIs DEF FetchFails, Unreadable, Abort
  <2>9. ASSUME EndPass \/ Crash \/ Repoint \/ SaveStream PROVE FALSE
    BY <2>4, <2>9, RestIs DEF EndPass, Crash, Repoint, SaveStream, Abort
  <2>10. ASSUME NEW n \in Names, RepairMove(n) PROVE FALSE
    <3>1. cur' = NoItem \/ cur' = [item |-> n[2][1], step |-> "repoint"]
      BY <2>10 DEF RepairMove
    <3> QED
      BY <2>4, <3>1, RestIs
  <2>11. ASSUME Dedupe PROVE FALSE
    <3>1. cur' = NoItem \/ cur' = [cur EXCEPT !.step = "unlink"]
      BY <2>11
      DEF Dedupe, SameName, NewNameDuplicate, NewName, OtherNameDuplicate, OtherNameGone, At,
          HashUnknown, ByHashDuplicate, ByHashNew, Unlink, Settled, ThenUnlink
    <3>2. cur \in [item : Items \cup {None}, step : Steps]
      BY DEF Placed, Typed
    <3> QED
      BY <2>4, <3>1, <3>2, RestIs
  <2> QED
    BY <2>1, <2>2, <2>6, <2>7, <2>8, <2>9, <2>10, <2>11 DEF LibraryNext, Program, Step
<1>3. cur'.step = "repoint" => cur'.item \in Previews
  <2> SUFFICES ASSUME cur'.step = "repoint" PROVE cur'.item \in Previews
    OBVIOUS
  <2>1. CASE UNCHANGED cur
    BY <2>1 DEF UnderWay
  <2>2. CASE \E n \in Names : RepairMove(n)
    <3>1. PICK n \in Names : RepairMove(n)
      BY <2>2
    <3>2. cur' = NoItem \/ cur' = [item |-> n[2][1], step |-> "repoint"]
      BY <3>1 DEF RepairMove
    <3>3. n[2][1] \in Previews
      BY <3>1, MovedIs
    <3> QED
      BY <3>2, <3>3, RestIs
  <2>3. ASSUME cur'.step # "repoint" PROVE FALSE
    BY <2>3
  <2>4. CASE \E i \in Items : Step(i)
    BY <2>1, <2>3, <2>4, RestIs
    DEF Step, SkipRecorded, PassOver, FetchFails, Unreadable, Fetch, StreamDuplicate, FetchStream,
        Abort
  <2>5. CASE Dedupe
    <3>1. cur' = NoItem \/ cur' = [cur EXCEPT !.step = "unlink"]
      BY <2>5
      DEF Dedupe, SameName, NewNameDuplicate, NewName, OtherNameDuplicate, OtherNameGone, At,
          HashUnknown, ByHashDuplicate, ByHashNew, Unlink, Settled, ThenUnlink
    <3>2. cur \in [item : Items \cup {None}, step : Steps]
      BY DEF Placed, Typed
    <3> QED
      BY <2>3, <3>1, <3>2, RestIs
  <2>6. CASE EndPass \/ Crash \/ Repoint \/ SaveStream
    BY <2>3, <2>6, RestIs DEF EndPass, Crash, Repoint, SaveStream, Abort
  <2>7. CASE \/ \E c \in Creators : Snapshot(c)
             \/ \E n \in Names : Register(n) \/ UserDeletes(n)
             \/ \E r \in Rows : Check(r)
             \/ StartCheck \/ StartRepair \/ FetchPages
    BY <2>1, <2>7
    DEF Snapshot, Register, UserDeletes, Check, StartCheck, StartRepair, FetchPages
  <2> QED
    BY <2>2, <2>4, <2>5, <2>6, <2>7 DEF LibraryNext, Program
<1> QED
  BY <1>1, <1>2, <1>3 DEF UnderWay

-----------------------------------------------------------------------------
(* The rows that vouch for one file keep an anchor.                        *)

\* Items of the same content are streams or none of them is.
StreamsApart == \A i, k \in Items : Content[i] = Content[k] => (i \in Streams <=> k \in Streams)

\* Two items have two names.
LEMMA CanonicalApart ==
    ASSUME NEW i \in Items, NEW k \in Items, Canonical(i) = Canonical(k)
    PROVE  i = k
  BY ItemNames

\* The anchors of an item are its rows.
LEMMA AnchorIs ==
    ASSUME NEW i \in Items, Anchored(i)
    PROVE  \E a \in Rows : a \in {Row(i), EffectiveRow(i)} /\ a[1] = i /\ Claims(a, i)
  BY ItemNames DEF Anchored

\* A row that vouches for the file of an item that is no stream has an item of
\* the same content, thus no stream, in the same folder.
LEMMA ClaimsOwner ==
    ASSUME Placed, RowsVouch, StreamsApart, NEW i \in Items \ Streams, NEW r \in Rows,
           Claims(r, i)
    PROVE  r \in RowsOf(Owner[i]) /\ rows[r].downloaded
<1>1. /\ rows[r].downloaded /\ rows[r].hash = Content[r[1]] /\ r[1] \in Items
      /\ Content[Canonical(i)[2][1]] = rows[r].hash
  BY RowParts DEF RowsVouch, VouchesFor, Claims
<1>2. Canonical(i)[2][1] = i /\ Canonical(i) # None /\ CreatorOf(Canonical(i)) = Owner[i]
  BY ItemNames DEF CreatorOf
<1>3. r[1] \notin Streams
  BY <1>1, <1>2 DEF StreamsApart
<1> QED
  BY <1>1, <1>2, <1>3 DEF RowsVouch, VouchesFor, Claims, RowsOf

\* Steps that leave the hashes and names of the rows, and bring no file of an
\* item into reach that was not.
LEMMA ClaimsFrame ==
    ASSUME Placed, Vouched,
           \A q \in Rows : rows'[q].hash = rows[q].hash /\ rows'[q].name = rows[q].name,
           \A i \in Items : InReach(i)' => InReach(i)
    PROVE  ClaimsAnchored'
<1> SUFFICES ASSUME NEW i \in Items \ Streams, NEW r \in Rows, Claims(r, i)', InReach(i)'
             PROVE  Anchored(i)'
  BY DEF ClaimsAnchored
<1>1. Claims(r, i) /\ InReach(i)
  BY DEF Claims
<1>2. Anchored(i)
  BY <1>1 DEF Vouched, ClaimsAnchored
<1> QED
  BY <1>2, ItemNames DEF Anchored, Claims

\* The steps of the repair and of the downloads that leave hashes and names.
LEMMA ClaimsQuiet ==
    ASSUME Placed, Vouched, NEW n \in Names, NEW k \in Items,
           Still \/ Fetched(k) \/ Taken(n) \/ RepairMove(n) \/ FetchPages
    PROVE  ClaimsAnchored'
<1>0. /\ job \in JobType /\ rows \in [Rows -> RowType]
      /\ disk \in [Names -> Hashes \cup {"absent", "corrupt"}]
  BY DEF Placed, Typed, JobType
<1>1. CASE Still
  <2>1. UNCHANGED <<rows, disk>> /\ (job'.phase \in {"repair", "walk"} => SamePlace)
    BY <1>1 DEF Still
  <2>2. \A i \in Items : InReach(i)' => InReach(i)
    BY <2>1 DEF InReach, Exists, SamePlace
  <2> QED
    BY <2>1, <2>2, ClaimsFrame
<1>2. CASE Fetched(k)
  <2>1. /\ \A m \in Names : m # Canonical(k) => disk'[m] = disk[m]
        /\ job.phase = "walk" /\ Owner[k] = job.creator /\ UNCHANGED rows /\ SamePlace
    BY <1>0, <1>2 DEF Fetched
  <2>2. ASSUME NEW i \in Items, InReach(i)' PROVE InReach(i)
    <3>1. CASE i = k
      BY <2>1, <3>1 DEF InReach
    <3>2. CASE i # k
      BY <2>1, <2>2, <3>2, CanonicalApart, ItemNames DEF InReach, Exists, SamePlace
    <3> QED
      BY <3>1, <3>2
  <2> QED
    BY <2>1, <2>2, ClaimsFrame
<1>3. CASE Taken(n)
  <2>1. /\ \A m \in Names : disk'[m] \in {disk[m], "absent"}
        /\ UNCHANGED rows /\ SamePlace
    BY <1>0, <1>3 DEF Taken
  <2>2. \A i \in Items : InReach(i)' => InReach(i)
    BY <2>1, ItemNames DEF InReach, Exists, SamePlace
  <2> QED
    BY <2>1, <2>2, ClaimsFrame
<1>4. CASE RepairMove(n)
  <2> DEFINE to == <<"preview", n[2]>>
  <2>1. /\ to \in Names /\ to[2] = n[2] /\ Owner[n[2][1]] = job.creator /\ job.phase = "repair"
        /\ UNCHANGED rows /\ SamePlace
        /\ \A m \in Names \ {n, to} : disk'[m] = disk[m]
        /\ UNCHANGED disk \/ disk'[n] = "absent"
    BY <1>4, MovedIs
  <2> HIDE DEF to
  <2>2. ASSUME NEW i \in Items, InReach(i)' PROVE InReach(i)
    <3>1. CASE Canonical(i) = to
      <4>1. i = n[2][1]
        BY <2>1, <3>1, ItemNames
      <4> QED
        BY <2>1, <4>1 DEF InReach
    <3>2. CASE Canonical(i) # to
      BY <2>1, <2>2, <3>2, ItemNames DEF InReach, Exists, SamePlace
    <3> QED
      BY <3>1, <3>2
  <2> QED
    BY <2>1, <2>2, ClaimsFrame
<1>5. CASE FetchPages
  <2>1. /\ job' = [job EXCEPT !.phase = "walk", !.todo = ItemsOf(job.creator)]
        /\ rows' = [q \in Rows |-> IF q \in RowsOf(job.creator)
                                   THEN [rows[q] EXCEPT !.known = TRUE] ELSE rows[q]]
        /\ UNCHANGED disk /\ job.phase = "repair"
    BY <1>5 DEF FetchPages, Phase
  <2>2. job'.creator = job.creator
    BY <1>0, <2>1 DEF JobType
  <2>3. ASSUME NEW q \in Rows
        PROVE  rows'[q].hash = rows[q].hash /\ rows'[q].name = rows[q].name
    <3>1. rows[q] \in RowType
      BY <1>0
    <3>2. rows'[q] = rows[q] \/ rows'[q] = [rows[q] EXCEPT !.known = TRUE]
      BY <2>1
    <3> QED
      BY <3>1, <3>2 DEF RowType
  <2>4. \A i \in Items : InReach(i)' => InReach(i)
    BY <2>1, <2>2 DEF InReach, Exists
  <2> QED
    BY <2>3, <2>4, ClaimsFrame
<1> QED
  BY <1>1, <1>2, <1>3, <1>4, <1>5

\* The scan: a row that is registered keeps the name of a file that is there,
\* and one that is checked is cleared only if its file is not there.
LEMMA ClaimsScan ==
    ASSUME Placed, Vouched, StreamsApart, Scanned
    PROVE  ClaimsAnchored'
<1> SUFFICES ASSUME NEW i \in Items \ Streams, NEW r \in Rows, Claims(r, i)', InReach(i)'
             PROVE  Anchored(i)'
  BY DEF ClaimsAnchored
<1> DEFINE c == Canonical(i)
<1> USE DEF Vouched
<1>0. /\ job \in JobType /\ rows \in [Rows -> RowType] /\ UNCHANGED disk
      /\ c \in Names /\ c # None /\ c[2] = EffectiveRow(i) /\ CreatorOf(c) = Owner[i]
      /\ Row(i) \in Rows /\ EffectiveRow(i) \in Rows
  <2>1. /\ c \in Names /\ c[2] = EffectiveRow(i) /\ CreatorOf(c) = Owner[i]
        /\ Row(i) \in Rows /\ EffectiveRow(i) \in Rows
    BY ItemNames DEF CreatorOf
  <2>2. UNCHANGED disk
    BY DEF Scanned, Register, Check, StartRepair
  <2>3. c # None
    BY <2>1
  <2> QED
    BY <2>1, <2>2, <2>3 DEF Placed, Typed, JobType
<1>1. rows'[r].hash # None /\ rows'[r].name = c
  BY DEF Claims
<1>2. \A a \in {Row(i), EffectiveRow(i)} :
         rows'[a].hash # None /\ rows'[a].name = c => Anchored(i)'
  BY DEF Anchored, Claims
<1>3. \A q \in Rows : rows[q].hash # None /\ rows[q].name = c /\ InReach(i) =>
         \E a \in Rows : /\ a \in {Row(i), EffectiveRow(i)} /\ a[1] = i
                        /\ rows[a].hash # None /\ rows[a].name = c
  BY AnchorIs DEF ClaimsAnchored, Claims
<1> HIDE DEF c
<1>4. ASSUME NEW n \in Names, Register(n) PROVE Anchored(i)'
  <2> DEFINE x == n[2]
  <2>1. /\ rows' = Trusted(n) /\ job.phase = "register" /\ n \in job.todo
        /\ job' = [job EXCEPT !.todo = @ \ {n}]
    BY <1>4 DEF Register, Phase
  <2>2. Exists(c) /\ InReach(i)
    BY <1>0, <2>1, JobLess DEF InReach, Exists, c
  <2>3. CreatorOf(n) = job.creator
    BY <2>1 DEF Placed, Ahead, ScanSees, Folder
  <2>4. /\ x \in Rows /\ x = EffectiveRow(x[1]) /\ x[1] \in Items
        /\ Normalized(n) \in Names /\ Normalized(n)[2] = x /\ CreatorOf(n) = Owner[x[1]]
    BY NameParts
  <2>5. \A q \in Rows : q # x => rows'[q] = rows[q]
    BY <1>0, <2>1, TrustedIs
  <2>6. Normalized(n) = c => x = EffectiveRow(i)
    BY <1>0, <2>4
  <2>7. \/ rows' = rows
        \/ /\ rows'[x].hash = rows[x].hash
           /\ rows'[x].name = KeptName(x, Normalized(n))
        \/ /\ rows[x].hash = None
           /\ rows'[x].name = Normalized(n)
    <3>1. ~rows[x].known => rows[x].hash = None
      BY <2>4 DEF RowsVouch, VouchesFor
    <3> QED
      BY <1>0, <2>1, <3>1, TrustedIs
  <2> HIDE DEF x
  <2>8. rows[x].name = c /\ x[1] = i => KeptName(x, Normalized(n)) = c
    BY <1>0, <2>2, <2>3, <2>4 DEF KeptName, ExistsHere
  <2>9. KeptName(x, Normalized(n)) \in {rows[x].name, Normalized(n)}
    BY DEF KeptName
  <2>10. CASE r # x
    <3>1. PICK a \in Rows : /\ a \in {Row(i), EffectiveRow(i)} /\ a[1] = i
                            /\ rows[a].hash # None /\ rows[a].name = c
      BY <1>1, <1>3, <2>2, <2>5, <2>10
    <3>2. CASE a # x
      BY <1>2, <2>5, <3>1, <3>2
    <3>3. CASE a = x
      BY <1>2, <2>7, <2>8, <3>1, <3>3
    <3> QED
      BY <3>2, <3>3
  <2>11. CASE r = x /\ rows'[x].name = Normalized(n)
    BY <1>1, <1>2, <2>6, <2>11
  <2>12. CASE r = x /\ rows[x].hash # None /\ rows[x].name = c
    <3>1. PICK a \in Rows : /\ a \in {Row(i), EffectiveRow(i)} /\ a[1] = i
                            /\ rows[a].hash # None /\ rows[a].name = c
      BY <1>3, <2>2, <2>4, <2>12
    <3>2. CASE a # x
      BY <1>2, <2>5, <3>1, <3>2
    <3>3. CASE a = x
      BY <1>1, <1>2, <2>12, <3>1, <3>3
    <3> QED
      BY <3>2, <3>3
  <2> QED
    BY <1>1, <2>7, <2>9, <2>10, <2>11, <2>12
<1>5. ASSUME NEW x \in Rows, Check(x) PROVE Anchored(i)'
  <2>1. /\ rows' = Checked(x) /\ job.phase = "check" /\ x \in job.todo
        /\ job' = [job EXCEPT !.todo = @ \ {x}]
    BY <1>5 DEF Check, Phase
  <2>2. Exists(c) /\ InReach(i)
    BY <1>0, <2>1, JobLess DEF InReach, Exists, c
  <2>3. rows[r].hash # None /\ rows[r].name = c
    BY <1>0, <1>1, <2>1, CheckedIs
  <2>4. PICK a \in Rows : /\ a \in {Row(i), EffectiveRow(i)} /\ a[1] = i
                          /\ rows[a].hash # None /\ rows[a].name = c
    BY <1>3, <2>2, <2>3
  <2>5. CASE a # x
    BY <1>0, <1>2, <2>1, <2>4, <2>5, CheckedIs
  <2>6. CASE a = x
    <3>1. Owner[i] = job.creator
      BY <2>1, <2>4, <2>6 DEF Placed, Ahead, RowsOf
    <3>2. c \in job.seen
      BY <1>0, <2>1, <2>2, <3>1 DEF ScanSees, Folder
    <3>3. rows' = rows
      BY <1>0, <2>1, <2>4, <2>6, <3>2, CheckedIs
    <3> QED
      BY <1>2, <2>4, <3>3
  <2> QED
    BY <2>5, <2>6
<1>6. ASSUME StartRepair PROVE Anchored(i)'
  <2>1. job.phase = "check" /\ job.todo = {} /\ UNCHANGED rows
    BY <1>6 DEF StartRepair, Phase
  <2>2. job'.creator = job.creator
    BY <1>0, <1>6 DEF StartRepair, JobType
  <2>3. Claims(r, i)
    BY <1>1, <2>1 DEF Claims, c
  <2>4. r \in RowsOf(Owner[i]) /\ rows[r].downloaded
    BY <2>3, ClaimsOwner
  <2>5. CASE Owner[i] = job.creator
    <3>1. c \in Folder(job.creator)
      BY <1>1, <2>1, <2>4, <2>5 DEF ScanSees
    <3>2. InReach(i)
      BY <3>1 DEF Folder, InReach, c
    <3> QED
      BY <1>2, <1>3, <2>1, <2>3, <3>2 DEF Claims, c
  <2>6. CASE Owner[i] # job.creator
    <3>1. InReach(i)
      BY <1>0, <2>2, <2>6 DEF InReach, Exists
    <3> QED
      BY <1>2, <1>3, <2>1, <2>3, <3>1 DEF Claims, c
  <2> QED
    BY <2>5, <2>6
<1> QED
  BY <1>4, <1>5, <1>6 DEF Scanned

\* A row that is renamed after a move is named as its item.
LEMMA ClaimsRepoint ==
    ASSUME Placed, Vouched, Repoint
    PROVE  ClaimsAnchored'
<1> SUFFICES ASSUME NEW i \in Items \ Streams, NEW r \in Rows, Claims(r, i)', InReach(i)'
             PROVE  Anchored(i)'
  BY DEF ClaimsAnchored
<1> DEFINE x == EffectiveRow(cur.item)
           to == <<"preview", x>>
<1> USE DEF Vouched
<1>0. /\ rows \in [Rows -> RowType] /\ cur.step = "repoint" /\ UNCHANGED <<disk, job>>
      /\ rows' = [rows EXCEPT ![x].name = to]
  BY DEF Placed, Typed, Repoint
<1>1. cur.item \in Items /\ cur.item \in Previews /\ x \in Rows /\ x[1] = cur.item
  BY <1>0, ItemNames DEF Placed, Between, UnderWay
<1>2. to = Canonical(cur.item)
  BY <1>1 DEF Canonical, FileName
<1> HIDE DEF x, to
<1>3. /\ \A q \in Rows : rows'[q].hash = rows[q].hash
      /\ \A q \in Rows : q # x => rows'[q].name = rows[q].name
      /\ rows'[x].name = to
  <2>1. rows[x] \in RowType /\ rows' = [rows EXCEPT ![x] = [rows[x] EXCEPT !.name = to]]
    BY <1>0, <1>1
  <2>2. /\ [rows[x] EXCEPT !.name = to].hash = rows[x].hash
        /\ [rows[x] EXCEPT !.name = to].name = to
    BY <2>1 DEF RowType
  <2> QED
    BY <1>0, <1>1, <2>1, <2>2
<1>4. /\ rows[r].hash # None /\ rows'[r].name = Canonical(i)
      /\ InReach(i)
  BY <1>0, <1>3 DEF Claims, InReach, Exists
<1>5. \A a \in {Row(i), EffectiveRow(i)} : Claims(a, i)' => Anchored(i)'
  BY DEF Anchored, Claims
<1>6. CASE r = x
  <2>1. i = cur.item
    BY <1>1, <1>2, <1>3, <1>4, <1>6, CanonicalApart
  <2>2. r = EffectiveRow(i)
    BY <1>6, <2>1 DEF x
  <2> QED
    BY <1>5, <2>2
<1>7. CASE r # x
  <2>1. Claims(r, i)
    BY <1>3, <1>4, <1>7 DEF Claims
  <2>2. PICK a \in Rows : a \in {Row(i), EffectiveRow(i)} /\ a[1] = i /\ Claims(a, i)
    BY <1>4, <2>1, AnchorIs DEF ClaimsAnchored
  <2>3. CASE a # x
    BY <1>3, <1>5, <2>2, <2>3 DEF Claims
  <2>4. CASE a = x
    <3>1. i = cur.item
      BY <1>1, <2>2, <2>4
    <3>2. rows'[a].name = Canonical(i) /\ rows'[a].hash # None
      BY <1>2, <1>3, <2>2, <2>4, <3>1 DEF Claims
    <3> QED
      BY <1>5, <2>2, <3>2 DEF Claims
  <2> QED
    BY <2>3, <2>4
<1> QED
  BY <1>6, <1>7

\* A row that is marked takes the item's own name or that of a row of the same
\* content, which has an anchor.
LEMMA ClaimsMarked ==
    ASSUME Placed, Vouched, NEW k \in Items, MarkedFor(k)
    PROVE  ClaimsAnchored'
<1> SUFFICES ASSUME NEW i \in Items \ Streams, NEW r \in Rows, Claims(r, i)', InReach(i)'
             PROVE  Anchored(i)'
  BY DEF ClaimsAnchored
<1> USE DEF Vouched
<1>1. PICK x \in {Row(k), EffectiveRow(k)}, n \in Names :
         /\ rows' = Marked(x, Content[k], n) /\ UNCHANGED disk /\ SamePlace
         /\ n = Canonical(k) \/ \E q \in Rows : rows[q].hash = Content[k] /\ rows[q].name = n
         /\ k \notin Streams => rows[x].hash = None \/ rows[x].name = None \/ n = Canonical(k)
  BY DEF MarkedFor
<1>2. /\ rows \in [Rows -> RowType] /\ x \in Rows /\ x[1] = k
      /\ Content[k] \in Hashes /\ Content[k] # None
  BY ItemNames DEF Placed, Typed
<1>3. /\ \A q \in Rows : q # x => rows'[q] = rows[q]
      /\ rows'[x].name = n /\ rows'[x].hash = Content[k]
  BY <1>1, <1>2, MarkedIs
<1>4. /\ rows'[r].hash # None /\ rows'[r].name = Canonical(i)
      /\ Canonical(i) # None /\ Canonical(i)[2][1] = i
  BY ItemNames DEF Claims
<1>5. InReach(i)
  BY <1>1 DEF InReach, Exists, SamePlace
<1>6. \A a \in {Row(i), EffectiveRow(i)} : Claims(a, i)' => Anchored(i)'
  BY DEF Anchored, Claims
<1>7. ASSUME NEW q \in Rows, Claims(q, i), n = Canonical(i) \/ q # x
      PROVE  Anchored(i)'
  <2>1. PICK a \in Rows : a \in {Row(i), EffectiveRow(i)} /\ a[1] = i /\ Claims(a, i)
    BY <1>5, <1>7, AnchorIs DEF ClaimsAnchored
  <2>2. CASE a # x
    BY <1>3, <1>6, <2>1, <2>2 DEF Claims
  <2>3. CASE a = x
    <3>1. k = i /\ rows[x].hash # None /\ rows[x].name # None
      BY <1>2, <1>4, <2>1, <2>3 DEF Claims
    <3>2. n = Canonical(i)
      BY <1>1, <3>1
    <3> QED
      BY <1>2, <1>3, <1>6, <2>1, <2>3, <3>2 DEF Claims
  <2> QED
    BY <2>2, <2>3
<1>8. CASE r # x
  <2>1. Claims(r, i)
    BY <1>3, <1>4, <1>8 DEF Claims
  <2> QED
    BY <1>7, <1>8, <2>1
<1>9. CASE r = x /\ n = Canonical(k)
  <2>1. k = i
    BY <1>3, <1>4, <1>9, CanonicalApart
  <2>2. Claims(x, i)'
    BY <1>9 DEF Claims
  <2> QED
    BY <1>1, <1>6, <2>1, <2>2
<1>10. CASE r = x /\ \E q \in Rows : rows[q].hash = Content[k] /\ rows[q].name = n
  <2>1. PICK q \in Rows : rows[q].hash = Content[k] /\ rows[q].name = n
    BY <1>10
  <2>2. n = Canonical(i)
    BY <1>3, <1>4, <1>10
  <2>3. Claims(q, i)
    BY <1>2, <2>1, <2>2 DEF Claims
  <2> QED
    BY <1>7, <2>2, <2>3
<1> QED
  BY <1>1, <1>8, <1>9, <1>10

\* Every step keeps an anchor for the rows that vouch for one file.
LEMMA ClaimsStep == ASSUME Placed, Vouched, StreamsApart, Effect PROVE ClaimsAnchored'
<1>1. CASE Still \/ FetchPages \/ (\E n \in Names : RepairMove(n) \/ Taken(n))
           \/ (\E i \in Items : Fetched(i))
  <2>1. ASSUME Names = {} \/ Items = {} PROVE ClaimsAnchored'
    BY <2>1, NameParts, ItemNames DEF ClaimsAnchored
  <2> QED
    BY <1>1, <2>1, ClaimsQuiet
<1> QED
  BY <1>1, ClaimsScan, ClaimsRepoint, ClaimsMarked DEF Effect, Mended, Downloaded

\* The invariant is inductive, as long as no scan is disturbed.
LEMMA VouchedStep ==
    ASSUME Placed, Vouched, StreamsApart, [LibraryNext]_libraryVars, [QuietStep]_libraryVars
    PROVE  Vouched'
<1>1. CASE UNCHANGED libraryVars
  BY <1>1 DEF libraryVars, Vouched, RowsVouch, FilesTold, BrokenApart, ClaimsAnchored, Claims,
              Anchored, InReach, Exists, ScanSees, Folder, UnderWay
<1>2. CASE LibraryNext /\ QuietStep
  <2>1. Effect /\ Placed'
    BY <1>2, Effects, PlacedStep
  <2> QED
    BY <1>2, <2>1, VouchesStep, FilesStep, BrokenStep, ClaimsStep, ScanStep, UnderWayStep
    DEF Vouched
<1> QED
  BY <1>1, <1>2

\* The unreadable files of a library that exists lie where their items would
\* be fetched to.
BrokenInPlace == \A b \in Breakable : FileName(b[1], b[2]) = Canonical(b[2])

\* The invariant holds at the start.
LEMMA VouchedStart == ASSUME BrokenInPlace, LibraryInit PROVE Vouched
<1>1. PICK there, broken :
         /\ broken \subseteq there \cap {FileName(f[1], f[2]) : f \in Breakable}
         /\ \A n \in broken, m \in there : n[2] = m[2] => n = m
         /\ disk = [n \in Names |-> IF n \in broken THEN "corrupt"
                                    ELSE IF n \in there THEN Content[n[2][1]]
                                    ELSE "absent"]
  <2>1. PICK there \in SUBSET {FileName(f[1], f[2]) : f \in Inherited} :
           \E broken \in SUBSET (there \cap {FileName(f[1], f[2]) : f \in Breakable}) :
              /\ \A n \in broken, m \in there : n[2] = m[2] => n = m
              /\ disk = [n \in Names |-> IF n \in broken THEN "corrupt"
                                         ELSE IF n \in there THEN Content[n[2][1]]
                                         ELSE "absent"]
    BY DEF LibraryInit
  <2>2. PICK broken \in SUBSET (there \cap {FileName(f[1], f[2]) : f \in Breakable}) :
           /\ \A n \in broken, m \in there : n[2] = m[2] => n = m
           /\ disk = [n \in Names |-> IF n \in broken THEN "corrupt"
                                      ELSE IF n \in there THEN Content[n[2][1]]
                                      ELSE "absent"]
    BY <2>1
  <2> QED
    BY <2>2
<1>2. PICK past \in SUBSET {n \in Names : disk[n] \in Hashes /\ n[1] = "utc"} :
         rows = [r \in Rows |->
                   IF <<"utc", r>> \notin past THEN NoRow
                   ELSE [known |-> TRUE, downloaded |-> TRUE,
                         hash |-> Content[r[1]], name |-> <<"utc", r>>]]
  BY DEF LibraryInit
<1>3. FilesTold
  BY <1>1 DEF FilesTold
<1>4. ASSUME NEW r \in Rows
      PROVE  \/ /\ rows[r].hash = None /\ rows[r].name = None
             \/ /\ <<"utc", r>> \in Names /\ disk[<<"utc", r>>] \in Hashes
                /\ rows[r].known /\ rows[r].downloaded
                /\ rows[r].hash = Content[r[1]] /\ rows[r].name = <<"utc", r>>
  <2>1. CASE <<"utc", r>> \in past
    BY <1>2, <2>1
  <2>2. CASE <<"utc", r>> \notin past
    BY <1>2, <2>2 DEF NoRow
  <2> QED
    BY <2>1, <2>2
<1>5. \A r \in Rows : <<"utc", r>>[2] = r
  OBVIOUS
<1>6. RowsVouch
  <2> SUFFICES ASSUME NEW r \in Rows PROVE VouchesFor(r, rows[r])
    BY DEF RowsVouch
  <2>1. CASE rows[r].hash = None /\ rows[r].name = None
    BY <2>1 DEF VouchesFor
  <2>2. CASE /\ <<"utc", r>> \in Names /\ rows[r].known /\ rows[r].downloaded
             /\ rows[r].hash = Content[r[1]] /\ rows[r].name = <<"utc", r>>
    <3>1. rows[r].name # None
      BY <2>2
    <3> QED
      BY <1>5, <2>2, <3>1 DEF VouchesFor, CreatorOf
  <2> QED
    BY <1>4, <2>1, <2>2
<1>7. BrokenApart
  <2> SUFFICES ASSUME NEW n \in Names, disk[n] = "corrupt"
               PROVE  /\ n = Canonical(n[2][1]) /\ rows[n[2]].hash = None
                      /\ \A m \in Names : m[2] = n[2] /\ m # n => disk[m] = "absent"
                      /\ \A q \in Rows : rows[q].name = n => rows[q].hash = None
    BY DEF BrokenApart
  <2>1. n[2] \in Rows /\ n[2][1] \in Items /\ Content[n[2][1]] \in Hashes
    BY NameParts, ItemNames
  <2>2. n \in broken
    BY <1>1, <2>1
  <2>3. n = Canonical(n[2][1])
    <3>1. PICK b \in Breakable : n = FileName(b[1], b[2])
      BY <1>1, <2>2
    <3>2. n[2][1] = b[2]
      BY <3>1 DEF FileName, EffectiveRow, Row
    <3> QED
      BY <3>1, <3>2 DEF BrokenInPlace
  <2>4. \A m \in Names : m[2] = n[2] /\ m # n => disk[m] = "absent"
    BY <1>1, <2>2
  <2>5. rows[n[2]].hash = None
    <3> DEFINE m == <<"utc", n[2]>>
    <3>1. m \in Names /\ disk[m] \in Hashes => m[2] = n[2] /\ m # n /\ disk[m] # "absent"
      BY <1>5, <2>1
    <3>2. ~(m \in Names /\ disk[m] \in Hashes)
      BY <2>4, <3>1
    <3> HIDE DEF m
    <3>3. rows[n[2]].hash = None \/ (m \in Names /\ disk[m] \in Hashes)
      BY <1>4, <2>1 DEF m
    <3> QED
      BY <3>2, <3>3
  <2>6. ASSUME NEW q \in Rows, rows[q].name = n PROVE rows[q].hash = None
    BY <1>4, <2>6
  <2> QED
    BY <2>3, <2>4, <2>5, <2>6
<1>8. ClaimsAnchored
  <2> SUFFICES ASSUME NEW i \in Items, NEW r \in Rows, Claims(r, i) PROVE Claims(EffectiveRow(i), i)
    BY DEF ClaimsAnchored, Anchored
  <2>1. rows[r].name = <<"utc", r>> /\ rows[r].name = Canonical(i)
    BY <1>4 DEF Claims
  <2>2. r = EffectiveRow(i)
    BY <1>5, <2>1, ItemNames
  <2> QED
    BY <2>2
<1>9. ScanSees /\ UnderWay
  BY DEF LibraryInit, Rest, NoItem, ScanSees, UnderWay
<1> QED
  BY <1>3, <1>6, <1>7, <1>8, <1>9 DEF Vouched

-----------------------------------------------------------------------------
(* The last copy.                                                          *)

\* Nothing but the unlink of a duplicate and the user takes the last file of a
\* content: a download writes over the same content, a move carries it.
LEMMA HeldKept ==
    ASSUME Placed, Vouched, LibraryNext, count'.deletes = count.deletes, cur.step # "unlink"
    PROVE  Held \subseteq Held'
<1>1. CASE UNCHANGED disk
  BY <1>1 DEF Held
<1>2. ASSUME NEW i \in Items, Fetch(i) \/ FetchStream(i) PROVE Held \subseteq Held'
  <2>1. disk' = [disk EXCEPT ![Canonical(i)] = Content[i]] /\ disk[Canonical(i)] # "corrupt"
    BY <1>2, FileSteps DEF Fetched
  <2>2. Canonical(i) \in Names /\ Canonical(i)[2][1] = i /\ Content[i] \in Hashes
    BY ItemNames
  <2>3. disk[Canonical(i)] \in {"absent", Content[i]}
    BY <2>1, <2>2 DEF Vouched, FilesTold
  <2>4. \A m \in Names : disk'[m] = IF m = Canonical(i) THEN Content[i] ELSE disk[m]
    BY <2>1 DEF Placed, Typed
  <2>5. ASSUME NEW m \in Names, disk[m] \in Hashes PROVE disk'[m] = disk[m]
    BY <2>2, <2>3, <2>4, <2>5
  <2> QED
    BY <2>5 DEF Held
<1>3. ASSUME NEW n \in Names, RepairMove(n) PROVE Held \subseteq Held'
  <2> DEFINE to == <<"preview", n[2]>>
  <2>1. /\ to \in Names
        /\ \A m \in Names \ {n, to} : disk'[m] = disk[m]
        /\ \/ UNCHANGED disk
           \/ ~Exists(to) /\ disk'[to] = disk[n] /\ disk'[n] = "absent"
           \/ disk'[to] = disk[to] /\ disk[to] = disk[n] /\ disk'[n] = "absent"
    BY <1>3, MovedIs
  <2> HIDE DEF to
  <2>2. ~Exists(to) => disk[to] \notin Hashes
    BY <2>1 DEF Exists
  <2>3. ASSUME NEW m \in Names, disk[m] \in Hashes PROVE \E z \in Names : disk'[z] = disk[m]
    <3>1. CASE m \notin {n, to}
      BY <2>1, <3>1
    <3>2. CASE m = n
      BY <2>1, <3>2
    <3>3. CASE m = to
      BY <2>1, <2>2, <2>3, <3>3
    <3> QED
      BY <3>1, <3>2, <3>3
  <2> QED
    BY <2>3 DEF Held
<1>4. ASSUME NEW n \in Names, UserDeletes(n) PROVE FALSE
  <2>1. count'.deletes = count.deletes + 1 /\ count.deletes \in Nat
    BY <1>4, CountType DEF UserDeletes, Placed, Typed
  <2> QED
    BY <2>1
<1>5. CASE \/ \E c \in Creators : Snapshot(c)
           \/ \E n \in Names : Register(n)
           \/ \E r \in Rows : Check(r)
           \/ StartCheck \/ StartRepair \/ FetchPages \/ Repoint \/ SaveStream \/ EndPass \/ Crash
  BY <1>1, <1>5
  DEF Snapshot, Register, Check, StartCheck, StartRepair, FetchPages, Repoint, SaveStream, EndPass,
      Abort, Crash
<1>6. ASSUME NEW i \in Items, Step(i) PROVE Held \subseteq Held'
  BY <1>1, <1>2, <1>6
  DEF Step, SkipRecorded, PassOver, FetchFails, Unreadable, Abort, StreamDuplicate
<1>7. CASE Dedupe
  <2>1. ~Unlink
    BY DEF Unlink, At
  <2> QED
    BY <1>1, <1>7, <2>1
    DEF Dedupe, SameName, NewNameDuplicate, NewName, OtherNameDuplicate, OtherNameGone,
        ByHashDuplicate, ByHashNew, Settled, ThenUnlink
<1> QED
  BY <1>3, <1>4, <1>5, <1>6, <1>7 DEF LibraryNext, Program

\* A download is given up in three places.
LEMMA GivenUp ==
    ASSUME Placed, LibraryNext, cur'.step = "unlink", cur.step # "unlink"
    PROVE  NewNameDuplicate \/ OtherNameDuplicate \/ ByHashDuplicate
<1>1. ASSUME cur'.step # "unlink" \/ UNCHANGED cur PROVE FALSE
  BY <1>1
<1>2. ASSUME NEW i \in Items, Step(i) PROVE FALSE
  BY <1>1, <1>2, RestIs
  DEF Step, SkipRecorded, PassOver, FetchFails, Unreadable, Abort, Fetch, StreamDuplicate,
      FetchStream
<1>3. ASSUME NEW n \in Names, Register(n) \/ RepairMove(n) \/ UserDeletes(n) PROVE FALSE
  BY <1>1, <1>3, RestIs DEF Register, RepairMove, UserDeletes
<1>4. ASSUME \/ \E c \in Creators : Snapshot(c)
             \/ \E r \in Rows : Check(r)
             \/ StartCheck \/ StartRepair \/ FetchPages \/ Repoint \/ SaveStream \/ EndPass
             \/ Crash
      PROVE  FALSE
  BY <1>1, <1>4, RestIs
  DEF Snapshot, Check, StartCheck, StartRepair, FetchPages, Repoint, SaveStream, EndPass, Abort,
      Crash
<1>5. Dedupe
  BY <1>2, <1>3, <1>4 DEF LibraryNext, Program
<1>6. ASSUME SameName \/ NewName \/ OtherNameGone \/ ByHashNew \/ Unlink PROVE FALSE
  BY <1>1, <1>6, RestIs DEF SameName, NewName, OtherNameGone, ByHashNew, Unlink, Settled
<1> QED
  BY <1>5, <1>6 DEF Dedupe

\* The file of a row of the same hash, if it is there, has the same content.
LEMMA BackedIs ==
    ASSUME Placed, Vouched, cur.item \in Items, NEW q \in Rows, rows[q].hash = Hash, Backed(q)
    PROVE  rows[q].name \in Names /\ disk[rows[q].name] = Hash
<1>1. Hash \in Hashes /\ Hash # None
  BY ItemNames DEF Hash
<1>2. rows[q].name \in Names /\ disk[rows[q].name] # "absent"
  BY DEF Backed, ExistsHere, Exists, Placed, Typed, RowType
<1>3. Content[rows[q].name[2][1]] = Hash
  BY <1>1 DEF Vouched, RowsVouch, VouchesFor
<1>4. disk[rows[q].name] # "corrupt"
  BY <1>1, <1>2 DEF Vouched, BrokenApart
<1> QED
  BY <1>2, <1>3, <1>4 DEF Vouched, FilesTold

\* Where a download is given up another file has its content: the row that
\* vouches for that file cannot name the file just fetched, for then one of
\* the item's own rows would vouch for it.
LEMMA CopyElsewhere ==
    ASSUME Placed, Vouched, NewNameDuplicate \/ OtherNameDuplicate \/ ByHashDuplicate
    PROVE  \E n \in Names \ {File} : disk[n] = Hash
<1>1. cur.step = "dedupe" /\ cur.item \in Items /\ cur.item \notin Streams
  BY DEF NewNameDuplicate, OtherNameDuplicate, ByHashDuplicate, HashUnknown, At, Placed, Between
<1>2. Target \in Rows /\ File \in Names /\ File # None /\ Hash # None
  BY <1>1, ItemNames DEF Target, File, Hash
<1>3. CASE OtherNameDuplicate
  BY <1>1, <1>2, <1>3, BackedIs DEF OtherNameDuplicate
<1>4. ASSUME NEW q \in Rows, rows[q].hash = Hash, Backed(q),
             rows[Target].name = None \/ rows[Target].hash = None
      PROVE  \E n \in Names \ {File} : disk[n] = Hash
  <2>1. rows[q].name \in Names /\ disk[rows[q].name] = Hash
    BY <1>1, <1>4, BackedIs
  <2>2. ASSUME rows[q].name = File PROVE FALSE
    <3>1. Claims(q, cur.item) /\ InReach(cur.item)
      BY <1>2, <1>4, <2>2 DEF Claims, File, InReach, Backed, ExistsHere
    <3>2. Anchored(cur.item)
      BY <1>1, <3>1 DEF Vouched, ClaimsAnchored
    <3>3. ~Claims(Row(cur.item), cur.item)
      BY <1>1 DEF Vouched, UnderWay, Claims
    <3>4. ~Claims(EffectiveRow(cur.item), cur.item)
      BY <1>2, <1>4 DEF Claims, Target, File
    <3> QED
      BY <3>2, <3>3, <3>4 DEF Anchored
  <2> QED
    BY <2>1, <2>2
<1>5. CASE NewNameDuplicate
  BY <1>4, <1>5 DEF NewNameDuplicate, References
<1>6. CASE ByHashDuplicate
  BY <1>4, <1>6 DEF ByHashDuplicate, HashUnknown, ByHash
<1> QED
  BY <1>3, <1>5, <1>6

\* No step of the program takes the last file of a content, unless the user
\* takes files of the folder while a scan of it is under way.
THEOREM LastCopyCorrect ==
    ASSUME StreamsApart, BrokenInPlace
    PROVE  LibrarySpec /\ QuietScans => LastCopyKept
<1>1. LibraryInit => Placed /\ Vouched
  BY PlacedStart, VouchedStart
<1>2. /\ Placed /\ Vouched /\ [LibraryNext]_libraryVars /\ [QuietStep]_libraryVars
      => Placed' /\ Vouched'
  BY PlacedStep, VouchedStep
<1>3. Placed /\ Vouched /\ [LibraryNext]_libraryVars =>
        [/\ (count.deletes' = count.deletes /\ cur.step # "unlink") => Held \subseteq Held'
         /\ (cur'.step = "unlink" /\ cur.step # "unlink") =>
               \E n \in Names \ {File} : disk[n] = Hash]_libraryVars
  <2> SUFFICES ASSUME Placed, Vouched, LibraryNext
               PROVE  /\ (count.deletes' = count.deletes /\ cur.step # "unlink") =>
                             Held \subseteq Held'
                      /\ (cur'.step = "unlink" /\ cur.step # "unlink") =>
                             \E n \in Names \ {File} : disk[n] = Hash
    OBVIOUS
  <2> QED
    BY HeldKept, GivenUp, CopyElsewhere
<1> QED
  BY <1>1, <1>2, <1>3, PTL DEF LibrarySpec, QuietScans, LastCopyKept

-----------------------------------------------------------------------------
(* What a walk has gone through is in the library.                         *)

\* A row that the scan of its creator has still to look at.
InScan(r) == /\ Owner[r[1]] = job.creator
             /\ job.phase = "register" \/ (job.phase = "check" /\ r \in job.todo)

\* A row whose hash can be relied on: nothing was ever taken, or it is of
\* content of one creator only, whose folder was looked at since.
Accounted(r) == torn => Private(rows[r].hash) /\ Owner[r[1]] \notin unseen /\ ~InScan(r)
RowsPresent == \A r \in Rows :
    rows[r].hash # None /\ Accounted(r) => rows[r].hash \in Held

\* The item in hand is on disk, and one that is given up has a copy, unless
\* the user took it: then no item with this content counts as gone through.
TakenAway == /\ torn /\ unseen # {} /\ (Private(Hash) => Owner[cur.item] \in unseen)
             /\ \A i \in done : Content[i] # Hash
InHand ==
    /\ cur.step \in {"dedupe", "save"} =>
           disk[File] = Hash \/ (torn /\ Owner[cur.item] \in unseen)
    /\ cur.step = "unlink" => (\E n \in Names \ {File} : disk[n] = Hash) \/ TakenAway

Complete == RowsPresent /\ AllContentPresent /\ InHand

\* A row that vouches for a file that is there has its content in the library.
LEMMA NamedHeld ==
    ASSUME Placed, Vouched, NEW r \in Rows, rows[r].hash # None, Exists(rows[r].name)
    PROVE  rows[r].hash \in Held
<1>1. rows[r].name \in Names /\ disk[rows[r].name] # "absent"
  BY DEF Exists, Placed, Typed, RowType
<1>2. Content[rows[r].name[2][1]] = rows[r].hash
  BY DEF Vouched, RowsVouch, VouchesFor
<1>3. disk[rows[r].name] # "corrupt"
  BY <1>1 DEF Vouched, BrokenApart
<1>4. disk[rows[r].name] = rows[r].hash
  BY <1>1, <1>2, <1>3 DEF Vouched, FilesTold
<1>5. rows[r].hash \in Hashes
  BY DEF Placed, Typed, RowType
<1> QED
  BY <1>1, <1>4, <1>5 DEF Held

\* Outside of a scan, a row can be relied on if its content is sound.
LEMMA SoundHeld ==
    ASSUME RowsPresent, NEW r \in Rows, rows[r].hash # None, Sound(rows[r].hash),
           job.phase \notin {"register", "check"}
    PROVE  rows[r].hash \in Held
  BY DEF RowsPresent, Accounted, InScan, Sound

\* A row that keeps its hash stays present if nothing goes and no more can be
\* relied on than before.
LEMMA RowFrame ==
    ASSUME RowsPresent, Held \subseteq Held', NEW r \in Rows, rows'[r].hash = rows[r].hash,
           Accounted(r)' => Accounted(r)
    PROVE  rows'[r].hash # None /\ Accounted(r)' => rows'[r].hash \in Held'
  BY DEF RowsPresent

\* The scan: it looks at the rows of its creator.
LEMMA CompleteScan ==
    ASSUME Placed, Vouched, Complete,
           (\E c \in Creators : Snapshot(c)) \/ StartCheck \/ Scanned
    PROVE  Complete'
<1>0. /\ job \in JobType /\ rows \in [Rows -> RowType]
      /\ UNCHANGED <<disk, torn, done, cur>> /\ cur = NoItem
  BY DEF Placed, Typed, JobType, Scanned, Snapshot, StartCheck, Register, Check, StartRepair,
         Phase
<1>1. AllContentPresent' /\ Held' = Held
  BY <1>0 DEF Complete, AllContentPresent, Held
<1>2. InHand'
  BY <1>0, RestIs DEF InHand
<1> USE DEF Complete
<1>3. ASSUME NEW c \in Creators, Snapshot(c) PROVE RowsPresent'
  <2>1. /\ job.phase = "rest" /\ UNCHANGED rows /\ unseen' = unseen \ {c}
        /\ job' = [creator |-> c, phase |-> "register", todo |-> Folder(c), seen |-> Folder(c)]
    BY <1>3 DEF Snapshot, Phase
  <2>2. job'.creator = c /\ job'.phase = "register"
    BY <2>1
  <2>3. \A r \in Rows : Accounted(r)' => Accounted(r)
    BY <1>0, <2>1, <2>2 DEF Accounted, InScan
  <2> QED
    BY <1>1, <2>1, <2>3, RowFrame DEF RowsPresent
<1>4. ASSUME StartCheck PROVE RowsPresent'
  <2> DEFINE T == {r \in RowsOf(job.creator) : rows[r].downloaded}
  <2>1. job' = [job EXCEPT !.phase = "check", !.todo = T] /\ UNCHANGED <<rows, unseen>>
        /\ job.phase = "register"
    BY <1>4 DEF StartCheck, Phase
  <2> HIDE DEF T
  <2>2. job'.creator = job.creator /\ job'.todo = T /\ job'.phase = "check"
    BY <1>0, <2>1 DEF JobType
  <2>3. ASSUME NEW r \in Rows, rows[r].hash # None, Accounted(r)' PROVE Accounted(r)
    <3>1. rows[r].downloaded
      BY <2>3 DEF Vouched, RowsVouch, VouchesFor
    <3>2. Owner[r[1]] = job.creator => r \in T
      BY <3>1 DEF T, RowsOf
    <3> QED
      BY <1>0, <2>1, <2>2, <2>3, <3>2 DEF Accounted, InScan
  <2> QED
    BY <1>1, <2>1, <2>3, RowFrame DEF RowsPresent
<1>5. ASSUME NEW n \in Names, Register(n) PROVE RowsPresent'
  <2> DEFINE x == n[2]
  <2>1. /\ rows' = Trusted(n) /\ job.phase = "register" /\ n \in job.todo
        /\ job' = [job EXCEPT !.todo = @ \ {n}] /\ UNCHANGED unseen
    BY <1>5 DEF Register, Phase
  <2>2. job'.creator = job.creator /\ job'.phase = "register"
    BY <1>0, <2>1, JobLess
  <2>3. CreatorOf(n) = job.creator /\ disk[n] # "absent"
    BY <2>1 DEF Placed, Ahead, Vouched, ScanSees, Folder, Exists
  <2>4. x \in Rows /\ x[1] \in Items /\ CreatorOf(n) = Owner[x[1]]
    BY NameParts
  <2>5. \A r \in Rows : Accounted(r)' /\ rows'[r].hash = rows[r].hash => Accounted(r)
    BY <1>0, <2>1, <2>2 DEF Accounted, InScan
  <2>6. \A r \in Rows : r # x => rows'[r] = rows[r]
    BY <1>0, <2>1, TrustedIs
  <2>7. rows'[x].hash \in {rows[x].hash, None, Content[x[1]]}
        /\ (n[1] # "hash2" => rows'[x].hash \in {rows[x].hash, None})
    BY <1>0, <2>1, TrustedIs
  <2>8. n[1] = "hash2" => Content[x[1]] \in Held
    <3> SUFFICES ASSUME n[1] = "hash2" PROVE Content[x[1]] \in Held
      OBVIOUS
    <3>1. n # Canonical(x[1])
      BY <2>4, ItemNames
    <3>2. disk[n] # "corrupt"
      BY <3>1 DEF Vouched, BrokenApart
    <3>3. disk[n] = Content[x[1]] /\ Content[x[1]] \in Hashes
      BY <2>3, <2>4, <3>2, ItemNames DEF Vouched, FilesTold
    <3> QED
      BY <3>3 DEF Held
  <2> HIDE DEF x
  <2>9. ASSUME NEW r \in Rows, rows'[r].hash # None, Accounted(r)'
        PROVE  rows'[r].hash \in Held'
    <3>1. CASE rows'[r].hash = rows[r].hash
      BY <1>1, <2>5, <2>9, <3>1, RowFrame
    <3>2. CASE rows'[r].hash # rows[r].hash
      BY <1>1, <2>6, <2>7, <2>8, <2>9, <3>2
    <3> QED
      BY <3>1, <3>2
  <2> QED
    BY <2>9 DEF RowsPresent
<1>6. ASSUME NEW x \in Rows, Check(x) PROVE RowsPresent'
  <2>1. /\ rows' = Checked(x) /\ job.phase = "check" /\ x \in job.todo
        /\ job' = [job EXCEPT !.todo = @ \ {x}] /\ UNCHANGED unseen
    BY <1>6 DEF Check, Phase
  <2>2. job'.creator = job.creator /\ job'.phase = "check" /\ job'.todo = job.todo \ {x}
    BY <1>0, <2>1, JobLess
  <2>3. ASSUME NEW r \in Rows, r # x, rows'[r].hash # None, Accounted(r)'
        PROVE  rows'[r].hash \in Held'
    <3>1. rows'[r].hash = rows[r].hash
      BY <1>0, <2>1, <2>3, CheckedIs
    <3>2. Accounted(r)
      BY <1>0, <2>1, <2>2, <2>3, <3>1 DEF Accounted, InScan
    <3> QED
      BY <1>1, <2>3, <3>1, <3>2, RowFrame
  <2>4. ASSUME rows'[x].hash # None PROVE rows'[x].hash \in Held'
    <3>1. rows[x].name \in job.seen /\ rows' = rows
      BY <1>0, <2>1, <2>4, CheckedIs
    <3>2. Exists(rows[x].name)
      BY <2>1, <3>1 DEF Vouched, ScanSees, Folder
    <3> QED
      BY <1>1, <2>4, <3>1, <3>2, NamedHeld
  <2> QED
    BY <2>3, <2>4 DEF RowsPresent
<1>7. ASSUME StartRepair PROVE RowsPresent'
  <2>1. job.phase = "check" /\ job.todo = {} /\ UNCHANGED <<rows, unseen>>
    BY <1>7 DEF StartRepair, Phase
  <2>2. \A r \in Rows : Accounted(r)' => Accounted(r)
    BY <1>0, <2>1 DEF Accounted, InScan
  <2> QED
    BY <1>1, <2>1, <2>2, RowFrame DEF RowsPresent
<1> QED
  BY <1>1, <1>2, <1>3, <1>4, <1>5, <1>6, <1>7 DEF Scanned

\* What is counted as gone through is present.
LEMMA ThroughHeld ==
    ASSUME AllContentPresent, Held \subseteq Held', NEW i \in Items, Through(i),
           Sound(Content[i]) => Content[i] \in Held'
    PROVE  AllContentPresent'
  BY DEF AllContentPresent, Through

\* Outside of a scan nothing more can be relied on unless it is looked at.
LEMMA AccountedFrame ==
    ASSUME job.phase \notin {"register", "check"}, torn => torn', unseen \subseteq unseen',
           NEW r \in Rows, rows'[r].hash = rows[r].hash, Accounted(r)'
    PROVE  Accounted(r)
  BY DEF Accounted, InScan, Private

\* The repair moves bytes and renames rows.
LEMMA CompleteRepair ==
    ASSUME Placed, Vouched, Complete, LibraryNext,
           (\E n \in Names : RepairMove(n)) \/ Repoint \/ FetchPages
    PROVE  Complete'
<1> USE DEF Complete
<1>0. /\ rows \in [Rows -> RowType] /\ job.phase = "repair" /\ cur.step # "unlink"
      /\ UNCHANGED <<count, torn>> /\ unseen \subseteq unseen' /\ done' \subseteq done
      /\ cur'.step \in {None, "repoint"}
  <2>1. ASSUME NEW n \in Names, RepairMove(n)
        PROVE  /\ job.phase = "repair" /\ cur.step # "unlink"
               /\ UNCHANGED <<count, torn>> /\ unseen \subseteq unseen' /\ done' \subseteq done
               /\ cur'.step \in {None, "repoint"}
    <3>1. cur' = NoItem \/ cur' = [item |-> n[2][1], step |-> "repoint"]
      BY <2>1 DEF RepairMove
    <3>2. cur'.step \in {None, "repoint"}
      BY <3>1, RestIs
    <3> QED
      BY <2>1, <3>2, RestIs DEF RepairMove, Phase
  <2>2. ASSUME Repoint \/ FetchPages
        PROVE  /\ job.phase = "repair" /\ cur.step # "unlink"
               /\ UNCHANGED <<count, torn, unseen, done>> /\ cur'.step \in {None, "repoint"}
    BY <2>2, RestIs DEF Repoint, FetchPages, Phase, Placed, Between
  <2>3. rows \in [Rows -> RowType]
    BY DEF Placed, Typed
  <2> QED
    BY <2>1, <2>2, <2>3
<1>1. Held \subseteq Held'
  BY <1>0, HeldKept
<1>2. ASSUME NEW r \in Rows PROVE rows'[r].hash = rows[r].hash
  <2>1. rows[r] \in RowType
    BY <1>0
  <2>2. ASSUME NEW n \in Names, RepairMove(n) PROVE rows'[r].hash = rows[r].hash
    BY <2>2 DEF RepairMove
  <2>3. ASSUME Repoint PROVE rows'[r].hash = rows[r].hash
    <3> DEFINE x == EffectiveRow(cur.item)
               to == <<"preview", x>>
    <3>1. cur.item \in Items /\ rows' = [rows EXCEPT ![x].name = to]
      BY <2>3 DEF Repoint, Placed, Between
    <3>2. x \in Rows
      BY <3>1, ItemNames
    <3> HIDE DEF x, to
    <3>3. /\ rows[x] \in RowType
          /\ rows' = [rows EXCEPT ![x] = [rows[x] EXCEPT !.name = to]]
      BY <1>0, <3>1, <3>2
    <3>4. [rows[x] EXCEPT !.name = to].hash = rows[x].hash
      BY <3>3 DEF RowType
    <3> QED
      BY <1>0, <3>2, <3>3, <3>4
  <2>4. ASSUME FetchPages PROVE rows'[r].hash = rows[r].hash
    <3>1. rows'[r] = rows[r] \/ rows'[r] = [rows[r] EXCEPT !.known = TRUE]
      BY <2>4 DEF FetchPages
    <3> QED
      BY <2>1, <3>1 DEF RowType
  <2> QED
    BY <2>2, <2>3, <2>4
<1>3. RowsPresent'
  BY <1>0, <1>1, <1>2, AccountedFrame, RowFrame DEF RowsPresent
<1>4. AllContentPresent' /\ InHand'
  BY <1>0, <1>1 DEF AllContentPresent, InHand
<1> QED
  BY <1>3, <1>4

\* The steps of the walk that fetch nothing.
LEMMA CompleteWalk ==
    ASSUME Placed, Vouched, Complete,
           (\E i \in Items : SkipRecorded(i) \/ PassOver(i) \/ FetchFails(i) \/ Unreadable(i))
               \/ EndPass \/ Crash
    PROVE  Complete'
<1> USE DEF Complete
<1>1. ASSUME UNCHANGED <<disk, rows>>, cur' = NoItem, AllContentPresent',
             \A r \in Rows : Accounted(r)' => Accounted(r)
      PROVE  Complete'
  <2>1. Held' = Held
    BY <1>1 DEF Held
  <2>2. RowsPresent'
    BY <1>1, <2>1, RowFrame DEF RowsPresent
  <2> QED
    BY <1>1, <2>2, RestIs DEF InHand
<1>2. ASSUME NEW i \in Items, SkipRecorded(i) PROVE Complete'
  <2>1. /\ job.phase = "walk" /\ cur = NoItem /\ Recorded(Row(i)) /\ Through(i)
        /\ UNCHANGED <<disk, rows, cur, unseen, torn>>
    BY <1>2 DEF SkipRecorded, Phase
  <2>2. Row(i) \in Rows /\ rows[Row(i)].hash = Content[i]
    BY <2>1, ItemNames DEF Recorded, Vouched, RowsVouch, VouchesFor
  <2>3. Held' = Held
    BY <2>1 DEF Held
  <2>4. Sound(Content[i]) => Content[i] \in Held'
    BY <2>1, <2>2, <2>3, SoundHeld DEF Recorded
  <2> QED
    BY <1>1, <2>1, <2>3, <2>4, ThroughHeld, AccountedFrame
<1>3. ASSUME NEW i \in Items, PassOver(i) \/ FetchFails(i) \/ Unreadable(i) \/ EndPass
      PROVE  Complete'
  <2>1. /\ job.phase = "walk" /\ cur' = NoItem
        /\ UNCHANGED <<disk, rows, unseen, torn, done>>
    BY <1>3 DEF PassOver, FetchFails, Unreadable, EndPass, Abort, Phase
  <2>2. AllContentPresent'
    BY <2>1 DEF AllContentPresent, Held
  <2> QED
    BY <1>1, <2>1, <2>2, AccountedFrame
<1>4. ASSUME EndPass PROVE Complete'
  <2>1. /\ job.phase = "walk" /\ cur' = NoItem
        /\ UNCHANGED <<disk, rows, unseen, torn, done>>
    BY <1>4 DEF EndPass, Abort, Phase
  <2>2. AllContentPresent'
    BY <2>1 DEF AllContentPresent, Held
  <2> QED
    BY <1>1, <2>1, <2>2, AccountedFrame
<1>5. ASSUME Crash PROVE Complete'
  <2> DEFINE cut == job.phase \in {"register", "check"} \/ cur.step = "repoint"
  <2>1. /\ cur' = NoItem /\ job' = Rest /\ UNCHANGED <<disk, rows, done>>
        /\ unseen' = IF cut THEN unseen \cup {job.creator} ELSE unseen
        /\ torn' = (torn \/ cut)
    BY <1>5 DEF Crash
  <2>2. AllContentPresent'
    BY <2>1 DEF AllContentPresent, Held
  <2>3. ASSUME NEW r \in Rows, Accounted(r)' PROVE Accounted(r)
    <3>1. CASE job.phase \in {"register", "check"}
      BY <2>1, <2>3, <3>1 DEF Accounted, InScan, Private
    <3>2. CASE job.phase \notin {"register", "check"}
      <4>1. (torn => torn') /\ unseen \subseteq unseen'
        BY <2>1
      <4> QED
        BY <2>1, <2>3, <3>2, <4>1, AccountedFrame
    <3> QED
      BY <3>1, <3>2
  <2> QED
    BY <1>1, <2>1, <2>2, <2>3
<1> QED
  BY <1>2, <1>3, <1>4, <1>5

\* A row that is marked is present if its content is, or if it cannot be
\* relied on.
LEMMA MarkHeld ==
    ASSUME Placed, RowsPresent, Held \subseteq Held', job.phase = "walk",
           UNCHANGED <<unseen, torn>>, NEW x \in Rows, NEW h \in Hashes,
           NEW n \in Names \cup {None}, rows' = Marked(x, h, n),
           (torn => Private(h) /\ Owner[x[1]] \notin unseen) => h \in Held'
    PROVE  RowsPresent'
<1>1. /\ \A r \in Rows : r # x => rows'[r] = rows[r]
      /\ rows'[x].hash = h
  BY MarkedIs DEF Placed, Typed
<1>2. ASSUME NEW r \in Rows, rows'[r].hash # None, Accounted(r)' PROVE rows'[r].hash \in Held'
  <2>1. CASE r # x
    BY <1>1, <1>2, <2>1, AccountedFrame, RowFrame
  <2>2. CASE r = x
    BY <1>1, <1>2, <2>2 DEF Accounted, Private
  <2> QED
    BY <2>1, <2>2
<1> QED
  BY <1>2 DEF RowsPresent

\* A fetch puts the content on disk; a stream that is a duplicate relies on
\* the row it is a duplicate of.
LEMMA CompleteFetch ==
    ASSUME Placed, Vouched, Complete, LibraryNext, NEW i \in Items,
           Fetch(i) \/ FetchStream(i) \/ StreamDuplicate(i)
    PROVE  Complete'
<1> USE DEF Complete
<1>0. /\ job.phase = "walk" /\ cur = NoItem /\ UNCHANGED <<count, unseen, torn>>
      /\ cur.step # "unlink"
  BY RestIs DEF Fetch, FetchStream, StreamDuplicate, Wanted, Phase
<1>1. Held \subseteq Held'
  BY <1>0, HeldKept
<1>2. CASE Fetch(i) \/ FetchStream(i)
  <2>1. /\ disk' = [disk EXCEPT ![Canonical(i)] = Content[i]] /\ UNCHANGED <<rows, done>>
        /\ cur'.item = i /\ cur'.step \in {"dedupe", "save"}
    BY <1>2 DEF Fetch, FetchStream
  <2>2. disk'[Canonical(i)] = Content[i]
    BY <2>1, ItemNames DEF Placed, Typed
  <2>3. InHand'
    BY <2>1, <2>2 DEF InHand, File, Hash
  <2>4. RowsPresent' /\ AllContentPresent'
    BY <1>0, <1>1, <2>1, AccountedFrame, RowFrame DEF RowsPresent, AllContentPresent
  <2> QED
    BY <2>3, <2>4
<1>3. CASE StreamDuplicate(i)
  <2>1. Through(i) /\ UNCHANGED <<disk, cur>>
    BY <1>3 DEF StreamDuplicate
  <2>2. PICK twin \in StreamTwins(i) : rows' = Marked(Row(i), Content[i], rows[twin].name)
    BY <1>3 DEF StreamDuplicate
  <2>3. /\ twin \in Rows /\ rows[twin].hash = Content[i] /\ Content[i] # None
        /\ rows[twin].name \in Names \cup {None} /\ Row(i) \in Rows /\ Row(i)[1] = i
        /\ Content[i] \in Hashes
    BY ItemNames DEF StreamTwins, Placed, Typed, RowType
  <2>4. Sound(Content[i]) => Content[i] \in Held'
    BY <1>0, <1>1, <2>3, SoundHeld
  <2>5. ASSUME torn => Private(Content[i]) /\ Owner[i] \notin unseen
        PROVE  Content[i] \in Held'
    <3>1. Content[twin[1]] = Content[i] /\ twin[1] \in Items
      BY <2>3, RowParts DEF Vouched, RowsVouch, VouchesFor
    <3>2. torn => Owner[twin[1]] = Owner[i]
      BY <2>5, <3>1 DEF Private
    <3>3. Accounted(twin)
      BY <1>0, <2>3, <2>5, <3>2 DEF Accounted, InScan
    <3> QED
      BY <1>1, <2>3, <3>3 DEF RowsPresent
  <2>6. RowsPresent'
    BY <1>0, <1>1, <2>2, <2>3, <2>5, MarkHeld
  <2> QED
    BY <1>0, <1>1, <2>1, <2>4, <2>6, ThroughHeld, RestIs DEF InHand
<1> QED
  BY <1>2, <1>3

\* The row of the item in hand is marked with the hash of the item's file.
LEMMA CompleteMark ==
    ASSUME Placed, Vouched, Complete, cur.step \in {"dedupe", "save"},
           UNCHANGED <<disk, unseen, torn>>,
           NEW x \in {Row(cur.item), EffectiveRow(cur.item)}, NEW n \in Names \cup {None},
           rows' = Marked(x, Hash, n)
    PROVE  RowsPresent' /\ Held' = Held /\ (Sound(Hash) => Hash \in Held')
<1>1. /\ cur.item \in Items /\ job.phase = "walk" /\ x \in Rows /\ x[1] = cur.item
      /\ Hash \in Hashes /\ File \in Names
  BY ItemNames DEF Placed, Between, Hash, File
<1>2. Held' = Held
  BY DEF Held
<1>3. disk[File] = Hash \/ (torn /\ Owner[cur.item] \in unseen)
  BY DEF Complete, InHand
<1>4. disk[File] = Hash => Hash \in Held'
  BY <1>1, <1>2 DEF Held
<1>5. (torn => Private(Hash) /\ Owner[x[1]] \notin unseen) => Hash \in Held'
  BY <1>1, <1>3, <1>4
<1>6. Sound(Hash) => Hash \in Held'
  BY <1>3, <1>4 DEF Sound
<1>7. Held \subseteq Held'
  BY <1>2
<1>8. RowsPresent'
  BY <1>1, <1>5, <1>7, MarkHeld DEF Complete
<1> QED
  BY <1>2, <1>6, <1>8

\* The steps that record the item in hand.
LEMMA CompleteSave ==
    ASSUME Placed, Vouched, Complete,
           SaveStream \/ SameName \/ NewName \/ OtherNameGone \/ ByHashNew
    PROVE  Complete'
<1>1. /\ cur.step \in {"dedupe", "save"} /\ UNCHANGED <<disk, unseen, torn>>
      /\ cur' = NoItem /\ Through(cur.item)
  BY DEF SaveStream, SameName, NewName, OtherNameGone, ByHashNew, HashUnknown, At, Settled
<1>2. cur.item \in Items /\ Target \in Rows /\ File \in Names /\ Target[1] = cur.item
  BY <1>1, ItemNames DEF Placed, Between, Target, File
<1>3. \/ rows' = Marked(Row(cur.item), Hash, File)
      \/ rows' = Marked(EffectiveRow(cur.item), Hash, File)
  <2>1. CASE SameName
    <3>1. rows[Target].hash \in {None, Hash}
      BY <1>2 DEF Vouched, RowsVouch, VouchesFor, Hash
    <3> QED
      BY <2>1, <3>1 DEF SameName, Target
  <2>2. CASE SaveStream
    BY <2>2 DEF SaveStream, File, Hash
  <2>3. CASE NewName \/ OtherNameGone \/ ByHashNew
    BY <2>3 DEF NewName, OtherNameGone, ByHashNew, Target
  <2> QED
    BY <2>1, <2>2, <2>3
<1>4. RowsPresent' /\ Held' = Held /\ (Sound(Hash) => Hash \in Held')
  BY <1>1, <1>2, <1>3, CompleteMark
<1>5. AllContentPresent'
  BY <1>1, <1>2, <1>4, ThroughHeld DEF Complete, Hash
<1>6. InHand'
  BY <1>1, RestIs DEF InHand
<1> QED
  BY <1>4, <1>5, <1>6 DEF Complete

\* A download is given up: the copy is there.
LEMMA CompleteGiveUp ==
    ASSUME Placed, Vouched, Complete, NewNameDuplicate \/ OtherNameDuplicate \/ ByHashDuplicate
    PROVE  Complete'
<1>1. /\ cur.step = "dedupe" /\ UNCHANGED <<job, disk, unseen, torn, done>>
      /\ cur' = [cur EXCEPT !.step = "unlink"]
  BY DEF NewNameDuplicate, OtherNameDuplicate, ByHashDuplicate, HashUnknown, At, ThenUnlink
<1>2. /\ cur.item \in Items /\ job.phase = "walk"
      /\ cur \in [item : Items \cup {None}, step : Steps]
  BY <1>1 DEF Placed, Typed, Between
<1>3. cur'.item = cur.item /\ cur'.step = "unlink"
  BY <1>1, <1>2
<1>4. Held' = Held /\ AllContentPresent'
  BY <1>1 DEF Held, AllContentPresent, Complete
<1>5. \A r \in Rows : rows[r].name \in Names \cup {None}
  BY DEF Placed, Typed, RowType
<1>6. RowsPresent'
  <2>1. CASE OtherNameDuplicate
    <3>1. UNCHANGED rows
      BY <2>1 DEF OtherNameDuplicate
    <3> QED
      BY <1>1, <1>4, <3>1 DEF Complete, RowsPresent, Accounted, InScan, Private
  <2>2. CASE NewNameDuplicate
    <3>1. PICK r \in References : rows' = Marked(Target, Hash, rows[r].name)
      BY <2>2 DEF NewNameDuplicate
    <3> QED
      BY <1>1, <1>5, <3>1, CompleteMark DEF References, Target
  <2>3. CASE ByHashDuplicate
    <3>1. PICK r \in ByHash : rows' = Marked(Row(cur.item), Hash, rows[r].name)
      BY <2>3 DEF ByHashDuplicate
    <3> QED
      BY <1>1, <1>5, <3>1, CompleteMark DEF ByHash
  <2> QED
    BY <2>1, <2>2, <2>3
<1>7. InHand'
  <2>1. PICK n \in Names \ {File} : disk[n] = Hash
    BY CopyElsewhere
  <2>2. File' = File /\ Hash' = Hash
    BY <1>3 DEF File, Hash
  <2> QED
    BY <1>1, <1>3, <2>1, <2>2 DEF InHand
<1> QED
  BY <1>4, <1>6, <1>7 DEF Complete

\* A file that goes takes its own content from the library and no other.
LEMMA GoneHeld ==
    ASSUME Placed, NEW n \in Names, disk' = [disk EXCEPT ![n] = "absent"]
    PROVE  /\ \A m \in Names \ {n} : disk'[m] = disk[m]
           /\ \A h \in Held : h # disk[n] => h \in Held'
           /\ (\E m \in Names \ {n} : disk[m] = disk[n]) => Held \subseteq Held'
<1>1. \A m \in Names \ {n} : disk'[m] = disk[m]
  BY DEF Placed, Typed
<1> QED
  BY <1>1 DEF Held

\* The duplicate is deleted: a copy of it is there, or nobody relies on one.
LEMMA CompleteUnlink == ASSUME Placed, Vouched, Complete, Unlink PROVE Complete'
<1>1. /\ cur.step = "unlink" /\ UNCHANGED <<job, rows, unseen, torn>>
      /\ cur' = NoItem /\ Through(cur.item) /\ disk' = [disk EXCEPT ![File] = "absent"]
  BY DEF Unlink, At, Settled
<1>2. /\ cur.item \in Items /\ job.phase = "walk" /\ File \in Names /\ File[2][1] = cur.item
      /\ Hash \in Hashes
  BY <1>1, ItemNames DEF Placed, Between, File, Hash
<1>3. disk[File] \in {"absent", "corrupt", Hash}
  BY <1>2 DEF Vouched, FilesTold, Hash
<1>4. /\ \A m \in Names \ {File} : disk'[m] = disk[m]
      /\ \A h \in Held : h # disk[File] => h \in Held'
  BY <1>1, <1>2, GoneHeld
<1>5. \A h \in Held : h # Hash => h \in Held'
  BY <1>3, <1>4, ItemNames DEF Held
<1>6. InHand'
  BY <1>1, RestIs DEF InHand
<1>7. \A r \in Rows : Accounted(r)' => Accounted(r)
  BY <1>1, <1>2, AccountedFrame
<1>8. CASE \E n \in Names \ {File} : disk[n] = Hash
  <2>1. Hash \in Held'
    BY <1>2, <1>4, <1>8 DEF Held
  <2>2. Held \subseteq Held'
    BY <1>5, <2>1
  <2>3. RowsPresent'
    BY <1>1, <1>7, <2>2, RowFrame DEF Complete, RowsPresent
  <2>4. AllContentPresent'
    BY <1>1, <1>2, <2>1, <2>2, ThroughHeld DEF Complete, Hash
  <2> QED
    BY <1>6, <2>3, <2>4 DEF Complete
<1>9. CASE TakenAway
  <2>1. /\ torn /\ unseen # {} /\ (Private(Hash) => Owner[cur.item] \in unseen)
        /\ \A i \in done : Content[i] # Hash
    BY <1>9 DEF TakenAway
  <2>2. ASSUME NEW r \in Rows, rows'[r].hash # None, Accounted(r)'
        PROVE  rows'[r].hash \in Held'
    <3>1. rows[r].hash \in Held /\ Accounted(r)
      BY <1>1, <1>7, <2>2 DEF Complete, RowsPresent
    <3>2. ASSUME rows[r].hash = Hash PROVE FALSE
      <4>1. r[1] \in Items /\ Content[r[1]] = Hash
        BY <1>1, <2>2, <3>2, RowParts DEF Vouched, RowsVouch, VouchesFor
      <4>2. Private(Hash) /\ Owner[r[1]] \notin unseen
        BY <2>1, <3>1, <3>2 DEF Accounted
      <4>3. Owner[r[1]] = Owner[cur.item]
        BY <1>2, <4>1, <4>2 DEF Private, Hash
      <4> QED
        BY <2>1, <4>2, <4>3
    <3> QED
      BY <1>1, <1>5, <3>1, <3>2
  <2>3. done' = done
    BY <1>1, <2>1 DEF Through, Sound
  <2>4. AllContentPresent'
    BY <1>5, <2>1, <2>3 DEF Complete, AllContentPresent
  <2> QED
    BY <1>6, <2>2, <2>4 DEF Complete, RowsPresent
<1> QED
  BY <1>1, <1>8, <1>9 DEF Complete, InHand

\* The user takes a file: the rows of its creator, and those that name it,
\* wait for the next scan.
LEMMA CompleteUser ==
    ASSUME Placed, Vouched, Complete, NEW n \in Names, UserDeletes(n)
    PROVE  Complete'
<1>1. /\ disk' = [disk EXCEPT ![n] = "absent"] /\ torn' = TRUE
      /\ CreatorOf(n) \in unseen' /\ unseen \subseteq unseen'
      /\ done' = {i \in done : Content[i] # disk[n]} /\ UNCHANGED <<rows, job, cur>>
  BY DEF UserDeletes
<1>2. /\ \A m \in Names \ {n} : disk'[m] = disk[m]
      /\ \A h \in Held : h # disk[n] => h \in Held'
      /\ (\E m \in Names \ {n} : disk[m] = disk[n]) => Held \subseteq Held'
  BY <1>1, GoneHeld
<1>3. disk[n] \in {"absent", "corrupt", Content[n[2][1]]} /\ n[2][1] \in Items
  BY NameParts DEF Vouched, FilesTold
<1>4. ASSUME NEW r \in Rows, rows'[r].hash # None, Accounted(r)'
      PROVE  rows'[r].hash \in Held'
  <2>1. Private(rows[r].hash) /\ Owner[r[1]] \notin unseen' /\ ~InScan(r)
    BY <1>1, <1>4 DEF Accounted, InScan, Private
  <2>2. Accounted(r)
    BY <1>1, <2>1 DEF Accounted
  <2>3. rows[r].hash \in Held
    BY <1>1, <1>4, <2>2 DEF Complete, RowsPresent
  <2>4. ASSUME rows[r].hash = disk[n] PROVE FALSE
    <3>1. Content[n[2][1]] = rows[r].hash
      BY <1>3, <2>3, <2>4, ItemNames DEF Held
    <3>2. r[1] \in Items /\ Content[r[1]] = rows[r].hash
      BY <1>1, <1>4, RowParts DEF Vouched, RowsVouch, VouchesFor
    <3>3. Owner[r[1]] = CreatorOf(n)
      BY <1>3, <2>1, <3>1, <3>2 DEF Private, CreatorOf
    <3> QED
      BY <1>1, <2>1, <3>3
  <2> QED
    BY <1>1, <1>2, <2>3, <2>4
<1>5. AllContentPresent'
  BY <1>1, <1>2 DEF Complete, AllContentPresent
<1>6. InHand'
  <2>1. File' = File /\ Hash' = Hash
    BY <1>1 DEF File, Hash
  <2>2. ASSUME cur.step # None
        PROVE  cur.item \in Items /\ File \in Names /\ CreatorOf(File) = Owner[cur.item]
               /\ Hash \in Hashes
    BY <2>2, ItemNames DEF Placed, Between, File, Hash, CreatorOf
  <2>3. ASSUME cur.step \in {"dedupe", "save"}
        PROVE  disk'[File] = Hash \/ (torn' /\ Owner[cur.item] \in unseen')
    <3>1. disk[File] = Hash \/ (torn /\ Owner[cur.item] \in unseen)
      BY <2>3 DEF Complete, InHand
    <3>2. CASE n = File
      BY <1>1, <2>2, <2>3, <3>2
    <3>3. CASE n # File
      BY <1>1, <1>2, <2>2, <2>3, <3>1, <3>3
    <3> QED
      BY <3>2, <3>3
  <2>4. ASSUME cur.step = "unlink", ~\E m \in Names \ {File} : disk'[m] = Hash
        PROVE  /\ torn' /\ unseen' # {} /\ (Private(Hash) => Owner[cur.item] \in unseen')
               /\ \A i \in done' : Content[i] # Hash
    <3>1. CASE TakenAway
      BY <1>1, <3>1 DEF TakenAway
    <3>2. CASE \E m \in Names \ {File} : disk[m] = Hash
      <4>1. disk[n] = Hash
        BY <1>2, <2>4, <3>2
      <4>2. Content[n[2][1]] = Hash
        BY <1>3, <2>2, <2>4, <4>1, ItemNames
      <4>3. Private(Hash) => Owner[cur.item] = CreatorOf(n)
        BY <1>3, <2>2, <2>4, <4>2 DEF Private, CreatorOf, Hash
      <4> QED
        BY <1>1, <4>1, <4>3
    <3> QED
      BY <2>4, <3>1, <3>2 DEF Complete, InHand
  <2>5. (cur'.step = "unlink" => (\E m \in Names \ {File} : disk'[m] = Hash) \/ TakenAway')
    BY <1>1, <2>1, <2>4 DEF TakenAway, Private
  <2> QED
    BY <1>1, <2>1, <2>3, <2>5 DEF InHand
<1> QED
  BY <1>4, <1>5, <1>6 DEF Complete, RowsPresent

\* At the start the rows name files that are there.
LEMMA CompleteStart == ASSUME BrokenInPlace, LibraryInit PROVE Complete
<1>1. /\ Placed /\ Vouched /\ cur = NoItem /\ done = {}
  BY PlacedStart, VouchedStart DEF LibraryInit
<1>2. PICK past \in SUBSET {n \in Names : disk[n] \in Hashes /\ n[1] = "utc"} :
         rows = [r \in Rows |->
                   IF <<"utc", r>> \notin past THEN NoRow
                   ELSE [known |-> TRUE, downloaded |-> TRUE,
                         hash |-> Content[r[1]], name |-> <<"utc", r>>]]
  BY DEF LibraryInit
<1>3. ASSUME NEW r \in Rows, rows[r].hash # None PROVE rows[r].hash \in Held
  <2>1. <<"utc", r>> \in past
    BY <1>2, <1>3 DEF NoRow
  <2>2. rows[r].name = <<"utc", r>> /\ <<"utc", r>> \in Names
        /\ disk[<<"utc", r>>] \in Hashes
    BY <1>2, <2>1
  <2>3. Exists(rows[r].name)
    BY <2>2, LibraryAssumption, ItemNames DEF Exists
  <2> QED
    BY <1>1, <1>3, <2>3, NamedHeld
<1> QED
  BY <1>1, <1>3, RestIs DEF Complete, RowsPresent, AllContentPresent, InHand

\* Every step keeps what can be relied on in the library.
LEMMA CompleteStep ==
    ASSUME Placed, Vouched, Complete, [LibraryNext]_libraryVars
    PROVE  Complete'
<1>1. CASE UNCHANGED libraryVars
  BY <1>1 DEF libraryVars, Complete, RowsPresent, Accounted, InScan, AllContentPresent, InHand,
              TakenAway, Held, File, Hash, Private
<1>2. CASE LibraryNext
  <2>1. ASSUME Program PROVE Complete'
    BY <1>2, <2>1, CompleteScan, CompleteRepair, CompleteWalk, CompleteFetch, CompleteSave,
       CompleteGiveUp, CompleteUnlink
    DEF Program, Step, Scanned, Dedupe
  <2> QED
    BY <1>2, <2>1, CompleteWalk, CompleteUser DEF LibraryNext
<1> QED
  BY <1>1, <1>2

\* Whatever a walk has gone through, fetched, skipped or taken as a duplicate,
\* is in the library, unless the user takes files of the folder while a scan of
\* it is under way.
THEOREM ContentCorrect ==
    ASSUME StreamsApart, BrokenInPlace
    PROVE  LibrarySpec /\ QuietScans => []AllContentPresent
<1>1. LibraryInit => Placed /\ Vouched /\ Complete
  BY PlacedStart, VouchedStart, CompleteStart
<1>2. /\ Placed /\ Vouched /\ Complete /\ [LibraryNext]_libraryVars /\ [QuietStep]_libraryVars
      => Placed' /\ Vouched' /\ Complete'
  BY PlacedStep, VouchedStep, CompleteStep
<1>3. Complete => AllContentPresent
  BY DEF Complete
<1> QED
  BY <1>1, <1>2, <1>3, PTL DEF LibrarySpec, QuietScans

-----------------------------------------------------------------------------
(* Library and StreamFetch side by side.                                   *)

\* Every variable of the two parts keeps its type, whichever of them moves.
THEOREM ArchiveTypeCorrect == ArchiveSpec => []ArchiveTypeOK
<1>1. ArchiveInit => LibraryInit /\ FetchInit
  BY DEF ArchiveInit
<1>2. [ArchiveNext]_allVars => [LibraryNext]_libraryVars /\ [FetchNext]_fetchVars
  BY DEF ArchiveNext, allVars
<1>3. LibraryTypeOK /\ FetchTypeOK => ArchiveTypeOK
  BY DEF ArchiveTypeOK
<1> QED
  BY <1>1, <1>2, <1>3, LibraryTypeCorrect, FetchTypeCorrect, PTL
  DEF ArchiveSpec, LibrarySpec, FetchSpec

=============================================================================
