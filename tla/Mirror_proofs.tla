--------------------------- MODULE Mirror_proofs ---------------------------
(***************************************************************************)
(* Proofs about the two mirrors of what was downloaded.  EntityStore, the  *)
(* rows: for any entities of the five classes, any number of versions,     *)
(* failed statements and crashes.  Stash: for any files, items, titles and *)
(* creators, and any number of rearrangements, faults and crashes.         *)
(***************************************************************************)
EXTENDS EntityStore, Stash, SequenceTheorems, TLAPS

-----------------------------------------------------------------------------
(* The rows: the inductive invariant.                                      *)

Scalar  == [api : Nat, file : BOOLEAN, stash : BOOLEAN]
AnObject == [now : Scalar, snap : Scalar, links : SUBSET Entity, isNew : BOOLEAN]
AFrame  == [of : Entity, at : {"row", "links"}, insert : BOOLEAN,
            cols : SUBSET Column, sent : Scalar]

\* Types, with what the walk and the Stash pass hold on to.
TypeInv ==
    /\ held \subseteq Entity /\ shared \subseteq Entity
    /\ obj \in [Entity -> AnObject]
    /\ row \in [Entity -> Scalar \union {Absent}]
    /\ links \in [Entity -> SUBSET Entity]
    /\ stack \in [Task -> Seq(AFrame)]
    /\ walk = Idle \/ \E p \in Posts \intersect held, g \in Hashtags : walk = Tagging(p, g)
    /\ stamped \subseteq Content \intersect held
    /\ toLoad \subseteq {e \in Entity : row[e] # Absent}
    /\ version \in Nat

\* What the junction field of an entity may hold.
Kin(e) == IF e \in Content THEN Variants
          ELSE IF e \in Accounts THEN Avatars
          ELSE IF e \in Walls THEN Posts
          ELSE IF e \in Posts THEN Hashtags
          ELSE {}

KinInv == \A e \in Entity : obj[e].links \subseteq Kin(e) /\ links[e] \subseteq Kin(e)

\* The preload starts from nothing and forgets no row.
LoadInv ==
    toLoad # {} =>
        /\ \A t \in Task : stack[t] = <<>>
        /\ walk = Idle /\ stamped = {}
        /\ \A e \in Entity : row[e] # Absent => e \in held \union toLoad

\* The object of everything but hashtags and walls is kept while it is new, and
\* that of a post as long as there is a row.
HeldInv ==
    /\ \A e \in Entity \ (Hashtags \union Walls) : obj[e].isNew => e \in held
    /\ \A p \in Posts : row[p] # Absent => p \in held \union toLoad /\ ~obj[p].isNew

\* A wall's posts, and the hashtags of a post, have rows; a post in memory has
\* all the hashtags that are stored.
LinkInv ==
    /\ \A w \in Walls : \A p \in obj[w].links \union links[w] : row[p] # Absent
    /\ \A p \in Posts : \A g \in links[p] : row[g] # Absent
    /\ \A p \in Posts : links[p] # {} => row[p] # Absent
    /\ \A p \in Posts \intersect held : links[p] \subseteq obj[p].links

\* What the refresh saves.
Refreshed == Accounts \union Avatars \union Walls

\* A save() that called another one is past its row; an INSERT carries it all;
\* what is saved is cached, unless it has no id yet or was deleted meanwhile.
FrameInv ==
    \A t \in Task : \A i \in DOMAIN stack[t] :
        LET f == stack[t][i]
        IN  /\ i < Len(stack[t]) => f.at = "links"
            /\ f.insert => f.cols = Column
            /\ f.of \in held \union Hashtags \union Walls
            /\ t = "refresh" => f.of \in Refreshed

AtMost(x, y) == x.api <= y.api /\ (x.file => y.file) /\ (x.stash => y.stash)

\* What an UPDATE sends of the columns that are only ever earned.
Earning(f) == ~f.insert => /\ "file" \in f.cols => f.sent.file
                           /\ "stash" \in f.cols => f.sent.stash

\* Assigned values only grow, and so does what an UPDATE sends.
GrowInv ==
    /\ \A e \in Entity : AtMost(obj[e].snap, obj[e].now) /\ obj[e].now.api <= version
    /\ \A e \in Entity : row[e].api <= version
    /\ \A t \in Task : \A i \in DOMAIN stack[t] :
          Earning(stack[t][i]) /\ stack[t][i].sent.api <= version

\* An object is new, or its row r lies between its snapshot and its values.
Marked(o, r) ==
    \/ o.isNew
    \/ r # Absent /\ AtMost(o.snap, r) /\ AtMost(r, o.now)

\* A save that nobody interferes with brings the row up to the object.
Bringing(f, o, r) ==
    /\ f.sent = o.now /\ Marked(o, r)
    /\ f.at = "row" /\ ~f.insert => ~o.isNew /\ \A c \in Column \ f.cols : o.now[c] = r[c]
    /\ f.at = "links" => ~o.isNew /\ r = o.now

MarkInv ==
    /\ \A e \in held \ shared : Marked(obj[e], row[e])
    /\ \A t \in Task : \A i \in DOMAIN stack[t] :
          LET f == stack[t][i] IN f.of \notin shared => Bringing(f, obj[f.of], row[f.of])

StoreInv == TypeInv /\ KinInv /\ LoadInv /\ HeldInv /\ LinkInv /\ FrameInv
            /\ GrowInv /\ MarkInv

-----------------------------------------------------------------------------
(* The operators of the model.                                             *)

\* A row is what its columns say.
LEMMA ScalarType ==
    ASSUME NEW x
    PROVE  x \in Scalar <=> /\ x = [api |-> x.api, file |-> x.file, stash |-> x.stash]
                            /\ x.api \in Nat /\ x.file \in BOOLEAN /\ x.stash \in BOOLEAN
BY DEF Scalar

\* What an object's save begins with.
LEMMA EnterType ==
    ASSUME NEW e \in Entity, NEW o \in AnObject
    PROVE  /\ Enter(e, o) \in AFrame /\ Enter(e, o).of = e /\ Enter(e, o).sent = o.now
           /\ Enter(e, o).insert <=> o.isNew
           /\ Enter(e, o).cols = IF o.isNew THEN Column ELSE Changed(o)
           /\ Enter(e, o).at = IF o.isNew \/ Changed(o) # {} THEN "row" ELSE "links"
<1>1. Changed(o) \in SUBSET Column
  BY DEF Changed
<1> QED
  BY <1>1 DEF Enter, AFrame, AnObject, Column

\* Unchanged objects are their snapshot.
LEMMA ChangedType ==
    ASSUME NEW o \in AnObject
    PROVE  /\ Changed(o) = {} => o.now = o.snap
           /\ \A c \in Column : c \in Changed(o) <=> o.now[c] # o.snap[c]
           /\ "file" \in Changed(o) /\ AtMost(o.snap, o.now) => o.now.file
           /\ "stash" \in Changed(o) /\ AtMost(o.snap, o.now) => o.now.stash
<1>1. o.now \in Scalar /\ o.snap \in Scalar
  BY DEF AnObject
<1>2. Changed(o) = {} => /\ o.now["api"] = o.snap["api"] /\ o.now["file"] = o.snap["file"]
                         /\ o.now["stash"] = o.snap["stash"]
  BY DEF Changed, Column
<1> QED
  BY <1>1, <1>2 DEF Changed, Column, Scalar, AtMost

\* What the statements of a save leave in the row.
LEMMA WrittenType ==
    ASSUME NEW e \in Entity, row[e] \in Scalar \union {Absent}, NEW f \in AFrame,
           f.insert => f.cols = Column
    PROVE  /\ Written(e, f) \in Scalar \union {Absent}
           /\ row[e] # Absent \/ f.insert => Written(e, f) \in Scalar
           /\ row[e] # Absent \/ f.insert =>
                 \A c \in Column : Written(e, f)[c] = IF c \in f.cols THEN f.sent[c] ELSE row[e][c]
<1>1. CASE row[e] = Absent /\ ~f.insert
  BY <1>1 DEF Written
<1>2. CASE row[e] # Absent \/ f.insert
  <2> DEFINE w == [c \in Column |-> IF c \in f.cols THEN f.sent[c] ELSE row[e][c]]
  <2>1. w = Written(e, f)
    BY <1>2 DEF Written
  <2>2. w = [api |-> w.api, file |-> w.file, stash |-> w.stash]
    BY DEF Column
  <2>3. f.sent \in Scalar /\ f.cols \subseteq Column
    BY DEF AFrame
  <2>4. CASE row[e] # Absent
    <3>1. row[e] \in Scalar
      BY <2>4
    <3>2. w.api \in Nat
      BY <3>1, <2>3 DEF Scalar, Column
    <3>3. w.file \in BOOLEAN
      BY <3>1, <2>3 DEF Scalar, Column
    <3>4. w.stash \in BOOLEAN
      BY <3>1, <2>3 DEF Scalar, Column
    <3> HIDE DEF w
    <3>5. w \in Scalar
      BY <2>2, <3>2, <3>3, <3>4 DEF Scalar
    <3> QED
      BY <2>1, <3>5 DEF w
  <2>5. CASE f.insert
    <3>1. w.api = f.sent.api /\ w.file = f.sent.file /\ w.stash = f.sent.stash
      BY <2>5 DEF Column
    <3> HIDE DEF w
    <3>5. w \in Scalar
      BY <2>2, <2>3, <3>1 DEF Scalar
    <3> QED
      BY <2>1, <3>5 DEF w
  <2> QED
    BY <1>2, <2>4, <2>5
<1> QED
  BY <1>1, <1>2

\* Between the snapshot and the values: what a save does not send needs no sending.
LEMMA MarkedEnter ==
    ASSUME NEW e \in Entity, NEW o \in AnObject, NEW r \in Scalar \union {Absent},
           Marked(o, r)
    PROVE  Bringing(Enter(e, o), o, r)
<1> DEFINE f == Enter(e, o)
<1>1. f.of = e /\ f.sent = o.now /\ (f.insert <=> o.isNew)
      /\ f.cols = (IF o.isNew THEN Column ELSE Changed(o))
      /\ f.at = (IF o.isNew \/ Changed(o) # {} THEN "row" ELSE "links")
  BY EnterType
<1> HIDE DEF f
<1>2. ASSUME ~o.isNew PROVE \A c \in Column \ Changed(o) : o.now[c] = r[c]
  <2>1. r \in Scalar /\ AtMost(o.snap, r) /\ AtMost(r, o.now)
    BY <1>2 DEF Marked
  <2>2. o.now \in Scalar /\ o.snap \in Scalar
    BY DEF AnObject
  <2>3. ASSUME "api" \notin Changed(o) PROVE o.now.api = r.api
    BY <2>1, <2>2, <2>3, ChangedType DEF AtMost, Column, Scalar
  <2>4. ASSUME "file" \notin Changed(o) PROVE o.now.file = r.file
    <3>1. o.now.file = o.snap.file
      BY <2>4, ChangedType DEF Column
    <3> QED
      BY <2>1, <2>2, <3>1 DEF AtMost, Scalar
  <2>5. ASSUME "stash" \notin Changed(o) PROVE o.now.stash = r.stash
    <3>1. o.now.stash = o.snap.stash
      BY <2>5, ChangedType DEF Column
    <3> QED
      BY <2>1, <2>2, <3>1 DEF AtMost, Scalar
  <2> QED
    BY <2>3, <2>4, <2>5 DEF Column
<1>3. ASSUME ~o.isNew, Changed(o) = {} PROVE r = o.now
  <2>1. r \in Scalar
    BY <1>3 DEF Marked
  <2>2. o.now \in Scalar
    BY DEF AnObject
  <2>3. /\ o.now["api"] = r["api"] /\ o.now["file"] = r["file"]
        /\ o.now["stash"] = r["stash"]
    BY <1>2, <1>3 DEF Column
  <2> QED
    BY <2>1, <2>2, <2>3 DEF Scalar
<1>4. Bringing(f, o, r)
  BY <1>1, <1>2, <1>3 DEF Bringing
<1> QED
  BY <1>4 DEF f

-----------------------------------------------------------------------------
(* The stacks of save() calls.                                             *)

\* A frame for a save of f.of on the objects of the next state.
Entered(t, f) ==
    /\ f \in AFrame /\ f = Enter(f.of, obj'[f.of])
    /\ f.of \in held' \/ obj'[f.of].isNew
    /\ t = "refresh" => f.of \in Refreshed

\* What a save still has to save is cached, and the refresh owns it.
LEMMA RelatedEntered ==
    ASSUME NEW t \in Task, obj' \in [Entity -> AnObject], KinInv', HeldInv', LinkInv',
           NEW e \in Entity, t = "refresh" => e \in Refreshed,
           NEW r \in obj'[e].links, obj'[r].isNew
    PROVE  Entered(t, Enter(r, obj'[r]))
<1>1. r \in Entity /\ r \in Kin(e)
  BY DEF KinInv, AnObject
<1>2. obj'[r] \in AnObject
  BY <1>1
<1>4. ASSUME t = "refresh" PROVE r \in Refreshed
  <2>1. e \in Accounts => r \in Avatars
    BY <1>1, StoreAssumption DEF Kin, Content
  <2>2. e \in Avatars => FALSE
    BY <1>1, StoreAssumption DEF Kin, Content
  <2>3. e \in Walls => FALSE
    <3>1. SUFFICES ASSUME e \in Walls PROVE FALSE
      OBVIOUS
    <3>2. r \in Posts
      BY <1>1, <3>1, StoreAssumption DEF Kin, Content
    <3>3. row'[r] # Absent
      BY <3>1 DEF LinkInv
    <3> QED
      BY <3>2, <3>3 DEF HeldInv
  <2> QED
    BY <1>4, <2>1, <2>2, <2>3 DEF Refreshed
<1> QED
  BY <1>1, <1>2, <1>4, EnterType DEF Entered

\* Replacing the last element of a sequence.
LEMMA LastReplaced ==
    ASSUME NEW S, NEW s \in Seq(S), s # <<>>, NEW x \in S, NEW r, r = [s EXCEPT ![Len(s)] = x]
    PROVE  /\ Len(s) \in Nat /\ Len(s) # 0 /\ DOMAIN s = 1 .. Len(s) /\ s[Len(s)] \in S
           /\ r \in Seq(S) /\ Len(r) = Len(s) /\ r[Len(s)] = x
           /\ \A i \in 1 .. Len(s) - 1 : r[i] = s[i]
<1>1. Len(s) \in Nat /\ Len(s) # 0 /\ DOMAIN s = 1 .. Len(s) /\ s[Len(s)] \in S
  OBVIOUS
<1>2. Len(s) \in 1 .. Len(s)
  BY <1>1
<1>3. r \in Seq(S)
  BY <1>1
<1>6. Len(r) = Len(s)
  BY <1>1
<1>7. \A j \in 1 .. Len(s) : r[j] = IF j = Len(s) THEN x ELSE s[j]
  BY <1>1, Zenon
<1>4. \A i \in 1 .. Len(s) - 1 : i \in 1 .. Len(s) /\ i # Len(s)
  <2>1. \A n \in Nat : \A i \in 1 .. n - 1 : i \in 1 .. n /\ i # n
    OBVIOUS
  <2> QED
    BY <1>1, <2>1, Zenon
<1>5. r[Len(s)] = x /\ \A i \in 1 .. Len(s) - 1 : r[i] = s[i]
  BY <1>2, <1>7, <1>4, Zenon
<1> QED
  BY <1>1, <1>3, <1>5, <1>6

\* Appending to a sequence.
LEMMA Appended ==
    ASSUME NEW S, NEW s \in Seq(S), NEW x \in S, NEW n, n = Append(s, x)
    PROVE  /\ n \in Seq(S) /\ Len(n) = Len(s) + 1 /\ n[Len(n)] = x
           /\ \A i \in 1 .. Len(s) : n[i] = s[i]
OBVIOUS

\* A frame that is past its row.
Past(f) == [f EXCEPT !.at = "links"]

\* It is the same save.
LEMMA PastType ==
    ASSUME NEW f \in AFrame
    PROVE  /\ Past(f) \in AFrame /\ Past(f).of = f.of /\ Past(f).at = "links"
           /\ Past(f).insert = f.insert /\ Past(f).cols = f.cols /\ Past(f).sent = f.sent
           /\ f.at = "links" => Past(f) = f
BY DEF Past, AFrame

\* The loop over the related entities moves the last frame past its row and may
\* add one more.
LEMMA RelatedFrames ==
    ASSUME NEW s \in Seq(AFrame), s # <<>>, NEW os, os \in [Entity -> AnObject],
           NEW n \in WithRelated(s, os)
    PROVE  /\ n \in Seq(AFrame)
           /\ Len(n) = Len(s) \/ Len(n) = Len(s) + 1
           /\ \A i \in 1 .. Len(s) - 1 : n[i] = s[i]
           /\ n[Len(s)] = Past(s[Len(s)])
           /\ Len(n) = Len(s) + 1 =>
                 \E r \in os[s[Len(s)].of].links : os[r].isNew /\ n[Len(n)] = Enter(r, os[r])
<1> DEFINE rest == [s EXCEPT ![Len(s)].at = "links"]
           moved == Past(s[Len(s)])
           news == {r \in os[s[Len(s)].of].links : os[r].isNew}
<1>1. Len(s) \in Nat /\ Len(s) # 0 /\ DOMAIN s = 1 .. Len(s) /\ s[Len(s)] \in AFrame
  BY LastReplaced
<1>2. moved \in AFrame /\ moved.of = s[Len(s)].of
  BY <1>1, PastType
<1>3. /\ rest \in Seq(AFrame) /\ Len(rest) = Len(s)
      /\ \A i \in 1 .. Len(s) - 1 : rest[i] = s[i]
      /\ rest[Len(s)] = moved
  <2>1. rest = [s EXCEPT ![Len(s)] = moved]
    BY DEF Past
  <2> HIDE DEF rest, moved
  <2> QED
    BY <1>2, <2>1, LastReplaced
<1>4. n \in IF news = {} THEN {rest} ELSE {Append(rest, Enter(r, os[r])) : r \in news}
  BY DEF WithRelated, Last
<1> HIDE DEF rest, news
<1>5. CASE n = rest
  BY <1>1, <1>3, <1>5
<1> USE DEF news
<1>6. ASSUME NEW r \in news, n = Append(rest, Enter(r, os[r]))
      PROVE  /\ n \in Seq(AFrame) /\ Len(n) = Len(s) + 1
             /\ \A i \in 1 .. Len(s) - 1 : n[i] = s[i]
             /\ n[Len(s)] = moved
             /\ r \in os[s[Len(s)].of].links /\ os[r].isNew /\ n[Len(n)] = Enter(r, os[r])
  <2>1. r \in os[s[Len(s)].of].links /\ os[r].isNew
    OBVIOUS
  <2>2. os[s[Len(s)].of] \in AnObject
    BY <1>1 DEF AFrame
  <2>3. r \in Entity
    BY <2>1, <2>2 DEF AnObject
  <2>4. Enter(r, os[r]) \in AFrame
    BY <2>3, EnterType
  <2> HIDE DEF rest, news
  <2>5. n \in Seq(AFrame) /\ Len(n) = Len(rest) + 1 /\ n[Len(n)] = Enter(r, os[r])
        /\ \A i \in 1 .. Len(rest) : n[i] = rest[i]
    BY <1>3, <1>6, <2>4, Appended
  <2> QED
    BY <1>1, <1>3, <2>1, <2>5
<1> HIDE DEF rest, news
<1>7. n = rest \/ \E r \in news : n = Append(rest, Enter(r, os[r]))
  BY <1>4
<1> QED
  BY <1>1, <1>5, <1>6, <1>7, <1>3

\* The frames of the saves that a call begins.
LEMMA CallFrames ==
    ASSUME TypeInv, NEW t \in Task, stack[t] = <<>>,
           obj' \in [Entity -> AnObject], held' \subseteq Entity, KinInv', HeldInv', LinkInv',
           NEW e \in held', t = "refresh" => e \in Refreshed,
           CallSave(t, e, obj')
    PROVE  /\ stack' \in [Task -> Seq(AFrame)]
           /\ \A u \in Task \ {t} : stack'[u] = stack[u]
           /\ \A i \in DOMAIN stack'[t] :
                 /\ Entered(t, stack'[t][i])
                 /\ i < Len(stack'[t]) => stack'[t][i].at = "links"
<1> DEFINE f == Enter(e, obj'[e])
<1>1. e \in Entity /\ obj'[e] \in AnObject
  OBVIOUS
<1>2. f \in AFrame /\ Entered(t, f) /\ (f.at = "row" \/ f.at = "links") /\ f.of = e
  BY <1>1, EnterType DEF Entered
<1>3. \E s : /\ stack' = [stack EXCEPT ![t] = s]
             /\ \/ f.at = "row" /\ s = Append(stack[t], f)
                \/ f.at # "row" /\ s \in WithRelated(Append(stack[t], f), obj')
  BY DEF CallSave
<1>4. PICK s : /\ stack' = [stack EXCEPT ![t] = s]
               /\ \/ f.at = "row" /\ s = Append(stack[t], f)
                  \/ f.at # "row" /\ s \in WithRelated(Append(stack[t], f), obj')
  BY <1>3
<1> HIDE DEF f
<1>5. /\ stack'[t] = s
      /\ \A u \in Task \ {t} : stack'[u] = stack[u]
      /\ (s \in Seq(AFrame) => stack' \in [Task -> Seq(AFrame)])
  BY <1>4 DEF TypeInv
<1>9. ASSUME s \in Seq(AFrame),
             \A i \in DOMAIN s : Entered(t, s[i]) /\ (i < Len(s) => s[i].at = "links")
      PROVE  /\ stack' \in [Task -> Seq(AFrame)]
             /\ \A u \in Task \ {t} : stack'[u] = stack[u]
             /\ \A i \in DOMAIN stack'[t] :
                   /\ Entered(t, stack'[t][i])
                   /\ i < Len(stack'[t]) => stack'[t][i].at = "links"
  <2>1. stack'[t] = s /\ stack' \in [Task -> Seq(AFrame)]
    BY <1>5, <1>9
  <2>2. \A i \in DOMAIN stack'[t] :
           Entered(t, stack'[t][i]) /\ (i < Len(stack'[t]) => stack'[t][i].at = "links")
    BY <1>9, <2>1
  <2> QED
    BY <1>5, <2>1, <2>2
<1>6. Append(stack[t], f) = <<f>>
  BY <1>2
<1>7. CASE s = <<f>>
  <2>1. \A i \in DOMAIN s : s[i] = f /\ ~(i < Len(s))
    BY <1>7
  <2>2. s \in Seq(AFrame)
    BY <1>2, <1>7
  <2> QED
    BY <1>2, <1>9, <2>1, <2>2
<1>8. CASE f.at = "links" /\ s \in WithRelated(<<f>>, obj')
  <2>1. <<f>> \in Seq(AFrame) /\ <<f>> # <<>> /\ Len(<<f>>) = 1 /\ <<f>>[1] = f
    BY <1>2
  <2>2. obj' \in [Entity -> AnObject]
    OBVIOUS
  <2>3. Past(f) = f
    BY <1>2, <1>8, PastType
  <2>4. /\ s \in Seq(AFrame) /\ (Len(s) = 1 \/ Len(s) = 2) /\ s[1] = f
        /\ Len(s) = 2 => \E r \in obj'[f.of].links : obj'[r].isNew /\ s[2] = Enter(r, obj'[r])
    <3> DEFINE q == <<f>>
    <3> HIDE DEF q
    <3>1. q \in Seq(AFrame) /\ q # <<>> /\ s \in WithRelated(q, obj') /\ q[Len(q)] = f
      BY <1>8, <2>1 DEF q
    <3>2. /\ s \in Seq(AFrame) /\ (Len(s) = Len(q) \/ Len(s) = Len(q) + 1)
          /\ s[Len(q)] = f
          /\ Len(s) = Len(q) + 1 =>
                \E r \in obj'[f.of].links : obj'[r].isNew /\ s[Len(s)] = Enter(r, obj'[r])
      BY <2>2, <2>3, <3>1, RelatedFrames
    <3> USE DEF q
    <3>3. Len(<<f>>) = 1 /\ Len(<<f>>) + 1 = 2
      BY <2>1
    <3>4. Len(s) = 2 => s[Len(s)] = s[2]
      OBVIOUS
    <3> QED
      BY <3>2, <3>3, <3>4, Zenon
  <2>5. Len(s) = 2 => Entered(t, s[2])
    BY <1>1, <1>2, <2>4, RelatedEntered
  <2> QED
    <3>0. DOMAIN s = 1 .. Len(s)
      BY <2>4
    <3>1. \A i \in DOMAIN s : (i = 1 /\ s[i] = f) \/ (i = 2 /\ Len(s) = 2 /\ ~(i < Len(s)))
      BY <2>4, <3>0
    <3>2. \A i \in DOMAIN s : Entered(t, s[i]) /\ (i < Len(s) => s[i].at = "links")
      BY <1>2, <1>8, <2>5, <3>1
    <3> QED
      BY <1>9, <2>4, <3>2
<1> QED
  BY <1>2, <1>4, <1>6, <1>7, <1>8

-----------------------------------------------------------------------------
(* What the handlers of both tasks have in common.                         *)

\* An entity is left alone, merged into, or new; if it gets other values while
\* the other task saves it, that is remembered.
Change(t, e) ==
    \/ obj'[e] = obj[e] /\ (e \in held' <=> e \in held)
    \/ /\ e \in held' \union Hashtags
       /\ obj'[e].links \subseteq Kin(e)
       /\ e \in Walls => \A p \in obj'[e].links : row[p] # Absent
       /\ obj'[e].now.api <= version'
       /\ \/ /\ e \in held /\ obj'[e].snap = obj[e].snap /\ obj'[e].isNew = obj[e].isNew
             /\ AtMost(obj[e].now, obj'[e].now)
             /\ e \in Posts => obj[e].links \subseteq obj'[e].links
          \/ e \notin held /\ obj'[e].isNew /\ obj'[e].snap = obj'[e].now
       /\ \/ e \in held /\ obj'[e].now = obj[e].now
          \/ ~InFlight(e, Task \ {t})
          \/ e \in shared'

\* A save() is called when no other one of the task is left, or all are left.
Called(t) ==
    \/ stack' = stack /\ (stack[t] = <<>> \/ obj' = obj)
    \/ stack' = [stack EXCEPT ![t] = <<>>]
    \/ /\ stack[t] = <<>>
       /\ \E e \in held' : (t = "refresh" => e \in Refreshed) /\ CallSave(t, e, obj')
    \/ /\ t = "worker" /\ stack[t] = <<>>
       /\ \E g \in Hashtags : obj'[g].isNew /\ stack' = [stack EXCEPT ![t] = <<Enter(g, obj'[g])>>]

Handles(t) ==
    /\ toLoad = {} /\ toLoad' = {} /\ row' = row /\ links' = links
    /\ held \subseteq held' /\ held' \subseteq Entity
    /\ shared \subseteq shared' /\ shared' \subseteq Entity
    /\ version' \in Nat /\ version <= version'
    /\ walk' = Idle \/ \E p \in Posts \intersect held', g \in Hashtags : walk' = Tagging(p, g)
    /\ stamped' \subseteq Content \intersect held'
    /\ obj' \in [Entity -> AnObject]
    /\ \A e \in Entity : Change(t, e)
    /\ Called(t)

\* Rows and links, and what holds of the objects.
LEMMA HandledObjects ==
    ASSUME StoreInv, NEW t \in Task, Handles(t)
    PROVE  KinInv' /\ LoadInv' /\ HeldInv' /\ LinkInv'
<1> USE DEF Handles
<1>1. KinInv'
  <2>1. ASSUME NEW e \in Entity PROVE obj'[e].links \subseteq Kin(e)
    BY Change(t, e) DEF Change, StoreInv, KinInv
  <2> QED
    BY <2>1 DEF StoreInv, KinInv, Kin
<1>2. LoadInv'
  BY DEF LoadInv
<1>3. HeldInv'
  <2>1. ASSUME NEW e \in Entity \ (Hashtags \union Walls), obj'[e].isNew PROVE e \in held'
    BY <2>1, Change(t, e) DEF Change, StoreInv, HeldInv
  <2>2. ASSUME NEW p \in Posts, row[p] # Absent PROVE p \in held' /\ ~obj'[p].isNew
    <3>1. p \in Entity /\ p \in held /\ ~obj[p].isNew
      BY <2>2 DEF StoreInv, HeldInv, Entity
    <3> QED
      BY <3>1, Change(t, p) DEF Change
  <2> QED
    BY <2>1, <2>2 DEF HeldInv
<1>4. LinkInv'
  <2>1. ASSUME NEW w \in Walls, NEW p \in obj'[w].links PROVE row[p] # Absent
    <3>1. w \in Entity
      BY DEF Entity
    <3> QED
      BY <2>1, <3>1, Change(t, w) DEF Change, StoreInv, LinkInv
  <2>2. ASSUME NEW p \in Posts \intersect held' PROVE links[p] \subseteq obj'[p].links
    <3>1. p \in Entity
      BY DEF Entity
    <3>2. p \in held => links[p] \subseteq obj[p].links
      BY DEF StoreInv, LinkInv
    <3>3. p \notin held => links[p] = {}
      BY DEF StoreInv, LinkInv, HeldInv
    <3> QED
      BY <3>1, <3>2, <3>3, Change(t, p) DEF Change
  <2> QED
    BY <2>1, <2>2 DEF LinkInv, StoreInv
<1> QED
  BY <1>1, <1>2, <1>3, <1>4

\* The saves under way: those there were, or new ones on the new objects.
LEMMA CalledFrames ==
    ASSUME StoreInv, NEW t \in Task, Handles(t), KinInv', HeldInv', LinkInv'
    PROVE  /\ stack' \in [Task -> Seq(AFrame)]
           /\ \A u \in Task \ {t} : stack'[u] = stack[u]
           /\ \/ stack'[t] = stack[t] /\ (stack[t] = <<>> \/ obj' = obj)
              \/ \A i \in DOMAIN stack'[t] :
                    /\ Entered(t, stack'[t][i])
                    /\ i < Len(stack'[t]) => stack'[t][i].at = "links"
<1>1. stack \in [Task -> Seq(AFrame)] /\ obj' \in [Entity -> AnObject] /\ held' \subseteq Entity
  BY DEF StoreInv, TypeInv, Handles
<1>2. CASE stack' = stack /\ (stack[t] = <<>> \/ obj' = obj)
  BY <1>1, <1>2
<1>3. CASE stack' = [stack EXCEPT ![t] = <<>>]
  BY <1>1, <1>3
<1>4. CASE /\ stack[t] = <<>>
           /\ \E e \in held' : (t = "refresh" => e \in Refreshed) /\ CallSave(t, e, obj')
  BY <1>1, <1>4, CallFrames DEF StoreInv
<1>5. ASSUME t = "worker", stack[t] = <<>>, NEW g \in Hashtags, obj'[g].isNew,
             stack' = [stack EXCEPT ![t] = <<Enter(g, obj'[g])>>]
      PROVE  /\ stack' \in [Task -> Seq(AFrame)]
             /\ \A u \in Task \ {t} : stack'[u] = stack[u]
             /\ \A i \in DOMAIN stack'[t] :
                   /\ Entered(t, stack'[t][i])
                   /\ i < Len(stack'[t]) => stack'[t][i].at = "links"
  <2> DEFINE f == Enter(g, obj'[g])
  <2>1. g \in Entity /\ obj'[g] \in AnObject
    BY <1>1 DEF Entity
  <2>2. f \in AFrame /\ Entered(t, f)
    BY <1>5, <2>1, EnterType DEF Entered
  <2>3. stack' = [stack EXCEPT ![t] = <<f>>]
    BY <1>5
  <2> HIDE DEF f
  <2>4. \A i \in DOMAIN <<f>> : <<f>>[i] = f /\ ~(i < Len(<<f>>))
    OBVIOUS
  <2> QED
    BY <1>1, <2>2, <2>3, <2>4
<1> QED
  BY <1>2, <1>3, <1>4, <1>5 DEF Handles, Called

\* The frames keep their form, and every variable its type.
LEMMA HandledFrames ==
    ASSUME StoreInv, NEW t \in Task, Handles(t), KinInv', HeldInv', LinkInv'
    PROVE  TypeInv' /\ FrameInv'
<1>1. TypeInv'
  BY CalledFrames DEF Handles, StoreInv, TypeInv
<1>2. ASSUME NEW u \in Task, NEW i \in DOMAIN stack'[u], Entered(u, stack'[u][i]),
             i < Len(stack'[u]) => stack'[u][i].at = "links"
      PROVE  LET f == stack'[u][i]
             IN  /\ i < Len(stack'[u]) => f.at = "links"
                 /\ f.insert => f.cols = Column
                 /\ f.of \in held' \union Hashtags \union Walls
                 /\ u = "refresh" => f.of \in Refreshed
  <2> DEFINE f == stack'[u][i]
             o == obj'[f.of]
  <2>1. f \in AFrame /\ f.of \in Entity /\ o \in AnObject
    BY <1>1, <1>2 DEF Entered, AFrame, TypeInv
  <2>2. f = Enter(f.of, o)
    BY <1>2 DEF Entered
  <2>3. f.insert => f.cols = Column
    BY <2>1, <2>2, EnterType
  <2>4. f.of \in held' \union Hashtags \union Walls
    BY <1>2, <2>1 DEF Entered, HeldInv
  <2> QED
    BY <1>2, <2>3, <2>4 DEF Entered
<1>3. ASSUME NEW u \in Task, NEW i \in DOMAIN stack[u], stack'[u] = stack[u]
      PROVE  LET f == stack'[u][i]
             IN  /\ i < Len(stack'[u]) => f.at = "links"
                 /\ f.insert => f.cols = Column
                 /\ f.of \in held' \union Hashtags \union Walls
                 /\ u = "refresh" => f.of \in Refreshed
  <2>1. held \subseteq held'
    BY DEF Handles
  <2> QED
    BY <1>3, <2>1 DEF StoreInv, FrameInv
<1>4. FrameInv'
  BY <1>2, <1>3, CalledFrames DEF FrameInv
<1> QED
  BY <1>1, <1>4

\* The order of the scalars.
LEMMA AtMostOrder ==
    /\ \A x \in Scalar : AtMost(x, x)
    /\ \A x, y, z \in Scalar : AtMost(x, y) /\ AtMost(y, z) => AtMost(x, z)
    /\ \A x, y \in Scalar : AtMost(x, y) /\ AtMost(y, x) => x = y
BY DEF AtMost, Scalar

\* A save that has just begun earns what the object earned.
LEMMA EnteredGrows ==
    ASSUME NEW t \in Task, NEW f, Entered(t, f), obj' \in [Entity -> AnObject],
           \A e \in Entity : AtMost(obj'[e].snap, obj'[e].now) /\ obj'[e].now.api <= version'
    PROVE  Earning(f) /\ f.sent.api <= version'
<1> DEFINE o == obj'[f.of]
<1>1. f.of \in Entity /\ o \in AnObject /\ f = Enter(f.of, o)
  BY DEF Entered, AFrame
<1>2. /\ f.sent = o.now /\ (f.insert <=> o.isNew)
      /\ f.cols = IF o.isNew THEN Column ELSE Changed(o)
  BY <1>1, EnterType
<1>3. AtMost(o.snap, o.now) /\ o.now.api <= version'
  BY <1>1
<1> QED
  BY <1>1, <1>2, <1>3, ChangedType DEF Earning

\* A frame under way is one.
LEMMA FrameType ==
    ASSUME TypeInv, NEW u \in Task, NEW i \in DOMAIN stack[u]
    PROVE  /\ stack[u][i] \in AFrame /\ stack[u][i].of \in Entity
           /\ stack[u][i].sent \in Scalar /\ stack[u][i].sent.api \in Nat
<1>1. stack[u] \in Seq(AFrame)
  BY DEF TypeInv
<1>2. stack[u][i] \in AFrame
  BY <1>1
<1> QED
  BY <1>2 DEF AFrame, Scalar

\* Values grow.
LEMMA HandledGrows ==
    ASSUME StoreInv, NEW t \in Task, Handles(t), TypeInv', KinInv', HeldInv', LinkInv'
    PROVE  GrowInv'
<1>1. /\ obj \in [Entity -> AnObject] /\ obj' \in [Entity -> AnObject]
      /\ row \in [Entity -> Scalar \union {Absent}] /\ row' = row
      /\ version \in Nat /\ version' \in Nat /\ version <= version'
  BY DEF StoreInv, TypeInv, Handles
<1>2. ASSUME NEW e \in Entity
      PROVE  AtMost(obj'[e].snap, obj'[e].now) /\ obj'[e].now.api <= version'
  <2>1. AtMost(obj[e].snap, obj[e].now) /\ obj[e].now.api <= version
    BY DEF StoreInv, GrowInv
  <2>2. /\ obj[e].snap \in Scalar /\ obj[e].now \in Scalar
        /\ obj'[e].snap \in Scalar /\ obj'[e].now \in Scalar
    BY <1>1 DEF AnObject
  <2>3. Change(t, e)
    BY DEF Handles
  <2>4. CASE obj'[e] = obj[e]
    BY <1>1, <2>1, <2>2, <2>4 DEF Scalar
  <2>5. CASE obj'[e].now.api <= version' /\ obj'[e].snap = obj[e].snap
             /\ AtMost(obj[e].now, obj'[e].now)
    BY <2>1, <2>2, <2>5, AtMostOrder
  <2>6. CASE obj'[e].now.api <= version' /\ obj'[e].snap = obj'[e].now
    BY <2>2, <2>6, AtMostOrder
  <2> QED
    BY <2>3, <2>4, <2>5, <2>6 DEF Change
<1>3. ASSUME NEW e \in Entity PROVE row'[e].api <= version'
  <2>1. row[e].api <= version /\ row[e].api \in Int
    BY <1>1 DEF StoreInv, GrowInv, Scalar, Absent
  <2> QED
    BY <1>1, <2>1
<1>4. ASSUME NEW u \in Task, NEW i \in DOMAIN stack'[u]
      PROVE  Earning(stack'[u][i]) /\ stack'[u][i].sent.api <= version'
  <2>1. CASE stack'[u] = stack[u]
    <3>1. Earning(stack[u][i]) /\ stack[u][i].sent.api <= version
      BY <2>1 DEF StoreInv, GrowInv
    <3>2. stack[u][i].sent.api \in Nat
      BY <2>1, FrameType DEF StoreInv
    <3> QED
      BY <1>1, <2>1, <3>1, <3>2
  <2>2. CASE u = t /\ Entered(t, stack'[u][i])
    BY <1>1, <1>2, <2>2, EnteredGrows
  <2> QED
    BY <2>1, <2>2, CalledFrames
<1> QED
  BY <1>2, <1>3, <1>4 DEF GrowInv

\* The links do not matter.
LEMMA BringingSame ==
    ASSUME NEW f, NEW o, NEW o2, NEW r, Bringing(f, o, r),
           o2.now = o.now, o2.snap = o.snap, o2.isNew = o.isNew
    PROVE  Bringing(f, o2, r)
BY DEF Bringing, Marked

\* What is marked stays marked, and a save brings what it was called for.
LEMMA HandledMarks ==
    ASSUME StoreInv, NEW t \in Task, Handles(t), TypeInv', KinInv', HeldInv', LinkInv'
    PROVE  MarkInv'
<1>1. /\ obj \in [Entity -> AnObject] /\ obj' \in [Entity -> AnObject]
      /\ row \in [Entity -> Scalar \union {Absent}] /\ row' = row
      /\ shared \subseteq shared' /\ held \subseteq held' /\ held' \subseteq Entity
  BY DEF StoreInv, TypeInv, Handles
<1>2. ASSUME NEW e \in held' \ shared' PROVE Marked(obj'[e], row'[e])
  <2>1. /\ obj[e].snap \in Scalar /\ obj[e].now \in Scalar
        /\ obj'[e].snap \in Scalar /\ obj'[e].now \in Scalar
    BY <1>1 DEF AnObject
  <2>2. Change(t, e)
    BY <1>1 DEF Handles
  <2>3. e \in held => Marked(obj[e], row[e])
    BY <1>1 DEF StoreInv, MarkInv
  <2>4. CASE obj'[e] = obj[e] /\ e \in held
    BY <1>1, <2>3, <2>4
  <2>5. CASE e \in held /\ obj'[e].snap = obj[e].snap /\ obj'[e].isNew = obj[e].isNew
             /\ AtMost(obj[e].now, obj'[e].now)
    <3>1. row[e] # Absent => row[e] \in Scalar
      BY <1>1
    <3> QED
      BY <1>1, <2>1, <2>3, <2>5, <3>1, AtMostOrder DEF Marked
  <2>6. CASE obj'[e].isNew
    BY <2>6 DEF Marked
  <2> QED
    BY <2>2, <2>4, <2>5, <2>6 DEF Change
<1>3. ASSUME NEW u \in Task, NEW i \in DOMAIN stack[u], stack'[u] = stack[u],
             u # t \/ obj' = obj, stack[u][i].of \notin shared'
      PROVE  Bringing(stack[u][i], obj'[stack[u][i].of], row'[stack[u][i].of])
  <2> DEFINE f == stack[u][i]
             e == f.of
  <2>1. e \in Entity
    BY FrameType DEF StoreInv
  <2>2. Bringing(f, obj[e], row[e])
    BY <1>1, <1>3 DEF StoreInv, MarkInv
  <2>3. CASE u = t
    BY <1>1, <1>3, <2>2, <2>3
  <2>4. CASE u # t
    <3>1. InFlight(e, Task \ {t})
      BY <2>4 DEF InFlight
    <3>2. Change(t, e)
      BY <2>1 DEF Handles
    <3>3. \/ obj'[e] = obj[e]
          \/ /\ e \in held /\ obj'[e].now = obj[e].now /\ obj'[e].snap = obj[e].snap
             /\ obj'[e].isNew = obj[e].isNew
      BY <1>3, <3>1, <3>2 DEF Change
    <3>4. Bringing(f, obj'[e], row[e])
      BY <2>2, <3>3, BringingSame
    <3> QED
      BY <1>1, <3>4
  <2> QED
    BY <2>3, <2>4
<1>4. ASSUME NEW i \in DOMAIN stack'[t], Entered(t, stack'[t][i]), stack'[t][i].of \notin shared'
      PROVE  Bringing(stack'[t][i], obj'[stack'[t][i].of], row'[stack'[t][i].of])
  <2> DEFINE f == stack'[t][i]
             o == obj'[f.of]
  <2>1. f.of \in Entity /\ f = Enter(f.of, o) /\ (f.of \in held' \/ o.isNew)
    BY <1>4 DEF Entered, AFrame
  <2>2. Marked(o, row'[f.of])
    BY <1>2, <1>4, <2>1 DEF Marked
  <2>3. o \in AnObject /\ row'[f.of] \in Scalar \union {Absent}
    BY <1>1, <2>1
  <2>4. Bringing(Enter(f.of, o), o, row'[f.of])
    BY <2>1, <2>2, <2>3, MarkedEnter
  <2> QED
    BY <2>1, <2>4
<1>5. ASSUME NEW u \in Task, NEW i \in DOMAIN stack'[u], stack'[u][i].of \notin shared'
      PROVE  Bringing(stack'[u][i], obj'[stack'[u][i].of], row'[stack'[u][i].of])
  <2>1. CASE stack'[u] = stack[u] /\ (u # t \/ obj' = obj)
    BY <1>3, <1>5, <2>1
  <2>2. CASE u = t /\ Entered(t, stack'[t][i])
    BY <1>4, <1>5, <2>2
  <2> QED
    BY <1>5, <2>1, <2>2, CalledFrames
<1> QED
  BY <1>2, <1>5 DEF MarkInv

\* So a handler keeps the invariant.
LEMMA HandledKeeps ==
    ASSUME StoreInv, NEW t \in Task, Handles(t)
    PROVE  StoreInv'
BY HandledObjects, HandledFrames, HandledGrows, HandledMarks DEF StoreInv

-----------------------------------------------------------------------------
(* Each handler is one.                                                    *)

\* The classes and their junction fields.
LEMMA Classes ==
    /\ \A m \in Content : Kin(m) = Variants /\ m \notin Walls \union Posts \union Refreshed
    /\ \A a \in Accounts : Kin(a) = Avatars /\ a \notin Walls \union Posts \union Medias
    /\ \A w \in Walls : Kin(w) = Posts /\ w \notin Posts
    /\ \A p \in Posts : Kin(p) = Hashtags /\ p \notin Walls \union Refreshed \union Hashtags
    /\ \A e \in Variants \union Avatars \union Hashtags :
          Kin(e) = {} /\ e \notin Walls \union Posts \union Content \union Accounts
    /\ \A g \in Hashtags : g \notin Refreshed
    /\ Content \subseteq Entity /\ Accounts \subseteq Entity /\ Walls \subseteq Entity
    /\ Posts \subseteq Entity /\ Hashtags \subseteq Entity /\ Variants \subseteq Entity
    /\ Avatars \subseteq Entity /\ Content \subseteq Medias
BY StoreAssumption DEF Kin, Content, Refreshed, Entity

\* The refresh saves nothing but its own.
LEMMA NotRefreshing ==
    ASSUME StoreInv, NEW e, e \notin Refreshed
    PROVE  ~InFlight(e, Task \ {"worker"})
BY DEF StoreInv, FrameInv, InFlight, Task

\* A new object is its snapshot.
LEMMA ConstructedType ==
    ASSUME NEW v \in Nat, NEW ls \in SUBSET Entity
    PROVE  LET o == Constructed(v, ls)
           IN  o \in AnObject /\ o.now.api = v /\ o.isNew /\ o.snap = o.now /\ o.links = ls
<1> DEFINE vals == [api |-> v, file |-> FALSE, stash |-> FALSE]
<1>1. vals \in Scalar /\ vals.api = v
  BY DEF Scalar
<1>2. Constructed(v, ls) = [now |-> vals, snap |-> vals, links |-> ls, isNew |-> TRUE]
  BY DEF Constructed
<1> HIDE DEF vals
<1> QED
  BY <1>1, <1>2 DEF AnObject

\* What validation makes of an entity.
LEMMA ValidatedType ==
    ASSUME StoreInv, NEW e \in Entity
    PROVE  LET o == Validated(e, version)
           IN  /\ o \in AnObject /\ o.now.api <= version
               /\ \/ /\ e \in held /\ o.snap = obj[e].snap /\ o.isNew = obj[e].isNew
                     /\ o.links = obj[e].links /\ AtMost(obj[e].now, o.now)
                  \/ e \notin held /\ o.isNew /\ o.snap = o.now /\ o.links = {}
<1>1. obj[e] \in AnObject /\ version \in Nat /\ obj[e].now.api <= version
  BY DEF StoreInv, TypeInv, GrowInv
<1>2. CASE e \in held
  <2>1. Validated(e, version) = [obj[e] EXCEPT !.now.api = version]
    BY <1>2 DEF Validated, Merged
  <2> QED
    BY <1>1, <1>2, <2>1 DEF AnObject, Scalar, AtMost
<1>3. CASE e \notin held
  <2>1. Validated(e, version) = Constructed(version, {})
    BY <1>3 DEF Validated
  <2> QED
    BY <1>1, <1>3, <2>1, ConstructedType
<1> QED
  BY <1>2, <1>3

\* An entity that was received, with the links ls.
LEMMA ReceivedChange ==
    ASSUME StoreInv, NEW t \in Task, NEW e \in Entity, e \in held', version' = version,
           NEW ls, NEW o, o = Validated(e, version), obj'[e] = [o EXCEPT !.links = ls],
           ls \subseteq Kin(e), e \in Walls => \A p \in ls : row[p] # Absent,
           e \in Posts => o.links \subseteq ls,
           InFlight(e, Task \ {t}) => e \in shared'
    PROVE  Change(t, e) /\ obj'[e] \in AnObject
<1>1. /\ o \in AnObject /\ o.now.api <= version
      /\ \/ /\ e \in held /\ o.snap = obj[e].snap /\ o.isNew = obj[e].isNew
            /\ o.links = obj[e].links /\ AtMost(obj[e].now, o.now)
         \/ e \notin held /\ o.isNew /\ o.snap = o.now /\ o.links = {}
  BY ValidatedType
<1>2. /\ obj'[e].now = o.now /\ obj'[e].snap = o.snap /\ obj'[e].isNew = o.isNew
      /\ obj'[e].links = ls
  BY <1>1 DEF AnObject
<1>3. Kin(e) \subseteq Entity
  BY StoreAssumption DEF Kin, Entity, Content
<1>4. obj'[e] \in AnObject
  BY <1>1, <1>3 DEF AnObject
<1>5. Change(t, e)
  BY <1>1, <1>2 DEF Change
<1> QED
  BY <1>4, <1>5

\* An entity that was received as it is.
LEMMA PlainChange ==
    ASSUME StoreInv, NEW t \in Task, NEW e \in Entity, e \in held', version' = version,
           obj'[e] = Validated(e, version),
           InFlight(e, Task \ {t}) => e \in shared'
    PROVE  Change(t, e) /\ obj'[e] \in AnObject
<1> DEFINE o == Validated(e, version)
<1>1. /\ o \in AnObject
      /\ \/ e \in held /\ o.links = obj[e].links
         \/ o.links = {}
  BY ValidatedType
<1>2. o.links \subseteq Kin(e) /\ (e \in Walls => \A p \in o.links : row[p] # Absent)
  BY <1>1 DEF StoreInv, KinInv, LinkInv
<1>3. o = [o EXCEPT !.links = o.links]
  BY <1>1 DEF AnObject
<1> HIDE DEF o
<1>4. obj'[e] = [o EXCEPT !.links = o.links]
  BY <1>3 DEF o
<1> QED
  BY <1>2, <1>4, ReceivedChange DEF o

\* An object in the map with other links, or more earned.
LEMMA ObjectChange ==
    ASSUME StoreInv, NEW t \in Task, NEW e \in held, held' = held, version' = version,
           NEW o, o = obj[e], obj'[e] \in AnObject,
           obj'[e].snap = o.snap, obj'[e].isNew = o.isNew,
           obj'[e].now.api = o.now.api, AtMost(o.now, obj'[e].now),
           o.links \subseteq obj'[e].links, obj'[e].links \subseteq Kin(e),
           e \in Walls => \A p \in obj'[e].links : row[p] # Absent,
           obj'[e].now = o.now \/ (InFlight(e, Task \ {t}) => e \in shared')
    PROVE  Change(t, e)
<1>1. e \in Entity /\ obj[e].now.api <= version
  BY DEF StoreInv, TypeInv, GrowInv
<1> QED
  BY <1>1 DEF Change

\* What most handlers leave alone.
LEMMA HandledIf ==
    ASSUME StoreInv, NEW t \in Task, toLoad = {}, UNCHANGED <<row, links, toLoad, version>>,
           held \subseteq held', held' \subseteq Entity, shared \subseteq shared',
           shared' \subseteq Entity,
           \/ walk' = walk \/ walk' = Idle
           \/ \E p \in Posts \intersect held', g \in Hashtags : walk' = Tagging(p, g),
           stamped' \subseteq stamped \union (Content \intersect held'),
           obj' \in [Entity -> AnObject], \A e \in Entity : Change(t, e), Called(t)
    PROVE  Handles(t)
<1>1. version' \in Nat /\ version <= version'
  BY DEF StoreInv, TypeInv
<1>2. walk' = Idle \/ \E p \in Posts \intersect held', g \in Hashtags : walk' = Tagging(p, g)
  BY DEF StoreInv, TypeInv
<1>3. stamped' \subseteq Content \intersect held'
  BY DEF StoreInv, TypeInv
<1> QED
  BY <1>1, <1>2, <1>3 DEF Handles

\* Assigning is remembered.
LEMMA AssignedShared ==
    ASSUME StoreInv, NEW t \in Task, NEW es \in SUBSET Entity, Assigned(t, es)
    PROVE  /\ shared \subseteq shared' /\ shared' \subseteq Entity
           /\ \A e \in es : InFlight(e, Task \ {t}) => e \in shared'
BY DEF Assigned, StoreInv, TypeInv

\* process_media_info.
LEMMA MediaHandled ==
    ASSUME StoreInv, NEW m \in Medias, ReceiveMedia(m)
    PROVE  Handles("worker")
<1> DEFINE es == {m} \union Variants
<1>1. /\ m \in Content /\ toLoad = {} /\ stack["worker"] = <<>> /\ "worker" \in Task
      /\ es \subseteq Entity
  BY Classes DEF ReceiveMedia, Ready, Free, Task
<1>2. /\ obj' = [e \in Entity |->
                    IF e = m THEN [Validated(m, version) EXCEPT !.links = Variants]
                    ELSE IF e \in Variants THEN Validated(e, version)
                    ELSE obj[e]]
      /\ CallSave("worker", m, obj')
      /\ held' = held \union es /\ Assigned("worker", es)
      /\ UNCHANGED <<row, links, walk, stamped, toLoad, version, troubles>>
  BY DEF ReceiveMedia, Cached
<1>3. /\ shared \subseteq shared' /\ shared' \subseteq Entity
      /\ \A e \in es : InFlight(e, Task \ {"worker"}) => e \in shared'
  BY <1>1, <1>2, AssignedShared
<1>4. Change("worker", m) /\ obj'[m] \in AnObject
  <2>1. /\ m \in Entity /\ m \in held' /\ version' = version /\ m \notin Walls \union Posts
        /\ InFlight(m, Task \ {"worker"}) => m \in shared'
        /\ Variants \subseteq Kin(m)
        /\ obj'[m] = [Validated(m, version) EXCEPT !.links = Variants]
    BY <1>1, <1>2, <1>3, Classes
  <2> QED
    BY <1>1, <2>1, ReceivedChange
<1>5. ASSUME NEW e \in Variants, e # m PROVE Change("worker", e) /\ obj'[e] \in AnObject
  <2>1. /\ e \in Entity /\ e \in held' /\ version' = version
        /\ InFlight(e, Task \ {"worker"}) => e \in shared'
        /\ obj'[e] = Validated(e, version)
    BY <1>1, <1>2, <1>3, <1>5, Classes
  <2> QED
    BY <1>1, <2>1, PlainChange
<1>6. ASSUME NEW e \in Entity \ es PROVE Change("worker", e) /\ obj'[e] \in AnObject
  BY <1>2, <1>6 DEF Change, StoreInv, TypeInv
<1>7. obj' \in [Entity -> AnObject] /\ \A e \in Entity : Change("worker", e)
  BY <1>2, <1>4, <1>5, <1>6
<1>8. Called("worker")
  BY <1>1, <1>2 DEF Called
<1>9. held \subseteq held' /\ held' \subseteq Entity
  BY <1>1, <1>2 DEF StoreInv, TypeInv
<1> QED
  BY <1>1, <1>2, <1>3, <1>7, <1>8, <1>9, HandledIf

\* process_account_data, of either task.
LEMMA AccountHandled ==
    ASSUME StoreInv, NEW t \in Task, NEW a \in Accounts, ReceiveAccount(t, a)
    PROVE  Handles(t)
<1> DEFINE es == {a} \union Avatars
<1>1. toLoad = {} /\ stack[t] = <<>> /\ es \subseteq Entity
  BY Classes DEF ReceiveAccount, Ready, Free
<1>2. /\ obj' = [e \in Entity |->
                    IF e = a THEN [Validated(a, version) EXCEPT !.links = Avatars]
                    ELSE IF e \in Avatars THEN Validated(e, version)
                    ELSE obj[e]]
      /\ CallSave(t, a, obj')
      /\ held' = held \union es /\ Assigned(t, es)
      /\ UNCHANGED <<row, links, walk, stamped, toLoad, version, troubles>>
  BY DEF ReceiveAccount, Cached
<1>3. /\ shared \subseteq shared' /\ shared' \subseteq Entity
      /\ \A e \in es : InFlight(e, Task \ {t}) => e \in shared'
  BY <1>1, <1>2, AssignedShared
<1>4. Change(t, a) /\ obj'[a] \in AnObject
  <2>1. /\ a \in Entity /\ a \in held' /\ version' = version /\ a \notin Walls \union Posts
        /\ InFlight(a, Task \ {t}) => a \in shared'
        /\ Avatars \subseteq Kin(a)
        /\ obj'[a] = [Validated(a, version) EXCEPT !.links = Avatars]
    BY <1>1, <1>2, <1>3, Classes
  <2> QED
    BY <2>1, ReceivedChange
<1>5. ASSUME NEW e \in Avatars, e # a PROVE Change(t, e) /\ obj'[e] \in AnObject
  <2>1. /\ e \in Entity /\ e \in held' /\ version' = version
        /\ InFlight(e, Task \ {t}) => e \in shared'
        /\ obj'[e] = Validated(e, version)
    BY <1>1, <1>2, <1>3, <1>5, Classes
  <2> QED
    BY <2>1, PlainChange
<1>6. ASSUME NEW e \in Entity \ es PROVE Change(t, e) /\ obj'[e] \in AnObject
  BY <1>2, <1>6 DEF Change, StoreInv, TypeInv
<1>7. obj' \in [Entity -> AnObject] /\ \A e \in Entity : Change(t, e)
  BY <1>2, <1>4, <1>5, <1>6
<1>8. Called(t)
  BY <1>1, <1>2 DEF Called, Refreshed
<1>9. held \subseteq held' /\ held' \subseteq Entity
  BY <1>1, <1>2 DEF StoreInv, TypeInv
<1> QED
  BY <1>1, <1>2, <1>3, <1>7, <1>8, <1>9, HandledIf

\* An entity received as it is: a wall of the listing, or a post.
LEMMA PlainHandled ==
    ASSUME StoreInv, NEW t \in Task, NEW e \in Entity,
           toLoad = {}, stack[t] = <<>>, t = "refresh" => e \in Refreshed,
           obj' = [obj EXCEPT ![e] = Validated(e, version)], held' = held \union {e},
           Assigned(t, {e}), stamped' = stamped, walk' = walk,
           UNCHANGED <<row, links, toLoad, version>>,
           CallSave(t, e, obj') \/ stack' = stack
    PROVE  Handles(t)
<1>1. /\ shared \subseteq shared' /\ shared' \subseteq Entity
      /\ InFlight(e, Task \ {t}) => e \in shared'
  BY AssignedShared
<1>2. obj \in [Entity -> AnObject] /\ held \subseteq Entity
  BY DEF StoreInv, TypeInv
<1>3. Change(t, e) /\ obj'[e] \in AnObject
  <2>1. obj'[e] = Validated(e, version) /\ e \in held' /\ version' = version
    BY <1>2
  <2> QED
    BY <1>1, <2>1, PlainChange
<1>4. ASSUME NEW x \in Entity \ {e} PROVE Change(t, x) /\ obj'[x] \in AnObject
  BY <1>2, <1>4 DEF Change
<1>5. obj' \in [Entity -> AnObject] /\ \A x \in Entity : Change(t, x)
  BY <1>2, <1>3, <1>4
<1>6. Called(t)
  BY DEF Called
<1> QED
  BY <1>1, <1>2, <1>5, <1>6, HandledIf

\* process_account_walls for a wall that is listed.
LEMMA WallHandled ==
    ASSUME StoreInv, NEW t \in Task, NEW w \in Walls, ReceiveWall(t, w)
    PROVE  Handles(t)
<1>1. toLoad = {} /\ stack[t] = <<>> /\ w \in Entity /\ w \in Refreshed
  BY Classes DEF ReceiveWall, Ready, Free, Refreshed
<1>2. /\ obj' = [obj EXCEPT ![w] = Validated(w, version)] /\ CallSave(t, w, obj')
      /\ held' = held \union {w} /\ Assigned(t, {w})
      /\ UNCHANGED <<row, links, walk, stamped, toLoad, version, troubles>>
  BY DEF ReceiveWall, Cached
<1> QED
  BY <1>1, <1>2, PlainHandled

\* _process_timeline_post without a hashtag.
LEMMA UntaggedHandled ==
    ASSUME StoreInv, NEW p \in Posts, ReceiveUntagged(p)
    PROVE  Handles("worker")
<1>1. toLoad = {} /\ stack["worker"] = <<>> /\ p \in Entity /\ "worker" \in Task
  BY Classes DEF ReceiveUntagged, Ready, Free, Task
<1>2. /\ obj' = [obj EXCEPT ![p] = Validated(p, version)] /\ CallSave("worker", p, obj')
      /\ held' = held \union {p} /\ Assigned("worker", {p})
      /\ UNCHANGED <<row, links, walk, stamped, toLoad, version, troubles>>
  BY DEF ReceiveUntagged, Cached
<1> QED
  BY <1>1, <1>2, PlainHandled

\* _process_timeline_post with a hashtag.
LEMMA PostHandled ==
    ASSUME StoreInv, NEW p \in Posts, NEW g \in Hashtags, ReceivePost(p, g)
    PROVE  Handles("worker")
<1> DEFINE os == [obj EXCEPT ![p] = Validated(p, version)]
           o == Validated(p, version)
<1>1. /\ toLoad = {} /\ stack["worker"] = <<>> /\ p \in Entity /\ g \in Entity /\ p # g
      /\ "worker" \in Task /\ g \notin Refreshed /\ Kin(p) = Hashtags /\ Kin(g) = {}
      /\ p \notin Walls /\ g \notin Walls \union Posts
  BY Classes DEF ReceivePost, Ready, Free, Task
<1>2. /\ held' = held \union {p} /\ Assigned("worker", {p})
      /\ UNCHANGED <<row, links, stamped, toLoad, version, troubles>>
  BY DEF ReceivePost, Cached
<1>3. \/ /\ g \in held /\ obj' = [os EXCEPT ![p].links = @ \union {g}]
         /\ CallSave("worker", p, obj') /\ walk' = Idle
      \/ /\ g \notin held /\ obj' = [os EXCEPT ![g] = Constructed(0, {})]
         /\ stack' = [stack EXCEPT !["worker"] = Append(@, Enter(g, obj'[g]))]
         /\ walk' = Tagging(p, g)
      \/ obj' = os /\ stack' = stack /\ walk' = walk
  BY DEF ReceivePost
<1>4. /\ shared \subseteq shared' /\ shared' \subseteq Entity
      /\ InFlight(p, Task \ {"worker"}) => p \in shared'
  BY <1>1, <1>2, AssignedShared
<1>5. /\ obj \in [Entity -> AnObject] /\ held \subseteq held' /\ held' \subseteq Entity
      /\ stack \in [Task -> Seq(AFrame)] /\ version' = version
  BY <1>1, <1>2 DEF StoreInv, TypeInv
<1>6. o \in AnObject /\ o.links \subseteq Hashtags
  BY <1>1, ValidatedType DEF StoreInv, KinInv
<1>7. CASE /\ g \in held /\ obj' = [os EXCEPT ![p].links = @ \union {g}]
           /\ CallSave("worker", p, obj') /\ walk' = Idle
  <2>1. Change("worker", p) /\ obj'[p] \in AnObject
    <3>1. obj'[p] = [o EXCEPT !.links = o.links \union {g}]
      BY <1>1, <1>5, <1>7
    <3>2. o.links \union {g} \subseteq Kin(p) /\ p \in held'
      BY <1>1, <1>2, <1>6
    <3> HIDE DEF o
    <3>3. o.links \subseteq o.links \union {g}
      OBVIOUS
    <3> QED
      BY <1>1, <1>4, <1>5, <3>1, <3>2, <3>3, ReceivedChange DEF o
  <2>2. ASSUME NEW x \in Entity \ {p} PROVE Change("worker", x) /\ obj'[x] \in AnObject
    BY <1>2, <1>5, <1>7, <2>2 DEF Change
  <2>3. obj' \in [Entity -> AnObject] /\ \A x \in Entity : Change("worker", x)
    <3>1. \A x \in Entity : Change("worker", x) /\ obj'[x] \in AnObject
      BY <2>1, <2>2
    <3>2. obj' = [x \in Entity |-> obj'[x]]
      BY <1>5, <1>7
    <3> QED
      BY <3>1, <3>2
  <2>4. Called("worker")
    BY <1>1, <1>2, <1>7 DEF Called
  <2> QED
    BY <1>1, <1>2, <1>4, <1>5, <1>7, <2>3, <2>4, HandledIf
<1>8. CASE /\ g \notin held /\ obj' = [os EXCEPT ![g] = Constructed(0, {})]
           /\ stack' = [stack EXCEPT !["worker"] = Append(@, Enter(g, obj'[g]))]
           /\ walk' = Tagging(p, g)
  <2>1. Change("worker", p) /\ obj'[p] \in AnObject
    <3>1. obj'[p] = o /\ p \in held'
      BY <1>1, <1>2, <1>5, <1>8
    <3> QED
      BY <1>1, <1>4, <1>5, <3>1, PlainChange
  <2>2. ASSUME NEW x \in Entity \ {p, g} PROVE Change("worker", x) /\ obj'[x] \in AnObject
    BY <1>2, <1>5, <1>8, <2>2 DEF Change
  <2>3. /\ obj'[g] \in AnObject /\ obj'[g].now.api = 0 /\ obj'[g].isNew
        /\ obj'[g].snap = obj'[g].now /\ obj'[g].links = {}
    <3>1. obj'[g] = Constructed(0, {})
      BY <1>1, <1>5, <1>8
    <3> QED
      BY <3>1, ConstructedType
  <2>4. Change("worker", g)
    <3>1. ~InFlight(g, Task \ {"worker"})
      BY <1>1, NotRefreshing
    <3>2. version \in Nat
      BY DEF StoreInv, TypeInv
    <3> QED
      BY <1>1, <1>5, <1>8, <2>3, <3>1, <3>2 DEF Change
  <2>5. obj' \in [Entity -> AnObject] /\ \A x \in Entity : Change("worker", x)
    <3>1. \A x \in Entity : Change("worker", x) /\ obj'[x] \in AnObject
      BY <2>1, <2>2, <2>3, <2>4
    <3>2. obj' = [x \in Entity |-> obj'[x]]
      BY <1>5, <1>8
    <3> QED
      BY <3>1, <3>2
  <2>6. Called("worker")
    <3>1. stack' = [stack EXCEPT !["worker"] = <<Enter(g, obj'[g])>>]
      BY <1>1, <1>5, <1>8
    <3> QED
      BY <1>1, <2>3, <3>1 DEF Called
  <2>7. walk' = Tagging(p, g) /\ p \in held'
    BY <1>2, <1>8
  <2> QED
    BY <1>1, <1>2, <1>4, <1>5, <2>5, <2>6, <2>7, HandledIf
<1>9. CASE obj' = os /\ stack' = stack /\ walk' = walk
  BY <1>1, <1>2, <1>9, PlainHandled
<1> QED
  BY <1>3, <1>7, <1>8, <1>9

\* An object in the map that is assigned to, and then saved or not.
LEMMA ObjectHandled ==
    ASSUME StoreInv, NEW t \in Task, NEW e \in held, NEW o, o = obj[e],
           toLoad = {}, stack[t] = <<>>, t = "refresh" => e \in Refreshed,
           UNCHANGED <<row, links, toLoad, version, held>>,
           shared \subseteq shared', shared' \subseteq Entity, walk' = walk \/ walk' = Idle,
           stamped' \subseteq stamped \union (Content \intersect {e}),
           NEW new \in AnObject, obj' = [obj EXCEPT ![e] = new],
           new.snap = o.snap, new.isNew = o.isNew, new.now.api = o.now.api,
           AtMost(o.now, new.now), o.links \subseteq new.links, new.links \subseteq Kin(e),
           e \in Walls => \A p \in new.links : row[p] # Absent,
           new.now = o.now \/ (InFlight(e, Task \ {t}) => e \in shared'),
           CallSave(t, e, obj') \/ stack' = stack
    PROVE  Handles(t)
<1>1. obj \in [Entity -> AnObject] /\ held \subseteq Entity
  BY DEF StoreInv, TypeInv
<1>2. Change(t, e)
  <2>1. obj'[e] = new
    BY <1>1
  <2> QED
    BY <2>1, ObjectChange
<1>3. obj' \in [Entity -> AnObject] /\ \A x \in Entity : Change(t, x)
  <2>1. \A x \in Entity \ {e} : Change(t, x)
    BY <1>1 DEF Change
  <2> QED
    BY <1>1, <1>2, <2>1
<1>4. Called(t)
  BY DEF Called
<1> QED
  BY <1>1, <1>3, <1>4, HandledIf

\* What the map holds of an entity.
LEMMA ObjectType ==
    ASSUME StoreInv, NEW e \in Entity
    PROVE  /\ obj[e] \in AnObject /\ obj[e].now \in Scalar /\ obj[e].snap \in Scalar
           /\ obj[e].links \subseteq Kin(e) /\ Kin(e) \subseteq Entity
           /\ e \in Walls => \A p \in obj[e].links : row[p] # Absent
BY StoreAssumption DEF StoreInv, TypeInv, KinInv, LinkInv, AnObject, Kin, Entity, Content

\* Another link.
LEMMA LinkedHandled ==
    ASSUME StoreInv, NEW e \in held, NEW x \in Kin(e), e \in Walls => row[x] # Absent,
           toLoad = {}, stack["worker"] = <<>>,
           UNCHANGED <<row, links, toLoad, version, held, shared, stamped>>,
           walk' = walk \/ walk' = Idle,
           obj' = [obj EXCEPT ![e].links = @ \union {x}], CallSave("worker", e, obj')
    PROVE  Handles("worker")
<1> DEFINE new == [obj[e] EXCEPT !.links = @ \union {x}]
<1>1. e \in Entity /\ "worker" \in Task /\ shared \subseteq Entity
  BY DEF StoreInv, TypeInv, Task
<1>2. /\ obj[e] \in AnObject /\ obj[e].now \in Scalar /\ obj[e].links \subseteq Kin(e)
      /\ Kin(e) \subseteq Entity /\ (e \in Walls => \A p \in obj[e].links : row[p] # Absent)
  BY <1>1, ObjectType
<1>3. /\ new \in AnObject /\ new.snap = obj[e].snap /\ new.isNew = obj[e].isNew
      /\ new.now = obj[e].now /\ new.links = obj[e].links \union {x}
  BY <1>2 DEF AnObject
<1>4. obj' = [obj EXCEPT ![e] = new]
  OBVIOUS
<1> HIDE DEF new
<1>5. AtMost(obj[e].now, new.now) /\ new.now.api = obj[e].now.api
  BY <1>2, <1>3, AtMostOrder
<1>6. /\ obj[e].links \subseteq new.links /\ new.links \subseteq Kin(e)
      /\ (e \in Walls => \A p \in new.links : row[p] # Absent)
  BY <1>2, <1>3
<1> QED
  BY <1>1, <1>3, <1>4, <1>5, <1>6, ObjectHandled

\* A hashtag has its id, or a wall's posts are in.
LEMMA LinkHandled ==
    ASSUME StoreInv, LinkTag \/ \E w \in Walls, p \in Posts : ReceiveWallPosts(w, p)
    PROVE  Handles("worker")
<1>1. CASE LinkTag
  <2>1. walk # Idle
    BY <1>1 DEF LinkTag, Idle
  <2>2. PICK p \in Posts \intersect held, g \in Hashtags : walk = Tagging(p, g)
    BY <2>1 DEF StoreInv, TypeInv
  <2>3. walk[2] = p /\ walk[3] = g
    BY <2>2 DEF Tagging
  <2>4. /\ toLoad = {} /\ stack["worker"] = <<>> /\ walk' = Idle
        /\ obj' = [obj EXCEPT ![p].links = @ \union {g}] /\ CallSave("worker", p, obj')
        /\ UNCHANGED <<row, links, toLoad, version, held, shared, stamped>>
    BY <1>1, <2>3 DEF LinkTag
  <2>5. g \in Kin(p) /\ p \notin Walls
    BY Classes
  <2> QED
    BY <2>4, <2>5, LinkedHandled
<1>2. ASSUME NEW w \in Walls, NEW p \in Posts, ReceiveWallPosts(w, p)
      PROVE  Handles("worker")
  <2>1. /\ toLoad = {} /\ stack["worker"] = <<>> /\ w \in held /\ row[p] # Absent
        /\ obj' = [obj EXCEPT ![w].links = @ \union {p}] /\ CallSave("worker", w, obj')
        /\ UNCHANGED <<row, links, toLoad, version, held, shared, stamped, walk>>
    BY <1>2 DEF ReceiveWallPosts, Ready, Free
  <2>2. p \in Kin(w)
    BY Classes
  <2> QED
    BY <2>1, <2>2, LinkedHandled
<1> QED
  BY <1>1, <1>2

\* A column that is earned comes on top.
LEMMA EarnedScalar ==
    ASSUME NEW x \in Scalar, NEW y, y = [x EXCEPT !.file = TRUE] \/ y = [x EXCEPT !.stash = TRUE]
    PROVE  y \in Scalar /\ y.api = x.api /\ AtMost(x, y)
<1>1. x = [api |-> x.api, file |-> x.file, stash |-> x.stash]
      /\ x.api \in Nat /\ x.file \in BOOLEAN /\ x.stash \in BOOLEAN
  BY DEF Scalar
<1>2. \/ y = [api |-> x.api, file |-> TRUE, stash |-> x.stash]
      \/ y = [api |-> x.api, file |-> x.file, stash |-> TRUE]
  BY <1>1
<1>3. CASE y = [api |-> x.api, file |-> TRUE, stash |-> x.stash]
  <2>1. y \in Scalar /\ y.api = x.api
    BY <1>1, <1>3 DEF Scalar
  <2>2. y.stash = x.stash /\ y.file
    BY <1>3
  <2> QED
    BY <1>1, <2>1, <2>2 DEF AtMost
<1>4. CASE y = [api |-> x.api, file |-> x.file, stash |-> TRUE]
  <2>1. y \in Scalar /\ y.api = x.api
    BY <1>1, <1>4 DEF Scalar
  <2>2. y.file = x.file /\ y.stash
    BY <1>4
  <2> QED
    BY <1>1, <2>1, <2>2 DEF AtMost
<1> QED
  BY <1>2, <1>3, <1>4

\* What is earned: a file, or an id of the Stash server.
LEMMA EarnedObject ==
    ASSUME StoreInv, NEW e \in Entity, NEW new,
           \/ new = [obj[e] EXCEPT !.now.file = TRUE]
           \/ new = [obj[e] EXCEPT !.now.stash = TRUE]
    PROVE  /\ new \in AnObject /\ new.snap = obj[e].snap /\ new.isNew = obj[e].isNew
           /\ new.now.api = obj[e].now.api /\ AtMost(obj[e].now, new.now)
           /\ new.links = obj[e].links
<1>1. obj[e] \in AnObject /\ obj[e].now \in Scalar
  BY ObjectType
<1>2. CASE new = [obj[e] EXCEPT !.now.file = TRUE]
  <2>1. new.now = [obj[e].now EXCEPT !.file = TRUE]
    BY <1>1, <1>2 DEF AnObject
  <2>2. new.now \in Scalar /\ new.now.api = obj[e].now.api /\ AtMost(obj[e].now, new.now)
    BY <1>1, <2>1, EarnedScalar
  <2> QED
    BY <1>1, <1>2, <2>2 DEF AnObject
<1>3. CASE new = [obj[e] EXCEPT !.now.stash = TRUE]
  <2>1. new.now = [obj[e].now EXCEPT !.stash = TRUE]
    BY <1>1, <1>3 DEF AnObject
  <2>2. new.now \in Scalar /\ new.now.api = obj[e].now.api /\ AtMost(obj[e].now, new.now)
    BY <1>1, <2>1, EarnedScalar
  <2> QED
    BY <1>1, <1>3, <2>2 DEF AnObject
<1> QED
  BY <1>2, <1>3

\* The downloader and the Stash pass assign what they earned.
LEMMA EarnHandled ==
    ASSUME StoreInv, NEW e, RecordFile(e) \/ AssignPerformer(e) \/ AssignStashId(e)
    PROVE  Handles("worker")
<1>1. "worker" \in Task /\ held \subseteq Entity /\ shared \subseteq Entity
      /\ obj \in [Entity -> AnObject]
  BY DEF StoreInv, TypeInv, Task
<1>2. /\ e \in held /\ toLoad = {} /\ stack["worker"] = <<>>
      /\ UNCHANGED <<row, links, toLoad, version, held, walk>>
  BY <1>1 DEF RecordFile, AssignPerformer, AssignStashId, Ready, Free
<1>3. ASSUME NEW new, \/ new = [obj[e] EXCEPT !.now.file = TRUE]
                      \/ new = [obj[e] EXCEPT !.now.stash = TRUE],
             obj' = [obj EXCEPT ![e] = new],
             shared \subseteq shared', shared' \subseteq Entity,
             InFlight(e, Task \ {"worker"}) => e \in shared',
             stamped' \subseteq stamped \union (Content \intersect {e}),
             CallSave("worker", e, obj') \/ stack' = stack
      PROVE  Handles("worker")
  <2>1. /\ new \in AnObject /\ new.snap = obj[e].snap /\ new.isNew = obj[e].isNew
        /\ new.now.api = obj[e].now.api /\ AtMost(obj[e].now, new.now)
        /\ new.links = obj[e].links
    BY <1>1, <1>2, <1>3, EarnedObject
  <2>2. /\ obj[e].links \subseteq new.links /\ new.links \subseteq Kin(e)
        /\ (e \in Walls => \A p \in new.links : row[p] # Absent)
    BY <1>1, <1>2, <2>1, ObjectType
  <2> HIDE <1>3
  <2> QED
    BY <1>1, <1>2, <1>3, <2>1, <2>2, ObjectHandled
<1>4. CASE RecordFile(e)
  <2>1. /\ obj' = [obj EXCEPT ![e].now.file = TRUE] /\ CallSave("worker", e, obj')
        /\ Assigned("worker", {e}) /\ stamped' = stamped
    BY <1>4 DEF RecordFile
  <2>2. obj' = [obj EXCEPT ![e] = [obj[e] EXCEPT !.now.file = TRUE]]
    BY <2>1
  <2>3. /\ shared \subseteq shared' /\ shared' \subseteq Entity
        /\ (InFlight(e, Task \ {"worker"}) => e \in shared')
    BY <1>1, <1>2, <2>1, AssignedShared
  <2> QED
    BY <1>3, <2>1, <2>2, <2>3
<1>5. CASE AssignPerformer(e)
  <2>1. /\ obj' = [obj EXCEPT ![e].now.stash = TRUE] /\ CallSave("worker", e, obj')
        /\ Assigned("worker", {e}) /\ stamped' = stamped
    BY <1>5 DEF AssignPerformer
  <2>2. obj' = [obj EXCEPT ![e] = [obj[e] EXCEPT !.now.stash = TRUE]]
    BY <2>1
  <2>3. /\ shared \subseteq shared' /\ shared' \subseteq Entity
        /\ (InFlight(e, Task \ {"worker"}) => e \in shared')
    BY <1>1, <1>2, <2>1, AssignedShared
  <2> QED
    BY <1>3, <2>1, <2>2, <2>3
<1>6. CASE AssignStashId(e)
  <2>1. /\ obj' = [obj EXCEPT ![e].now.stash = TRUE] /\ stack' = stack /\ shared' = shared
        /\ e \in Content \union Posts /\ stamped' = stamped \union ({e} \intersect Medias)
    BY <1>6 DEF AssignStashId
  <2>2. obj' = [obj EXCEPT ![e] = [obj[e] EXCEPT !.now.stash = TRUE]]
    BY <2>1
  <2>3. e \notin Refreshed /\ (e \in Posts => e \notin Medias)
    BY <2>1, Classes, StoreAssumption
  <2>4. ~InFlight(e, Task \ {"worker"})
    BY <2>3, NotRefreshing
  <2>5. stamped' \subseteq stamped \union (Content \intersect {e})
    BY <2>1, <2>3
  <2> QED
    BY <1>1, <1>3, <2>1, <2>2, <2>4, <2>5
<1> QED
  BY <1>4, <1>5, <1>6

\* Nothing is assigned.
LEMMA QuietHandled ==
    ASSUME StoreInv, NEW t \in Task, toLoad = {},
           UNCHANGED <<row, links, toLoad, version, held, obj, shared>>,
           walk' = walk \/ walk' = Idle, stamped' \subseteq stamped,
           \/ stack' = stack \/ stack' = [stack EXCEPT ![t] = <<>>]
           \/ t = "worker" /\ stack[t] = <<>> /\ \E e \in held : CallSave(t, e, obj)
    PROVE  Handles(t)
<1>1. Called(t)
  BY DEF Called
<1>2. \A e \in Entity : Change(t, e)
  BY DEF Change
<1> QED
  BY <1>1, <1>2, HandledIf DEF StoreInv, TypeInv

\* The Stash pass saves what it stamped or fails; a statement fails.
LEMMA OthersHandled ==
    ASSUME StoreInv, NEW t \in Task,
           \/ FlushFails \/ \E m \in Entity : SaveStamped(m)
           \/ Refused(t) \/ StatementFails(t)
    PROVE  \E u \in Task : Handles(u)
<1>1. "worker" \in Task
  BY DEF Task
<1>2. CASE FlushFails
  <2>1. Handles("worker")
    BY <1>1, <1>2, QuietHandled DEF FlushFails, Free
  <2> QED
    BY <1>1, <2>1
<1>3. ASSUME NEW m \in Entity, SaveStamped(m) PROVE Handles("worker")
  <2>1. m \in held
    BY <1>3 DEF SaveStamped, StoreInv, TypeInv
  <2> QED
    BY <1>1, <1>3, <2>1, QuietHandled DEF SaveStamped, Free
<1>4. CASE Refused(t) \/ StatementFails(t)
  <2>1. /\ stack[t] # <<>> /\ stack' = [stack EXCEPT ![t] = <<>>]
        /\ walk' = walk \/ walk' = Idle
        /\ stamped' \subseteq stamped
        /\ UNCHANGED <<row, links, toLoad, version, held, obj, shared>>
    BY <1>4 DEF Refused, StatementFails, Unwound
  <2>2. toLoad = {}
    BY <2>1 DEF StoreInv, LoadInv
  <2> QED
    BY <2>1, <2>2, QuietHandled
<1> QED
  BY <1>1, <1>2, <1>3, <1>4

\* The service has something new.
LEMMA ServeHandled ==
    ASSUME StoreInv, Serve
    PROVE  Handles("worker")
<1>1. version \in Nat /\ version' \in Nat /\ version <= version'
  BY DEF Serve, StoreInv, TypeInv
<1>2. \A e \in Entity : Change("worker", e)
  BY DEF Serve, Change
<1>3. Called("worker")
  BY DEF Serve, Called
<1> QED
  BY <1>1, <1>2, <1>3 DEF Serve, Handles, StoreInv, TypeInv

-----------------------------------------------------------------------------
(* The statements of a save.                                               *)

\* The same save(), at whichever statement.
SameSave(f, g) == f.of = g.of /\ f.sent = g.sent /\ f.insert = g.insert /\ f.cols = g.cols

\* The saves under way when a statement of the save of e is done: those there
\* were, of which only saves of e may have moved, or one of a new object.
Moved(t, e) ==
    \A u \in Task : \A i \in DOMAIN stack'[u] :
        LET f == stack'[u][i]
        IN  /\ f \in AFrame /\ (i < Len(stack'[u]) => f.at = "links")
            /\ \/ \E j \in DOMAIN stack[u] :
                     SameSave(f, stack[u][j]) /\ (f = stack[u][j] \/ f.of = e)
               \/ u = t /\ Entered(t, f) /\ obj'[f.of].isNew

\* A statement is about one entity, whose values stay; when nobody interfered,
\* the row then is what the object is.
Stated(t, e) ==
    /\ toLoad = {} /\ UNCHANGED <<toLoad, shared, version>>
    /\ held \subseteq held' /\ held' \subseteq held \union {e}
    /\ \A x \in Entity \ {e} : obj'[x] = obj[x] /\ row'[x] = row[x]
    /\ obj'[e].now = obj[e].now /\ AtMost(obj'[e].snap, obj'[e].now)
    /\ row'[e].api <= version
    /\ e \notin shared => ~obj'[e].isNew /\ row'[e] = obj'[e].now

\* A row that is the object.
LEMMA Brought ==
    ASSUME NEW o \in AnObject, NEW r, ~o.isNew, r = o.now, AtMost(o.snap, o.now)
    PROVE  /\ Marked(o, r)
           /\ \A f : f.sent = o.now => Bringing(f, o, r)
<1>1. o.now \in Scalar /\ o.now # Absent
  BY DEF AnObject, Scalar, Absent
<1>2. Marked(o, r)
  BY <1>1, AtMostOrder DEF Marked
<1> QED
  BY <1>2 DEF Bringing

\* What a statement leaves of the invariant.
LEMMA StatedKeeps ==
    ASSUME StoreInv, NEW t \in Task, NEW e \in Entity, Stated(t, e), Moved(t, e),
           TypeInv', HeldInv'
    PROVE  FrameInv' /\ GrowInv' /\ MarkInv' /\ LoadInv'
<1>1. /\ obj \in [Entity -> AnObject] /\ obj' \in [Entity -> AnObject]
      /\ row \in [Entity -> Scalar \union {Absent}] /\ row' \in [Entity -> Scalar \union {Absent}]
      /\ version' = version /\ version \in Nat /\ shared' = shared
      /\ held \subseteq held' /\ held' \subseteq Entity
  BY DEF StoreInv, TypeInv, Stated
<1>2. ASSUME NEW x \in Entity
      PROVE  AtMost(obj'[x].snap, obj'[x].now) /\ obj'[x].now.api <= version'
             /\ row'[x].api <= version'
  BY <1>1 DEF Stated, StoreInv, GrowInv
<1>3. ASSUME NEW u \in Task, NEW i \in DOMAIN stack'[u], NEW f, f = stack'[u][i]
      PROVE  /\ i < Len(stack'[u]) => f.at = "links"
             /\ f.insert => f.cols = Column
             /\ f.of \in held' \union Hashtags \union Walls
             /\ u = "refresh" => f.of \in Refreshed
             /\ Earning(f) /\ f.sent.api <= version'
             /\ f.of \notin shared' => Bringing(f, obj'[f.of], row'[f.of])
  <2>1. f \in AFrame /\ (i < Len(stack'[u]) => f.at = "links")
    BY <1>3 DEF Moved
  <2>2. f.of \in Entity /\ obj'[f.of] \in AnObject
    BY <1>1, <2>1 DEF AFrame
  <2>3. ASSUME NEW j \in DOMAIN stack[u], NEW g, g = stack[u][j], SameSave(f, g),
               f = g \/ f.of = e
        PROVE  /\ f.insert => f.cols = Column
               /\ f.of \in held' \union Hashtags \union Walls
               /\ u = "refresh" => f.of \in Refreshed
               /\ Earning(f) /\ f.sent.api <= version'
               /\ f.of \notin shared' => Bringing(f, obj'[f.of], row'[f.of])
    <3>1. /\ g.insert => g.cols = Column
          /\ g.of \in held \union Hashtags \union Walls
          /\ u = "refresh" => g.of \in Refreshed
          /\ Earning(g) /\ g.sent.api <= version
          /\ g.of \notin shared => Bringing(g, obj[g.of], row[g.of])
      BY <2>3 DEF StoreInv, FrameInv, GrowInv, MarkInv
    <3>2. Earning(f)
      BY <2>3, <3>1 DEF Earning, SameSave
    <3>3. ASSUME f.of \notin shared PROVE Bringing(f, obj'[f.of], row'[f.of])
      <4>1. CASE f.of = e
        <5>1. f.sent = obj'[e].now
          BY <2>3, <3>1, <3>3, <4>1 DEF SameSave, Bringing, Stated
        <5>2. ~obj'[e].isNew /\ row'[e] = obj'[e].now /\ AtMost(obj'[e].snap, obj'[e].now)
          BY <3>3, <4>1 DEF Stated
        <5> QED
          BY <1>1, <4>1, <5>1, <5>2, Brought
      <4>2. CASE f.of # e
        BY <2>2, <2>3, <3>1, <3>3, <4>2 DEF Stated
      <4> QED
        BY <4>1, <4>2
    <3> QED
      BY <1>1, <2>3, <3>1, <3>2, <3>3 DEF SameSave
  <2>4. ASSUME Entered(t, f), obj'[f.of].isNew, u = t
        PROVE  /\ f.insert => f.cols = Column
               /\ f.of \in held' \union Hashtags \union Walls
               /\ u = "refresh" => f.of \in Refreshed
               /\ Earning(f) /\ f.sent.api <= version'
               /\ f.of \notin shared' => Bringing(f, obj'[f.of], row'[f.of])
    <3>1. f = Enter(f.of, obj'[f.of]) /\ (u = "refresh" => f.of \in Refreshed)
      BY <2>4 DEF Entered
    <3>2. f.insert => f.cols = Column
      BY <2>2, <3>1, EnterType
    <3>3. f.of \in held' \union Hashtags \union Walls
      BY <2>2, <2>4 DEF HeldInv
    <3>4. Earning(f) /\ f.sent.api <= version'
      BY <1>1, <1>2, <2>4, EnteredGrows
    <3>5. Marked(obj'[f.of], row'[f.of])
      BY <2>4 DEF Marked
    <3>6. Bringing(Enter(f.of, obj'[f.of]), obj'[f.of], row'[f.of])
      BY <1>1, <2>2, <3>5, MarkedEnter
    <3> QED
      BY <3>1, <3>2, <3>3, <3>4, <3>6
  <2>5. \/ \E j \in DOMAIN stack[u] : SameSave(f, stack[u][j]) /\ (f = stack[u][j] \/ f.of = e)
        \/ u = t /\ Entered(t, f) /\ obj'[f.of].isNew
    BY <1>3 DEF Moved
  <2> QED
    BY <2>1, <2>3, <2>4, <2>5
<1>4. FrameInv'
  BY <1>3 DEF FrameInv
<1>5. GrowInv'
  BY <1>2, <1>3 DEF GrowInv
<1>6. ASSUME NEW x \in held' \ shared' PROVE Marked(obj'[x], row'[x])
  <2>1. CASE x = e
    <3>1. ~obj'[e].isNew /\ row'[e] = obj'[e].now /\ AtMost(obj'[e].snap, obj'[e].now)
      BY <1>1, <1>6, <2>1 DEF Stated
    <3> QED
      BY <1>1, <2>1, <3>1, Brought
  <2>2. CASE x # e
    BY <1>1, <1>6, <2>2 DEF Stated, StoreInv, MarkInv
  <2> QED
    BY <2>1, <2>2
<1>7. MarkInv'
  BY <1>3, <1>6 DEF MarkInv
<1>8. LoadInv'
  BY DEF LoadInv, Stated
<1> QED
  BY <1>4, <1>5, <1>7, <1>8

\* The stack when a statement of the save in its last frame is done: the loop
\* over the related entities goes on in s, which is the stack or its front.
LEMMA MovedFrames ==
    ASSUME StoreInv, NEW t \in Task, NEW e \in Entity, NEW s \in Seq(AFrame), s # <<>>,
           \A i \in 1 .. Len(s) : i \in DOMAIN stack[t] /\ s[i] = stack[t][i],
           \A i \in 1 .. Len(s) - 1 : s[i].at = "links",
           s[Len(s)].at = "links" \/ s[Len(s)].of = e,
           obj' \in [Entity -> AnObject], KinInv', HeldInv', LinkInv',
           NEW n \in WithRelated(s, obj'), stack' = [stack EXCEPT ![t] = n]
    PROVE  Moved(t, e) /\ stack' \in [Task -> Seq(AFrame)]
<1>1. /\ n \in Seq(AFrame) /\ Len(s) \in Nat /\ Len(s) # 0
      /\ Len(n) = Len(s) \/ Len(n) = Len(s) + 1
      /\ \A i \in 1 .. Len(s) - 1 : n[i] = s[i]
      /\ n[Len(s)] = Past(s[Len(s)])
      /\ Len(n) = Len(s) + 1 =>
            \E r \in obj'[s[Len(s)].of].links : obj'[r].isNew /\ n[Len(n)] = Enter(r, obj'[r])
  BY RelatedFrames, EmptySeq, LenProperties
<1>2. stack \in [Task -> Seq(AFrame)]
  BY DEF StoreInv, TypeInv
<1>3. stack'[t] = n /\ stack' \in [Task -> Seq(AFrame)]
  BY <1>1, <1>2
<1>4. Len(s) \in DOMAIN stack[t] /\ s[Len(s)] = stack[t][Len(s)] /\ s[Len(s)] \in AFrame
  BY <1>1
<1>5. ASSUME NEW u \in Task \ {t}, NEW i \in DOMAIN stack'[u]
      PROVE  LET f == stack'[u][i]
             IN  /\ f \in AFrame /\ (i < Len(stack'[u]) => f.at = "links")
                 /\ \E j \in DOMAIN stack[u] : SameSave(f, stack[u][j]) /\ f = stack[u][j]
  <2>1. stack'[u] = stack[u]
    BY <1>2
  <2>2. stack[u][i] \in AFrame
    BY <2>1, FrameType DEF StoreInv
  <2>3. i < Len(stack[u]) => stack[u][i].at = "links"
    BY <2>1 DEF StoreInv, FrameInv
  <2> QED
    BY <2>1, <2>2, <2>3 DEF SameSave
<1>6. ASSUME NEW i \in DOMAIN n, NEW f, f = n[i]
      PROVE  /\ f \in AFrame /\ (i < Len(n) => f.at = "links")
             /\ \/ \E j \in DOMAIN stack[t] :
                      SameSave(f, stack[t][j]) /\ (f = stack[t][j] \/ f.of = e)
                \/ Entered(t, f) /\ obj'[f.of].isNew
  <2>1. f \in AFrame /\ i \in 1 .. Len(n)
    BY <1>1, <1>6
  <2>2. CASE i < Len(s)
    <3>1. i \in 1 .. Len(s) - 1 /\ i \in 1 .. Len(s)
      BY <1>1, <2>1, <2>2
    <3>2. f = stack[t][i] /\ i \in DOMAIN stack[t] /\ f.at = "links"
      BY <1>1, <1>6, <3>1
    <3> QED
      BY <2>1, <3>2 DEF SameSave
  <2>3. CASE i = Len(s)
    <3>1. /\ f = Past(s[Len(s)]) /\ f.at = "links" /\ SameSave(f, s[Len(s)])
          /\ s[Len(s)].at = "links" => f = s[Len(s)]
      BY <1>1, <1>4, <1>6, <2>3, PastType DEF SameSave
    <3>2. f = stack[t][Len(s)] \/ f.of = e
      BY <1>4, <3>1 DEF SameSave
    <3> QED
      BY <1>4, <2>1, <3>1, <3>2
  <2>4. CASE i > Len(s)
    <3>1. i = Len(n) /\ Len(n) = Len(s) + 1
      BY <1>1, <2>1, <2>4
    <3>2. PICK r \in obj'[s[Len(s)].of].links : obj'[r].isNew /\ f = Enter(r, obj'[r])
      BY <1>1, <1>6, <3>1
    <3>3. s[Len(s)].of \in Entity /\ (t = "refresh" => s[Len(s)].of \in Refreshed)
      BY <1>4 DEF AFrame, StoreInv, FrameInv
    <3>4. Entered(t, Enter(r, obj'[r]))
      BY <3>2, <3>3, RelatedEntered
    <3>5. r \in Entity
      BY <3>3 DEF AnObject
    <3>6. f.of = r
      BY <3>2, <3>5, EnterType
    <3>7. ~(i < Len(n))
      BY <3>1
    <3> QED
      BY <2>1, <3>2, <3>4, <3>6, <3>7
  <2> QED
    BY <1>1, <2>1, <2>2, <2>3, <2>4
<1>7. ASSUME NEW i \in DOMAIN stack'[t]
      PROVE  LET f == stack'[t][i]
             IN  /\ f \in AFrame /\ (i < Len(stack'[t]) => f.at = "links")
                 /\ \/ \E j \in DOMAIN stack[t] :
                          SameSave(f, stack[t][j]) /\ (f = stack[t][j] \/ f.of = e)
                    \/ Entered(t, f) /\ obj'[f.of].isNew
  BY <1>3, <1>6
<1>8. Moved(t, e)
  BY <1>5, <1>7 DEF Moved
<1> QED
  BY <1>3, <1>8

\* The first statement.
LEMMA RowKeeps ==
    ASSUME StoreInv, NEW t \in Task, WriteRow(t)
    PROVE  StoreInv'
<1> DEFINE s == stack[t]
           f == s[Len(s)]
           e == f.of
<1>1. /\ obj \in [Entity -> AnObject] /\ row \in [Entity -> Scalar \union {Absent}]
      /\ s \in Seq(AFrame) /\ version \in Nat /\ held \subseteq Entity
  BY DEF StoreInv, TypeInv
<1>2. /\ s # <<>> /\ f.at = "row"
      /\ row' = [row EXCEPT ![e] = Written(e, f)]
      /\ obj' = [obj EXCEPT ![e].isNew = FALSE]
      /\ \E n \in WithRelated(s, obj') : stack' = [stack EXCEPT ![t] = n]
      /\ UNCHANGED <<held, links, walk, stamped, toLoad, shared, version>>
  BY DEF WriteRow, Last
<1>3. Len(s) \in DOMAIN s /\ Len(s) \in Nat /\ Len(s) # 0 /\ DOMAIN s = 1 .. Len(s)
  BY <1>1, <1>2
<1>4. /\ f \in AFrame /\ e \in Entity /\ f.sent \in Scalar /\ (f.insert => f.cols = Column)
      /\ e \in held \union Hashtags \union Walls /\ Earning(f) /\ f.sent.api <= version
      /\ e \notin shared => Bringing(f, obj[e], row[e])
      /\ \A i \in 1 .. Len(s) - 1 : s[i].at = "links"
  <2>1. \A i \in 1 .. Len(s) - 1 : i \in DOMAIN s /\ i < Len(s)
    BY <1>3
  <2>2. f \in AFrame /\ e \in Entity /\ f.sent \in Scalar
    BY <1>3, FrameType DEF StoreInv
  <2> QED
    BY <1>3, <2>1, <2>2 DEF StoreInv, FrameInv, GrowInv, MarkInv
<1>5. toLoad = {}
  BY <1>2 DEF StoreInv, LoadInv
<1> HIDE DEF f
<1>6. /\ Written(e, f) \in Scalar \union {Absent}
      /\ row[e] # Absent \/ f.insert =>
            /\ Written(e, f) \in Scalar
            /\ \A c \in Column : Written(e, f)[c] = IF c \in f.cols THEN f.sent[c] ELSE row[e][c]
      /\ row[e] = Absent /\ ~f.insert => Written(e, f) = Absent
  <2>1. row[e] \in Scalar \union {Absent}
    BY <1>1, <1>4
  <2> QED
    BY <1>4, <2>1, WrittenType DEF Written
<1>7. /\ obj' \in [Entity -> AnObject]
      /\ \A x \in Entity \ {e} : obj'[x] = obj[x] /\ row'[x] = row[x]
      /\ obj'[e].now = obj[e].now /\ obj'[e].snap = obj[e].snap /\ obj'[e].links = obj[e].links
      /\ ~obj'[e].isNew /\ row'[e] = Written(e, f) /\ row' \in [Entity -> Scalar \union {Absent}]
  <2> DEFINE new == [obj[e] EXCEPT !.isNew = FALSE]
  <2>1. obj[e] \in AnObject /\ obj' = [obj EXCEPT ![e] = new]
    BY <1>1, <1>2, <1>4
  <2>2. /\ new \in AnObject /\ new.now = obj[e].now /\ new.snap = obj[e].snap
        /\ new.links = obj[e].links /\ ~new.isNew
    BY <2>1 DEF AnObject
  <2> HIDE DEF new
  <2>3. obj'[e] = new /\ obj' \in [Entity -> AnObject] /\ \A x \in Entity \ {e} : obj'[x] = obj[x]
    BY <1>1, <1>4, <2>1, <2>2
  <2>4. /\ \A x \in Entity \ {e} : row'[x] = row[x]
        /\ row'[e] = Written(e, f) /\ row' \in [Entity -> Scalar \union {Absent}]
    BY <1>1, <1>2, <1>4, <1>6
  <2> QED
    BY <2>2, <2>3, <2>4
<1>8. \A x \in Entity : row[x] # Absent => row'[x] # Absent
  <2>1. Absent \notin Scalar
    BY DEF Scalar, Absent
  <2>2. row[e] # Absent => row'[e] # Absent
    BY <1>6, <1>7, <2>1
  <2> QED
    BY <1>7, <2>2
<1>9. KinInv'
  BY <1>2, <1>4, <1>7 DEF StoreInv, KinInv, Kin
<1>10. HeldInv'
  <2>1. ASSUME NEW x \in Entity \ (Hashtags \union Walls), obj'[x].isNew PROVE x \in held'
    BY <1>2, <1>7, <2>1 DEF StoreInv, HeldInv
  <2>2. ASSUME NEW p \in Posts, row'[p] # Absent
        PROVE  p \in held' \union toLoad' /\ ~obj'[p].isNew
    <3>1. p \in Entity /\ p \notin Hashtags \union Walls
      BY Classes
    <3> QED
      BY <1>2, <1>4, <1>7, <2>2, <3>1 DEF StoreInv, HeldInv
  <2> QED
    BY <2>1, <2>2 DEF HeldInv
<1>11. LinkInv'
  <2>1. \A x \in Entity : obj'[x].links = obj[x].links
    BY <1>4, <1>7
  <2>2. \A w \in Walls : \A p \in obj'[w].links \union links'[w] : row'[p] # Absent
    <3>1. \A w \in Walls : \A p \in obj[w].links \union links[w] : row[p] # Absent /\ p \in Entity
      BY Classes DEF StoreInv, LinkInv, KinInv
    <3> QED
      BY <1>2, <1>8, <2>1, <3>1, Classes
  <2>3. \A p \in Posts : \A g \in links'[p] : row'[g] # Absent
    <3>1. \A p \in Posts : \A g \in links[p] : row[g] # Absent /\ g \in Entity
      BY Classes DEF StoreInv, LinkInv, KinInv
    <3> QED
      BY <1>2, <1>8, <3>1
  <2>4. \A p \in Posts : links'[p] # {} => row'[p] # Absent
    BY <1>2, <1>8, Classes DEF StoreInv, LinkInv
  <2>5. \A p \in Posts \intersect held' : links'[p] \subseteq obj'[p].links
    BY <1>2, <2>1, Classes DEF StoreInv, LinkInv
  <2> QED
    BY <2>2, <2>3, <2>4, <2>5 DEF LinkInv
<1>12. Moved(t, e) /\ stack' \in [Task -> Seq(AFrame)]
  <2>1. \A i \in 1 .. Len(s) : i \in DOMAIN stack[t] /\ s[i] = stack[t][i]
    BY <1>3
  <2>2. s[Len(s)].of = e
    BY DEF f
  <2>3. PICK n \in WithRelated(s, obj') : stack' = [stack EXCEPT ![t] = n]
    BY <1>2
  <2> HIDE DEF s, e
  <2> QED
    BY <1>1, <1>2, <1>4, <1>7, <1>9, <1>10, <1>11, <2>1, <2>2, <2>3, MovedFrames
<1>13. TypeInv'
  BY <1>2, <1>5, <1>7, <1>12 DEF StoreInv, TypeInv
<1>14. Stated(t, e)
  <2>1. AtMost(obj'[e].snap, obj'[e].now)
    BY <1>4, <1>7 DEF StoreInv, GrowInv
  <2>2. row'[e].api <= version
    <3>1. row[e].api <= version /\ f.sent["api"] <= version /\ Absent.api <= version
      BY <1>1, <1>4 DEF StoreInv, GrowInv, Absent
    <3>2. CASE row[e] # Absent \/ f.insert
      <4>1. row'[e].api = IF "api" \in f.cols THEN f.sent["api"] ELSE row[e]["api"]
        BY <1>6, <1>7, <3>2 DEF Column
      <4> QED
        BY <3>1, <4>1
    <3>3. CASE row[e] = Absent /\ ~f.insert
      BY <1>6, <1>7, <3>1, <3>3
    <3> QED
      BY <3>2, <3>3
  <2>3. ASSUME e \notin shared PROVE row'[e] = obj'[e].now
    <3>1. Bringing(f, obj[e], row[e])
      BY <1>4, <2>3
    <3>2. row[e] # Absent \/ f.insert
      BY <1>2, <3>1 DEF Bringing, Marked, f
    <3>3. \A c \in Column : row'[e][c] = obj[e].now[c]
      <4>1. ASSUME NEW c \in Column PROVE row'[e][c] = obj[e].now[c]
        <5>1. row'[e][c] = IF c \in f.cols THEN f.sent[c] ELSE row[e][c]
          BY <1>6, <1>7, <3>2
        <5>2. f.sent = obj[e].now
          BY <3>1 DEF Bringing
        <5>3. c \notin f.cols => obj[e].now[c] = row[e][c]
          BY <1>2, <1>4, <3>1 DEF Bringing, f
        <5> QED
          BY <5>1, <5>2, <5>3
      <4> QED
        BY <4>1
    <3>4. row'[e] \in Scalar /\ obj[e].now \in Scalar
      BY <1>1, <1>4, <1>6, <1>7, <3>2 DEF AnObject
    <3>5. /\ row'[e].api = obj[e].now.api /\ row'[e].file = obj[e].now.file
          /\ row'[e].stash = obj[e].now.stash
      BY <3>3 DEF Column
    <3> QED
      BY <1>7, <3>4, <3>5 DEF Scalar
  <2> QED
    BY <1>2, <1>5, <1>7, <2>1, <2>2, <2>3 DEF Stated
<1> QED
  BY <1>4, <1>9, <1>10, <1>11, <1>12, <1>13, <1>14, StatedKeeps DEF StoreInv

\* The save()s around the last one.
LEMMA FrontFrames ==
    ASSUME NEW S, NEW s \in Seq(S), s # <<>>, NEW up, up = Front(s)
    PROVE  /\ up \in Seq(S) /\ Len(s) \in Nat /\ Len(s) # 0 /\ Len(up) = Len(s) - 1
           /\ \A i \in 1 .. Len(up) : i \in DOMAIN s /\ i < Len(s) /\ up[i] = s[i]
<1>1. Len(s) \in Nat /\ Len(s) # 0 /\ DOMAIN s = 1 .. Len(s)
  OBVIOUS
<1>2. up = SubSeq(s, 1, Len(s) - 1)
  BY DEF Front
<1>3. up \in Seq(S) /\ Len(up) = Len(s) - 1 /\ \A i \in 1 .. Len(s) - 1 : up[i] = s[i]
  BY <1>1, <1>2
<1>4. \A n \in Nat : \A i \in 1 .. n - 1 : i \in 1 .. n /\ i < n
  OBVIOUS
<1> QED
  BY <1>1, <1>3, <1>4

\* The junction rows.
LEMMA LinksKeeps ==
    ASSUME StoreInv, NEW t \in Task, WriteLinks(t)
    PROVE  StoreInv'
<1> DEFINE s == stack[t]
           f == s[Len(s)]
           e == f.of
           up == Front(s)
<1>1. /\ obj \in [Entity -> AnObject] /\ row \in [Entity -> Scalar \union {Absent}]
      /\ links \in [Entity -> SUBSET Entity] /\ stack \in [Task -> Seq(AFrame)]
      /\ s \in Seq(AFrame) /\ version \in Nat /\ held \subseteq Entity
  BY DEF StoreInv, TypeInv
<1>2. /\ s # <<>> /\ f.at = "links"
      /\ row[e] # Absent \/ obj[e].links = {}
      /\ \A r \in obj[e].links : row[r] # Absent
      /\ links' = [links EXCEPT ![e] = obj[e].links]
      /\ held' = held \union {e}
      /\ obj' = [obj EXCEPT ![e].snap = obj[e].now]
      /\ \E n \in IF up = <<>> THEN {up} ELSE WithRelated(up, obj') :
            stack' = [stack EXCEPT ![t] = n]
      /\ UNCHANGED <<row, walk, stamped, toLoad, shared, version>>
  BY DEF WriteLinks, Last, Backed, Synced, Cleaned
<1>3. Len(s) \in DOMAIN s /\ Len(s) \in Nat /\ Len(s) # 0 /\ DOMAIN s = 1 .. Len(s)
  BY <1>1, <1>2
<1>4. /\ f \in AFrame /\ e \in Entity
      /\ e \notin shared => Bringing(f, obj[e], row[e])
      /\ \A i \in DOMAIN s : i < Len(s) => s[i].at = "links"
  <2>1. f \in AFrame /\ e \in Entity
    BY <1>3, FrameType DEF StoreInv
  <2> QED
    BY <1>3, <2>1 DEF StoreInv, FrameInv, MarkInv
<1>5. toLoad = {}
  BY <1>2 DEF StoreInv, LoadInv
<1> HIDE DEF f
<1>6. /\ obj' \in [Entity -> AnObject] /\ \A x \in Entity \ {e} : obj'[x] = obj[x]
      /\ obj'[e].now = obj[e].now /\ obj'[e].snap = obj[e].now
      /\ obj'[e].links = obj[e].links /\ obj'[e].isNew = obj[e].isNew
  <2> DEFINE new == [obj[e] EXCEPT !.snap = obj[e].now]
  <2>1. obj[e] \in AnObject /\ obj' = [obj EXCEPT ![e] = new]
    BY <1>1, <1>2, <1>4
  <2>2. /\ new \in AnObject /\ new.now = obj[e].now /\ new.snap = obj[e].now
        /\ new.links = obj[e].links /\ new.isNew = obj[e].isNew
    BY <2>1 DEF AnObject
  <2> HIDE DEF new
  <2> QED
    BY <1>1, <1>4, <2>1, <2>2
<1>7. /\ \A x \in Entity : obj'[x].links = obj[x].links /\ obj'[x].isNew = obj[x].isNew
      /\ \A x \in Entity \ {e} : links'[x] = links[x]
      /\ links'[e] = obj[e].links /\ links' \in [Entity -> SUBSET Entity]
  <2>1. obj[e].links \subseteq Entity
    BY <1>1, <1>4 DEF AnObject
  <2> QED
    BY <1>1, <1>2, <1>4, <1>6, <2>1
<1>8. KinInv'
  <2>1. \A x \in Entity : obj'[x].links \subseteq Kin(x) /\ links'[x] \subseteq Kin(x)
    BY <1>4, <1>7 DEF StoreInv, KinInv
  <2> QED
    BY <2>1 DEF KinInv, Kin
<1>9. HeldInv'
  BY <1>2, <1>7, Classes DEF StoreInv, HeldInv
<1>10. LinkInv'
  <2>1. \A w \in Walls : \A p \in obj'[w].links \union links'[w] : row'[p] # Absent
    BY <1>2, <1>4, <1>7, Classes DEF StoreInv, LinkInv
  <2>2. \A p \in Posts : \A g \in links'[p] : row'[g] # Absent
    BY <1>2, <1>4, <1>7, Classes DEF StoreInv, LinkInv
  <2>3. \A p \in Posts : links'[p] # {} => row'[p] # Absent
    BY <1>2, <1>4, <1>7, Classes DEF StoreInv, LinkInv
  <2>4. ASSUME NEW p \in Posts \intersect held' PROVE links'[p] \subseteq obj'[p].links
    <3>1. p \in Entity
      BY Classes
    <3> QED
      BY <1>2, <1>4, <1>7, <3>1 DEF StoreInv, LinkInv
  <2> QED
    BY <2>1, <2>2, <2>3, <2>4 DEF LinkInv
<1>11. PICK n \in IF up = <<>> THEN {up} ELSE WithRelated(up, obj') :
               stack' = [stack EXCEPT ![t] = n]
  BY <1>2
<1>12. /\ up \in Seq(AFrame) /\ Len(up) \in Nat
       /\ \A i \in 1 .. Len(up) : i \in DOMAIN s /\ i < Len(s) /\ up[i] = s[i]
  BY <1>1, <1>2, FrontFrames
<1> HIDE DEF up
<1>13. ASSUME up = <<>> PROVE Moved(t, e) /\ stack' \in [Task -> Seq(AFrame)]
  <2>1. stack' = [stack EXCEPT ![t] = <<>>]
    BY <1>11, <1>13
  <2>2. ASSUME NEW u \in Task, NEW i \in DOMAIN stack'[u]
        PROVE  LET g == stack'[u][i]
               IN  /\ g \in AFrame /\ (i < Len(stack'[u]) => g.at = "links")
                   /\ \E j \in DOMAIN stack[u] : SameSave(g, stack[u][j]) /\ g = stack[u][j]
    <3>1. stack'[u] = stack[u]
      BY <1>1, <2>1, <2>2
    <3>2. stack[u][i] \in AFrame /\ (i < Len(stack[u]) => stack[u][i].at = "links")
      BY <3>1, FrameType DEF StoreInv, FrameInv
    <3> QED
      BY <3>1, <3>2 DEF SameSave
  <2>3. stack' \in [Task -> Seq(AFrame)]
    BY <1>1, <2>1
  <2> QED
    BY <2>2, <2>3 DEF Moved
<1>14. ASSUME up # <<>> PROVE Moved(t, e) /\ stack' \in [Task -> Seq(AFrame)]
  <2>1. n \in WithRelated(up, obj')
    BY <1>11, <1>14
  <2>2. \A i \in 1 .. Len(up) : i \in DOMAIN stack[t] /\ up[i] = stack[t][i] /\ up[i].at = "links"
    BY <1>4, <1>12
  <2>3. Len(up) \in 1 .. Len(up) /\ \A i \in 1 .. Len(up) - 1 : i \in 1 .. Len(up)
    <3>1. Len(up) # 0
      BY <1>12, <1>14
    <3> QED
      BY <1>12, <3>1
  <2>4. up[Len(up)].at = "links" /\ \A i \in 1 .. Len(up) - 1 : up[i].at = "links"
    BY <2>2, <2>3
  <2> HIDE DEF s, e
  <2> QED
    BY <1>4, <1>6, <1>8, <1>9, <1>10, <1>11, <1>12, <1>14, <2>1, <2>2, <2>4, MovedFrames
<1>15. Moved(t, e) /\ stack' \in [Task -> Seq(AFrame)]
  BY <1>13, <1>14
<1>16. TypeInv'
  <2>1. held \subseteq held' /\ held' \subseteq Entity
    BY <1>1, <1>2, <1>4
  <2> QED
    BY <1>2, <1>5, <1>6, <1>7, <1>15, <2>1 DEF StoreInv, TypeInv
<1>17. Stated(t, e)
  <2>1. obj[e].now \in Scalar
    BY <1>1, <1>4 DEF AnObject
  <2>2. AtMost(obj'[e].snap, obj'[e].now)
    BY <1>6, <2>1, AtMostOrder
  <2>3. row'[e].api <= version
    BY <1>2, <1>4 DEF StoreInv, GrowInv
  <2>4. e \notin shared => ~obj'[e].isNew /\ row'[e] = obj'[e].now
    <3>1. e \notin shared => ~obj[e].isNew /\ row[e] = obj[e].now
      BY <1>2, <1>4 DEF Bringing, f
    <3> QED
      BY <1>2, <1>6, <3>1
  <2>5. \A x \in Entity \ {e} : obj'[x] = obj[x] /\ row'[x] = row[x]
    BY <1>2, <1>6
  <2> QED
    BY <1>2, <1>5, <1>6, <2>2, <2>3, <2>4, <2>5 DEF Stated
<1> QED
  BY <1>4, <1>8, <1>9, <1>10, <1>15, <1>16, <1>17, StatedKeeps DEF StoreInv

-----------------------------------------------------------------------------
(* A wall is deleted; the process restarts and loads the tables.           *)

\* An object of nothing.
LEMMA UnheldType ==
    /\ Unheld \in AnObject /\ Unheld.links = {} /\ ~Unheld.isNew
    /\ Unheld.snap = Unheld.now /\ Unheld.now.api = 0 /\ Unheld.now \in Scalar
    /\ Absent \notin Scalar /\ Absent.api <= 0
<1>1. [api |-> 0, file |-> FALSE, stash |-> FALSE] \in Scalar
  BY DEF Scalar
<1> QED
  BY <1>1 DEF Unheld, AnObject, Scalar, Absent

\* A wall that is no longer listed.
LEMMA DropKeeps ==
    ASSUME StoreInv, NEW t \in Task, NEW w \in Walls, DropWall(t, w)
    PROVE  StoreInv'
<1>1. /\ obj \in [Entity -> AnObject] /\ row \in [Entity -> Scalar \union {Absent}]
      /\ links \in [Entity -> SUBSET Entity] /\ version \in Nat /\ held \subseteq Entity
      /\ w \in Entity /\ w \notin Content /\ w \notin Posts /\ w \notin Hashtags
  BY Classes, StoreAssumption DEF StoreInv, TypeInv, Content
<1>2. /\ toLoad = {} /\ stack[t] = <<>>
      /\ row' = [row EXCEPT ![w] = Absent] /\ links' = [links EXCEPT ![w] = {}]
      /\ held' = held \ {w}
      /\ obj' = obj \/ obj' = [obj EXCEPT ![w] = Unheld]
      /\ Assigned(t, {w})
      /\ UNCHANGED <<stack, walk, stamped, toLoad, version>>
  BY DEF DropWall, Ready, Free
<1>3. /\ shared \subseteq shared' /\ shared' \subseteq Entity
      /\ InFlight(w, Task \ {t}) => w \in shared'
  BY <1>1, <1>2, AssignedShared
<1>4. /\ obj' \in [Entity -> AnObject] /\ row' \in [Entity -> Scalar \union {Absent}]
      /\ links' \in [Entity -> SUBSET Entity]
      /\ \A x \in Entity \ {w} : obj'[x] = obj[x] /\ row'[x] = row[x] /\ links'[x] = links[x]
      /\ row'[w] = Absent /\ links'[w] = {} /\ (obj'[w] = obj[w] \/ obj'[w] = Unheld)
  BY <1>1, <1>2, UnheldType
<1>5. KinInv'
  <2>1. \A x \in Entity : obj'[x].links \subseteq Kin(x) /\ links'[x] \subseteq Kin(x)
    BY <1>4, UnheldType DEF StoreInv, KinInv
  <2> QED
    BY <2>1 DEF KinInv, Kin
<1>6. HeldInv'
  BY <1>1, <1>2, <1>4, Classes DEF StoreInv, HeldInv
<1>7. LinkInv'
  <2>1. \A x \in Walls : \A p \in obj[x].links \union links[x] : p \in Posts
    BY Classes DEF StoreInv, KinInv
  <2>2. \A x \in Walls : \A p \in obj'[x].links \union links'[x] : row'[p] # Absent
    <3>1. \A x \in Walls : obj'[x].links \union links'[x] \subseteq obj[x].links \union links[x]
      BY <1>4, Classes, UnheldType
    <3> QED
      BY <1>1, <1>4, <2>1, <3>1, Classes DEF StoreInv, LinkInv
  <2>3. \A p \in Posts : \A g \in links[p] : g \in Hashtags
    BY Classes DEF StoreInv, KinInv
  <2>4. \A p \in Posts : \A g \in links'[p] : row'[g] # Absent
    BY <1>1, <1>4, <2>3, Classes DEF StoreInv, LinkInv
  <2>5. \A p \in Posts : links'[p] # {} => row'[p] # Absent
    BY <1>1, <1>4, Classes DEF StoreInv, LinkInv
  <2>6. \A p \in Posts \intersect held' : links'[p] \subseteq obj'[p].links
    BY <1>1, <1>2, <1>4, Classes DEF StoreInv, LinkInv
  <2> QED
    BY <2>2, <2>4, <2>5, <2>6 DEF LinkInv
<1>8. TypeInv'
  <2>1. walk = Idle \/ \E p \in Posts \intersect held', g \in Hashtags : walk = Tagging(p, g)
    BY <1>1, <1>2 DEF StoreInv, TypeInv
  <2>2. stamped \subseteq Content \intersect held'
    BY <1>1, <1>2 DEF StoreInv, TypeInv
  <2> QED
    BY <1>1, <1>2, <1>3, <1>4, <2>1, <2>2 DEF StoreInv, TypeInv
<1>9. FrameInv'
  BY <1>2 DEF StoreInv, FrameInv
<1>10. GrowInv'
  <2>1. ASSUME NEW x \in Entity
        PROVE  /\ AtMost(obj'[x].snap, obj'[x].now) /\ obj'[x].now.api <= version
               /\ row'[x].api <= version
    <3>1. CASE x # w
      BY <1>4, <3>1 DEF StoreInv, GrowInv
    <3>2. CASE x = w
      <4>1. row'[w].api <= version
        BY <1>1, <1>4, UnheldType DEF Absent
      <4>2. AtMost(Unheld.snap, Unheld.now) /\ Unheld.now.api <= version
        BY <1>1, UnheldType, AtMostOrder
      <4> QED
        BY <1>1, <1>4, <3>2, <4>1, <4>2 DEF StoreInv, GrowInv
    <3> QED
      BY <3>1, <3>2
  <2> QED
    BY <1>2, <2>1 DEF StoreInv, GrowInv
<1>11. MarkInv'
  <2>1. \A x \in held' \ shared' : Marked(obj'[x], row'[x])
    BY <1>1, <1>2, <1>3, <1>4 DEF StoreInv, MarkInv
  <2>2. ASSUME NEW u \in Task, NEW i \in DOMAIN stack[u], stack[u][i].of \notin shared'
        PROVE  Bringing(stack[u][i], obj'[stack[u][i].of], row'[stack[u][i].of])
    <3>1. u # t
      BY <1>2, <2>2
    <3>2. stack[u][i].of # w
      BY <1>3, <2>2, <3>1 DEF InFlight
    <3>3. stack[u][i].of \in Entity
      BY <2>2, FrameType DEF StoreInv
    <3> QED
      BY <1>3, <1>4, <2>2, <3>2, <3>3 DEF StoreInv, MarkInv
  <2> QED
    BY <1>2, <2>1, <2>2 DEF MarkInv
<1>12. LoadInv'
  BY <1>2 DEF LoadInv
<1> QED
  BY <1>5, <1>6, <1>7, <1>8, <1>9, <1>10, <1>11, <1>12 DEF StoreInv

\* A process that has not loaded anything yet, over tables that are in order.
Fresh ==
    /\ stack = [t \in Task |-> <<>>] /\ held = {} /\ obj = [e \in Entity |-> Unheld]
    /\ shared = {} /\ stamped = {} /\ walk = Idle /\ version \in Nat
    /\ row \in [Entity -> Scalar \union {Absent}]
    /\ \A e \in Entity : row[e].api <= version
    /\ toLoad = {e \in Entity : row[e] # Absent}
    /\ links \in [Entity -> SUBSET Entity]
    /\ \A e \in Entity : links[e] \subseteq Kin(e)
    /\ \A w \in Walls : \A p \in links[w] : row[p] # Absent
    /\ \A p \in Posts : \A g \in links[p] : row[g] # Absent
    /\ \A p \in Posts : links[p] # {} => row[p] # Absent

\* The invariant holds of it.
LEMMA FreshKeeps == Fresh => StoreInv
<1> SUFFICES ASSUME Fresh PROVE StoreInv
  OBVIOUS
<1>1. TypeInv
  BY UnheldType, EmptySeq DEF Fresh, TypeInv
<1>2. KinInv
  BY UnheldType DEF Fresh, KinInv
<1>3. LoadInv
  BY DEF Fresh, LoadInv
<1>4. HeldInv
  BY UnheldType, Classes DEF Fresh, HeldInv
<1>5. LinkInv
  BY UnheldType, Classes DEF Fresh, LinkInv
<1>6. \A t \in Task : DOMAIN stack[t] = {}
  BY EmptySeq DEF Fresh
<1>7. FrameInv
  BY <1>6 DEF Fresh, FrameInv
<1>8. GrowInv
  BY <1>6, UnheldType, AtMostOrder DEF Fresh, GrowInv
<1>9. MarkInv
  BY <1>6 DEF Fresh, MarkInv
<1> QED
  BY <1>1, <1>2, <1>3, <1>4, <1>5, <1>7, <1>8, <1>9 DEF StoreInv

\* The next process begins with what the tables have.
LEMMA RestartKeeps ==
    ASSUME StoreInv, Restart
    PROVE  StoreInv'
<1>1. /\ stack' = [t \in Task |-> <<>>] /\ held' = {} /\ obj' = [e \in Entity |-> Unheld]
      /\ shared' = {} /\ stamped' = {} /\ walk' = Idle /\ version' \in Nat
      /\ row' \in [Entity -> Scalar \union {Absent}] /\ \A e \in Entity : row'[e].api <= version'
  BY DEF Restart, StoreInv, TypeInv, GrowInv
<1>2. /\ toLoad' = {e \in Entity : row'[e] # Absent}
      /\ links' \in [Entity -> SUBSET Entity] /\ \A e \in Entity : links'[e] \subseteq Kin(e)
  BY DEF Restart, StoreInv, TypeInv, KinInv
<1>3. /\ \A w \in Walls : \A p \in links'[w] : row'[p] # Absent
      /\ \A p \in Posts : \A g \in links'[p] : row'[g] # Absent
      /\ \A p \in Posts : links'[p] # {} => row'[p] # Absent
  BY DEF Restart, StoreInv, LinkInv
<1>4. Fresh'
  BY <1>1, <1>2, <1>3 DEF Fresh
<1>5. Fresh' => StoreInv'
  BY FreshKeeps, PTL
<1> QED
  BY <1>4, <1>5

\* At first the tables are empty.
LEMMA InitKeeps == StoreInit => StoreInv
<1> SUFFICES ASSUME StoreInit PROVE StoreInv
  OBVIOUS
<1>1. toLoad = {e \in Entity : row[e] # Absent}
  BY DEF StoreInit
<1>2. Fresh
  <2>1. \A e \in Entity : row[e] = Absent /\ links[e] = {}
    BY DEF StoreInit
  <2>2. row \in [Entity -> Scalar \union {Absent}] /\ links \in [Entity -> SUBSET Entity]
    BY DEF StoreInit
  <2>3. \A e \in Entity : row[e].api <= 0
    BY <2>1 DEF Absent
  <2>4. Posts \subseteq Entity /\ Walls \subseteq Entity
    BY Classes
  <2> QED
    BY <1>1, <2>1, <2>2, <2>3, <2>4 DEF StoreInit, Fresh
<1> QED
  BY <1>2, FreshKeeps

-----------------------------------------------------------------------------
(* The preload.                                                            *)

\* A hashtag is loaded before any post.
LEMMA TagsFirst ==
    ASSUME NEW g \in Hashtags, NEW p \in Posts
    PROVE  ~(Class(p) <= Class(g))
<1>1. DOMAIN PreloadOrder = 1 .. 5
  BY DEF PreloadOrder
<1>2. /\ PreloadOrder[1] = Hashtags /\ PreloadOrder[2] = Medias /\ PreloadOrder[3] = Accounts
      /\ PreloadOrder[4] = Walls /\ PreloadOrder[5] = Posts
  BY DEF PreloadOrder
<1>3. \A i \in DOMAIN PreloadOrder : i \in {1, 2, 3, 4, 5}
  BY <1>1
<1>4. \A i \in DOMAIN PreloadOrder : g \in PreloadOrder[i] <=> i = 1
  BY <1>1, <1>2, <1>3, StoreAssumption
<1>5. \A i \in DOMAIN PreloadOrder : p \in PreloadOrder[i] <=> i = 5
  BY <1>1, <1>2, <1>3, StoreAssumption
<1>6. 1 \in DOMAIN PreloadOrder /\ 5 \in DOMAIN PreloadOrder
  BY <1>1
<1>7. Class(g) = 1
  BY <1>4, <1>6 DEF Class
<1>8. Class(p) = 5
  BY <1>5, <1>6 DEF Class
<1> QED
  BY <1>7, <1>8

\* A loaded object is its row, and resolves what was loaded before it.
LEMMA PreloadKeeps ==
    ASSUME StoreInv, NEW e \in Entity, Preload(e)
    PROVE  StoreInv'
<1>1. e \in toLoad /\ row[e] # Absent /\ row[e] \in Scalar /\ toLoad # {}
  BY DEF Preload, StoreInv, TypeInv
<1>2. /\ stack' = stack /\ walk' = walk /\ stamped' = stamped /\ version' = version
      /\ shared' = shared /\ row' = row /\ links' = links
      /\ held' = held \union {e} /\ toLoad' = toLoad \ {e}
  BY DEF Preload
<1>3. walk = Idle /\ stamped = {} /\ \A x \in Entity : row[x] # Absent => x \in held \union toLoad
  BY <1>1 DEF StoreInv, LoadInv
<1>4. \A t \in Task : stack[t] = <<>> /\ DOMAIN stack[t] = {}
  BY <1>1, EmptySeq DEF StoreInv, LoadInv
<1>5. Resolved(links[e]) \subseteq links[e] /\ links[e] \subseteq Entity
  BY DEF Resolved, StoreInv, TypeInv
<1>6. /\ obj' \in [Entity -> AnObject]
      /\ obj'[e].now = row[e] /\ obj'[e].snap = row[e]
      /\ obj'[e].links = Resolved(links[e]) /\ ~obj'[e].isNew
      /\ \A x \in Entity : x # e => obj'[x] = obj[x]
  <2> DEFINE o == [now |-> row[e], snap |-> row[e], links |-> Resolved(links[e]), isNew |-> FALSE]
  <2>1. o \in AnObject
    BY <1>1, <1>5 DEF AnObject
  <2>2. o.now = row[e] /\ o.snap = row[e] /\ o.links = Resolved(links[e]) /\ ~o.isNew
    OBVIOUS
  <2>3. obj' = [obj EXCEPT ![e] = o]
    BY DEF Preload
  <2> HIDE DEF o
  <2> QED
    BY <2>1, <2>2, <2>3 DEF StoreInv, TypeInv
<1>7. TypeInv'
  <2>1. stamped' \subseteq Content \intersect held'
    BY <1>2, <1>3
  <2>2. walk' = Idle
    BY <1>2, <1>3
  <2> QED
    BY <1>2, <1>6, <2>1, <2>2 DEF StoreInv, TypeInv
<1>8. KinInv'
  <2>1. \A x \in Entity : obj[x].links \subseteq Kin(x) /\ links[x] \subseteq Kin(x)
    BY DEF StoreInv, KinInv
  <2>2. \A x \in Entity : obj'[x].links \subseteq Kin(x) /\ links'[x] \subseteq Kin(x)
    BY <1>2, <1>5, <1>6, <2>1
  <2> QED
    BY <2>2 DEF KinInv
<1>9. LoadInv'
  BY <1>2, <1>3, <1>4 DEF LoadInv
<1>10. HeldInv'
  <2>1. \A x \in Entity \ (Hashtags \union Walls) : obj'[x].isNew => x \in held'
    BY <1>2, <1>6 DEF StoreInv, HeldInv
  <2>2. ASSUME NEW p \in Posts, row[p] # Absent
        PROVE  p \in held' \union toLoad' /\ ~obj'[p].isNew
    <3>1. p \in held \union toLoad /\ ~obj[p].isNew /\ p \in Entity
      BY <2>2, Classes DEF StoreInv, HeldInv
    <3> QED
      BY <1>2, <1>6, <3>1
  <2> QED
    BY <1>2, <2>1, <2>2 DEF HeldInv
<1>11. LinkInv'
  <2>1. \A w \in Walls : \A p \in obj'[w].links \union links'[w] : row'[p] # Absent
    BY <1>2, <1>5, <1>6, Classes DEF StoreInv, LinkInv
  <2>2. ASSUME NEW p \in Posts \intersect held' PROVE links'[p] \subseteq obj'[p].links
    <3>1. CASE p # e
      BY <1>2, <1>6, <2>2, <3>1, Classes DEF StoreInv, LinkInv
    <3>2. CASE p = e
      <4>1. ASSUME NEW g \in links[e] PROVE g \in held
        <5>1. g \in Hashtags
          BY <3>2, <4>1, Classes DEF StoreInv, KinInv
        <5>2. row[g] # Absent /\ g \in Entity
          BY <3>2, <4>1, <5>1, Classes DEF StoreInv, LinkInv
        <5>3. ~(Class(e) <= Class(g))
          BY <3>2, <5>1, TagsFirst
        <5>4. g \notin toLoad
          BY <5>3 DEF Preload
        <5> QED
          BY <1>3, <5>2, <5>4
      <4> QED
        BY <1>2, <1>6, <3>2, <4>1 DEF Resolved
    <3> QED
      BY <3>1, <3>2
  <2> QED
    BY <1>2, <2>1, <2>2 DEF StoreInv, LinkInv
<1>12. FrameInv'
  BY <1>2, <1>4 DEF FrameInv
<1>13. GrowInv'
  <2>1. AtMost(row[e], row[e]) /\ row[e].api <= version
    BY <1>1, AtMostOrder DEF StoreInv, GrowInv
  <2>2. \A x \in Entity : AtMost(obj'[x].snap, obj'[x].now) /\ obj'[x].now.api <= version
    BY <1>6, <2>1 DEF StoreInv, GrowInv
  <2> QED
    BY <1>2, <1>4, <2>2 DEF StoreInv, GrowInv
<1>14. MarkInv'
  <2>1. Marked(obj'[e], row'[e])
    BY <1>1, <1>2, <1>6, AtMostOrder DEF Marked
  <2>2. \A x \in held' \ shared' : Marked(obj'[x], row'[x])
    BY <1>2, <1>6, <2>1 DEF StoreInv, MarkInv, TypeInv
  <2> QED
    BY <1>2, <1>4, <2>2 DEF MarkInv
<1> QED
  BY <1>7, <1>8, <1>9, <1>10, <1>11, <1>12, <1>13, <1>14 DEF StoreInv

-----------------------------------------------------------------------------
(* The specification of the rows.                                          *)

\* Every step of either task is a handler, a statement, or one of the two ends
\* of a process.
LEMMA StepCases ==
    ASSUME StoreInv, StoreNext
    PROVE  \/ \E t \in Task : Handles(t)
           \/ \E t \in Task : WriteRow(t) \/ WriteLinks(t)
           \/ \E t \in Task, w \in Walls : DropWall(t, w)
           \/ Restart
           \/ \E e \in Entity : Preload(e)
<1>0. "worker" \in Task
  BY DEF Task
<1>1. CASE Serve \/ LinkTag \/ \E w \in Walls, p \in Posts : ReceiveWallPosts(w, p)
  BY <1>0, <1>1, ServeHandled, LinkHandled
<1>2. CASE \E m \in Medias : ReceiveMedia(m)
  BY <1>0, <1>2, MediaHandled
<1>3. CASE \E e : RecordFile(e) \/ AssignPerformer(e) \/ AssignStashId(e)
  BY <1>0, <1>3, EarnHandled
<1>4. CASE \E p \in Posts, g \in Hashtags : ReceivePost(p, g)
  BY <1>0, <1>4, PostHandled
<1>5. CASE \E p \in Posts : ReceiveUntagged(p)
  BY <1>0, <1>5, UntaggedHandled
<1>6. CASE \E t \in Task, a \in Accounts : ReceiveAccount(t, a)
  BY <1>6, AccountHandled
<1>7. CASE \E t \in Task, w \in Walls : ReceiveWall(t, w)
  BY <1>7, WallHandled
<1>8. CASE \/ FlushFails \/ \E m \in Entity : SaveStamped(m)
           \/ \E t \in Task : Refused(t) \/ StatementFails(t)
  BY <1>0, <1>8, OthersHandled
<1> QED
  BY <1>1, <1>2, <1>3, <1>4, <1>5, <1>6, <1>7, <1>8 DEF StoreNext

\* All of them keep the invariant.
LEMMA StepKeeps ==
    ASSUME StoreInv, [StoreNext]_storeVars
    PROVE  StoreInv'
<1>1. CASE StoreNext
  BY <1>1, StepCases, HandledKeeps, RowKeeps, LinksKeeps, DropKeeps, RestartKeeps, PreloadKeeps
<1>2. CASE UNCHANGED storeVars
  <2>1. UNCHANGED <<held, obj, row, links, stack, walk, stamped, toLoad, shared, version>>
    BY <1>2 DEF storeVars
  <2> QED
    BY <2>1 DEF StoreInv, TypeInv, KinInv, LoadInv, HeldInv, LinkInv, FrameInv, GrowInv, MarkInv
<1> QED
  BY <1>1, <1>2

\* The invariant holds in every state that the two tasks, failed statements and
\* restarts lead to.
THEOREM StoreCorrect == StoreSpec => []StoreInv
<1>1. StoreInit => StoreInv
  BY InitKeeps
<1>2. StoreInv /\ [StoreNext]_storeVars => StoreInv'
  BY StepKeeps
<1> QED
  BY <1>1, <1>2, PTL DEF StoreSpec

\* In every reachable state, what memory knows and the table does not is marked
\* for writing, except on an object the two tasks wrote at once.
THEOREM NotForgottenCorrect == StoreSpec => []NotForgotten
<1>1. StoreInv => NotForgotten
  <2> SUFFICES ASSUME StoreInv, NEW e \in held \ shared, ~obj[e].isNew
               PROVE  /\ row[e] # Absent
                      /\ \A c \in Column : obj[e].now[c] # row[e][c] => c \in Changed(obj[e])
    BY DEF NotForgotten
  <2>1. e \in Entity /\ obj[e] \in AnObject /\ row[e] \in Scalar \union {Absent}
    BY DEF StoreInv, TypeInv
  <2>2. Marked(obj[e], row[e])
    BY DEF StoreInv, MarkInv
  <2>3. Bringing(Enter(e, obj[e]), obj[e], row[e])
    BY <2>1, <2>2, MarkedEnter
  <2>4. Changed(obj[e]) # {} => \A c \in Column \ Changed(obj[e]) : obj[e].now[c] = row[e][c]
    BY <2>1, <2>3, EnterType DEF Bringing
  <2>5. Changed(obj[e]) = {} => obj[e].now = row[e]
    BY <2>1, <2>3, EnterType DEF Bringing
  <2> QED
    BY <2>2, <2>4, <2>5 DEF Marked
<1> QED
  BY <1>1, StoreCorrect, PTL

\* No step of either task takes back a stored is_downloaded or stash_id, except
\* the UPSERT of a new object whose row another save has inserted meanwhile.
THEOREM EarnedCorrect == StoreSpec => EarnedKept
<1> DEFINE Kept == \A e \in Entity : (row[e] # Absent /\ row'[e] # Absent /\ ~Upserting(e)) =>
                      \A c \in {"file", "stash"} : (row[e][c] => row'[e][c])
<1>1. ASSUME StoreInv, [StoreNext]_storeVars PROVE Kept
  <2> SUFFICES ASSUME NEW e \in Entity, row[e] # Absent, row'[e] # Absent, ~Upserting(e),
                      NEW c \in {"file", "stash"}, row[e][c]
               PROVE  row'[e][c]
    OBVIOUS
  <2>1. CASE row' = row
    BY <2>1
  <2>2. CASE \E t \in Task : WriteRow(t)
    <3>1. PICK t \in Task : WriteRow(t)
      BY <2>2
    <3> DEFINE f == Last(stack[t])
    <3>2. stack[t] # <<>> /\ row' = [row EXCEPT ![f.of] = Written(f.of, f)]
      BY <3>1 DEF WriteRow
    <3>3. stack[t] \in Seq(AFrame)
      BY <1>1 DEF StoreInv, TypeInv
    <3>4. f = stack[t][Len(stack[t])] /\ Len(stack[t]) \in DOMAIN stack[t]
      BY <3>2, <3>3, LastReplaced DEF Last
    <3>5. f \in AFrame /\ Earning(f) /\ (f.insert => f.cols = Column)
      BY <1>1, <3>4, FrameType DEF StoreInv, GrowInv, FrameInv
    <3> HIDE DEF f
    <3>6. row \in [Entity -> Scalar \union {Absent}]
      BY <1>1 DEF StoreInv, TypeInv
    <3>7. CASE e # f.of
      BY <3>2, <3>6, <3>7
    <3>8. CASE e = f.of
      <4>1. ~f.insert
        BY <3>2, <3>8 DEF Upserting, f
      <4>2. row'[e] = Written(e, f)
        BY <3>2, <3>6, <3>8
      <4>3. row'[e][c] = IF c \in f.cols THEN f.sent[c] ELSE row[e][c]
        <5>1. c \in Column /\ row[e] \in Scalar \union {Absent}
          BY <3>6 DEF Column
        <5>2. \A x \in Column : Written(e, f)[x] = IF x \in f.cols THEN f.sent[x] ELSE row[e][x]
          BY <3>5, <5>1, WrittenType
        <5> QED
          BY <4>2, <5>1, <5>2
      <4>4. c \in f.cols => f.sent[c]
        BY <3>5, <4>1 DEF Earning, AFrame, Scalar
      <4> QED
        BY <4>3, <4>4
    <3> QED
      BY <3>7, <3>8
  <2>3. CASE \E t \in Task, w \in Walls : DropWall(t, w)
    <3>1. PICK w \in Walls : row' = [row EXCEPT ![w] = Absent]
      BY <2>3 DEF DropWall
    <3>2. row \in [Entity -> Scalar \union {Absent}]
      BY <1>1 DEF StoreInv, TypeInv
    <3> QED
      BY <3>1, <3>2
  <2>4. CASE UNCHANGED storeVars
    BY <2>1, <2>4 DEF storeVars
  <2>5. CASE StoreNext
    <3>1. CASE \E t \in Task : Handles(t)
      BY <2>1, <3>1 DEF Handles
    <3>2. CASE (\E t \in Task : WriteLinks(t)) \/ Restart \/ \E x \in Entity : Preload(x)
      BY <2>1, <3>2 DEF WriteLinks, Restart, Preload
    <3> QED
      BY <1>1, <2>2, <2>3, <2>5, <3>1, <3>2, StepCases
  <2> QED
    BY <1>1, <2>4, <2>5
<1>2. StoreInv /\ [StoreNext]_storeVars => [Kept]_storeVars
  BY <1>1
<1> QED
  BY <1>2, StoreCorrect, PTL DEF StoreSpec, EarnedKept

\* No save, failed save, deletion or restart removes a stored hashtag of a post.
THEOREM TagsCorrect == StoreSpec => TagsKept
<1> DEFINE Kept == \A p \in Posts : links[p] \subseteq links'[p]
<1>1. ASSUME StoreInv, [StoreNext]_storeVars PROVE Kept
  <2> SUFFICES ASSUME NEW p \in Posts PROVE links[p] \subseteq links'[p]
    OBVIOUS
  <2>0. links \in [Entity -> SUBSET Entity] /\ p \in Entity
    BY <1>1, Classes DEF StoreInv, TypeInv
  <2>1. CASE links' = links
    BY <2>1
  <2>2. CASE \E t \in Task : WriteLinks(t)
    <3>1. PICK t \in Task : WriteLinks(t)
      BY <2>2
    <3> DEFINE f == Last(stack[t])
    <3>2. stack[t] # <<>> /\ links' = [links EXCEPT ![f.of] = obj[f.of].links]
      BY <3>1 DEF WriteLinks, Synced
    <3>3. stack[t] \in Seq(AFrame)
      BY <1>1 DEF StoreInv, TypeInv
    <3>4. f = stack[t][Len(stack[t])] /\ Len(stack[t]) \in DOMAIN stack[t]
      BY <3>2, <3>3, LastReplaced DEF Last
    <3>5. f.of \in held \union Hashtags \union Walls
      BY <1>1, <3>4 DEF StoreInv, FrameInv
    <3> HIDE DEF f
    <3>6. CASE p # f.of
      BY <2>0, <3>2, <3>6
    <3>7. CASE p = f.of
      <4>1. p \in held
        BY <3>5, <3>7, Classes
      <4>2. links[p] \subseteq obj[p].links
        BY <1>1, <4>1 DEF StoreInv, LinkInv
      <4> QED
        BY <2>0, <3>2, <3>7, <4>2
    <3> QED
      BY <3>6, <3>7
  <2>3. CASE \E t \in Task, w \in Walls : DropWall(t, w)
    <3>1. PICK w \in Walls : links' = [links EXCEPT ![w] = {}]
      BY <2>3 DEF DropWall
    <3> QED
      BY <2>0, <3>1, Classes
  <2>4. CASE UNCHANGED storeVars
    BY <2>1, <2>4 DEF storeVars
  <2>5. CASE StoreNext
    <3>1. CASE \E t \in Task : Handles(t)
      BY <2>1, <3>1 DEF Handles
    <3>2. CASE (\E t \in Task : WriteRow(t)) \/ Restart \/ \E x \in Entity : Preload(x)
      BY <2>1, <3>2 DEF WriteRow, Restart, Preload
    <3> QED
      BY <1>1, <2>2, <2>3, <2>5, <3>1, <3>2, StepCases
  <2> QED
    BY <1>1, <2>4, <2>5
<1>2. StoreInv /\ [StoreNext]_storeVars => [Kept]_storeVars
  BY <1>1
<1> QED
  BY <1>2, StoreCorrect, PTL DEF StoreSpec, TagsKept

-----------------------------------------------------------------------------
(* The Stash pass: the inductive invariant.                                *)

APlace == [host : Int, primary : BOOLEAN]
APass  == [at : Phases, items : SUBSET Items, known : SUBSET Files, leaves : SUBSET Files,
           ids : SUBSET Files, pairs : SUBSET Files, compose : SUBSET (Items \X Files),
           missed : SUBSET Files, bare : SUBSET Items, moved : SUBSET Files]

\* Types, without the bound on the scenes of a file.
PassTyped ==
    /\ split \in BOOLEAN /\ galleries \subseteq Items /\ moves \in Nat
    /\ place \in [Files -> APlace] /\ seen \in [Files -> APlace]
    /\ scenes \in [Files -> Nat]
    /\ mem \in [Files -> Int] /\ stored \in [Files -> Int]
    /\ pass \in APass

\* A file is dealt with once: what is left is neither stamped nor split.
Phased ==
    /\ pass.known \subseteq pass.leaves /\ (pass.at # "known" => pass.known = {})
    /\ pass.at \in {"idle", "compose", "flushed"} => pass.leaves = {}
    /\ pass.leaves \intersect pass.ids = {} /\ pass.leaves \intersect pass.pairs = {}
    /\ pending \subseteq pass.pairs
    /\ pass.at \in {"idle", "flushed"} => pending = {}
    /\ pass.at = "idle" => seen = [f \in Files |-> Nowhere]

\* A split was decided for a file that is no scene's primary, and what was read
\* of a file is so, unless Stash moved it since.
NotMoved ==
    /\ \A f \in pending \ doubtful : ~place[f].primary
    /\ pass.at # "flushed" =>
          \A f \in Files \ pass.moved : seen[f] = Nowhere \/ seen[f] = place[f]

\* Where the files of an item go: found before, or to be created.
Housed(i) == ByCode(i) # {} \/ ByTitle(i) # {}

\* Until the flush: a file waits, or it is in the store in full, or it cannot
\* be dealt with.
Joined(f) == \A i \in ItemsOf(pass, f) :
    \/ <<i, f>> \in pass.compose \/ i \in pass.bare
    \/ Housed(i) /\ <<GalleryOf(i), f>> \in tied
Dealt(f) ==
    /\ f \in pass.ids /\ Joined(f)
    /\ \/ f \in pending
       \/ place[f].primary /\ mem[f] = place[f].host /\ <<f, mem[f]>> \in dirty
Hopeless(f) ==
    /\ f \notin pending
    /\ place[f] = Nowhere \/ (~place[f].primary /\ (~split \/ f \in Pictures))
Sorted == pass.at \in {"known", "sweep", "compose"} =>
    \A f \in Index(pass.items) \ (pass.missed \union pass.moved) :
        f \in pass.leaves \/ Dealt(f) \/ Hopeless(f)

\* From the flush on: all of it is on the server, and in the database but for
\* the files whose row is still to be saved.
Mirrored(f) ==
    /\ place[f].primary /\ mem[f] = place[f].host
    /\ <<f, place[f].host>> \in onServer
    /\ \A i \in ItemsOf(pass, f) \ pass.bare :
          Housed(i) /\ <<GalleryOf(i), f, place[f].host>> \in linked
    /\ f \in pass.ids \/ stored[f] = mem[f]
AllMirrored == pass.at = "flushed" => \A f \in Doable : Mirrored(f)

StashInv == PassTyped /\ Phased /\ NotMoved /\ Sorted /\ AllMirrored

-----------------------------------------------------------------------------
(* Records and galleries.                                                  *)

\* Places are places.
LEMMA Places ==
    /\ Nowhere \in APlace /\ Aside \in APlace /\ ~Nowhere.primary
    /\ \A n \in Int : Own(n) \in APlace /\ Own(n).primary /\ Own(n).host = n
    /\ Place \subseteq APlace
<1>1. NoId \in Int /\ Foreign \in Int
  BY DEF NoId, Foreign
<1>2. MaxScenes \in Int
  BY StashAssumption DEF MaxScenes
<1>3. Foreign .. MaxScenes \subseteq Int
  BY <1>1, <1>2
<1> QED
  BY <1>1, <1>3 DEF Nowhere, Aside, Own, Place, APlace

\* No pass is under way.
LEMMA RestingIs ==
    /\ Resting \in APass /\ Resting.at = "idle" /\ Resting.known = {}
    /\ Resting.leaves = {} /\ Resting.ids = {} /\ Resting.pairs = {}
  BY DEF Resting, APass, Phases

\* The files of items are files.
LEMMA IndexType ==
    ASSUME NEW S, S \subseteq Items
    PROVE  /\ Index(S) \subseteq Files
           /\ \A f \in Index(S) : \E i \in S : f \in Media[i]
  BY StashAssumption DEF Index

\* Choosing depends on the set alone.
LEMMA SameChoice ==
    ASSUME NEW S, NEW T, S = T
    PROVE  (CHOOSE j \in S : TRUE) = (CHOOSE j \in T : TRUE)
  OBVIOUS

\* The gallery an item was given stays the one it is found in: a new gallery
\* is only made under a title that no gallery has.
LEMMA GalleryKept ==
    ASSUME galleries \subseteq Items, NEW k \in Items,
           galleries' \in {galleries, galleries \union {GalleryOf(k)}},
           NEW i \in Items,
           Housed(i) \/ (i = k /\ galleries' = galleries \union {GalleryOf(k)})
    PROVE  Housed(i)' /\ GalleryOf(i)' = GalleryOf(i)
<1>1. GalleryOf(k) = k \/ GalleryOf(k) \in galleries
  <2>1. ASSUME ByTitle(k) # {} PROVE (CHOOSE j \in ByTitle(k) : TRUE) \in galleries
    <3>1. (CHOOSE j \in ByTitle(k) : TRUE) \in ByTitle(k)
      BY <2>1
    <3> QED
      BY <3>1 DEF ByTitle
  <2> QED
    BY <2>1 DEF GalleryOf
<1>2. galleries \subseteq galleries'
  OBVIOUS
<1>3. CASE i \in galleries
  BY <1>2, <1>3 DEF Housed, ByCode, GalleryOf
<1>4. CASE i \notin galleries /\ ByTitle(i) # {}
  <2>1. ByTitle(i)' = ByTitle(i) /\ i \notin galleries'
    <3>1. CASE galleries' = galleries
      BY <1>4, <3>1 DEF ByTitle
    <3>2. CASE galleries' # galleries
      <4>1. galleries' = galleries \union {k} /\ GalleryOf(k) = k /\ k \notin galleries
        BY <1>1, <3>2
      <4>2. ByTitle(k) = {}
        <5>1. ByTitle(k) # {} => k = (CHOOSE j \in ByTitle(k) : TRUE)
          BY <4>1 DEF GalleryOf, ByCode
        <5>2. ByTitle(k) # {} => (CHOOSE j \in ByTitle(k) : TRUE) \in ByTitle(k)
          OBVIOUS
        <5> QED
          BY <4>1, <5>1, <5>2 DEF ByTitle
      <4>3. Title[k] # Title[i]
        BY <1>4, <4>2 DEF ByTitle
      <4> QED
        BY <1>4, <4>1, <4>3 DEF ByTitle
    <3> QED
      BY <3>1, <3>2
  <2>2. ByCode(i) = {} /\ ByCode(i)' = {}
    BY <1>4, <2>1 DEF ByCode
  <2>3. (CHOOSE j \in ByTitle(i) : TRUE)' = (CHOOSE j \in ByTitle(i) : TRUE)
    BY <2>1, SameChoice
  <2> QED
    BY <1>4, <2>1, <2>2, <2>3 DEF Housed, GalleryOf
<1>5. CASE ~Housed(i)
  <2>1. i = k /\ GalleryOf(k) = k /\ galleries' = galleries \union {k}
    BY <1>5 DEF Housed, GalleryOf
  <2> QED
    BY <2>1 DEF Housed, ByCode, GalleryOf
<1> QED
  BY <1>3, <1>4, <1>5 DEF Housed, ByCode

-----------------------------------------------------------------------------
(* The files of a pass are dealt with.                                     *)

\* The pass without a file that is dealt with.
Trimmed(r, f) ==
    /\ r \in APass
    /\ r.at = pass.at /\ r.items = pass.items
    /\ r.known = pass.known \ {f} /\ r.leaves = pass.leaves \ {f}
    /\ r.ids = pass.ids /\ r.pairs = pass.pairs /\ r.compose = pass.compose
    /\ r.missed = pass.missed /\ r.bare = pass.bare /\ r.moved = pass.moved

\* What an outcome adds to the pass: the file, for each item that owns it.
LEMMA AccumulatedIs ==
    ASSUME NEW f \in Files, NEW r, Trimmed(r, f), NEW b \in BOOLEAN, pass' = Accumulated(r, f, b)
    PROVE  /\ pass' \in APass
           /\ pass'.at = pass.at /\ pass'.items = pass.items
           /\ pass'.known = pass.known \ {f} /\ pass'.leaves = pass.leaves \ {f}
           /\ pass'.ids = pass.ids \union {f}
           /\ pass'.pairs = IF b THEN pass.pairs \union {f} ELSE pass.pairs
           /\ pass.compose \subseteq pass'.compose
           /\ \A i \in ItemsOf(pass, f) : <<i, f>> \in pass'.compose
           /\ pass'.missed = pass.missed /\ pass'.bare = pass.bare
           /\ pass'.moved = pass.moved
<1> DEFINE P == IF b THEN r.pairs \union {f} ELSE r.pairs
           C == r.compose \union {<<i, f>> : i \in OwnersOf(r, f)}
           D == r.ids \union {f}
<1>1. pass' = [r EXCEPT !.compose = C, !.pairs = P, !.ids = D]
  BY DEF Accumulated
<1>2. r \in APass
  BY DEF Trimmed
<1>3. OwnersOf(r, f) = ItemsOf(pass, f) /\ OwnersOf(r, f) \subseteq Items
  BY <1>2 DEF Trimmed, OwnersOf, ItemsOf, APass
<1>4. P \in SUBSET Files /\ C \in SUBSET (Items \X Files) /\ D \in SUBSET Files
  BY <1>2, <1>3 DEF APass
<1>5. \A i \in ItemsOf(pass, f) : <<i, f>> \in C
  BY <1>3
<1>6. r.compose \subseteq C
  OBVIOUS
<1>7. P = IF b THEN pass.pairs \union {f} ELSE pass.pairs
  BY DEF Trimmed
<1> HIDE DEF P, C, D
<1>8. /\ pass' \in APass /\ pass'.compose = C /\ pass'.pairs = P
      /\ pass'.ids = D
      /\ pass'.at = r.at /\ pass'.items = r.items /\ pass'.known = r.known
      /\ pass'.leaves = r.leaves /\ pass'.missed = r.missed /\ pass'.bare = r.bare
      /\ pass'.moved = r.moved
  BY <1>1, <1>2, <1>4 DEF APass
<1> QED
  BY <1>5, <1>6, <1>7, <1>8 DEF Trimmed, D

\* A file that was dealt with stays so while others are.
LEMMA DealtKept ==
    ASSUME NEW f \in Files, Dealt(f), UNCHANGED galleries, place'[f] = place[f],
           pass.ids \subseteq pass'.ids,
           pass'.items = pass.items, pass.compose \subseteq pass'.compose,
           pass.bare \subseteq pass'.bare, tied \subseteq tied', dirty \subseteq dirty',
           pending \subseteq pending', mem'[f] = mem[f]
    PROVE  Dealt(f)'
<1>1. f \in pass'.ids
  BY DEF Dealt
<1>2. \A i : Housed(i)' = Housed(i) /\ GalleryOf(i)' = GalleryOf(i)
  BY DEF Housed, GalleryOf, ByCode, ByTitle
<1>3. Joined(f)'
  <2> SUFFICES ASSUME NEW i \in ItemsOf(pass, f)
               PROVE  \/ <<i, f>> \in pass'.compose \/ i \in pass'.bare
                      \/ Housed(i)' /\ <<GalleryOf(i)', f>> \in tied'
    BY DEF Joined, ItemsOf
  <2> QED
    BY <1>2 DEF Dealt, Joined
<1> QED
  BY <1>1, <1>3 DEF Dealt

\* A stamp: the scene that holds the file as its primary is in the store.
LEMMA StampKeeps ==
    ASSUME StashInv, pass.at \in {"known", "sweep"}, NEW f \in pass.leaves, NEW r, Trimmed(r, f),
           NEW n \in Int, Stamp(f, n, r), UNCHANGED <<split, serverVars, seen, stored, moves>>,
           f \notin pass.moved => place[f].primary /\ n = place[f].host
    PROVE  StashInv'
<1> USE DEF StashInv
<1>1. f \in Files /\ pass.leaves \subseteq Files
  BY DEF PassTyped, APass
<1>2. /\ dirty' = dirty \union {<<f, n>>} /\ UNCHANGED <<pending, doubtful, tied>>
      /\ mem' = [mem EXCEPT ![f] = n] /\ pass' = Accumulated(r, f, FALSE)
  BY DEF Stamp
<1>3. /\ pass' \in APass
      /\ pass'.at = pass.at /\ pass'.items = pass.items
      /\ pass'.known = pass.known \ {f} /\ pass'.leaves = pass.leaves \ {f}
      /\ pass'.ids = pass.ids \union {f} /\ pass'.pairs = pass.pairs
      /\ pass.compose \subseteq pass'.compose
      /\ \A i \in ItemsOf(pass, f) : <<i, f>> \in pass'.compose
      /\ pass'.missed = pass.missed /\ pass'.bare = pass.bare
      /\ pass'.moved = pass.moved
  BY <1>1, <1>2, AccumulatedIs
<1>4. PassTyped' /\ mem'[f] = n /\ \A g \in Files : g # f => mem'[g] = mem[g]
  BY <1>1, <1>2, <1>3 DEF PassTyped, serverVars
<1>5. Phased'
  BY <1>2, <1>3 DEF Phased
<1>6. NotMoved'
  BY <1>2, <1>3 DEF NotMoved, serverVars
<1>7. Sorted'
  <2> SUFFICES ASSUME NEW g \in Index(pass.items) \ (pass.missed \union pass.moved)
               PROVE  g \in pass'.leaves \/ Dealt(g)' \/ Hopeless(g)'
    BY <1>3 DEF Sorted, Index
  <2>1. g \in Files
    BY IndexType DEF PassTyped, APass
  <2>2. CASE g = f
    <3>1. Joined(f)'
      BY <1>3 DEF Joined, ItemsOf
    <3>2. place'[f].primary /\ mem'[f] = place'[f].host /\ <<f, mem'[f]>> \in dirty'
      BY <1>2, <1>4, <2>2 DEF serverVars
    <3> QED
      BY <1>3, <2>2, <3>1, <3>2 DEF Dealt
  <2>3. CASE g # f
    <3>1. g \in pass.leaves \/ Dealt(g) \/ Hopeless(g)
      BY DEF Sorted
    <3>2. Dealt(g) => Dealt(g)'
      BY <1>2, <1>3, <1>4, <2>1, <2>3, DealtKept DEF serverVars
    <3>3. Hopeless(g) => Hopeless(g)'
      BY <1>2 DEF Hopeless, serverVars
    <3> QED
      BY <1>3, <2>3, <3>1, <3>2, <3>3
  <2> QED
    BY <2>2, <2>3
<1> QED
  BY <1>3, <1>4, <1>5, <1>6, <1>7 DEF AllMirrored

\* A split: the file is no scene's primary, and a scene for it is in the store.
LEMMA SplitKeeps ==
    ASSUME StashInv, pass.at \in {"known", "sweep"}, NEW f \in pass.leaves, NEW r, Trimmed(r, f),
           MaySplit(f), Split(f, r), UNCHANGED <<split, serverVars, seen, stored, moves>>
    PROVE  StashInv'
<1> USE DEF StashInv
<1>1. f \in Files /\ pass.leaves \subseteq Files
  BY DEF PassTyped, APass
<1>2. /\ pending' = pending \union {f} /\ doubtful' = doubtful \ {f}
      /\ UNCHANGED <<dirty, tied, mem>> /\ pass' = Accumulated(r, f, TRUE)
  BY DEF Split
<1>3. /\ pass' \in APass
      /\ pass'.at = pass.at /\ pass'.items = pass.items
      /\ pass'.known = pass.known \ {f} /\ pass'.leaves = pass.leaves \ {f}
      /\ pass'.ids = pass.ids \union {f} /\ pass'.pairs = pass.pairs \union {f}
      /\ pass.compose \subseteq pass'.compose
      /\ \A i \in ItemsOf(pass, f) : <<i, f>> \in pass'.compose
      /\ pass'.missed = pass.missed /\ pass'.bare = pass.bare
      /\ pass'.moved = pass.moved
  BY <1>1, <1>2, AccumulatedIs
<1>4. PassTyped'
  BY <1>2, <1>3 DEF PassTyped, serverVars
<1>5. Phased'
  BY <1>2, <1>3 DEF Phased
<1>6. NotMoved'
  BY <1>2, <1>3 DEF NotMoved, MaySplit, serverVars
<1>7. Sorted'
  <2> SUFFICES ASSUME NEW g \in Index(pass.items) \ (pass.missed \union pass.moved)
               PROVE  g \in pass'.leaves \/ Dealt(g)' \/ Hopeless(g)'
    BY <1>3 DEF Sorted, Index
  <2>1. g \in Files
    BY IndexType DEF PassTyped, APass
  <2>2. CASE g = f
    <3>1. Joined(f)'
      BY <1>3 DEF Joined, ItemsOf
    <3> QED
      BY <1>2, <1>3, <2>2, <3>1 DEF Dealt
  <2>3. CASE g # f
    <3>1. g \in pass.leaves \/ Dealt(g) \/ Hopeless(g)
      BY DEF Sorted
    <3>2. Dealt(g) => Dealt(g)'
      BY <1>2, <1>3, <2>1, <2>3, DealtKept DEF serverVars
    <3>3. Hopeless(g) => Hopeless(g)'
      BY <1>2, <2>3 DEF Hopeless, serverVars
    <3> QED
      BY <1>3, <2>3, <3>1, <3>2, <3>3
  <2> QED
    BY <2>2, <2>3
<1> QED
  BY <1>3, <1>4, <1>5, <1>6, <1>7 DEF AllMirrored

\* A file is left where it is, for a reason, or for the sweep.
LEMMA LeftKeeps ==
    ASSUME StashInv, pass.at \in {"known", "sweep"}, NEW f \in pass.leaves, NEW r \in APass,
           LeaveAlone(r), UNCHANGED <<split, serverVars, seen, stored, moves>>,
           r.at = pass.at, r.items = pass.items, r.known = pass.known \ {f},
           r.ids = pass.ids, r.pairs = pass.pairs, r.compose = pass.compose,
           r.missed = pass.missed, r.bare = pass.bare, r.moved = pass.moved,
           \/ r.leaves = pass.leaves
           \/ r.leaves = pass.leaves \ {f} /\ (f \notin pass.moved => Hopeless(f))
    PROVE  StashInv'
<1> USE DEF StashInv
<1>1. pass' = r /\ UNCHANGED <<cacheVars, mem>>
  BY DEF LeaveAlone
<1>2. PassTyped'
  BY <1>1 DEF PassTyped, serverVars
<1>3. Phased'
  BY <1>1 DEF Phased, cacheVars
<1>4. NotMoved'
  BY <1>1 DEF NotMoved, cacheVars, serverVars
<1>5. Sorted'
  <2> SUFFICES ASSUME NEW g \in Index(pass.items) \ (pass.missed \union pass.moved)
               PROVE  g \in pass'.leaves \/ Dealt(g)' \/ Hopeless(g)'
    BY <1>1 DEF Sorted, Index
  <2>1. g \in Files
    BY IndexType DEF PassTyped, APass
  <2>2. g \in pass.leaves \/ Dealt(g) \/ Hopeless(g)
    BY DEF Sorted
  <2>3. Dealt(g) => Dealt(g)'
    BY <1>1, <2>1, DealtKept DEF serverVars, cacheVars
  <2>4. Hopeless(g) => Hopeless(g)'
    BY <1>1 DEF Hopeless, serverVars, cacheVars
  <2> QED
    BY <1>1, <2>2, <2>3, <2>4
<1> QED
  BY <1>1, <1>2, <1>3, <1>4, <1>5 DEF AllMirrored

\* A file is adjudicated: by its stored id, or by what was read of it.
LEMMA AdjudicationKeeps ==
    ASSUME StashInv, NEW f \in Files, FastPath(f) \/ Adjudicate(f)
    PROVE  StashInv'
<1> USE DEF StashInv
<1>1. UNCHANGED <<split, serverVars, seen, stored, moves>> /\ pass \in APass
  BY DEF FastPath, Adjudicate, PassTyped
<1>2. CASE FastPath(f)
  <2> DEFINE gone == Handled(pass, f, TRUE)
             left == Handled(pass, f, FALSE)
  <2>1. /\ pass.at = "known" /\ f \in pass.known /\ f \in pass.leaves
        /\ \/ /\ mem[f] = place[f].host /\ place[f].primary /\ Stamp(f, mem[f], gone)
           \/ /\ mem[f] = place[f].host /\ ~place[f].primary /\ NotOwned(f, gone, left)
           \/ /\ mem[f] # place[f].host /\ LeaveAlone(left)
    BY <1>2 DEF FastPath, Phased
  <2>2. Trimmed(gone, f)
    BY <1>1 DEF Handled, Trimmed, APass
  <2>3. /\ left \in APass /\ left.at = pass.at /\ left.items = pass.items
        /\ left.known = pass.known \ {f} /\ left.ids = pass.ids /\ left.pairs = pass.pairs
        /\ left.compose = pass.compose /\ left.missed = pass.missed /\ left.bare = pass.bare
        /\ left.moved = pass.moved /\ left.leaves = pass.leaves
    BY <1>1 DEF Handled, APass
  <2>4. mem[f] \in Int
    BY DEF PassTyped
  <2> HIDE DEF gone, left
  <2>5. ASSUME LeaveAlone(left) PROVE StashInv'
    BY <1>1, <2>1, <2>3, <2>5, LeftKeeps
  <2>6. ASSUME mem[f] = place[f].host, place[f].primary, Stamp(f, mem[f], gone) PROVE StashInv'
    BY <1>1, <2>1, <2>2, <2>4, <2>6, StampKeeps
  <2>7. ASSUME MaySplit(f), Split(f, gone) PROVE StashInv'
    BY <1>1, <2>1, <2>2, <2>7, SplitKeeps
  <2> QED
    BY <2>1, <2>5, <2>6, <2>7 DEF NotOwned
<1>3. CASE Adjudicate(f)
  <2> DEFINE r == [pass EXCEPT !.leaves = @ \ {f}]
  <2>1. /\ pass.at = "sweep" /\ f \in pass.leaves /\ seen[f] # Nowhere
        /\ \/ Judged(f).primary /\ Stamp(f, Judged(f).host, r)
           \/ ~Judged(f).primary /\ NotOwned(f, r, r)
    BY <1>3 DEF Adjudicate
  <2>2. pass.known = {} /\ pass.known \ {f} = pass.known
    BY <2>1 DEF Phased
  <2>3. Trimmed(r, f)
    BY <1>1, <2>2 DEF Trimmed, APass
  <2>4. Judged(f) \in APlace /\ Judged(f).host \in Int
    BY DEF Judged, PassTyped, APlace
  <2>5. f \notin pass.moved => Judged(f) = place[f]
    BY <2>1 DEF Judged, NotMoved
  <2> HIDE DEF r
  <2>6. ASSUME Judged(f).primary, Stamp(f, Judged(f).host, r) PROVE StashInv'
    BY <1>1, <2>1, <2>3, <2>4, <2>5, <2>6, StampKeeps
  <2>7. ASSUME MaySplit(f), Split(f, r) PROVE StashInv'
    BY <1>1, <2>1, <2>3, <2>7, SplitKeeps
  <2>8. ASSUME ~Judged(f).primary, ~MaySplit(f), LeaveAlone(r) PROVE StashInv'
    <3>1. f \notin pass.moved => Hopeless(f)
      BY <2>1, <2>5, <2>8 DEF Hopeless, MaySplit, Phased
    <3>2. /\ r \in APass /\ r.at = pass.at /\ r.items = pass.items
          /\ r.known = pass.known \ {f} /\ r.ids = pass.ids /\ r.pairs = pass.pairs
          /\ r.compose = pass.compose /\ r.missed = pass.missed /\ r.bare = pass.bare
          /\ r.moved = pass.moved /\ r.leaves = pass.leaves \ {f}
      BY <2>3 DEF Trimmed
    <3> QED
      BY <1>1, <2>1, <2>8, <3>1, <3>2, LeftKeeps
  <2> QED
    BY <2>1, <2>6, <2>7, <2>8 DEF NotOwned
<1> QED
  BY <1>2, <1>3

\* What changes only the place and the reading of the pass.
LEMMA ReadKeeps ==
    ASSUME StashInv,
           Swept \/ (\E f \in Files : Read(f) \/ AdjudicationFails(f))
    PROVE  StashInv'
<1> USE DEF StashInv
<1>1. /\ UNCHANGED <<split, serverVars, cacheVars, mem, stored>> /\ pass \in APass
      /\ pass.at \in {"known", "sweep"} /\ (pass.at = "sweep" \/ pass.known = {} \/ UNCHANGED seen)
  BY DEF Swept, Read, AdjudicationFails, PassTyped
<1>2. ASSUME pass' \in APass, pass'.at \in {"known", "sweep", "compose"},
             moves' \in Nat, seen' \in [Files -> APlace],
             pass'.items = pass.items, pass'.known \subseteq pass'.leaves,
             pass'.at # "known" => pass'.known = {}, pass'.leaves \subseteq pass.leaves,
             pass'.at = "compose" => pass'.leaves = {},
             pass'.ids = pass.ids, pass'.pairs = pass.pairs, pass'.compose = pass.compose,
             pass.missed \subseteq pass'.missed, pass'.bare = pass.bare, pass'.moved = pass.moved,
             \A f \in Files \ pass.moved : seen'[f] \in {seen[f], Nowhere, place[f]},
             \A f \in pass.leaves \ pass'.leaves : Hopeless(f) \/ f \in pass'.missed
      PROVE  StashInv'
  <2>1. PassTyped'
    BY <1>1, <1>2 DEF PassTyped, serverVars
  <2>2. Phased'
    BY <1>1, <1>2 DEF Phased, cacheVars
  <2>3. NotMoved'
    BY <1>1, <1>2 DEF NotMoved, cacheVars, serverVars
  <2>4. Sorted'
    <3> SUFFICES ASSUME NEW g \in Index(pass.items) \ (pass'.missed \union pass.moved)
                 PROVE  g \in pass'.leaves \/ Dealt(g)' \/ Hopeless(g)'
      BY <1>2 DEF Sorted, Index
    <3>1. g \in Files
      BY <1>1, IndexType DEF APass
    <3>2. g \in pass.leaves \/ Dealt(g) \/ Hopeless(g)
      BY <1>1, <1>2 DEF Sorted
    <3>3. Dealt(g) => Dealt(g)'
      BY <1>1, <1>2, <3>1, DealtKept DEF serverVars, cacheVars
    <3>4. Hopeless(g) => Hopeless(g)'
      BY <1>1 DEF Hopeless, serverVars, cacheVars
    <3> QED
      BY <1>2, <3>2, <3>3, <3>4
  <2> QED
    BY <1>2, <2>1, <2>2, <2>3, <2>4 DEF AllMirrored
<1>3. ASSUME NEW f \in Files, Read(f) PROVE StashInv'
  <2>1. /\ seen' = [seen EXCEPT ![f] = place[f]] /\ pass' = [pass EXCEPT !.at = "sweep"]
        /\ moves' = moves /\ (pass.at = "sweep" \/ pass.known = {})
    BY <1>3 DEF Read
  <2>2. /\ pass' \in APass /\ pass'.at = "sweep" /\ pass'.items = pass.items
        /\ pass'.known = pass.known /\ pass'.leaves = pass.leaves /\ pass'.ids = pass.ids
        /\ pass'.pairs = pass.pairs /\ pass'.compose = pass.compose
        /\ pass'.missed = pass.missed /\ pass'.bare = pass.bare /\ pass'.moved = pass.moved
    BY <1>1, <2>1 DEF APass, Phases
  <2>3. seen' \in [Files -> APlace] /\ \A g \in Files : seen'[g] \in {seen[g], place[g]}
    BY <2>1 DEF PassTyped
  <2> QED
    BY <1>2, <2>1, <2>2, <2>3 DEF PassTyped, Phased
<1>4. ASSUME NEW f \in Files, AdjudicationFails(f) PROVE StashInv'
  <2>1. /\ pass' = [pass EXCEPT !.leaves = @ \ {f}, !.missed = @ \union {f}]
        /\ moves' = moves + 1 /\ pass.at = "sweep" /\ UNCHANGED seen
    BY <1>4 DEF AdjudicationFails, Trouble
  <2>2. /\ pass' \in APass /\ pass'.at = pass.at /\ pass'.items = pass.items
        /\ pass'.known = pass.known /\ pass'.leaves = pass.leaves \ {f} /\ pass'.ids = pass.ids
        /\ pass'.pairs = pass.pairs /\ pass'.compose = pass.compose
        /\ pass'.missed = pass.missed \union {f} /\ pass'.bare = pass.bare
        /\ pass'.moved = pass.moved
    BY <1>1, <2>1 DEF APass
  <2> QED
    BY <1>2, <2>1, <2>2 DEF PassTyped, Phased
<1>5. ASSUME Swept PROVE StashInv'
  <2>1. /\ pass' = [pass EXCEPT !.at = "compose", !.leaves = {}] /\ UNCHANGED <<seen, moves>>
        /\ pass.at = "sweep" \/ pass.known = {}
        /\ \A f \in pass.leaves : place[f] = Nowhere
    BY <1>5 DEF Swept
  <2>2. /\ pass' \in APass /\ pass'.at = "compose" /\ pass'.items = pass.items
        /\ pass'.known = pass.known /\ pass'.leaves = {} /\ pass'.ids = pass.ids
        /\ pass'.pairs = pass.pairs /\ pass'.compose = pass.compose
        /\ pass'.missed = pass.missed /\ pass'.bare = pass.bare /\ pass'.moved = pass.moved
    BY <1>1, <2>1 DEF APass, Phases
  <2>3. \A f \in pass.leaves : Hopeless(f)
    BY <2>1 DEF Hopeless, Phased
  <2> QED
    BY <1>2, <2>1, <2>2, <2>3 DEF PassTyped, Phased
<1> QED
  BY <1>3, <1>4, <1>5

-----------------------------------------------------------------------------
(* A pass begins, composes, flushes, records and ends.                     *)

\* At the start no pass is under way.
LEMMA StashStart == StashInit => StashInv
<1> SUFFICES ASSUME StashInit PROVE StashInv
  OBVIOUS
<1>1. PassTyped
  BY Places, RestingIs DEF StashInit, PassTyped, NoId
<1>2. pass.at = "idle"
  BY RestingIs DEF StashInit
<1> QED
  BY <1>1, <1>2, RestingIs DEF StashInit, StashInv, Phased, NotMoved, Sorted, AllMirrored

\* A pass begins: every file of its items is still to be looked at.
LEMMA StartKeeps == ASSUME StashInv, NEW items \in Creators, Start(items) PROVE StashInv'
<1> USE DEF StashInv
<1>1. /\ pass = Resting /\ pass.at = "idle"
      /\ UNCHANGED <<split, onServer, galleries, linked, seen, cacheVars, mem, stored, moves>>
  BY RestingIs DEF Start
<1>2. items \subseteq Items /\ Index(items) \subseteq Files
  BY StashAssumption, IndexType
<1>3. /\ pass' \in APass /\ pass'.at = "known" /\ pass'.items = items
      /\ pass'.leaves = Index(items) /\ pass'.known \subseteq Index(items)
      /\ pass'.ids = {} /\ pass'.pairs = {}
  <2> DEFINE K == {f \in Index(items) : mem[f] # NoId}
             L == Index(items)
  <2>1. pass' = [Resting EXCEPT !.at = "known", !.items = items, !.leaves = L, !.known = K]
    BY DEF Start
  <2>2. K \subseteq L
    OBVIOUS
  <2> HIDE DEF K, L
  <2>3. L \subseteq Files
    BY <1>2 DEF L
  <2> QED
    BY <1>2, <2>1, <2>2, <2>3, RestingIs DEF APass, Phases, L
<1>4. place' \in [Files -> APlace] /\ scenes' \in [Files -> Nat]
  <2>1. PICK p \in Scanned(Index(items)) :
          /\ place' = p
          /\ scenes' = [f \in Files |-> IF p[f].host > scenes[f] THEN p[f].host ELSE scenes[f]]
    BY DEF Start
  <2>2. p \in [Files -> APlace]
    BY Places DEF Scanned
  <2>3. \A f \in Files : p[f].host \in Int /\ scenes[f] \in Nat
    BY <2>2 DEF APlace, PassTyped
  <2>4. \A f \in Files : (IF p[f].host > scenes[f] THEN p[f].host ELSE scenes[f]) \in Nat
    BY <2>3
  <2> QED
    BY <2>1, <2>2, <2>4
<1>5. PassTyped'
  BY <1>1, <1>3, <1>4 DEF PassTyped
<1>6. Phased' /\ NotMoved'
  BY <1>1, <1>3 DEF Phased, NotMoved, cacheVars
<1>7. Sorted' /\ AllMirrored'
  BY <1>3 DEF Sorted, AllMirrored, Index
<1> QED
  BY <1>5, <1>6, <1>7

\* A gallery is an item's.
LEMMA GalleryType == ASSUME galleries \subseteq Items, NEW i \in Items PROVE GalleryOf(i) \in Items
<1>1. ByTitle(i) # {} => (CHOOSE j \in ByTitle(i) : TRUE) \in ByTitle(i)
  OBVIOUS
<1> QED
  BY <1>1 DEF GalleryOf, ByTitle

\* An item gets its gallery, or is set aside.
LEMMA ComposeKeeps ==
    ASSUME StashInv, NEW k \in Items, Compose(k) \/ ComposeFails(k)
    PROVE  StashInv'
<1> USE DEF StashInv
<1> DEFINE C == {t \in pass.compose : t[1] # k}
<1>1. /\ pass.at = "compose" /\ pass \in APass /\ tied \subseteq tied'
      /\ galleries' \in {galleries, galleries \union {GalleryOf(k)}}
      /\ UNCHANGED <<split, place, scenes, onServer, linked, seen, dirty, pending,
                     doubtful, mem, stored>>
      /\ moves' \in Nat
  BY DEF Compose, ComposeFails, Trouble, PassTyped, cacheVars
<1>2. \/ pass' = [pass EXCEPT !.compose = C]
      \/ pass' = [pass EXCEPT !.compose = C, !.bare = @ \union {k}]
  BY DEF Compose, ComposeFails
<1>3. C \in SUBSET (Items \X Files)
  BY <1>1 DEF APass
<1>4. \A i, g : <<i, g>> \in pass.compose /\ i # k => <<i, g>> \in C
  OBVIOUS
<1>5. C \subseteq pass.compose
  OBVIOUS
<1> HIDE DEF C
<1>6. /\ pass' \in APass /\ pass'.at = pass.at /\ pass'.items = pass.items
      /\ pass'.known = pass.known /\ pass'.leaves = pass.leaves /\ pass'.ids = pass.ids
      /\ pass'.pairs = pass.pairs /\ pass'.compose = C
      /\ pass'.missed = pass.missed /\ pass.bare \subseteq pass'.bare
      /\ pass'.moved = pass.moved
  <2> DEFINE B == pass.bare \union {k}
  <2>1. pass.bare \subseteq B /\ B \in SUBSET Items
    BY <1>1 DEF APass
  <2>2. pass' = [pass EXCEPT !.compose = C] \/ pass' = [pass EXCEPT !.compose = C, !.bare = B]
    BY <1>2
  <2> HIDE DEF B
  <2>3. CASE pass' = [pass EXCEPT !.compose = C]
    BY <1>1, <1>3, <2>3 DEF APass
  <2>4. CASE pass' = [pass EXCEPT !.compose = C, !.bare = B]
    BY <1>1, <1>3, <2>1, <2>4 DEF APass
  <2> QED
    BY <2>2, <2>3, <2>4
<1>7. PassTyped'
  BY <1>1, <1>6, GalleryType DEF PassTyped
<1>8. Phased' /\ NotMoved'
  BY <1>1, <1>6 DEF Phased, NotMoved
<1>9. ASSUME NEW f \in Files, NEW i \in ItemsOf(pass, f), Joined(f)
      PROVE  <<i, f>> \in C \/ i \in pass'.bare \/ (Housed(i)' /\ <<GalleryOf(i)', f>> \in tied')
  <2>1. i \in Items
    BY <1>1 DEF ItemsOf, APass
  <2>2. CASE <<i, f>> \in pass.compose /\ i # k
    BY <1>4, <2>2
  <2>3. CASE <<i, f>> \in pass.compose /\ i = k
    <3>1. CASE ComposeFails(k)
      <4>1. pass' = [pass EXCEPT !.compose = C, !.bare = @ \union {k}]
        BY <3>1 DEF ComposeFails, C
      <4> QED
        BY <1>1, <2>3, <4>1 DEF APass
    <3>2. CASE Compose(k)
      <4>1. /\ galleries' = galleries \union {GalleryOf(k)}
            /\ tied' = tied \union {<<GalleryOf(k), g>> : g \in FilesOf(k)}
        BY <3>2 DEF Compose
      <4>2. f \in FilesOf(k)
        BY <2>3 DEF FilesOf
      <4>3. Housed(i)' /\ GalleryOf(i)' = GalleryOf(i)
        BY <1>1, <2>1, <2>3, <4>1, GalleryKept DEF PassTyped
      <4> QED
        BY <2>3, <4>1, <4>2, <4>3
    <3> QED
      BY <3>1, <3>2
  <2>4. CASE i \in pass.bare
    BY <1>6, <2>4
  <2>5. CASE Housed(i) /\ <<GalleryOf(i), f>> \in tied
    <3>1. Housed(i)' /\ GalleryOf(i)' = GalleryOf(i)
      BY <1>1, <2>1, <2>5, GalleryKept DEF PassTyped
    <3>2. tied \subseteq tied'
      BY <1>1
    <3>3. <<GalleryOf(i), f>> \in tied'
      BY <2>5, <3>2
    <3>4. <<GalleryOf(i)', f>> = <<GalleryOf(i), f>>
      BY <3>1
    <3>5. <<GalleryOf(i)', f>> \in tied'
      BY <3>3, <3>4
    <3> QED
      BY <3>1, <3>5
  <2> QED
    BY <1>9, <2>2, <2>3, <2>4, <2>5 DEF Joined
<1>10. Sorted'
  <2> SUFFICES ASSUME NEW g \in Index(pass.items) \ (pass.missed \union pass.moved)
               PROVE  g \in pass'.leaves \/ Dealt(g)' \/ Hopeless(g)'
    BY <1>6 DEF Sorted, Index
  <2>1. g \in Files
    BY <1>1, IndexType DEF APass
  <2>2. g \in pass.leaves \/ Dealt(g) \/ Hopeless(g)
    BY <1>1 DEF Sorted
  <2>3. ASSUME Dealt(g) PROVE Dealt(g)'
    <3>1. Joined(g)'
      BY <1>6, <1>9, <2>1, <2>3 DEF Joined, Dealt, ItemsOf
    <3> QED
      BY <1>1, <1>6, <2>3, <3>1 DEF Dealt
  <2>4. Hopeless(g) => Hopeless(g)'
    BY <1>1 DEF Hopeless
  <2> QED
    BY <1>6, <2>2, <2>3, <2>4
<1> QED
  BY <1>1, <1>6, <1>7, <1>8, <1>10 DEF AllMirrored

\* What the flush does to a file.
LEMMA FlushedIs ==
    ASSUME PassTyped, Flushed
    PROVE  /\ place' \in [Files -> APlace] /\ scenes' \in [Files -> Nat]
           /\ UNCHANGED galleries
           /\ \A f \in Files \ pending : place'[f] = place[f] /\ NewId(f) = mem[f]
           /\ \A f \in pending \intersect Files : /\ place'[f].primary
                                                  /\ place'[f].host = NewId(f)
                                                  /\ <<f, NewId(f)>> \in onServer'
           /\ \A f \in Files : NewId(f) \in Int
           /\ dirty \subseteq onServer'
           /\ \A i, f : <<i, f>> \in tied => <<i, f, NewId(f)>> \in linked'
<1>1. \A f \in Files : /\ NewId(f) \in Int
                       /\ f \in pending => NewId(f) = scenes[f] + 1 /\ NewId(f) \in Nat
                       /\ f \notin pending => NewId(f) = mem[f]
  BY DEF PassTyped, NewId
<1>2. /\ place' = [f \in Files |-> IF f \in pending THEN Own(NewId(f)) ELSE place[f]]
      /\ scenes' = [f \in Files |-> IF f \in pending THEN NewId(f) ELSE scenes[f]]
      /\ onServer' = onServer \union dirty \union {<<f, NewId(f)>> : f \in pending}
      /\ linked' = linked \union {<<t[1], t[2], NewId(t[2])>> : t \in tied}
      /\ UNCHANGED galleries
  BY DEF Flushed
<1>3. ASSUME NEW i, NEW f, <<i, f>> \in tied PROVE <<i, f, NewId(f)>> \in linked'
  <2>1. <<<<i, f>>[1], <<i, f>>[2], NewId(<<i, f>>[2])>> \in linked'
    BY <1>2, <1>3
  <2> QED
    BY <2>1
<1>4. \A f \in Files : f \in pending => Own(NewId(f)) \in APlace
  BY <1>1, Places
<1>5. place' \in [Files -> APlace] /\ scenes' \in [Files -> Nat]
  BY <1>1, <1>2, <1>4 DEF PassTyped
<1> QED
  BY <1>1, <1>2, <1>3, <1>5, Places

\* The flush: what is in the store is on the server, and every file that was
\* dealt with is mirrored but for its row.
LEMMA FlushKeeps == ASSUME StashInv, Flush PROVE StashInv'
<1> USE DEF StashInv
<1>1. /\ pass.at = "compose" /\ pass.compose = {} /\ pass \in APass /\ Flushed
      /\ dirty' = {} /\ pending' = {} /\ doubtful' = {} /\ tied' = {}
      /\ mem' = [f \in Files |-> IF f \in pass.pairs THEN NewId(f) ELSE mem[f]]
      /\ pass' = [pass EXCEPT !.at = "flushed"]
      /\ UNCHANGED <<split, seen, stored, moves>>
  BY DEF Flush, Emptied, PassTyped
<1>2. /\ pass' \in APass /\ pass'.at = "flushed" /\ pass'.items = pass.items
      /\ pass'.known = pass.known /\ pass'.leaves = pass.leaves /\ pass'.ids = pass.ids
      /\ pass'.pairs = pass.pairs /\ pass'.missed = pass.missed /\ pass'.bare = pass.bare
      /\ pass'.moved = pass.moved
  BY <1>1 DEF APass, Phases
<1>3. PassTyped'
  BY <1>1, <1>2, FlushedIs DEF PassTyped
<1>4. Phased' /\ NotMoved' /\ Sorted'
  BY <1>1, <1>2 DEF Phased, NotMoved, Sorted
<1>5. ASSUME NEW f \in Doable' PROVE Mirrored(f)'
  <2>1. /\ f \in Index(pass.items) \ (pass.missed \union pass.moved) /\ f \in Files
        /\ place'[f] # Nowhere /\ (place'[f].primary \/ (split /\ f \notin Pictures))
    BY <1>1, <1>2, IndexType DEF Doable, Index, APass
  <2>2. pass.leaves = {}
    BY <1>1 DEF Phased
  <2>3. ~Hopeless(f)
    BY <1>1, <2>1, FlushedIs DEF Hopeless
  <2>4. Dealt(f)
    BY <1>1, <2>1, <2>2, <2>3 DEF Sorted
  <2>5. /\ place'[f].primary /\ place'[f].host = NewId(f) /\ <<f, NewId(f)>> \in onServer'
        /\ mem'[f] = NewId(f)
    <3>1. CASE f \in pending
      <4>1. f \in pass.pairs
        BY <3>1 DEF Phased
      <4> QED
        BY <1>1, <2>1, <3>1, <4>1, FlushedIs
    <3>2. CASE f \notin pending
      <4>1. /\ place[f].primary /\ mem[f] = place[f].host /\ <<f, mem[f]>> \in dirty
        BY <2>4, <3>2 DEF Dealt
      <4>2. place'[f] = place[f] /\ NewId(f) = mem[f]
        BY <1>1, <2>1, <3>2, FlushedIs
      <4>3. mem'[f] = mem[f]
        BY <1>1, <2>1, <4>2
      <4> QED
        BY <1>1, <4>1, <4>2, <4>3, FlushedIs
    <3> QED
      BY <3>1, <3>2
  <2>6. ASSUME NEW i \in ItemsOf(pass, f) \ pass.bare
        PROVE  Housed(i) /\ <<GalleryOf(i), f, NewId(f)>> \in linked'
    <3>1. Housed(i) /\ <<GalleryOf(i), f>> \in tied
      BY <1>1, <2>4 DEF Dealt, Joined
    <3> QED
      BY <1>1, <3>1, FlushedIs
  <2>7. \A i : Housed(i)' = Housed(i) /\ GalleryOf(i)' = GalleryOf(i)
    BY <1>1, FlushedIs DEF Housed, GalleryOf, ByCode, ByTitle
  <2>8. f \in pass'.ids
    BY <1>2, <2>4 DEF Dealt
  <2> QED
    BY <1>2, <2>5, <2>6, <2>7, <2>8 DEF Mirrored, ItemsOf
<1> QED
  BY <1>3, <1>4, <1>5 DEF AllMirrored

\* A row is saved with the id in memory.
LEMMA PersistKeeps == ASSUME StashInv, NEW f \in Files, Persist(f) PROVE StashInv'
<1> USE DEF StashInv
<1>1. /\ pass.at = "flushed" /\ pass \in APass /\ stored' = [stored EXCEPT ![f] = mem[f]]
      /\ pass' = [pass EXCEPT !.ids = @ \ {f}]
      /\ UNCHANGED <<split, serverVars, seen, cacheVars, mem, moves>>
  BY DEF Persist, PassTyped
<1>2. /\ pass' \in APass /\ pass'.at = "flushed" /\ pass'.items = pass.items
      /\ pass'.known = pass.known /\ pass'.leaves = pass.leaves
      /\ pass'.ids = pass.ids \ {f}
      /\ pass'.pairs = pass.pairs /\ pass'.missed = pass.missed /\ pass'.bare = pass.bare
      /\ pass'.moved = pass.moved
  BY <1>1 DEF APass, Phases
<1>3. PassTyped' /\ \A g \in Files : stored'[g] = IF g = f THEN mem[f] ELSE stored[g]
  BY <1>1, <1>2 DEF PassTyped, serverVars
<1>4. Phased' /\ NotMoved' /\ Sorted'
  BY <1>1, <1>2 DEF Phased, NotMoved, Sorted, cacheVars
<1>5. ASSUME NEW g \in Doable' PROVE Mirrored(g)'
  <2>1. g \in Doable /\ g \in Files
    BY <1>1, <1>2, IndexType DEF Doable, Index, serverVars, APass
  <2>2. Mirrored(g)
    BY <1>1, <2>1 DEF AllMirrored
  <2>3. \A i : Housed(i)' = Housed(i) /\ GalleryOf(i)' = GalleryOf(i)
    BY <1>1 DEF Housed, GalleryOf, ByCode, ByTitle, serverVars
  <2> QED
    BY <1>1, <1>2, <1>3, <2>1, <2>2, <2>3 DEF Mirrored, ItemsOf, serverVars
<1> QED
  BY <1>3, <1>4, <1>5 DEF AllMirrored

\* Whatever ends a pass leaves nothing of it behind.
LEMMA EndKeeps ==
    ASSUME StashInv, Finish \/ Abort \/ ServerFlushFails \/ Crash
    PROVE  StashInv'
<1> USE DEF StashInv
<1>1. /\ pending' = {} /\ seen' = [f \in Files |-> Nowhere] /\ pass' = Resting
      /\ split' = split /\ stored' = stored /\ mem' \in {mem, stored}
      /\ Flushed \/ UNCHANGED serverVars
      /\ moves' = moves \/ Trouble
  BY DEF Finish, Abort, ServerFlushFails, Crash, Finalized, Emptied
<1>2. PassTyped'
  BY <1>1, FlushedIs, Places, RestingIs DEF PassTyped, Trouble, serverVars
<1> QED
  BY <1>1, <1>2, RestingIs DEF Phased, NotMoved, Sorted, AllMirrored

\* Stash moves a file: nothing is promised of it any more in this pass.
LEMMA RearrangeKeeps == ASSUME StashInv, NEW f \in Files, Rearrange(f) PROVE StashInv'
<1> USE DEF StashInv
<1>1. /\ UNCHANGED <<split, scenes, onServer, galleries, linked, seen, dirty, pending,
                     tied, mem, stored>>
      /\ moves' = moves + 1 /\ pass \in APass
      /\ doubtful' = doubtful \union ({f} \intersect pending)
      /\ pass' = IF pass = Resting THEN pass ELSE [pass EXCEPT !.moved = @ \union {f}]
  BY DEF Rearrange, Trouble, PassTyped
<1>2. PICK q \in APlace : place' = [place EXCEPT ![f] = q]
  <2>1. PICK q \in {Aside, [place[f] EXCEPT !.primary = FALSE]}
                   \union {Own(n) : n \in {place[f].host} \ {Foreign}} :
          place' = [place EXCEPT ![f] = q]
    BY DEF Rearrange
  <2>2. place[f] \in APlace /\ place[f].host \in Int
    BY DEF PassTyped, APlace
  <2>3. [place[f] EXCEPT !.primary = FALSE] \in APlace
    BY <2>2 DEF APlace
  <2> QED
    BY <2>1, <2>2, <2>3, Places
<1>3. place' \in [Files -> APlace] /\ \A g \in Files : g # f => place'[g] = place[g]
  BY <1>2 DEF PassTyped
<1>4. /\ pass' \in APass /\ pass'.at = pass.at /\ pass'.items = pass.items
      /\ pass'.known = pass.known /\ pass'.leaves = pass.leaves /\ pass'.ids = pass.ids
      /\ pass'.pairs = pass.pairs /\ pass'.compose = pass.compose
      /\ pass'.missed = pass.missed /\ pass'.bare = pass.bare
      /\ pass.at # "idle" => pass'.moved = pass.moved \union {f}
      /\ pass.moved \subseteq pass'.moved
  BY <1>1, RestingIs DEF APass
<1>5. PassTyped' /\ Phased'
  BY <1>1, <1>3, <1>4 DEF PassTyped, Phased
<1>6. NotMoved'
  <2>1. \A g \in pending : g \in Files
    BY <1>1 DEF Phased, APass
  <2> QED
    BY <1>1, <1>3, <1>4, <2>1 DEF NotMoved, Phased
<1>7. \A i : Housed(i)' = Housed(i) /\ GalleryOf(i)' = GalleryOf(i)
  BY <1>1 DEF Housed, GalleryOf, ByCode, ByTitle
<1>8. Sorted'
  <2> SUFFICES ASSUME pass.at \in {"known", "sweep", "compose"},
                      NEW g \in Index(pass.items) \ (pass.missed \union pass'.moved)
               PROVE  g \in pass'.leaves \/ Dealt(g)' \/ Hopeless(g)'
    BY <1>4 DEF Sorted, Index
  <2>1. g \in Files /\ g # f /\ g \notin pass.moved
    BY <1>1, <1>4, IndexType DEF APass
  <2>2. g \in pass.leaves \/ Dealt(g) \/ Hopeless(g)
    BY <2>1 DEF Sorted
  <2>3. Dealt(g) => Dealt(g)'
    BY <1>1, <1>3, <1>4, <2>1, DealtKept
  <2>4. Hopeless(g) => Hopeless(g)'
    BY <1>1, <1>3, <2>1 DEF Hopeless
  <2> QED
    BY <1>4, <2>2, <2>3, <2>4
<1>9. AllMirrored'
  <2> SUFFICES ASSUME pass.at = "flushed", NEW g \in Doable' PROVE Mirrored(g)'
    BY <1>4 DEF AllMirrored
  <2>1. g \in Files /\ g # f /\ g \in Index(pass.items)
    BY <1>1, <1>4, IndexType DEF Doable, Index, APass
  <2>2. g \in Doable
    BY <1>1, <1>3, <1>4, <2>1 DEF Doable, Index
  <2>3. Mirrored(g)
    BY <2>2 DEF AllMirrored
  <2> QED
    BY <1>1, <1>3, <1>4, <1>7, <2>1, <2>3 DEF Mirrored, ItemsOf
<1> QED
  BY <1>5, <1>6, <1>8, <1>9

-----------------------------------------------------------------------------
(* The specification of the pass.                                          *)

\* The invariant is inductive.
LEMMA StashStep == StashInv /\ [StashNext]_stashVars => StashInv'
<1>1. ASSUME StashInv, StashNext PROVE StashInv'
  BY <1>1, AdjudicationKeeps, ReadKeeps, StartKeeps, ComposeKeeps, FlushKeeps, PersistKeeps,
     EndKeeps, RearrangeKeeps
  DEF StashNext
<1>2. ASSUME StashInv, UNCHANGED stashVars PROVE StashInv'
  <2>1. /\ UNCHANGED <<split, place, onServer, galleries, linked, seen, dirty, pending>>
        /\ UNCHANGED <<doubtful, tied, mem, stored, pass, moves, scenes>>
    BY <1>2 DEF stashVars, serverVars, cacheVars
  <2>2. PassTyped' /\ Phased' /\ NotMoved'
    BY <1>2, <2>1 DEF StashInv, PassTyped, Phased, NotMoved
  <2>3. \A i : Housed(i)' = Housed(i) /\ GalleryOf(i)' = GalleryOf(i)
    BY <2>1 DEF Housed, GalleryOf, ByCode, ByTitle
  <2>4. \A f : Dealt(f)' = Dealt(f) /\ Hopeless(f)' = Hopeless(f) /\ Mirrored(f)' = Mirrored(f)
    BY <2>1, <2>3 DEF Dealt, Joined, ItemsOf, Hopeless, Mirrored
  <2>5. Doable' = Doable
    BY <2>1 DEF Doable, Index
  <2> QED
    BY <1>2, <2>1, <2>2, <2>4, <2>5 DEF StashInv, Sorted, AllMirrored, Index
<1> QED
  BY <1>1, <1>2

\* A pass that ends well leaves every file that Stash knew, that it could deal
\* with and that nobody moved meanwhile primary of a scene with its metadata, in
\* the gallery of every item that owns it, and recorded in the database, whatever
\* earlier passes failed at (stash/processing, _fast_path_known_media to
\* _finalize_creator).
THEOREM RecordedCorrect == StashSpec => RecordedAfterRun
<1>1. StashInv /\ [StashNext]_stashVars =>
        [Finish =>
          \A f \in Doable :
             /\ place[f].primary
             /\ stored[f] = place[f].host
             /\ <<f, place[f].host>> \in onServer
             /\ \A i \in ItemsOf(pass, f) \ pass.bare :
                   <<GalleryOf(i), f, place[f].host>> \in linked]_stashVars
  <2> SUFFICES ASSUME StashInv, Finish, NEW f \in Doable PROVE Mirrored(f) /\ f \notin pass.ids
    BY DEF Mirrored
  <2> QED
    BY DEF Finish, StashInv, AllMirrored
<1> QED
  BY <1>1, StashStart, StashStep, PTL DEF StashSpec, RecordedAfterRun

\* The flush never splits a file off the scene whose primary it is, unless Stash
\* moved it after the forced look at it (stash/processing,
\* _adjudicate_not_owned).
THEOREM SplitCorrect == StashSpec => NoSelfSplit
<1>1. StashInv /\ [StashNext]_stashVars =>
        [\A f \in pending \ doubtful : scenes'[f] > scenes[f] => ~place[f].primary]_stashVars
  BY DEF StashInv, NotMoved
<1> QED
  BY <1>1, StashStart, StashStep, PTL DEF StashSpec, NoSelfSplit

=============================================================================
