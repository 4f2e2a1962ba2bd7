--------------------------- MODULE Custody_proofs ---------------------------
(***************************************************************************)
(* Proofs about Custody, for all sets of files, lengths of contents and    *)
(* numbers of backups: what an exit status of the reboot check says of the *)
(* bytes, and that no backup writes over another.                          *)
(***************************************************************************)
EXTENDS Custody, SequenceTheorems, SumFacts

Kept == ToSet(Listed)
Bytes == Seq(Nat)
Content == Bytes \cup {None}

-----------------------------------------------------------------------------
(* Sequences *)

LEMMA NoneIsNoContent == None \notin Nat /\ None \notin Bytes /\ None # "FAIL"
BY FilesAssumption DEF Bytes

LEMMA PrefixMeans ==
    ASSUME NEW s \in Bytes, NEW t \in Bytes
    PROVE  IsPrefix(s, t) <=> /\ Len(s) <= Len(t)
                              /\ \A i \in 1..Len(s) : s[i] = t[i]
<1>1. CASE Len(s) <= Len(t)
  <2>1. /\ \A i \in 1..Len(s) : s[i] \in Nat /\ t[i] \in Nat
        /\ Len(s) \in Nat
    BY <1>1, ElementOfSeq, LenProperties DEF Bytes
  <2>2. /\ SubSeq(s, 1, Len(s)) \in Seq(Nat) /\ SubSeq(t, 1, Len(s)) \in Seq(Nat)
        /\ Len(SubSeq(s, 1, Len(s))) = Len(s) /\ Len(SubSeq(t, 1, Len(s))) = Len(s)
        /\ \A i \in 1..Len(s) : /\ SubSeq(s, 1, Len(s))[i] = s[i]
                                /\ SubSeq(t, 1, Len(s))[i] = t[i]
    <3>1. 1 \in Int /\ Len(s) \in Int
      BY <2>1
    <3>2. /\ SubSeq(s, 1, Len(s)) \in Seq(Nat)
          /\ Len(SubSeq(s, 1, Len(s))) = IF 1 <= Len(s) THEN Len(s) - 1 + 1 ELSE 0
          /\ \A i \in 1..Len(s) - 1 + 1 : SubSeq(s, 1, Len(s))[i] = s[1 + i - 1]
      BY <2>1, <3>1, SubSeqProperties
    <3>3. /\ SubSeq(t, 1, Len(s)) \in Seq(Nat)
          /\ Len(SubSeq(t, 1, Len(s))) = IF 1 <= Len(s) THEN Len(s) - 1 + 1 ELSE 0
          /\ \A i \in 1..Len(s) - 1 + 1 : SubSeq(t, 1, Len(s))[i] = t[1 + i - 1]
      BY <2>1, <3>1, SubSeqProperties
    <3> QED
      BY <2>1, <3>2, <3>3
  <2>3. SubSeq(s, 1, Len(s)) = SubSeq(t, 1, Len(s)) <=> \A i \in 1..Len(s) : s[i] = t[i]
    BY <2>2, SeqEqual
  <2> QED
    BY <1>1, <2>3 DEF IsPrefix
<1>2. CASE ~(Len(s) <= Len(t))
  BY <1>2 DEF IsPrefix
<1> QED
  BY <1>1, <1>2

LEMMA FirstBytes ==
    ASSUME NEW s \in Bytes, NEW n \in Nat
    PROVE  /\ First(s, n) \in Bytes
           /\ Len(First(s, n)) = IF n < Len(s) THEN n ELSE Len(s)
           /\ \A i \in 1..Len(First(s, n)) : First(s, n)[i] = s[i]
<1> DEFINE m == IF n < Len(s) THEN n ELSE Len(s)
<1>1. Len(s) \in Nat /\ m \in Nat /\ m <= Len(s)
  BY LenProperties DEF Bytes
<1>2. 1 \in Int /\ m \in Int /\ \A i \in 1..m : s[i] \in Nat
  BY <1>1, ElementOfSeq DEF Bytes
<1>3. /\ SubSeq(s, 1, m) \in Seq(Nat)
      /\ Len(SubSeq(s, 1, m)) = IF 1 <= m THEN m - 1 + 1 ELSE 0
      /\ \A i \in 1..m - 1 + 1 : SubSeq(s, 1, m)[i] = s[1 + i - 1]
  <2> HIDE DEF m
  <2> QED
    BY <1>2, SubSeqProperties
<1>4. First(s, n) = SubSeq(s, 1, m)
  BY DEF First
<1> HIDE DEF m
<1>5. /\ First(s, n) \in Bytes /\ Len(First(s, n)) = m
      /\ \A i \in 1..m : First(s, n)[i] = s[i]
  BY <1>1, <1>3, <1>4 DEF Bytes
<1> QED
  BY <1>5 DEF m

\* A row at the end leaves what there was.
LEMMA RowBytes ==
    ASSUME NEW s \in Bytes, NEW b \in {1, 2}
    PROVE  s \o <<b, b>> \in Bytes /\ IsPrefix(s, s \o <<b, b>>)
<1>1. <<b, b>> \in Seq(Nat) /\ Len(<<b, b>>) = 2
  OBVIOUS
<1>2. /\ s \o <<b, b>> \in Seq(Nat) /\ Len(s \o <<b, b>>) = Len(s) + Len(<<b, b>>)
      /\ \A i \in 1..Len(s) + Len(<<b, b>>) :
             (s \o <<b, b>>)[i] = IF i <= Len(s) THEN s[i] ELSE <<b, b>>[i - Len(s)]
  BY <1>1, ConcatProperties DEF Bytes
<1>3. Len(s) \in Nat
  BY LenProperties DEF Bytes
<1>4. s \o <<b, b>> \in Bytes
  BY <1>2 DEF Bytes
<1>5. Len(s) <= Len(s \o <<b, b>>) /\ \A i \in 1..Len(s) : s[i] = (s \o <<b, b>>)[i]
  BY <1>1, <1>2, <1>3
<1> QED
  BY <1>4, <1>5, PrefixMeans

LEMMA PrefixTransitive ==
    ASSUME NEW s \in Bytes, NEW t \in Bytes, NEW u \in Bytes,
           IsPrefix(s, t), IsPrefix(t, u)
    PROVE  IsPrefix(s, u)
<1>1. Len(s) \in Nat /\ Len(t) \in Nat /\ Len(u) \in Nat
  BY LenProperties DEF Bytes
<1> QED
  BY <1>1, PrefixMeans

LEMMA PrefixReflexive == \A s \in Bytes : IsPrefix(s, s)
BY PrefixMeans, LenProperties DEF Bytes

LEMMA HeadAndTail ==
    ASSUME NEW S, NEW s \in Seq(S), s # <<>>
    PROVE  /\ Head(s) \in S /\ Head(s) \in ToSet(s)
           /\ Tail(s) \in Seq(S) /\ ToSet(s) = {Head(s)} \cup ToSet(Tail(s))
<1>1. /\ Head(s) \in S /\ Tail(s) \in Seq(S) /\ Len(Tail(s)) = Len(s) - 1
      /\ \A i \in 1..Len(Tail(s)) : Tail(s)[i] = s[i + 1]
  BY HeadTailProperties
<1>2. Len(s) \in Nat \ {0} /\ DOMAIN s = 1..Len(s) /\ DOMAIN Tail(s) = 1..Len(Tail(s))
  BY <1>1, EmptySeq, LenProperties
<1>3. Head(s) = s[1]
  BY <1>2
<1>4. \A i \in 1..Len(s) : i # 1 => i - 1 \in 1..Len(Tail(s)) /\ s[i] = Tail(s)[i - 1]
  BY <1>1, <1>2
<1>5. \A i \in 1..Len(Tail(s)) : i + 1 \in 1..Len(s)
  BY <1>1, <1>2
<1>6. ToSet(s) = {s[i] : i \in 1..Len(s)}
  BY <1>2 DEF ToSet
<1>7. ToSet(Tail(s)) = {Tail(s)[i] : i \in 1..Len(Tail(s))}
  BY <1>2 DEF ToSet
<1>8. ToSet(s) \subseteq {Head(s)} \cup ToSet(Tail(s))
  <2> SUFFICES ASSUME NEW i \in 1..Len(s) PROVE s[i] \in {Head(s)} \cup ToSet(Tail(s))
    BY <1>6
  <2>1. CASE i = 1
    BY <1>3, <2>1
  <2>2. CASE i # 1
    <3>1. i - 1 \in 1..Len(Tail(s)) /\ s[i] = Tail(s)[i - 1]
      BY <1>4, <2>2
    <3> QED
      BY <1>7, <3>1
  <2> QED
    BY <2>1, <2>2
<1>9. Head(s) \in ToSet(s)
  BY <1>2, <1>3, <1>6
<1>10. ToSet(Tail(s)) \subseteq ToSet(s)
  BY <1>1, <1>5, <1>6, <1>7
<1> QED
  BY <1>1, <1>8, <1>9, <1>10

LEMMA ToSetFacts ==
    /\ ToSet(<<>>) = {}
    /\ \A S : \A s \in Seq(S) : s \in Seq(ToSet(s)) /\ ToSet(s) \subseteq S
<1>1. ToSet(<<>>) = {}
  BY EmptySeq DEF ToSet
<1>2. ASSUME NEW S, NEW s \in Seq(S) PROVE s \in Seq(ToSet(s)) /\ ToSet(s) \subseteq S
  <2>1. Len(s) \in Nat /\ DOMAIN s = 1..Len(s) /\ s \in [1..Len(s) -> S]
    BY LenProperties
  <2>2. s \in [1..Len(s) -> ToSet(s)]
    BY <2>1 DEF ToSet
  <2> QED
    <3>1. s \in Seq(ToSet(s))
      BY <2>1, <2>2, SeqDef
    <3>2. ToSet(s) \subseteq S
      BY <2>1 DEF ToSet
    <3> QED
      BY <3>1, <3>2
<1> QED
  BY <1>1, <1>2

-----------------------------------------------------------------------------
(* Names *)

LEMMA FreeIsFree ==
    ASSUME NEW stamp, NEW tag, Free(stamp, tag) # None
    PROVE  /\ Free(stamp, tag) \in 1..MaxRetries
           /\ published[Name(stamp, tag, Free(stamp, tag))] = None
<1> DEFINE Left == (1..MaxRetries) \ Taken(stamp, tag)
           IsLeft(n) == n \notin Taken(stamp, tag) /\ 1..(n - 1) \subseteq Taken(stamp, tag)
<1>1. Taken(stamp, tag) # 1..MaxRetries /\ Taken(stamp, tag) \subseteq 1..MaxRetries
  BY DEF Free, Taken
<1>2. Left \in SUBSET Nat /\ Left # {}
  <2>1. 1..MaxRetries \subseteq Nat
    BY FilesAssumption
  <2> QED
    BY <1>1, <2>1
<1>3. PICK n \in Left : \A m \in Left : n <= m
  BY <1>2, LeastThereIs
<1>4. n \in 1..MaxRetries /\ IsLeft(n)
  BY <1>3, FilesAssumption
<1>5. Free(stamp, tag) = CHOOSE m \in 1..MaxRetries : IsLeft(m)
  BY <1>1 DEF Free
<1>6. Free(stamp, tag) \in 1..MaxRetries /\ IsLeft(Free(stamp, tag))
  <2> HIDE DEF IsLeft
  <2> QED
    BY <1>4, <1>5
<1> QED
  BY <1>6 DEF Taken

-----------------------------------------------------------------------------
(* What holds in every reachable state *)

Look == [pc : {"stat", "hash", "done"}, size : [Kept -> Nat \cup {None}],
         hash : [Kept -> Content], todo : Seq(Kept)]

\* The prover knows nothing of SelectSeq, and nothing below needs what todo is.
RunWith(todo) == [pc : {"idle", "add", "record", "rename", "done"}, stamp : Stamps \cup {None},
                  todo : {todo}, into : Names \cup {None},
                  copied : [Files -> Content], recorded : [Files -> Content]]
IsRun(r) == r \in RunWith(r.todo) /\ (r.pc \in {"add", "record", "rename"} => r.stamp \in Stamps)

TypeOK ==
    /\ data \in [Files -> Content] /\ boot \in {1, 2} /\ harmed \in BOOLEAN
    /\ check \in [{1, 2} -> Look]
    /\ exit \in {None, 0, 1} /\ verdict \in [Kept -> {None, "PASS", "FAIL",
                                              "NOT_YET_OBSERVED", "UNAVAILABLE"}]
    /\ backup = [k \in Backups |-> backup[k]] /\ \A k \in Backups : IsRun(backup[k])
    /\ published \in [Names -> {None, Empty} \cup [Files -> Content]]

\* The second run of the check begins when the first is over, and nothing is
\* read or damaged after it.
InOrder ==
    /\ check[2] # NotRun => boot = 2 /\ check[1].pc = "done"
    /\ \A b \in {1, 2} :
          /\ check[b].pc = "done" => check[b].todo = <<>>
          /\ check[b].pc = "hash" => check[b].todo # <<>>
    /\ exit # None => check[2].pc = "done"
    /\ check[2].pc # "done" => verdict = [f \in Kept |-> None]

\* The files of which a run has taken the size already.
Sized(b) == Kept \ ToSet(IF check[b].pc = "hash" THEN Tail(check[b].todo) ELSE check[b].todo)
Hashed(b) == Kept \ ToSet(check[b].todo)

\* A file that was there and met no harm is there whenever it is looked for.
StillThere ==
    ~harmed => \A f \in Kept :
        check[1].size[f] # None =>
            /\ data[f] # None
            /\ f \in Hashed(1) => check[1].hash[f] # None
            /\ check[1].pc = "done" /\ f \in Sized(2) => check[2].size[f] # None

\* What the second run read of a file is the beginning of it, and no less
\* than the size it took.
ReadsAreOfTheFile ==
    \A f \in Kept :
        LET size == check[2].size[f]  hash == check[2].hash[f] IN
        /\ hash # None => data[f] # None /\ IsPrefix(hash, data[f])
        /\ size # None => data[f] # None /\ size <= Len(data[f])
        /\ f \in Hashed(2) /\ size # None => hash # None /\ size <= Len(hash)

\* A backup that is to be renamed has a directory of its own, and an empty one.
OwnName ==
    \A k \in Backups : backup[k].pc = "rename" =>
        /\ backup[k].into \in Names /\ published[backup[k].into] = Empty
        /\ \A l \in Backups : l # k /\ backup[l].pc = "rename"
                                   => backup[l].into # backup[k].into

CheckInv == InOrder /\ StillThere /\ ReadsAreOfTheFile /\ ExitZeroMeansKept /\ AlarmHasACause
Inv == TypeOK /\ CheckInv /\ OwnName

LEMMA ListedFacts == Listed \in Seq(Kept) /\ Kept \subseteq Files
BY FilesAssumption, ToSetFacts DEF Kept

LEMMA EmptyIsSomething == Empty # None
<1>1. Empty = <<>>
  BY DEF Empty
<1> QED
  BY <1>1, FilesAssumption, EmptySeq

LEMMA NotRunFacts ==
    /\ NotRun \in Look /\ NotRun.pc = "stat" /\ NotRun.todo = Listed
    /\ \A f \in Kept : NotRun.size[f] = None /\ NotRun.hash[f] = None
BY ListedFacts DEF NotRun, Look, Content, Kept

LEMMA IdleFacts ==
    /\ IsRun(Idle) /\ Idle.pc = "idle"
    /\ IsRun([Idle EXCEPT !.pc = "done"]) /\ [Idle EXCEPT !.pc = "done"].pc = "done"
BY DEF Idle, IsRun, RunWith, Content

LEMMA InvInit == Init => Inv
<1> SUFFICES ASSUME Init PROVE Inv
  OBVIOUS
<1>1. check \in [{1, 2} -> Look] /\ \A k \in Backups : IsRun(backup[k])
  BY NotRunFacts, IdleFacts DEF Init
<1>2. TypeOK
  BY <1>1 DEF Init, TypeOK, Content, Kept
<1>3. \A b \in {1, 2} : check[b] = NotRun
  BY DEF Init
<1>4. InOrder
  BY <1>3, NotRunFacts DEF Init, InOrder, Kept
<1>5. StillThere /\ ReadsAreOfTheFile
  BY <1>3, NotRunFacts DEF StillThere, ReadsAreOfTheFile
<1>6. ExitZeroMeansKept /\ AlarmHasACause
  BY NoneIsNoContent DEF Init, ExitZeroMeansKept, AlarmHasACause, Kept
<1>7. OwnName
  BY IdleFacts DEF Init, OwnName
<1> QED
  BY <1>2, <1>4, <1>5, <1>6, <1>7 DEF Inv, CheckInv

-----------------------------------------------------------------------------
(* Frames *)

LEMMA CheckFrame ==
    ASSUME Inv, UNCHANGED <<world, checking>>, TypeOK', OwnName'
    PROVE  Inv'
<1>1. InOrder' /\ StillThere' /\ ReadsAreOfTheFile'
  BY DEF Inv, CheckInv, world, checking, InOrder, StillThere, ReadsAreOfTheFile, Sized, Hashed
<1>2. ExitZeroMeansKept' /\ AlarmHasACause'
  BY DEF Inv, CheckInv, world, checking, ExitZeroMeansKept, AlarmHasACause
<1> QED
  BY <1>1, <1>2 DEF Inv, CheckInv

LEMMA SaveFrame ==
    ASSUME Inv, UNCHANGED saving, TypeOK', CheckInv'
    PROVE  Inv'
BY DEF Inv, saving, OwnName

\* A backup that takes a step and is not at its rename after it.
LEMMA RunStep ==
    ASSUME Inv, NEW k \in Backups, NEW r, IsRun(r), r.pc # "rename",
           backup' = [backup EXCEPT ![k] = r], published' = published,
           UNCHANGED <<world, checking>>
    PROVE  Inv'
<1>1. TypeOK'
  BY DEF Inv, TypeOK, world, checking
<1>2. \A l \in Backups : backup'[l].pc = "rename" => l # k /\ backup'[l] = backup[l]
  BY DEF Inv, TypeOK
<1>3. OwnName'
  BY <1>2 DEF Inv, OwnName
<1> QED
  BY <1>1, <1>3, CheckFrame

-----------------------------------------------------------------------------
(* scripts/backup_snapshot.py *)

LEMMA BeginKeeps ==
    ASSUME Inv, NEW k \in Backups, NEW stamp \in Stamps, Begin(k, stamp)
    PROVE  Inv'
<1> DEFINE todo == SelectSeq(Archived, LAMBDA f : Exists(data[f]))
           r == [backup[k] EXCEPT !.pc = "add", !.stamp = stamp, !.todo = todo]
<1>2. IsRun(r) /\ r.pc = "add"
  <2> HIDE DEF todo
  <2>1. backup[k] \in RunWith(backup[k].todo)
    BY DEF Inv, TypeOK, IsRun
  <2> QED
    BY <2>1 DEF RunWith, IsRun
<1>3. backup' = [backup EXCEPT ![k] = r] /\ published' = published /\ UNCHANGED <<world, checking>>
  BY DEF Begin, Inv, TypeOK
<1> QED
  <2> HIDE DEF r
  <2> QED
    BY <1>2, <1>3, RunStep

LEMMA AbandonedKeeps ==
    ASSUME Inv, NEW k \in Backups, Abandoned(k)
    PROVE  Inv'
BY IdleFacts, RunStep DEF Abandoned

LEMMA AddKeeps ==
    ASSUME Inv, NEW k \in Backups, Add(k)
    PROVE  Inv'
<1> DEFINE f == Head(backup[k].todo)
           copied == [backup[k].copied EXCEPT ![f] = data[f]]
           r == [backup[k] EXCEPT !.copied = copied, !.pc = "record"]
<1>1. /\ backup[k] \in RunWith(backup[k].todo) /\ backup[k].stamp \in Stamps
      /\ copied \in [Files -> Content]
  <2> HIDE DEF f
  <2> QED
    BY DEF Add, Inv, TypeOK, IsRun, RunWith
<1>2. CASE Exists(data[f])
  <2>1. backup' = [backup EXCEPT ![k] = r] /\ published' = published /\ UNCHANGED <<world, checking>>
    BY <1>2 DEF Add, Inv, TypeOK
  <2>2. IsRun(r) /\ r.pc = "record"
    <3> HIDE DEF copied
    <3> QED
      BY <1>1 DEF RunWith, IsRun
  <2> QED
    <3> HIDE DEF r
    <3> QED
      BY <2>1, <2>2, RunStep
<1>3. CASE ~Exists(data[f])
  BY <1>3, AbandonedKeeps DEF Add
<1> QED
  BY <1>2, <1>3

LEMMA RecordKeeps ==
    ASSUME Inv, NEW k \in Backups, Record(k)
    PROVE  Inv'
<1> DEFINE f == Head(backup[k].todo)
           recorded == [backup[k].recorded EXCEPT ![f] = data[f]]
           todo == Tail(backup[k].todo)
           r == [backup[k] EXCEPT !.recorded = recorded, !.todo = todo, !.pc = "add"]
<1>1. /\ backup[k] \in RunWith(backup[k].todo) /\ backup[k].stamp \in Stamps
      /\ recorded \in [Files -> Content]
  <2> HIDE DEF f
  <2> QED
    BY DEF Record, Inv, TypeOK, IsRun, RunWith
<1>2. CASE Exists(data[f])
  <2>1. backup' = [backup EXCEPT ![k] = r] /\ published' = published /\ UNCHANGED <<world, checking>>
    BY <1>2 DEF Record, Inv, TypeOK
  <2>2. IsRun(r) /\ r.pc = "add"
    <3> HIDE DEF recorded, todo
    <3> QED
      BY <1>1 DEF RunWith, IsRun
  <2> QED
    <3> HIDE DEF r
    <3> QED
      BY <2>1, <2>2, RunStep
<1>3. CASE ~Exists(data[f])
  BY <1>3, AbandonedKeeps DEF Record
<1> QED
  BY <1>2, <1>3

LEMMA ReserveKeeps ==
    ASSUME Inv, NEW k \in Backups, Reserve(k)
    PROVE  Inv'
<1> DEFINE n == Free(backup[k].stamp, Tag(k))
           name == Name(backup[k].stamp, Tag(k), n)
           r == [backup[k] EXCEPT !.pc = "rename", !.into = name]
<1>1. CASE n = None
  BY <1>1, AbandonedKeeps DEF Reserve
<1>2. CASE n # None
  <2>1. /\ backup' = [backup EXCEPT ![k] = r]
        /\ published' = [published EXCEPT ![name] = Empty]
        /\ UNCHANGED <<world, checking>>
    BY <1>2 DEF Reserve, Inv, TypeOK
  <2>2. n \in 1..MaxRetries /\ published[name] = None
    BY <1>2, FreeIsFree
  <2>3. name \in Names
    <3>1. backup[k].stamp \in Stamps
      BY DEF Reserve, Inv, TypeOK, IsRun
    <3>2. Tag(k) \in {"", "-FAILED-VERIFICATION"}
      BY DEF Tag
    <3> QED
      BY <2>2, <3>1, <3>2 DEF Name, Names
  <2>4. IsRun(r) /\ r.pc = "rename" /\ r.into = name
    <3> HIDE DEF name
    <3>1. backup[k] \in RunWith(backup[k].todo) /\ backup[k].stamp \in Stamps
      BY DEF Reserve, Inv, TypeOK, IsRun
    <3> QED
      BY <2>3, <3>1 DEF RunWith, IsRun
  <2> HIDE DEF n, name, r
  <2>5. TypeOK'
    BY <2>1, <2>3, <2>4 DEF Inv, TypeOK, world, checking
  <2>6. /\ backup'[k] = r /\ published'[name] = Empty
        /\ \A l \in Backups : l # k => backup'[l] = backup[l]
        /\ \A other \in Names : other # name => published'[other] = published[other]
    BY <2>1, <2>3 DEF Inv, TypeOK
  <2>7. \A l \in Backups : backup[l].pc = "rename" => backup[l].into # name
    BY <2>2, EmptyIsSomething DEF Inv, OwnName
  <2>8. OwnName'
    BY <2>3, <2>4, <2>6, <2>7 DEF Inv, OwnName
  <2> QED
    BY <2>1, <2>5, <2>8, CheckFrame
<1> QED
  BY <1>1, <1>2

LEMMA RenameKeeps ==
    ASSUME Inv, NEW k \in Backups, Rename(k)
    PROVE  Inv'
<1> DEFINE r == [backup[k] EXCEPT !.pc = "done"]
           name == backup[k].into
<1>1. /\ backup' = [backup EXCEPT ![k] = r]
      /\ published' = [published EXCEPT ![name] = backup[k].copied]
      /\ UNCHANGED <<world, checking>>
  BY DEF Rename, Inv, TypeOK
<1>2. name \in Names /\ backup[k].pc = "rename"
  BY DEF Rename, Inv, OwnName
<1>3. IsRun(r) /\ r.pc = "done" /\ backup[k].copied \in [Files -> Content]
  <2>1. backup[k] \in RunWith(backup[k].todo)
    BY DEF Inv, TypeOK, IsRun
  <2> QED
    BY <2>1 DEF RunWith, IsRun
<1> HIDE DEF r, name
<1>4. TypeOK'
  BY <1>1, <1>2, <1>3 DEF Inv, TypeOK, world, checking
<1>5. /\ backup'[k].pc = "done"
      /\ \A l \in Backups : l # k => backup'[l] = backup[l]
      /\ \A other \in Names : other # name => published'[other] = published[other]
  BY <1>1, <1>2, <1>3 DEF Inv, TypeOK
<1>6. \A l \in Backups : l # k /\ backup[l].pc = "rename" => backup[l].into # name
  BY <1>2 DEF Inv, OwnName, name
<1>7. OwnName'
  BY <1>5, <1>6 DEF Inv, OwnName
<1> QED
  BY <1>1, <1>4, <1>7, CheckFrame

-----------------------------------------------------------------------------
(* The files *)

\* No verdict yet: the two claims about it hold.
LEMMA NoVerdictYet ==
    ASSUME exit = None, verdict = [f \in Kept |-> None]
    PROVE  ExitZeroMeansKept /\ AlarmHasACause
BY NoneIsNoContent DEF ExitZeroMeansKept, AlarmHasACause, Kept

LEMMA AppendRowKeeps ==
    ASSUME Inv, NEW f \in Files, AppendRow(f)
    PROVE  Inv'
<1>1. data \in [Files -> Content] /\ boot \in {1, 2}
  BY DEF Inv, TypeOK
<1> DEFINE old == IF Exists(data[f]) THEN data[f] ELSE <<>>
           new == old \o <<boot, boot>>
<1>2. old \in Bytes
  BY <1>1, EmptySeq DEF Content, Bytes, Exists
<1>3. new \in Bytes /\ IsPrefix(old, new)
  <2> HIDE DEF old
  <2> QED
    BY <1>1, <1>2, RowBytes
<1>4. data' = [data EXCEPT ![f] = new]
  BY <1>1 DEF AppendRow
<1>5. /\ data' \in [Files -> Content]
      /\ \A g \in Files : data[g] # None => data'[g] # None /\ IsPrefix(data[g], data'[g])
  <2>1. data[f] # None => IsPrefix(data[f], new)
    BY <1>3 DEF Exists
  <2> HIDE DEF new
  <2> QED
    BY <1>1, <1>3, <1>4, <2>1, NoneIsNoContent, PrefixReflexive DEF Content
<1>6. UNCHANGED <<boot, harmed, check, exit, verdict, backup, published>>
  BY DEF AppendRow, checking, saving
<1>7. TypeOK'
  BY <1>5, <1>6 DEF Inv, TypeOK
<1>8. InOrder' /\ ExitZeroMeansKept' /\ AlarmHasACause'
  BY <1>6 DEF Inv, CheckInv, InOrder, ExitZeroMeansKept, AlarmHasACause
<1>9. StillThere'
  BY <1>5, <1>6, ListedFacts DEF Inv, CheckInv, StillThere, Sized, Hashed
<1>10. ReadsAreOfTheFile'
  <2> SUFFICES ASSUME NEW g \in Kept
               PROVE  LET size == check[2].size[g]  hash == check[2].hash[g] IN
                      /\ hash # None => data'[g] # None /\ IsPrefix(hash, data'[g])
                      /\ size # None => data'[g] # None /\ size <= Len(data'[g])
                      /\ g \in Hashed(2) /\ size # None => hash # None /\ size <= Len(hash)
    BY <1>6 DEF ReadsAreOfTheFile, Hashed
  <2>1. /\ check[2].size[g] \in Nat \cup {None} /\ check[2].hash[g] \in Content
        /\ data[g] \in Content /\ data'[g] \in Content
    BY <1>1, <1>5, ListedFacts DEF Inv, TypeOK, Look
  <2>2. data[g] # None => /\ data[g] \in Bytes /\ data'[g] \in Bytes
                          /\ IsPrefix(data[g], data'[g]) /\ Len(data[g]) <= Len(data'[g])
                          /\ Len(data[g]) \in Nat /\ Len(data'[g]) \in Nat
    BY <1>5, <2>1, ListedFacts, PrefixMeans, LenProperties DEF Content, Bytes
  <2>3. check[2].hash[g] # None => data[g] # None /\ IsPrefix(check[2].hash[g], data'[g])
    BY <2>1, <2>2, PrefixTransitive DEF Inv, CheckInv, ReadsAreOfTheFile, Content
  <2>4. check[2].size[g] # None => data[g] # None /\ check[2].size[g] <= Len(data'[g])
    BY <2>1, <2>2 DEF Inv, CheckInv, ReadsAreOfTheFile
  <2> QED
    BY <1>5, <2>3, <2>4, ListedFacts DEF Inv, CheckInv, ReadsAreOfTheFile
<1> QED
  BY <1>6, <1>7, <1>8, <1>9, <1>10, SaveFrame DEF CheckInv, saving

LEMMA HarmKeeps ==
    ASSUME Inv, NEW f \in Files, Harm(f)
    PROVE  Inv'
<1>1. /\ check[2] = NotRun /\ harmed' = TRUE
      /\ UNCHANGED <<boot, check, exit, verdict, backup, published>>
  BY DEF Harm, checking, saving
<1>2. data' \in [Files -> Content]
  <2>1. CASE data' = [data EXCEPT ![f] = None]
    BY <2>1 DEF Inv, TypeOK, Content
  <2>2. CASE \E i \in DOMAIN data[f] : data' = [data EXCEPT ![f][i] = Damage]
    <3>1. data[f] \in Seq(Nat) /\ DOMAIN data[f] = 1..Len(data[f])
      BY LenProperties DEF Harm, Exists, Inv, TypeOK, Content, Bytes
    <3>2. PICK i \in 1..Len(data[f]) : data' = [data EXCEPT ![f][i] = Damage]
      BY <2>2, <3>1
    <3>3. [data[f] EXCEPT ![i] = Damage] \in Bytes
      BY <3>1, ExceptSeq DEF Bytes, Damage
    <3> QED
      BY <3>2, <3>3 DEF Inv, TypeOK, Content
  <2> QED
    BY <2>1, <2>2 DEF Harm
<1>3. TypeOK'
  BY <1>1, <1>2 DEF Inv, TypeOK
<1>4. exit = None /\ verdict = [g \in Kept |-> None]
  BY <1>1, NotRunFacts DEF Inv, CheckInv, InOrder
<1>5. ExitZeroMeansKept' /\ AlarmHasACause'
  BY <1>1, <1>4, NoneIsNoContent DEF ExitZeroMeansKept, AlarmHasACause
<1>6. InOrder' /\ StillThere' /\ ReadsAreOfTheFile'
  BY <1>1, NotRunFacts DEF Inv, CheckInv, InOrder, StillThere, ReadsAreOfTheFile
<1> QED
  BY <1>1, <1>3, <1>5, <1>6, SaveFrame DEF CheckInv, saving

LEMMA RebootKeeps ==
    ASSUME Inv, Reboot
    PROVE  Inv'
<1>1. /\ boot = 1 /\ boot' = 2 /\ check[2] = NotRun
      /\ UNCHANGED <<harmed, exit, verdict, published>>
      /\ check' = IF check[1].pc = "done" THEN check ELSE [check EXCEPT ![1] = NotRun]
  BY DEF Reboot, Inv, CheckInv, InOrder
<1>2. PICK kept \in [Files -> 0..MaxBytes] :
          data' = [f \in Files |-> IF Exists(data[f]) THEN First(data[f], kept[f]) ELSE None]
  BY DEF Reboot
<1>3. /\ data' \in [Files -> Content]
      /\ \A f \in Files : data[f] # None => data'[f] # None
  <2>1. ASSUME NEW f \in Files, data[f] # None PROVE First(data[f], kept[f]) \in Bytes
    <3>1. data[f] \in Bytes /\ kept[f] \in Nat
      BY <1>2, <2>1, FilesAssumption DEF Inv, TypeOK, Content
    <3> QED
      BY <3>1, FirstBytes
  <2> QED
    BY <1>2, <2>1, NoneIsNoContent DEF Exists, Content
<1>4. /\ check' \in [{1, 2} -> Look] /\ check'[2] = NotRun
      /\ check'[1] = check[1] \/ check'[1] = NotRun
  BY <1>1, NotRunFacts DEF Inv, TypeOK
<1>5. /\ backup' = [k \in Backups |-> backup'[k]]
      /\ \A k \in Backups : IsRun(backup'[k]) /\ backup'[k].pc = "done"
  BY IdleFacts DEF Reboot, Inv, TypeOK
<1>6. TypeOK'
  BY <1>1, <1>3, <1>4, <1>5 DEF Inv, TypeOK
<1>7. exit = None /\ verdict = [g \in Kept |-> None]
  BY <1>1, NotRunFacts DEF Inv, CheckInv, InOrder
<1>8. ExitZeroMeansKept' /\ AlarmHasACause'
  <2>1. exit' # 0
    BY <1>1, <1>7, NoneIsNoContent
  <2>2. \A g \in Kept : verdict'[g] # "FAIL"
    <3>1. \A g \in Kept : verdict'[g] = None
      BY <1>1, <1>7
    <3> QED
      BY <3>1, NoneIsNoContent
  <2>3. ExitZeroMeansKept'
    BY <2>1 DEF ExitZeroMeansKept
  <2>4. AlarmHasACause'
    BY <2>2 DEF AlarmHasACause, Kept
  <2> QED
    BY <2>3, <2>4
<1>9. InOrder' /\ ReadsAreOfTheFile'
  BY <1>1, <1>4, <1>7, NotRunFacts DEF Inv, CheckInv, InOrder, ReadsAreOfTheFile
<1>10. StillThere'
  <2>1. Sized(2)' = {}
    BY <1>4, NotRunFacts DEF Sized, Kept
  <2> QED
    BY <1>1, <1>3, <1>4, <2>1, NotRunFacts, ListedFacts DEF Inv, CheckInv, StillThere, Hashed
<1>11. OwnName'
  BY <1>5 DEF OwnName
<1> QED
  BY <1>6, <1>8, <1>9, <1>10, <1>11 DEF Inv, CheckInv

-----------------------------------------------------------------------------
(* scripts/reboot_check.py *)

\* The types of what a run of the check has.
LEMMA LookTypes ==
    ASSUME Inv, NEW b \in {1, 2}
    PROVE  /\ check[b] \in Look
           /\ \A f \in Kept : /\ data[f] \in Content
                              /\ check[b].size[f] \in Nat \cup {None}
                              /\ check[b].hash[f] \in Content
BY ListedFacts DEF Inv, TypeOK, Look

LEMMA SizeIsLen == \A content \in Bytes : Size(content) = Len(content) /\ Len(content) \in Nat
BY NoneIsNoContent, LenProperties DEF Size, Exists, Bytes

LEMMA StatKeeps ==
    ASSUME Inv, Stat
    PROVE  Inv'
<1> DEFINE f == Head(check[boot].todo)
           found == IF Exists(data[f]) THEN Size(data[f]) ELSE None
<1>1. /\ boot \in {1, 2} /\ check[boot] \in Look
      /\ check[boot].pc = "stat" /\ check[boot].todo # <<>>
      /\ boot = 2 => check[1].pc = "done"
      /\ UNCHANGED <<data, boot, harmed, exit, verdict, backup, published>>
      /\ check' = [check EXCEPT ![boot].size[f] = found, ![boot].pc = "hash"]
  BY LookTypes DEF Stat, world, saving, Inv, TypeOK
<1>2. f \in Kept /\ ToSet(check[boot].todo) = {f} \cup ToSet(Tail(check[boot].todo))
  BY <1>1, HeadAndTail DEF Look
<1>3. data[f] \in Content /\ found \in Nat \cup {None} /\ (data[f] # None => found = Len(data[f]))
  BY <1>1, <1>2, LookTypes, SizeIsLen, NoneIsNoContent DEF Exists, Content
<1> HIDE DEF f, found
<1>4. /\ check' \in [{1, 2} -> Look]
      /\ check'[boot].pc = "hash" /\ check'[boot].todo = check[boot].todo
      /\ check'[boot].hash = check[boot].hash
      /\ \A g \in Kept : check'[boot].size[g] = IF g = f THEN found ELSE check[boot].size[g]
      /\ \A b \in {1, 2} : b # boot => check'[b] = check[b]
  BY <1>1, <1>2, <1>3 DEF Inv, TypeOK, Look
<1>5. TypeOK'
  BY <1>1, <1>4 DEF Inv, TypeOK
<1>6. boot = 1 => check[2] = NotRun
  BY DEF Inv, CheckInv, InOrder
<1>7. check[2].pc # "done" /\ exit = None /\ verdict = [g \in Kept |-> None]
  BY <1>1, <1>6, NotRunFacts DEF Inv, CheckInv, InOrder
<1>8. ExitZeroMeansKept' /\ AlarmHasACause'
  <2>1. exit' # 0
    BY <1>1, <1>7, NoneIsNoContent
  <2>2. \A g \in Kept : verdict'[g] # "FAIL"
    <3>1. \A g \in Kept : verdict'[g] = None
      BY <1>1, <1>7
    <3> QED
      BY <3>1, NoneIsNoContent
  <2>3. ExitZeroMeansKept'
    BY <2>1 DEF ExitZeroMeansKept
  <2>4. AlarmHasACause'
    BY <2>2 DEF AlarmHasACause, Kept
  <2> QED
    BY <2>3, <2>4
<1>9. InOrder'
  BY <1>1, <1>4, <1>6, <1>7 DEF Inv, CheckInv, InOrder
<1>10. CASE boot = 1
  <2>1. StillThere'
    <3>1. Hashed(1)' = Hashed(1) /\ f \notin Hashed(1)
      BY <1>2, <1>4, <1>10 DEF Hashed
    <3>2. found # None => data[f] # None
      BY NoneIsNoContent DEF found, Exists
    <3> SUFFICES ASSUME ~harmed, NEW g \in Kept, check'[1].size[g] # None
                 PROVE  data[g] # None /\ (g \in Hashed(1) => check[1].hash[g] # None)
      BY <1>1, <1>4, <1>10, <3>1 DEF StillThere
    <3>3. CASE g = f
      BY <1>4, <1>10, <3>1, <3>2, <3>3
    <3>4. CASE g # f
      <4>1. check[1].size[g] # None
        BY <1>4, <1>10, <3>4
      <4> QED
        BY <4>1 DEF Inv, CheckInv, StillThere
    <3> QED
      BY <3>3, <3>4
  <2>2. ReadsAreOfTheFile'
    <3>1. check'[2] = NotRun
      BY <1>4, <1>6, <1>10
    <3> QED
      BY <3>1, NotRunFacts DEF ReadsAreOfTheFile
  <2> QED
    BY <1>1, <1>5, <1>8, <1>9, <2>1, <2>2, SaveFrame DEF CheckInv, saving
<1>11. CASE boot = 2
  <2>1. \A g \in Kept : g \in Sized(2)' => g = f \/ g \in Sized(2)
    BY <1>1, <1>2, <1>4, <1>11 DEF Sized
  <2>2. StillThere'
    <3> SUFFICES ASSUME ~harmed, NEW g \in Kept, check[1].size[g] # None
                 PROVE  /\ data[g] # None
                        /\ g \in Hashed(1) => check[1].hash[g] # None
                        /\ g \in Sized(2)' => check'[2].size[g] # None
      BY <1>1, <1>4, <1>11 DEF StillThere, Hashed
    <3>1. /\ data[g] # None /\ (g \in Hashed(1) => check[1].hash[g] # None)
          /\ g \in Sized(2) => check[2].size[g] # None
      BY <1>1, <1>11 DEF Inv, CheckInv, StillThere
    <3>2. CASE g = f
      BY <1>2, <1>3, <1>4, <1>11, <3>1, <3>2, NoneIsNoContent DEF found, Exists
    <3>3. CASE g # f
      BY <1>4, <1>11, <2>1, <3>1, <3>3
    <3> QED
      BY <3>2, <3>3
  <2>3. ReadsAreOfTheFile'
    <3>1. found # None => data[f] # None /\ found <= Len(data[f])
      BY <1>3, SizeIsLen DEF found, Exists, Content
    <3>2. f \notin Hashed(2) /\ Hashed(2)' = Hashed(2)
      BY <1>2, <1>4, <1>11 DEF Hashed
    <3> QED
      BY <1>1, <1>4, <1>11, <3>1, <3>2 DEF Inv, CheckInv, ReadsAreOfTheFile
  <2> QED
    BY <1>1, <1>5, <1>8, <1>9, <2>2, <2>3, SaveFrame DEF CheckInv, saving
<1> QED
  BY <1>1, <1>10, <1>11

LEMMA HashKeeps ==
    ASSUME Inv, Hash
    PROVE  Inv'
<1> DEFINE f == Head(check[boot].todo)
           rest == Tail(check[boot].todo)
<1>1. /\ boot \in {1, 2} /\ check[boot] \in Look
      /\ check[boot].pc = "hash" /\ check[boot].todo # <<>>
      /\ UNCHANGED <<data, boot, harmed, exit, verdict, backup, published>>
      /\ check' = [check EXCEPT ![boot].hash[f] = data[f], ![boot].todo = rest, ![boot].pc = "stat"]
  BY LookTypes DEF Hash, world, saving, Inv, TypeOK, CheckInv, InOrder
<1>2. f \in Kept /\ rest \in Seq(Kept) /\ ToSet(check[boot].todo) = {f} \cup ToSet(rest)
  BY <1>1, HeadAndTail DEF Look
<1>3. data[f] \in Content
  BY <1>1, <1>2, LookTypes
<1>4. Sized(boot) = Kept \ ToSet(rest)
  BY <1>1 DEF Sized
<1> HIDE DEF f, rest
<1>5. /\ check' \in [{1, 2} -> Look]
      /\ check'[boot].pc = "stat" /\ check'[boot].todo = rest
      /\ check'[boot].size = check[boot].size
      /\ \A g \in Kept : check'[boot].hash[g] = IF g = f THEN data[f] ELSE check[boot].hash[g]
      /\ \A b \in {1, 2} : b # boot => check'[b] = check[b]
  BY <1>1, <1>2, <1>3 DEF Inv, TypeOK, Look
<1>6. /\ Sized(boot)' = Sized(boot)
      /\ \A g \in Kept : g \in Hashed(boot)' => g = f \/ g \in Hashed(boot)
  BY <1>1, <1>2, <1>4, <1>5 DEF Sized, Hashed
<1>7. TypeOK'
  BY <1>1, <1>5 DEF Inv, TypeOK
<1>8. /\ boot = 1 => check[2] = NotRun
      /\ boot = 2 => check[1].pc = "done"
  BY <1>1, NotRunFacts DEF Inv, CheckInv, InOrder
<1>9. check[2].pc # "done" /\ exit = None /\ verdict = [g \in Kept |-> None]
  BY <1>1, <1>8, NotRunFacts DEF Inv, CheckInv, InOrder
<1>10. ExitZeroMeansKept' /\ AlarmHasACause'
  <2>1. exit' # 0
    BY <1>1, <1>9, NoneIsNoContent
  <2>2. \A g \in Kept : verdict'[g] # "FAIL"
    <3>1. \A g \in Kept : verdict'[g] = None
      BY <1>1, <1>9
    <3> QED
      BY <3>1, NoneIsNoContent
  <2>3. ExitZeroMeansKept'
    BY <2>1 DEF ExitZeroMeansKept
  <2>4. AlarmHasACause'
    BY <2>2 DEF AlarmHasACause, Kept
  <2> QED
    BY <2>3, <2>4
<1>11. InOrder'
  BY <1>1, <1>5, <1>8, <1>9 DEF Inv, CheckInv, InOrder
<1>12. CASE boot = 1
  <2>1. StillThere'
    <3> SUFFICES ASSUME ~harmed, NEW g \in Kept, check[1].size[g] # None
                 PROVE  data[g] # None /\ (g \in Hashed(1)' => check'[1].hash[g] # None)
      BY <1>1, <1>5, <1>12 DEF StillThere
    <3>1. data[g] # None /\ (g \in Hashed(1) => check[1].hash[g] # None)
      BY DEF Inv, CheckInv, StillThere
    <3> QED
      BY <1>1, <1>5, <1>6, <1>12, <3>1
  <2>2. ReadsAreOfTheFile'
    <3>1. check'[2] = NotRun
      BY <1>5, <1>8, <1>12
    <3> QED
      BY <3>1, NotRunFacts DEF ReadsAreOfTheFile
  <2> QED
    BY <1>1, <1>7, <1>10, <1>11, <2>1, <2>2, SaveFrame DEF CheckInv, saving
<1>13. CASE boot = 2
  <2>1. StillThere'
    BY <1>1, <1>5, <1>6, <1>8, <1>13 DEF Inv, CheckInv, StillThere, Hashed
  <2>2. ReadsAreOfTheFile'
    <3>1. data[f] # None => data[f] \in Bytes /\ IsPrefix(data[f], data[f])
      BY <1>3, PrefixReflexive DEF Content
    <3> QED
      BY <1>1, <1>2, <1>5, <1>6, <1>13, <3>1 DEF Inv, CheckInv, ReadsAreOfTheFile
  <2> QED
    BY <1>1, <1>7, <1>10, <1>11, <2>1, <2>2, SaveFrame DEF CheckInv, saving
<1> QED
  BY <1>1, <1>12, <1>13

LEMMA ManifestKeeps ==
    ASSUME Inv, Manifest
    PROVE  Inv'
<1>1. /\ boot = 1 /\ check[1].pc = "stat" /\ check[1].todo = <<>> /\ check[2] = NotRun
      /\ UNCHANGED <<data, boot, harmed, exit, verdict, backup, published>>
      /\ check' = [check EXCEPT ![1].pc = "done"]
  BY DEF Manifest, world, saving, Inv, CheckInv, InOrder
<1>2. /\ check' \in [{1, 2} -> Look] /\ check'[2] = NotRun
      /\ check'[1].pc = "done" /\ check'[1].todo = <<>>
      /\ check'[1].size = check[1].size /\ check'[1].hash = check[1].hash
  BY <1>1 DEF Inv, TypeOK, Look
<1>3. TypeOK'
  BY <1>1, <1>2 DEF Inv, TypeOK
<1>4. exit = None /\ verdict = [g \in Kept |-> None]
  BY <1>1, NotRunFacts DEF Inv, CheckInv, InOrder
<1>5. ExitZeroMeansKept' /\ AlarmHasACause'
  BY <1>1, <1>4, NoneIsNoContent DEF ExitZeroMeansKept, AlarmHasACause, Kept
<1>6. InOrder' /\ ReadsAreOfTheFile'
  BY <1>1, <1>2, <1>4, NotRunFacts DEF InOrder, ReadsAreOfTheFile
<1>7. StillThere'
  <2>1. Sized(2)' = {}
    BY <1>2, NotRunFacts DEF Sized, Kept
  <2> QED
    BY <1>1, <1>2, <2>1 DEF Inv, CheckInv, StillThere, Hashed
<1> QED
  BY <1>1, <1>3, <1>5, <1>6, <1>7, SaveFrame DEF CheckInv, saving

\* What a verdict means, when the second run has read every file.
LEMMA VerdictFacts ==
    ASSUME Inv, NEW f \in Kept, check[1].pc = "done",
           check[2].pc = "stat", check[2].todo = <<>>
    PROVE  /\ Verdict(f) \in {"PASS", "FAIL", "NOT_YET_OBSERVED", "UNAVAILABLE"}
           /\ Verdict(f) # "FAIL" /\ check[1].size[f] # None
                  => IsPrefix(check[1].hash[f], check[2].hash[f])
           /\ Verdict(f) = "FAIL" =>
                  \/ harmed
                  \/ ~IsPrefix(check[1].hash[f], check[2].hash[f])
                  \/ \E b \in {1, 2} : check[b].size[f] \notin {None, Size(check[b].hash[f])}
<1> DEFINE was == check[1].size[f]  is == check[2].size[f]
           before == check[1].hash[f]  after == check[2].hash[f]
<1>1. /\ was \in Nat \cup {None} /\ is \in Nat \cup {None}
      /\ before \in Content /\ after \in Content /\ data[f] \in Content
  BY LookTypes
<1>2. f \in Hashed(2) /\ f \in Sized(2) /\ f \in Hashed(1)
  BY ToSetFacts DEF Inv, CheckInv, InOrder, Sized, Hashed
<1>3. is # None => /\ after \in Bytes /\ data[f] \in Bytes /\ IsPrefix(after, data[f])
                   /\ is <= Len(after)
  BY <1>1, <1>2 DEF Inv, CheckInv, ReadsAreOfTheFile, Content
<1>4. ~harmed /\ was # None => before \in Bytes /\ is # None
  BY <1>1, <1>2 DEF Inv, CheckInv, StillThere, Content
<1>5. CASE was = None
  BY <1>5 DEF Verdict
<1>6. CASE was # None /\ is = None
  BY <1>4, <1>6 DEF Verdict
<1>7. CASE was # None /\ is # None
  <2>1. was \in Nat /\ is \in Nat /\ after \in Bytes /\ data[f] \in Bytes /\ Exists(data[f])
    BY <1>1, <1>3, <1>7, NoneIsNoContent DEF Exists
  <2>2. Len(after) \in Nat /\ Len(data[f]) \in Nat /\ Len(after) <= Len(data[f])
    BY <1>3, <1>7, <2>1, SizeIsLen, PrefixMeans
  <2>3. CASE is < was
    <3>1. Verdict(f) = "FAIL"
      BY <1>7, <2>1, <2>3 DEF Verdict
    <3>2. before \in Bytes /\ IsPrefix(before, after) => Size(before) <= Size(after)
      BY <2>1, PrefixMeans, SizeIsLen
    <3> QED
      BY <1>4, <1>7, <2>1, <2>3, <3>1, <3>2
  <2>4. CASE is = was
    <3>1. Verdict(f) = IF before = after THEN "PASS" ELSE "FAIL"
      BY <1>7, <2>1, <2>4 DEF Verdict
    <3>2. ASSUME before \in Bytes, IsPrefix(before, after), Size(before) = Size(after)
          PROVE  before = after
      <4>1. Len(before) = Len(after) /\ \A i \in 1..Len(before) : before[i] = after[i]
        BY <2>1, <3>2, PrefixMeans, SizeIsLen
      <4> HIDE DEF before, after
      <4> QED
        BY <2>1, <3>2, <4>1, SeqEqual DEF Bytes
    <3> QED
      BY <1>4, <1>7, <2>1, <2>4, <3>1, <3>2, PrefixReflexive
  <2>5. CASE is > was
    <3>1. Verdict(f) = IF GrewWell(f) THEN "PASS" ELSE "FAIL"
      BY <1>7, <2>1, <2>5 DEF Verdict
    <3>2. /\ First(data[f], was) \in Bytes /\ Len(First(data[f], was)) = was
          /\ \A i \in 1..was : First(data[f], was)[i] = after[i]
      <4>1. was < Len(after)
        BY <1>3, <1>7, <2>1, <2>2, <2>5
      <4>2. \A i \in 1..was : after[i] = data[f][i]
        BY <1>3, <1>7, <2>1, <2>2, <4>1, PrefixMeans
      <4> DEFINE whole == data[f]
                 size == check[1].size[f]
      <4>3. whole \in Bytes /\ size \in Nat /\ size < Len(whole) /\ Len(whole) \in Nat
        BY <2>1, <2>2, <4>1
      <4> HIDE DEF whole, size
      <4>4. /\ First(whole, size) \in Bytes /\ Len(First(whole, size)) = size
            /\ \A i \in 1..size : First(whole, size)[i] = whole[i]
        BY <4>3, FirstBytes
      <4> USE DEF whole, size
      <4> QED
        BY <4>2, <4>4
    <3>3. was <= Len(after)
      BY <1>3, <1>7, <2>1, <2>2, <2>5
    <3>4. GrewWell(f) => IsPrefix(before, after)
      <4> SUFFICES ASSUME GrewWell(f) PROVE IsPrefix(before, after)
        OBVIOUS
      <4>1. First(data[f], was) = before
        BY DEF GrewWell
      <4>2. before \in Bytes /\ Len(before) = was /\ \A i \in 1..was : before[i] = after[i]
        BY <3>2, <4>1
      <4>3. Len(before) <= Len(after)
        BY <3>3, <4>2
      <4>4. \A i \in 1..Len(before) : before[i] = after[i]
        BY <4>2
      <4> HIDE DEF before, after
      <4> QED
        BY <2>1, <4>2, <4>3, <4>4, PrefixMeans
    <3>5. ASSUME before \in Bytes, IsPrefix(before, after), was = Size(before)
          PROVE  GrewWell(f)
      <4> DEFINE first == First(data[f], was)
      <4>1. Len(first) = Len(before) /\ \A i \in 1..Len(first) : first[i] = before[i]
        BY <2>1, <3>2, <3>5, PrefixMeans, SizeIsLen
      <4>2. first \in Seq(Nat) /\ before \in Seq(Nat)
        BY <3>2, <3>5 DEF Bytes
      <4>3. first = before
        <5> HIDE DEF first, before
        <5> QED
          BY <4>1, <4>2, SeqEqual
      <4> QED
        BY <4>3 DEF GrewWell
    <3> QED
      BY <1>4, <1>7, <2>1, <3>1, <3>4, <3>5
  <2> QED
    BY <2>1, <2>3, <2>4, <2>5
<1> QED
  BY <1>5, <1>6, <1>7

LEMMA CompareKeeps ==
    ASSUME Inv, NEW other \in BOOLEAN, Compare(other)
    PROVE  Inv'
<1>1. /\ boot = 2 /\ check[1].pc = "done"
      /\ check[2].pc = "stat" /\ check[2].todo = <<>>
      /\ check' = [check EXCEPT ![2].pc = "done"]
      /\ verdict' = [f \in Kept |-> Verdict(f)]
      /\ exit' = IF other \/ \E f \in Kept : Verdict(f) = "FAIL" THEN 1 ELSE 0
      /\ UNCHANGED <<data, boot, harmed, backup, published>>
  BY DEF Compare, world, saving, Kept
<1>2. /\ check' \in [{1, 2} -> Look] /\ check'[1] = check[1]
      /\ check'[2].pc = "done" /\ check'[2].todo = <<>>
      /\ check'[2].size = check[2].size /\ check'[2].hash = check[2].hash
  BY <1>1 DEF Inv, TypeOK, Look
<1>3. \A f \in Kept :
          /\ Verdict(f) \in {"PASS", "FAIL", "NOT_YET_OBSERVED", "UNAVAILABLE"}
          /\ Verdict(f) # "FAIL" /\ check[1].size[f] # None
                 => IsPrefix(check[1].hash[f], check[2].hash[f])
          /\ Verdict(f) = "FAIL" =>
                 \/ harmed
                 \/ ~IsPrefix(check[1].hash[f], check[2].hash[f])
                 \/ \E b \in {1, 2} : check[b].size[f] \notin {None, Size(check[b].hash[f])}
  BY <1>1, VerdictFacts
<1>4. TypeOK'
  BY <1>1, <1>2, <1>3 DEF Inv, TypeOK
<1>5. InOrder'
  BY <1>1, <1>2 DEF Inv, CheckInv, InOrder
<1>6. Sized(2)' = Sized(2) /\ Hashed(2)' = Hashed(2) /\ Hashed(1)' = Hashed(1)
  BY <1>1, <1>2 DEF Sized, Hashed
<1>7. StillThere'
  BY <1>1, <1>2, <1>6 DEF Inv, CheckInv, StillThere
<1>8. ReadsAreOfTheFile'
  BY <1>1, <1>2, <1>6 DEF Inv, CheckInv, ReadsAreOfTheFile
<1>9. ExitZeroMeansKept'
  BY <1>1, <1>2, <1>3 DEF ExitZeroMeansKept, Kept
<1>10. AlarmHasACause'
  <2> SUFFICES ASSUME NEW f \in Kept, verdict'[f] = "FAIL"
               PROVE  \/ harmed'
                      \/ ~IsPrefix(check'[1].hash[f], check'[2].hash[f])
                      \/ \E b \in {1, 2} :
                             check'[b].size[f] \notin {None, Size(check'[b].hash[f])}
    BY DEF AlarmHasACause, Kept, Size, Exists
  <2>1. Verdict(f) = "FAIL"
    BY <1>1
  <2> QED
    BY <1>1, <1>2, <1>3, <2>1
<1> QED
  BY <1>1, <1>4, <1>5, <1>7, <1>8, <1>9, <1>10, SaveFrame DEF CheckInv, saving

-----------------------------------------------------------------------------
\* The inductive invariant holds in every reachable state, for all files and
\* backups (scripts/reboot_check.py:128-140, scripts/backup_snapshot.py:161-278).
THEOREM CustodyInvariant == Spec => []Inv
<1>1. Inv /\ [Next]_vars => Inv'
  <2> SUFFICES ASSUME Inv, [Next]_vars PROVE Inv'
    OBVIOUS
  <2>1. CASE UNCHANGED vars
    <3>1. TypeOK' /\ OwnName'
      BY <2>1 DEF Inv, TypeOK, OwnName, vars, world, checking, saving
    <3> QED
      BY <2>1, <3>1, CheckFrame DEF vars
  <2>2. CASE \E f \in Files : AppendRow(f) \/ Harm(f)
    BY <2>2, AppendRowKeeps, HarmKeeps
  <2>3. CASE Reboot \/ Stat \/ Hash \/ Manifest
    BY <2>3, RebootKeeps, StatKeeps, HashKeeps, ManifestKeeps
  <2>4. CASE \E other \in BOOLEAN : Compare(other)
    BY <2>4, CompareKeeps
  <2>5. CASE \E k \in Backups, stamp \in Stamps : Begin(k, stamp)
    BY <2>5, BeginKeeps
  <2>6. CASE \E k \in Backups : Add(k) \/ Record(k) \/ Reserve(k) \/ Rename(k)
    BY <2>6, AddKeeps, RecordKeeps, ReserveKeeps, RenameKeeps
  <2> QED
    BY <2>1, <2>2, <2>3, <2>4, <2>5, <2>6 DEF Next
<1> QED
  BY InvInit, <1>1, PTL DEF Spec

\* Exit status 0 means that every listed file the first manifest saw begins
\* with what it hashed then (reboot_check.py:387-433, 561).
THEOREM ExitZeroIsSound == Spec => []ExitZeroMeansKept
<1>1. Inv => ExitZeroMeansKept
  BY DEF Inv, CheckInv
<1> QED
  BY CustodyInvariant, <1>1, PTL

\* A file is failed for a cause: a loss, a change, or a writer between its
\* size and its hash (reboot_check.py:135-139, 400-430).
THEOREM AlarmsAreFounded == Spec => []AlarmHasACause
<1>1. Inv => AlarmHasACause
  BY DEF Inv, CheckInv
<1> QED
  BY CustodyInvariant, <1>1, PTL

\* A published snapshot is never written over, however many backups share a
\* second and whenever the machine goes down (backup_snapshot.py:161-195, 265-278).
THEOREM NothingIsOverwritten == Spec => PublishedStays
<1> DEFINE Stays == \A name \in Names : Exists(published[name]) /\ published[name] # Empty
                                            => published'[name] = published[name]
<1>1. Inv /\ [Next]_vars => Stays
  <2> SUFFICES ASSUME Inv, [Next]_vars PROVE Stays
    OBVIOUS
  <2>1. CASE published' = published
    BY <2>1
  <2>2. ASSUME NEW k \in Backups, Reserve(k), published' # published PROVE Stays
    <3> DEFINE n == Free(backup[k].stamp, Tag(k))
               reserved == Name(backup[k].stamp, Tag(k), n)
    <3>1. n # None /\ published' = [published EXCEPT ![reserved] = Empty]
      BY <2>2 DEF Reserve, Abandoned
    <3>2. published[reserved] = None
      BY <3>1, FreeIsFree
    <3> HIDE DEF n, reserved
    <3> QED
      BY <3>1, <3>2 DEF Exists, Inv, TypeOK
  <2>3. ASSUME NEW k \in Backups, Rename(k) PROVE Stays
    BY <2>3 DEF Rename, Inv, OwnName, TypeOK
  <2>4. \/ published' = published
        \/ \E k \in Backups : Reserve(k) \/ Rename(k)
    BY DEF Next, vars, world, checking, saving, AppendRow, Harm, Reboot, Stat, Hash, Manifest,
           Compare, Begin, Add, Record, Abandoned
  <2> QED
    BY <2>1, <2>2, <2>3, <2>4
<1> QED
  BY CustodyInvariant, <1>1, PTL DEF Spec, PublishedStays

=============================================================================
