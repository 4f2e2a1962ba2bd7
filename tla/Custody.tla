------------------------------- MODULE Custody -------------------------------
(***************************************************************************)
(* Two scripts that watch over the data directory while the run loop       *)
(* writes in it and the machine may go down: scripts/reboot_check.py,      *)
(* whose manifest of before the reboot is compared with one of after it,   *)
(* and scripts/backup_snapshot.py, which copies every file into an archive *)
(* of its own.  Neither takes the process lock.                            *)
(*                                                                         *)
(* A file is the sequence of its bytes, a byte is the boot it was written  *)
(* in or Damage.  Only append-only files are here, and of a hash only that *)
(* it tells contents apart.                                                *)
(***************************************************************************)
EXTENDS Naturals, Sequences, SequencesExt, FiniteSets

CONSTANTS
    Files,      \* the append-only files of the data directory
    Listed,     \* the inventory, in order; the rest of the files are not in it
    Archived,   \* all of the files, in the order the backup reads them
    Backups,    \* runs of the backup script
    Stamps,     \* the seconds of the clock a backup may be named for
    MaxRetries, \* _MAX_COLLISION_RETRIES
    MaxBytes,   \* bound: the bytes of a file
    None

ASSUME FilesAssumption ==
    /\ Listed \in Seq(Files) /\ ToSet(Archived) = Files
    /\ None \notin Nat \cup {"FAIL"} /\ None \notin Seq(Nat)
    /\ MaxRetries \in Nat \ {0} /\ MaxBytes \in Nat

VARIABLES
    data,       \* the bytes of each file, None while there is no such file
    boot,       \* 1 before the reboot, 2 after it
    harmed,     \* has a file been damaged or removed
    check,      \* the manifest run of each boot: how far it is, what it found
    exit,       \* the exit status of --mode post, None before
    verdict,    \* its verdict on each listed file
    backup,     \* each run of the backup script
    published   \* backup_dir: each name's contents, None where there is none

world == <<data, boot, harmed>>
checking == <<check, exit, verdict>>
saving == <<backup, published>>
vars == <<world, checking, saving>>

Damage == 0
Exists(content) == content # None
Size(content) == IF Exists(content) THEN Len(content) ELSE 0
First(content, n) == SubSeq(content, 1, IF n < Len(content) THEN n ELSE Len(content))

NotRun == [pc |-> "stat", size |-> [f \in ToSet(Listed) |-> None],
           hash |-> [f \in ToSet(Listed) |-> None], todo |-> Listed]
Idle == [pc |-> "idle", stamp |-> None, todo |-> <<>>, into |-> None,
         copied |-> [f \in Files |-> None], recorded |-> [f \in Files |-> None]]

-----------------------------------------------------------------------------
(* The files *)

\* A row, by any of the writers; the two bytes of it are one write.
AppendRow(f) ==
    /\ Size(data[f]) + 2 <= MaxBytes
    /\ data' = [data EXCEPT ![f] = (IF Exists(@) THEN @ ELSE <<>>) \o <<boot, boot>>]
    /\ UNCHANGED <<boot, harmed, checking, saving>>

\* What should never happen, and the check is for; not while it looks again.
Harm(f) ==
    /\ ~harmed /\ Exists(data[f]) /\ check[2] = NotRun
    /\ \/ data' = [data EXCEPT ![f] = None]
       \/ \E i \in DOMAIN data[f] : data' = [data EXCEPT ![f][i] = Damage]
    /\ harmed' = TRUE
    /\ UNCHANGED <<boot, checking, saving>>

\* Every process ends, and a file may lose any of its tail: only the audit
\* log, the mode and a few more are synced.
Reboot ==
    /\ boot = 1
    /\ boot' = 2
    /\ \E kept \in [Files -> 0..MaxBytes] :
           data' = [f \in Files |-> IF Exists(data[f]) THEN First(data[f], kept[f]) ELSE None]
    /\ check' = IF check[1].pc = "done" THEN check ELSE [check EXCEPT ![1] = NotRun]
    /\ backup' = [k \in Backups |-> IF backup[k].pc = "done" THEN backup[k]
                                    ELSE [Idle EXCEPT !.pc = "done"]]
    /\ UNCHANGED <<harmed, exit, verdict, published>>

-----------------------------------------------------------------------------
(* scripts/reboot_check.py *)

\* _file_inventory: is_file and stat, then the hash, of one file after another.
Stat ==
    /\ check[boot].pc = "stat" /\ check[boot].todo # <<>>
    /\ boot = 2 => check[1].pc = "done"
    /\ LET f == Head(check[boot].todo) IN
       check' = [check EXCEPT ![boot].size[f] = IF Exists(data[f]) THEN Size(data[f]) ELSE None,
                              ![boot].pc = "hash"]
    /\ UNCHANGED <<world, exit, verdict, saving>>

Hash ==
    /\ check[boot].pc = "hash"
    /\ LET f == Head(check[boot].todo) IN
       check' = [check EXCEPT ![boot].hash[f] = data[f],
                              ![boot].todo = Tail(@), ![boot].pc = "stat"]
    /\ UNCHANGED <<world, exit, verdict, saving>>

\* The manifest is written: the run of before the reboot is over.
Manifest ==
    /\ boot = 1 /\ check[1].pc = "stat" /\ check[1].todo = <<>>
    /\ check' = [check EXCEPT ![1].pc = "done"]
    /\ UNCHANGED <<world, exit, verdict, saving>>

\* compare_manifests, of an append-only file: a file that grew is read again,
\* and what there was of it before hashed.
GrewWholly(f) ==  \* mutant: all of the file is hashed
    data[f] = check[1].hash[f]
GrewWell(f) == First(data[f], check[1].size[f]) = check[1].hash[f]

VerdictBySize(f) ==  \* mutant: a file that grew is taken to be well
    LET was == check[1].size[f]  is == check[2].size[f] IN
    IF was = None THEN "NOT_YET_OBSERVED"
    ELSE IF is = None THEN "FAIL"
    ELSE IF is < was THEN "FAIL" ELSE "PASS"
Verdict(f) ==
    LET was == check[1].size[f]  is == check[2].size[f]
        Checked(well) == IF well THEN "PASS" ELSE "FAIL"
    IN IF was = None THEN "NOT_YET_OBSERVED"
       ELSE IF is = None THEN "FAIL"
       ELSE CASE is < was -> "FAIL"
              [] is = was -> Checked(check[1].hash[f] = check[2].hash[f])
              [] is > was -> IF Exists(data[f]) THEN Checked(GrewWell(f)) ELSE "UNAVAILABLE"

\* The other checks (mode, audit chain, git, launchctl) may fail as well.
Compare(other) ==
    /\ boot = 2 /\ check[1].pc = "done"
    /\ check[2].pc = "stat" /\ check[2].todo = <<>>
    /\ check' = [check EXCEPT ![2].pc = "done"]
    /\ verdict' = [f \in ToSet(Listed) |-> Verdict(f)]
    /\ exit' = IF other \/ \E f \in ToSet(Listed) : Verdict(f) = "FAIL" THEN 1 ELSE 0
    /\ UNCHANGED <<world, saving>>

-----------------------------------------------------------------------------
(* scripts/backup_snapshot.py *)

Empty == [f \in {} |-> None]
Name(stamp, tag, n) == <<stamp, tag, n>>
Names == Stamps \X {"", "-FAILED-VERIFICATION"} \X (1..MaxRetries)

\* The stamp is taken, and the files there are are listed.
Begin(k, stamp) ==
    /\ backup[k].pc = "idle"
    /\ backup' = [backup EXCEPT ![k].pc = "add", ![k].stamp = stamp,
          ![k].todo = SelectSeq(Archived, LAMBDA f : Exists(data[f]))]
    /\ UNCHANGED <<world, checking, published>>

\* An exception: the work directory is removed.
Abandoned(k) ==
    /\ backup' = [backup EXCEPT ![k] = [Idle EXCEPT !.pc = "done"]]
    /\ UNCHANGED <<world, checking, published>>

\* tar.add of the next file; then its hash, for the manifest.
Add(k) ==
    /\ backup[k].pc = "add" /\ backup[k].todo # <<>>
    /\ LET f == Head(backup[k].todo) IN
       IF Exists(data[f])
       THEN /\ backup' = [backup EXCEPT ![k].copied[f] = data[f], ![k].pc = "record"]
            /\ UNCHANGED <<world, checking, published>>
       ELSE Abandoned(k)

Record(k) ==
    /\ backup[k].pc = "record"
    /\ LET f == Head(backup[k].todo) IN
       IF Exists(data[f])
       THEN /\ backup' = [backup EXCEPT ![k].recorded[f] = data[f],
                              ![k].todo = Tail(@), ![k].pc = "add"]
            /\ UNCHANGED <<world, checking, published>>
       ELSE Abandoned(k)

\* verify_snapshot: the archive extracted again and compared with the manifest.
Verified(k) == backup[k].copied = backup[k].recorded
Tag(k) == IF Verified(k) THEN "" ELSE "-FAILED-VERIFICATION"

\* _reserve_final_dir: mkdir of the first name that is free.
Taken(stamp, tag) == {n \in 1..MaxRetries : published[Name(stamp, tag, n)] # None}
FreeAlways(stamp, tag) ==  \* mutant: mkdir takes a directory that is there
    1
Free(stamp, tag) ==
    IF Taken(stamp, tag) = 1..MaxRetries THEN None
    ELSE CHOOSE n \in 1..MaxRetries :
             n \notin Taken(stamp, tag) /\ 1..(n - 1) \subseteq Taken(stamp, tag)

Reserve(k) ==
    LET n == Free(backup[k].stamp, Tag(k)) IN
    /\ backup[k].pc = "add" /\ backup[k].todo = <<>>
    /\ IF n = None THEN Abandoned(k)
       ELSE /\ backup' = [backup EXCEPT ![k].pc = "rename",
                              ![k].into = Name(backup[k].stamp, Tag(k), n)]
            /\ published' = [published EXCEPT ![Name(backup[k].stamp, Tag(k), n)] = Empty]
            /\ UNCHANGED <<world, checking>>

Rename(k) ==
    /\ backup[k].pc = "rename"
    /\ published' = [published EXCEPT ![backup[k].into] = backup[k].copied]
    /\ backup' = [backup EXCEPT ![k].pc = "done"]
    /\ UNCHANGED <<world, checking>>

-----------------------------------------------------------------------------
Init ==
    /\ data = [f \in Files |-> None]
    /\ boot = 1 /\ harmed = FALSE
    /\ check = [b \in {1, 2} |-> NotRun]
    /\ exit = None /\ verdict = [f \in ToSet(Listed) |-> None]
    /\ backup = [k \in Backups |-> Idle]
    /\ published = [name \in Names |-> None]

Next ==
    \/ \E f \in Files : AppendRow(f) \/ Harm(f)
    \/ Reboot
    \/ Stat \/ Hash \/ Manifest
    \/ \E other \in BOOLEAN : Compare(other)
    \/ \E k \in Backups, stamp \in Stamps : Begin(k, stamp)
    \/ \E k \in Backups : Add(k) \/ Record(k) \/ Reserve(k) \/ Rename(k)

Spec == Init /\ [][Next]_vars

-----------------------------------------------------------------------------
\* Exit status 0 means that nothing the first manifest saw is lost: each
\* listed file still begins with all of what was hashed before the reboot,
\* although both runs read it in pieces while it may be written.
\* (reboot_check.py:128-140, 387-433, 561)
ExitZeroMeansKept ==
    exit = 0 => \A f \in ToSet(Listed) :
        check[1].size[f] # None => IsPrefix(check[1].hash[f], check[2].hash[f])

\* A file is failed for a cause: it lost or changed something, or a writer
\* came between its size and its hash.
\* (reboot_check.py:135-139, 400-430)
AlarmHasACause ==
    \A f \in ToSet(Listed) : verdict[f] = "FAIL" =>
        \/ harmed
        \/ ~IsPrefix(check[1].hash[f], check[2].hash[f])
        \/ \E b \in {1, 2} : check[b].size[f] \notin {None, Size(check[b].hash[f])}

\* Whatever other backups run in the same second, and whatever comes down
\* between a name reserved and a name filled: what is published stays.
\* (backup_snapshot.py:161-195, 265-278)
PublishedStays ==
    [][\A name \in Names : Exists(published[name]) /\ published[name] # Empty
                               => published'[name] = published[name]]_vars
=============================================================================
