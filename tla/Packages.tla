------------------------------- MODULE Packages -------------------------------
(* The package manager (src/src/mirror/sbin/tpkg.ts): one package, whose files   *)
(* are overwritten one by one after their contents have been backed up, and      *)
(* restored one by one.  A file of HostFile is written twice: in the VFS, then   *)
(* copied to the host, which has no call to delete a file.                       *)
(*                                                                               *)
(* One tpkg runs at a time.  It may end between any two of its syscalls, and     *)
(* fs.writeFile() is more than one: OPEN "w" empties the file, WRITE appends to  *)
(* it.  The directories of the files are there, those of the backup are taken    *)
(* to be made: without one, touch() and append() return a false nobody reads.    *)
EXTENDS Naturals, Sequences, SequencesExt

CONSTANTS NFiles,      \* the files of the package, in the order they are written
          HostFile,    \* those with a hostDst
          Version,     \* 0 stands for a file that is absent
          Emptied,     \* the content of a file that was emptied to be written
          MaxBackups,  \* maxBackupsPerPkg
          MaxInstalls  \* bound: installations begun

File == 1..NFiles

ASSUME PackagesAssumption ==
    /\ NFiles \in Nat \ {0} /\ HostFile \subseteq File
    /\ 0 \notin Version /\ Emptied \notin Version \union {0}
    /\ MaxBackups \in Nat \ {0} /\ MaxInstalls \in Nat

VARIABLES
    disk,      \* the content of each file in the VFS
    host,      \* the content of each host file on the host
    backups,   \* the directories under backup/<pkg>, oldest first
    status,    \* the version status.json records, 0 if none
    job,       \* what tpkg is doing: the step it is at, the file it has reached,
               \* the version it installs, why it restores, and from what
    installs,  \* number of installations begun
    before,    \* the contents when the last installation began
    missed,    \* host files there were, and its backup could not read
    failed,    \* files the restore that runs could not write
    good       \* the contents after the last installation that ended, those the
               \* last rollback was for, or the first ones; and how many
               \* installations had begun by then

pkgVars == <<disk, host, backups, status, job, installs, before, missed, failed, good>>

FileContent == Version \union {0, Emptied}
Contents == [vfs : [File -> FileContent], host : [HostFile -> FileContent]]
Backup == [index : BOOLEAN, old : Contents]
Why == {"install", "broken", "postinstall", "rollback"}
Nothing == [vfs |-> [f \in File |-> 0], host |-> [f \in HostFile |-> 0]]
Idle == [step |-> "idle", at |-> 1, version |-> 0, why |-> "install", from |-> Nothing]

PkgTypeOK ==
    /\ disk \in [File -> FileContent]
    /\ host \in [HostFile -> FileContent]
    /\ backups \in Seq(Backup)
    /\ status \in Version \union {0}
    /\ job \in [step : {"idle", "backup", "open", "write", "sync", "record", "post",
                        "prune", "restoreHost", "restore", "rewrite", "restored"},
                at : 1..NFiles + 1, version : Version \union {0}, why : Why,
                from : Contents]
    /\ job.step \in {"write", "sync", "restoreHost", "restore", "rewrite"} => job.at \in File
    /\ installs \in 0..MaxInstalls
    /\ before \in Contents
    /\ missed \subseteq HostFile /\ failed \subseteq File
    /\ good \in [files : Contents, at : 0..MaxInstalls]

Installed == [vfs |-> disk, host |-> host]

(* The image of the system, and what the operator put on the host. *)
PkgInit ==
    /\ disk \in [File -> Version \union {0}]
    /\ host \in [HostFile -> Version \union {0}]
    /\ backups = <<>> /\ status = 0 /\ job = Idle
    /\ installs = 0 /\ before = Installed /\ missed = {} /\ failed = {}
    /\ good = [files |-> Installed, at |-> 0]

files == <<disk, host>>
ghosts == <<installs, before, missed, failed, good>>

-----------------------------------------------------------------------------
(* Installing *)

(* The bundle has been verified and the operator has agreed: backupFiles()      *)
(* makes a directory named by the time.                                         *)
BeginInstall(v) ==
    /\ job.step = "idle" /\ installs < MaxInstalls
    /\ job' = [Idle EXCEPT !.step = "backup", !.version = v]
    /\ backups' = Append(backups, [index |-> FALSE, old |-> Nothing])
    /\ installs' = installs + 1
    /\ before' = Installed
    /\ missed' = {}
    /\ UNCHANGED <<files, status, failed, good>>

(* Mutant: the backup of a host file is what the VFS has of it. *)
VfsOnly(unread) ==
    [vfs |-> disk, host |-> [f \in HostFile |-> IF f \in unread THEN 0 ELSE disk[f]]]

(* What backupFiles() copies into it.  A host file that cannot be read, absent  *)
(* or not, is recorded as new.                                                  *)
Copied(unread) ==
    [vfs |-> disk, host |-> [f \in HostFile |-> IF f \in unread THEN 0 ELSE host[f]]]

(* index.json is written last.  A copy that fails in the VFS ends the           *)
(* installation and leaves the directory without one, and so does a file that   *)
(* is absent: OPEN "r" throws.                                                  *)
BackupFiles ==
    /\ job.step = "backup"
    /\ \/ \E unread \in SUBSET HostFile :
            /\ \A f \in File : disk[f] # 0
            /\ job' = [job EXCEPT !.step = "open", !.from = Copied(unread)]
            /\ backups' = [backups EXCEPT ![Len(backups)] =
                             [index |-> TRUE, old |-> Copied(unread)]]
            /\ missed' = {f \in unread : host[f] # 0}
       \/ /\ job' = Idle
          /\ UNCHANGED <<backups, missed>>
    /\ UNCHANGED <<files, status, installs, before, failed, good>>

NextFile(j) == [j EXCEPT !.step = "open", !.at = @ + 1]
RestoreFrom(b, why) ==
    [job EXCEPT !.step = "restoreHost", !.at = 1, !.why = why, !.from = b]

(* writeFile(): OPEN "w" empties the file, or throws. *)
OpenFile ==
    /\ job.step = "open" /\ job.at \in File
    /\ \/ /\ disk' = [disk EXCEPT ![job.at] = Emptied]
          /\ job' = [job EXCEPT !.step = "write"]
       \/ /\ UNCHANGED disk
          /\ job' = RestoreFrom(job.from, "broken")
    /\ UNCHANGED <<host, backups, status, ghosts>>

(* WRITE, CLOSE and chmod(): one may throw, the last two with the file written. *)
WriteFile ==
    /\ job.step = "write"
    /\ \/ /\ disk' = [disk EXCEPT ![job.at] = job.version]
          /\ job' = IF job.at \in HostFile THEN [job EXCEPT !.step = "sync"] ELSE NextFile(job)
       \/ /\ \/ disk' = [disk EXCEPT ![job.at] = job.version]
             \/ UNCHANGED disk
          /\ job' = RestoreFrom(job.from, "broken")
    /\ UNCHANGED <<host, backups, status, ghosts>>

SyncToHost ==
    /\ job.step = "sync"
    /\ \/ /\ host' = [host EXCEPT ![job.at] = disk[job.at]]
          /\ job' = NextFile(job)
       \/ /\ UNCHANGED host
          /\ job' = RestoreFrom(job.from, "broken")
    /\ UNCHANGED <<disk, backups, status, ghosts>>

(* saveStatus(): an empty status.json is read as one that records nothing. *)
OpenStatus ==
    /\ job.step = "open" /\ job.at = NFiles + 1
    /\ status' = 0
    /\ job' = [job EXCEPT !.step = "record"]
    /\ UNCHANGED <<files, backups, ghosts>>

SaveStatus ==
    /\ job.step = "record"
    /\ status' = job.version
    /\ job' = [job EXCEPT !.step = "post"]
    /\ UNCHANGED <<files, backups, ghosts>>

(* runPostInstall(): the script succeeds, is skipped or has failed, and then    *)
(* the operator may want the files back.                                        *)
RunPostInstall ==
    /\ job.step = "post"
    /\ \/ /\ job' = [job EXCEPT !.step = "prune"]
          /\ good' = [files |-> Installed, at |-> installs]
       \/ /\ job' = RestoreFrom(job.from, "postinstall")
          /\ UNCHANGED good
    /\ UNCHANGED <<files, backups, status, installs, before, missed, failed>>

(* Mutant: the oldest are kept. *)
Oldest(b) == SubSeq(b, 1, IF Len(b) < MaxBackups THEN Len(b) ELSE MaxBackups)

Newest(b) == SubSeq(b, IF Len(b) < MaxBackups THEN 1 ELSE Len(b) - MaxBackups + 1, Len(b))

PruneBackups ==
    /\ job.step = "prune"
    /\ backups' = Newest(backups)
    /\ job' = Idle
    /\ UNCHANGED <<files, status, ghosts>>

-----------------------------------------------------------------------------
(* Restoring *)

(* tpkg rollback takes the newest directory, and refuses one without an index.  *)
Rollback ==
    /\ job.step = "idle"
    /\ backups # <<>> /\ Last(backups).index
    /\ job' = RestoreFrom(Last(backups).old, "rollback")
    /\ good' = [files |-> Last(backups).old, at |-> installs - 1]
    /\ UNCHANGED <<files, backups, status, installs, before, missed, failed>>

(* The host side of an entry: a new file stays.  A failure is reported, and the *)
(* VFS side is restored all the same.                                           *)
RestoreHost ==
    /\ job.step = "restoreHost" /\ job.at \in File
    /\ \/ /\ host' = IF job.at \in HostFile /\ job.from.host[job.at] # 0
                     THEN [host EXCEPT ![job.at] = job.from.host[job.at]] ELSE host
          /\ UNCHANGED failed
       \/ /\ job.at \in HostFile /\ job.from.host[job.at] # 0
          /\ failed' = failed \union {job.at}
          /\ UNCHANGED host
    /\ job' = [job EXCEPT !.step = "restore"]
    /\ UNCHANGED <<disk, backups, status, installs, before, missed, good>>

(* Mutant: one entry too many. *)
PastEnd(i) == i > NFiles

AtEnd(i) == i = NFiles

NextEntry(j) ==
    [j EXCEPT !.step = IF AtEnd(j.at) THEN "restored" ELSE "restoreHost",
              !.at = IF AtEnd(j.at) THEN @ ELSE @ + 1]

(* The VFS side: the copy is read and OPEN "w" empties the file; either may     *)
(* fail.  (No entry says that there was no file: see BackupFiles.)              *)
RestoreVfs ==
    /\ job.step = "restore"
    /\ \/ /\ disk' = [disk EXCEPT ![job.at] = Emptied]
          /\ job' = [job EXCEPT !.step = "rewrite"]
          /\ UNCHANGED failed
       \/ /\ failed' = failed \union {job.at}
          /\ job' = NextEntry(job)
          /\ UNCHANGED disk
    /\ UNCHANGED <<host, backups, status, installs, before, missed, good>>

(* WRITE and CLOSE: one may throw, the second with the file written. *)
RewriteVfs ==
    /\ job.step = "rewrite"
    /\ \/ /\ disk' = [disk EXCEPT ![job.at] = job.from.vfs[job.at]]
          /\ UNCHANGED failed
       \/ /\ failed' = failed \union {job.at}
          /\ UNCHANGED disk
    /\ job' = NextEntry(job)
    /\ UNCHANGED <<host, backups, status, installs, before, missed, good>>

(* A broken installation ends there; one whose post-install script failed ends  *)
(* as a good one does, its version on record; a rollback forgets the version    *)
(* (its status.json records none, emptied or written).                          *)
Restored ==
    /\ job.step = "restored"
    /\ job' = IF job.why = "postinstall" THEN [job EXCEPT !.step = "prune"] ELSE Idle
    /\ status' = IF job.why = "rollback" THEN 0 ELSE status
    /\ failed' = {}
    /\ UNCHANGED <<files, backups, installs, before, missed, good>>

(* The process ends: killed, or by a call outside a try that throws. *)
Killed ==
    /\ job.step # "idle"
    /\ job' = Idle
    /\ failed' = {}
    /\ UNCHANGED <<files, backups, status, installs, before, missed, good>>

PkgNext ==
    \/ \E v \in Version : BeginInstall(v)
    \/ BackupFiles \/ OpenFile \/ WriteFile \/ SyncToHost \/ OpenStatus \/ SaveStatus
    \/ RunPostInstall \/ PruneBackups
    \/ Rollback \/ RestoreHost \/ RestoreVfs \/ RewriteVfs \/ Restored \/ Killed

PkgSpec == PkgInit /\ [][PkgNext]_pkgVars

-----------------------------------------------------------------------------
(* Properties *)

(* Both sides are as they were; a host file that is new may stay. *)
Same(old, new, except) ==
    /\ \A f \in File \ except : new.vfs[f] = old.vfs[f]
    /\ \A f \in HostFile \ except : old.host[f] # 0 => new.host[f] = old.host[f]

(* A complete backup has them, but for the host files it could not read. *)
Keeps(backup, old) ==
    /\ backup.index
    /\ backup.old.vfs = old.vfs
    /\ \A f \in HostFile : old.host[f] # 0 => backup.old.host[f] \in {old.host[f], 0}

(* A restore that has come to its end has brought back both sides of every file *)
(* whose copies succeeded, as they were when the last installation began        *)
(* (restoreBackup(), "the state before the installation").  This is so whatever *)
(* earlier installations and restores were broken off, between the emptying of  *)
(* a file and its writing too, and for a rollback after tpkg was killed.        *)
RestoreIsExact ==
    job.step = "restored" => Same(before, Installed, missed \union failed)

(* The contents after the last installation that ended well are installed, or a *)
(* backup has them, until as many have begun as backups are kept: it takes that *)
(* many broken ones in a row to lose them (backupFiles(): a rollback is         *)
(* possible after the process died).                                            *)
LastGoodKept ==
    installs - good.at <= MaxBackups =>
        \/ Same(good.files, Installed, {})
        \/ \E i \in DOMAIN backups : Keeps(backups[i], good.files)
=============================================================================
