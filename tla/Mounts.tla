-------------------------------- MODULE Mounts --------------------------------
(* The mount table (src/src/kernel/MountManager.ts) with the syscalls that    *)
(* change it (MOUNT and UMOUNT, src/src/kernel/Syscalls.ts) and the end of    *)
(* the system (Kernel.closeFilesystems).                                      *)
(*                                                                            *)
(* A driver here is one with something to close: the database of a BKFS, or   *)
(* the port, the handler and the key a NetFS channel holds.  RamFS and        *)
(* HostVFS have no close() and hold nothing.  Each MOUNT makes a driver of    *)
(* its own.  MOUNT of a NetFS awaits the peer's handshake between its check   *)
(* of the mount point and the change of the table; all else is one task.      *)
EXTENDS Naturals, Sequences, SequencesExt

CONSTANTS MountPath,  \* bound: the paths anything is mounted at
          Driver,     \* bound: the drivers ever made
          DriverType, \* "bkfs" or "netfs"
          RootFs      \* the driver of /

Root == <<>>

ASSUME MountsAssumption ==
    /\ MountPath \subseteq Seq(STRING) /\ Root \in MountPath
    /\ DriverType \in [Driver -> {"bkfs", "netfs"}]
    /\ RootFs \in Driver

VARIABLES
    mounts,     \* MountManager.mounts
    resource,   \* "none" (not made), "opening" (handshake), "open", "closed"
    wanted,     \* where a driver is to be mounted
    replaced,   \* drivers whose place in the table another one took
    halted      \* Kernel.filesystemsClosed: the host ends

mountVars == <<mounts, resource, wanted, replaced, halted>>

MountPoint == [vfsPath : MountPath, vfs : Driver]

MountsTypeOK ==
    /\ mounts \in Seq(MountPoint)
    /\ resource \in [Driver -> {"none", "opening", "open", "closed"}]
    /\ wanted \in [Driver -> MountPath]
    /\ replaced \subseteq Driver
    /\ halted \in BOOLEAN

MountsInit ==
    /\ mounts = <<[vfsPath |-> Root, vfs |-> RootFs]>>
    /\ resource = [d \in Driver |-> IF d = RootFs THEN "open" ELSE "none"]
    /\ wanted = [d \in Driver |-> Root]
    /\ replaced = {}
    /\ halted = FALSE

-----------------------------------------------------------------------------
(* MountManager *)

Covers(i, p) == IsPrefix(mounts[i].vfsPath, p)

(* resolve(): the first entry of the table that p is in. *)
Resolves(i, p) ==
    /\ i \in DOMAIN mounts
    /\ Covers(i, p)
    /\ \A j \in 1 .. i - 1 : ~ Covers(j, p)

Mounted(d) == \E i \in DOMAIN mounts : mounts[i].vfs = d

Depth(i) == Len(mounts[i].vfsPath)

(* Mutant: a new entry goes to the end of the table. *)
AtTheEnd(k, p) == k = Len(mounts)

(* The place of a new entry: the longest paths come first.  (A path is as     *)
(* long as its names are many: of paths one in the other that is the same.)   *)
PlaceOf(k, p) ==
    /\ \A i \in 1 .. k : Depth(i) >= Len(p)
    /\ \A i \in k + 1 .. Len(mounts) : Depth(i) < Len(p)

(* mount(): an entry of the same path gets the new driver, and nobody closes  *)
(* the one it had.                                                            *)
Mount(p, d) ==
    \/ \E i \in DOMAIN mounts :
         /\ mounts[i].vfsPath = p
         /\ mounts' = [mounts EXCEPT ![i].vfs = d]
         /\ replaced' = replaced \union {mounts[i].vfs}
    \/ \E k \in 0 .. Len(mounts) :
         /\ \A i \in DOMAIN mounts : mounts[i].vfsPath # p
         /\ PlaceOf(k, p)
         /\ mounts' = InsertAt(mounts, k + 1, [vfsPath |-> p, vfs |-> d])
         /\ UNCHANGED replaced

-----------------------------------------------------------------------------
(* The syscalls *)

(* MOUNT's check of the mount point.  It does not await stat(): what a NetFS  *)
(* answers is a Promise, which is no directory, so that nothing is mounted    *)
(* at or below one.                                                           *)
IsDirectory(p) == \E i \in DOMAIN mounts : Resolves(i, p) /\ DriverType[mounts[i].vfs] # "netfs"

MountLocal(d, p) ==
    /\ ~ halted
    /\ resource[d] = "none" /\ DriverType[d] = "bkfs"
    /\ IsDirectory(p)
    /\ Mount(p, d)
    /\ resource' = [resource EXCEPT ![d] = "open"]
    /\ UNCHANGED <<wanted, halted>>

(* MOUNT of a NetFS: the channel is open, and the handshake is on its way. *)
BeginMount(d, p) ==
    /\ ~ halted
    /\ resource[d] = "none" /\ DriverType[d] = "netfs"
    /\ IsDirectory(p)
    /\ resource' = [resource EXCEPT ![d] = "opening"]
    /\ wanted' = [wanted EXCEPT ![d] = p]
    /\ UNCHANGED <<mounts, replaced, halted>>

(* The peer has answered.  The mount point is not looked at again: it may     *)
(* have been taken by another MOUNT, or gone with the UMOUNT of its parent.   *)
EndMount(d) ==
    /\ ~ halted
    /\ resource[d] = "opening"
    /\ Mount(wanted[d], d)
    /\ resource' = [resource EXCEPT ![d] = "open"]
    /\ UNCHANGED <<wanted, halted>>

(* No answer, or an error: the driver is closed. *)
MountFails(d) ==
    /\ ~ halted
    /\ resource[d] = "opening"
    /\ resource' = [resource EXCEPT ![d] = "closed"]
    /\ UNCHANGED <<mounts, wanted, replaced, halted>>

(* UMOUNT: the driver is the one that resolve() finds, the entry the one that *)
(* has the path; close() runs up to its first await in the same task.  Where  *)
(* nothing is mounted the answer is false.                                    *)
Umount(p) ==
    /\ ~ halted /\ p # Root
    /\ \E i, k \in DOMAIN mounts :
         /\ Resolves(i, p)
         /\ mounts[k].vfsPath = p
         /\ mounts' = RemoveAt(mounts, k)
         /\ resource' = [resource EXCEPT ![mounts[i].vfs] = "closed"]
    /\ UNCHANGED <<wanted, replaced, halted>>

(* Kernel.closeFilesystems(), and process.exit() at once. *)
CloseAll ==
    /\ ~ halted
    /\ halted' = TRUE
    /\ resource' = [d \in Driver |-> IF Mounted(d) THEN "closed" ELSE resource[d]]
    /\ UNCHANGED <<mounts, wanted, replaced>>

MountsNext ==
    \/ \E d \in Driver : \E p \in MountPath : MountLocal(d, p) \/ BeginMount(d, p)
    \/ \E d \in Driver : EndMount(d) \/ MountFails(d)
    \/ \E p \in MountPath : Umount(p)
    \/ CloseAll

MountsSpec == MountsInit /\ [][MountsNext]_mountVars

-----------------------------------------------------------------------------
(* Properties *)

(* The drivers that hold a port or a database are those in the table, in      *)
(* whatever order mounts overlap and are taken away: a path never leads to a  *)
(* driver that was closed, and UMOUNT and the end of the system leave none    *)
(* open.  The one exception is a driver that another MOUNT replaced, which    *)
(* nobody closes (MountManager.ts:48, 98; Syscalls.ts:1935).                  *)
OpenMeansMounted ==
    \A d \in Driver :
        /\ Mounted(d) => resource[d] = IF halted THEN "closed" ELSE "open"
        /\ resource[d] = "open" => Mounted(d) \/ d \in replaced

(* A path belongs to the deepest mount it is in (MountManager.ts:63). *)
DeepestWins ==
    \A p \in MountPath : \A i, j \in DOMAIN mounts :
        Resolves(i, p) /\ Covers(j, p) => Depth(j) <= Depth(i)
=============================================================================
