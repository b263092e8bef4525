----------------------------- MODULE FileSystem -----------------------------
(***************************************************************************)
(* kernel/filesystem.cpp: the inode table and the mount table.  The        *)
(* functions that are stubs (delete_file, read_file, ...) change nothing   *)
(* and are not actions.                                                    *)
(*                                                                         *)
(* A path is its first 31 characters and the rest: strncpy keeps the first *)
(* part only, strcmp compares both.  total_inodes is never assigned in the *)
(* repository (it stays 0) and is a parameter.  init does not clear the    *)
(* page it takes for the inodes, so what they hold at first is arbitrary.  *)
(***************************************************************************)
EXTENDS Integers, FiniteSets

CONSTANTS TotalInodes,   \* static size_t total_inodes
          NMounts,       \* 16 in the build
          FileTypes,     \* values of FileType that callers pass
          Prefixes, Rests,
          NoRest         \* the rest of a path of at most 31 characters

FileSystemAssumption ==
    /\ TotalInodes \in Nat /\ NMounts \in Nat \ {0}
    /\ FileTypes \subseteq Nat
    /\ NoRest \in Rests

Inode == 0 .. TotalInodes - 1
Mount == 0 .. NMounts - 1
Path  == Prefixes \X Rests

\* The path of an entry that was never used (the empty string in the build).
NoPath == <<CHOOSE p \in Prefixes : TRUE, NoRest>>

VARIABLES types,         \* inodes[i].type: 0 means free
          mount_points,  \* path and mounted flag of every entry
          garbage,       \* ghost: inodes in use before the first create_file
          created,       \* ghost: calls of create_file that returned true
          asked,         \* ghost: the path mount was called with, by entry
          net            \* ghost: mounts less unmounts that returned true, by
                         \* the first 31 characters of the path

vars == <<types, mount_points, garbage, created, asked, net>>

\* Before init the mount table is a zeroed static.
Init ==
    /\ types \in [Inode -> FileTypes \cup {0}]
    /\ mount_points = [i \in Mount |-> [path |-> NoPath, mounted |-> FALSE]]
    /\ garbage = Cardinality({i \in Inode : types[i] # 0})
    /\ created = 0
    /\ asked = [i \in Mount |-> NoPath]
    /\ net = [q \in Prefixes |-> 0]

\* The loops stop at the first index that satisfies the condition.
First(S) == CHOOSE i \in S : \A j \in S : i <= j

FreeInodes == {i \in Inode : types[i] = 0}

\* Mutant: the search returns the first inode whatever its type.
find_any_inode == First(Inode)

find_free_inode == First(FreeInodes)

\* create_file ignores the path; create_directory is create_file of a Directory.
CreateFile(type) ==
    /\ FreeInodes # {}
    /\ types' = [types EXCEPT ![find_free_inode] = type]
    /\ created' = created + 1
    /\ UNCHANGED <<mount_points, garbage, asked, net>>

\* strncpy(path, mount_point, 31); the 32nd byte is never written and is 0.
Truncated(p) == <<p[1], NoRest>>

FreeMounts == {i \in Mount : ~mount_points[i].mounted}

\* Mutant: a full table overwrites its last entry instead of failing.
MountDeviceOverwriting(p) ==
    LET i == IF FreeMounts = {} THEN NMounts - 1 ELSE First(FreeMounts) IN
    /\ mount_points' = [mount_points EXCEPT
                           ![i] = [path |-> Truncated(p), mounted |-> TRUE]]
    /\ asked' = [asked EXCEPT ![i] = p]
    /\ net' = [net EXCEPT ![p[1]] = @ + 1]
    /\ UNCHANGED <<types, garbage, created>>

MountDevice(p) ==
    /\ FreeMounts # {}
    /\ mount_points' = [mount_points EXCEPT ![First(FreeMounts)] =
                           [path |-> Truncated(p), mounted |-> TRUE]]
    /\ asked' = [asked EXCEPT ![First(FreeMounts)] = p]
    /\ net' = [net EXCEPT ![p[1]] = @ + 1]
    /\ UNCHANGED <<types, garbage, created>>

\* The entries unmount(p) would find.
Matching(p) == {i \in Mount : mount_points[i].mounted /\ mount_points[i].path = p}

Unmount(p) ==
    /\ Matching(p) # {}
    /\ mount_points' = [mount_points EXCEPT ![First(Matching(p))].mounted = FALSE]
    /\ net' = [net EXCEPT ![p[1]] = @ - 1]
    /\ UNCHANGED <<types, garbage, created, asked>>

Next ==
    \/ \E t \in FileTypes : CreateFile(t)
    \/ \E p \in Path : MountDevice(p)
    \/ \E p \in Path : Unmount(p)

Spec == Init /\ [][Next]_vars

-----------------------------------------------------------------------------
TypeOK ==
    /\ types \in [Inode -> FileTypes \cup {0}]
    /\ mount_points \in [Mount -> [path : Path, mounted : BOOLEAN]]
    /\ garbage \in 0 .. TotalInodes
    /\ created \in 0 .. TotalInodes
    /\ asked \in [Mount -> Path]
    /\ net \in [Prefixes -> 0 .. NMounts]

(***************************************************************************)
(* Every create_file that returned true has an inode of its own: the       *)
(* inodes in use are the ones that were in use before and one per file.    *)
(***************************************************************************)
InodePerFile == Cardinality({i \in Inode : types[i] # 0}) = garbage + created

(***************************************************************************)
(* Mounting and unmounting in any order, the entries of the table that     *)
(* hold a path are as many as the successful mounts of paths that are      *)
(* stored as it, less the successful unmounts: no mount is lost when       *)
(* entries are reused, and none is undone twice.  A path that strncpy did  *)
(* not cut can be unmounted for as long as an entry that it was given      *)
(* stands, whatever longer paths share its first 31 characters.            *)
(***************************************************************************)
MountAccounting ==
    /\ \A q \in Prefixes : Cardinality(Matching(<<q, NoRest>>)) = net[q]
    /\ \A i \in Mount : mount_points[i].mounted /\ asked[i][2] = NoRest
          => Matching(asked[i]) # {}

(***************************************************************************)
(* "Unmount a filesystem": a path that mount accepted can be unmounted as  *)
(* long as its entry stands.  Violated by a path of more than 31           *)
(* characters: the table holds a truncated copy that strcmp never matches. *)
(***************************************************************************)
MountedCanBeUnmounted ==
    \A i \in Mount : mount_points[i].mounted => Matching(asked[i]) # {}
=============================================================================
