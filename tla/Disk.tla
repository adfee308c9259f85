-------------------------------- MODULE Disk --------------------------------
(* The path of model.gguf and what other programs do to it while this one     *)
(* reads. Not code of the repository: the file system as src/ uses it. The    *)
(* path names a file (an index of `files`) or nothing; an open handle keeps   *)
(* naming the file it was opened on.                                          *)
EXTENDS Naturals, Sequences

CONSTANTS
    Contents,       \* what model.gguf may contain
    MaxChanges,     \* bound: how often other programs change the path
    InPlace         \* whether they may overwrite a file that is in use

ASSUME DiskAssumption == MaxChanges \in Nat /\ InPlace \in BOOLEAN

VARIABLES path, files, changes

diskVars == <<path, files, changes>>

NoFile == 0

OnDisk == files[path]

DiskInit ==
    /\ changes = 0
    /\ \/ \E c \in Contents : path = 1 /\ files = <<c>>
       \/ path = NoFile /\ files = <<>>

(* A download finishes: written beside the old file, then renamed over it.    *)
RenameOver(c) ==
    /\ files' = Append(files, c)
    /\ path' = Len(files) + 1

(* The file itself is rewritten; open handles see the new bytes.              *)
OverwriteInPlace(c) ==
    /\ InPlace
    /\ path # NoFile
    /\ files' = [files EXCEPT ![path] = c]
    /\ UNCHANGED path

Unlink ==
    /\ path # NoFile
    /\ path' = NoFile
    /\ UNCHANGED files

ChangeDisk ==
    /\ changes < MaxChanges
    /\ changes' = changes + 1
    /\ \/ \E c \in Contents : RenameOver(c) \/ OverwriteInPlace(c)
       \/ Unlink

DiskTypeOK ==
    /\ files \in Seq(Contents)
    /\ path \in 0 .. Len(files)
    /\ changes \in 0 .. MaxChanges
=============================================================================
