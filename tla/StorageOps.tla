------------------------------ MODULE StorageOps ------------------------------
(***************************************************************************)
(* EaFileStorage: the directories it makes, and the files it keeps values  *)
(* in.  A path is the sequence of its names; a key is a sequence of        *)
(* characters.                                                             *)
(***************************************************************************)
EXTENDS Naturals, Sequences

CONSTANTS DataDir,  (* the path of the data directory                       *)
          Safe      (* the letters, digits, "-" and "_" among the characters *)

KvDir      == Append(DataDir, "kv")
SecretsDir == Append(DataDir, "secrets")
KeyPath    == Append(SecretsDir, "api_key.enc")

(* Every outcome, [dirs, ok], of making a directory: the missing ones are  *)
(* made from the top down, until mkdir() fails.                            *)
MkdirRecursive(dirs, path) ==
  LET Missing(n) == \A i \in n + 1 .. Len(path) : SubSeq(path, 1, i) \notin dirs
  IN  {[dirs |-> dirs \cup {SubSeq(path, 1, i) : i \in 1 .. n}, ok |-> n = Len(path)] :
         n \in {k \in 0 .. Len(path) : Missing(k)}}

(* ensureDataDir: both directories, the second when the first is there. *)
EnsureDataDir(dirs) ==
  UNION {IF o.ok THEN MkdirRecursive(o.dirs, KvDir) ELSE {o} :
           o \in MkdirRecursive(dirs, DataDir)}

(* Mutant of SanitizeKey: other characters are left out. *)
SanitizeKeyShort(key) == SelectSeq(key, LAMBDA c : c \in Safe)

SanitizeKey(key) == [i \in DOMAIN key |-> IF key[i] \in Safe THEN key[i] ELSE "_"]

KvPath(key) == Append(KvDir, SanitizeKey(key))
=============================================================================
