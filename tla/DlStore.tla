------------------------------- MODULE DlStore -------------------------------
(***************************************************************************)
(* What the download infrastructure promises about one directory of        *)
(* BR2_DL_DIR shared by several builds: an atomic store of files.  A       *)
(* request either finds or stores a file that its .hash file vouches for,  *)
(* in one step, or fails.  A file is thrown away only when some hash        *)
(* refutes it, and never replaced by another in one step.                  *)
(***************************************************************************)
EXTENDS CheckHash

CONSTANTS
    Request,        \* the downloads that are wanted
    FileOf,         \* [Request -> Name]
    HashFileOf,     \* [Request -> HashFile]
    OldDl,          \* [Name -> Content \cup {NoFile}]: the pre-2018 flat directory
    Cut,            \* any file cut short, the empty file included
    NoFile

VARIABLES
    store,          \* [Name -> Content \cup {NoFile}]
    delivered       \* the requests that have been answered with success

storeVars == <<store, delivered>>

(* check-hash's answer to request r about content c.                       *)
Code(r, c) == ExitCode(HashFileOf[r], FileOf[r], c)
Vouched(r, c) == c # NoFile /\ Code(r, c) = 0

StoreInit ==
    /\ store \in [Name -> Content \cup {NoFile}]
    /\ delivered = {}

Put(f, c) == store' = [store EXCEPT ![f] = c]

(* The file is there and is right.                                         *)
Find(r) ==
    /\ Vouched(r, store[FileOf[r]])
    /\ delivered' = delivered \cup {r}
    /\ UNCHANGED store

(* The file was not there and is stored, whole and checked.                *)
Store(r) ==
    /\ store[FileOf[r]] = NoFile
    /\ \E c \in Content : Vouched(r, c) /\ Put(FileOf[r], c)
    /\ delivered' = delivered \cup {r}

(* A file no hash speaks for is kept for the user to look at, but the      *)
(* request is not answered.                                                *)
StoreUnknown(r) ==
    /\ store[FileOf[r]] = NoFile
    /\ \E c \in Content : Code(r, c) = 3 /\ Put(FileOf[r], c)
    /\ UNCHANGED delivered

(* A file of the old flat directory is taken over; a copy may be cut       *)
(* short.                                                                  *)
Adopt(f) ==
    /\ store[f] = NoFile \/ store[f] = Cut
    /\ OldDl[f] # NoFile
    /\ \E c \in {OldDl[f], Cut} : Put(f, c)
    /\ f \notin {FileOf[r] : r \in delivered}
    /\ UNCHANGED delivered

(* A file that some hash refutes is thrown away.                           *)
Discard(r) ==
    /\ store[FileOf[r]] # NoFile
    /\ Code(r, store[FileOf[r]]) = 2
    /\ Put(FileOf[r], NoFile)
    /\ UNCHANGED delivered

(* The package is asked for anew.                                          *)
Ask(r) ==
    /\ delivered' = delivered \ {r}
    /\ UNCHANGED store

StoreNext ==
    \/ \E r \in Request :
          Find(r) \/ Store(r) \/ StoreUnknown(r) \/ Discard(r) \/ Ask(r)
    \/ \E f \in Name : Adopt(f)

StoreSpec == StoreInit /\ [][StoreNext]_storeVars

=============================================================================
