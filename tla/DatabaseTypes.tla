---------------------------- MODULE DatabaseTypes ----------------------------
(* DatabaseConfig: which store of the build a run uses for a database name, *)
(* by the type asked for and the files that are there.                      *)
EXTENDS Integers, Sequences, FiniteSets

CONSTANT DbTypes   \* the table of the build: prefix, suffix ("" if none), store

NoStore == "none"

(* The store of the first entry that fits, as FOR .. RETURN finds it. *)
FirstEntry(hits) ==
  IF hits = {} THEN NoStore
  ELSE DbTypes[CHOOSE i \in hits : \A j \in hits : i <= j].store

(* createDatabaseImplForType *)
ForType(type) == FirstEntry({i \in DOMAIN DbTypes : DbTypes[i].prefix = type})

(* createDatabaseImplUsingDefaultType *)
DefaultStore == ForType("")

(* createDatabaseImplUsingExistingFile: an entry without a suffix is not    *)
(* looked for.                                                               *)
ExistingFile(files) ==
  FirstEntry({i \in DOMAIN DbTypes : DbTypes[i].suffix \in files \ {""}})

(* createDatabaseImplUsingBestFit: an unknown type is as good as none. *)
Requested(type) == IF type = "" THEN NoStore ELSE ForType(type)
OrElse(store, other) == IF store # NoStore THEN store ELSE other

(* Mutant: the files that are there are only looked at when the build has   *)
(* no default.                                                               *)
BestFitDefaultFirst(type, files) ==
  OrElse(Requested(type), OrElse(DefaultStore, ExistingFile(files)))

BestFit(type, files) ==
  OrElse(Requested(type), OrElse(ExistingFile(files), DefaultStore))

(* The files open() of a store uses, by their suffix.  A split store is the *)
(* default store and a hash file.                                           *)
PlainFiles(store) == CASE store = "hash" -> {"hash"}
                       [] store = "pbl" -> {"pkey"}
                       [] store = "bdb" -> {"bdb"}
FilesOf(store) == IF store = "split" THEN PlainFiles(DefaultStore) \cup {"hash"}
                                     ELSE PlainFiles(store)

(* What the table of a build holds: a suffix stands for the one file of its  *)
(* store, and a store that is not the default can be told by its file.       *)
(* configure takes PBL or BerkeleyDB, never both.                            *)
Plain == {"hash", "pbl", "bdb"}
ASSUME TypesAssumption ==
  /\ DbTypes \in Seq([prefix : STRING, suffix : STRING,
                      store : Plain \cup {"split"}])
  /\ DefaultStore \in Plain
  /\ \A i \in DOMAIN DbTypes :
       DbTypes[i].suffix # "" => /\ DbTypes[i].store \in Plain
                                 /\ PlainFiles(DbTypes[i].store)
                                      = {DbTypes[i].suffix}
  /\ \A i \in DOMAIN DbTypes :
       DbTypes[i].store \in Plain \ {DefaultStore} =>
         \E j \in DOMAIN DbTypes : /\ DbTypes[j].store = DbTypes[i].store
                                  /\ DbTypes[j].suffix # ""

(* A database that is opened to be read must be there. *)
CanOpen(store, files, readOnly) == readOnly => FilesOf(store) \subseteq files
Opened(store, files, readOnly) ==
  IF readOnly THEN files ELSE files \cup FilesOf(store)

==============================================================================
