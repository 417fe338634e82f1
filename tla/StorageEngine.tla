---------------------------- MODULE StorageEngine ---------------------------
(***************************************************************************)
(* The two implementations of storage.StorageEngine as far as a chunked    *)
(* upload uses them: part objects under temp/<uploadID>, and the merged    *)
(* object <uploadID>.merged.  MinIO merges in one server-side request and  *)
(* removes the parts in a goroutine afterwards; the local engine truncates *)
(* the merged file first, then appends and removes one part at a time.     *)
(* Either stores a part under any number.                                  *)
(***************************************************************************)
EXTENDS Naturals, Sequences, FiniteSets

CONSTANTS
    Files,   \* file hashes, which are also the upload ids
    Total,   \* number of chunks of a file
    Numbers  \* part numbers that clients send

ASSUME TotalAssumption  == Total \in Nat \ {0}

\* The numbers of the file's own chunks.
Chunks == 1 .. Total

\* A part number has only to be positive.
ASSUME NumbersAssumption == Chunks \subseteq Numbers /\ Numbers \subseteq Nat \ {0}

VARIABLES
    parts,    \* parts stored for each file
    merged,   \* parts in the merged object, in order; <<>> also if there is none
    cleanup   \* parts that MinIO's clean-up goroutines have still to remove, with
              \* the process each goroutine runs in

engineVars == <<parts, merged, cleanup>>

\* Mutant: a failed write is taken for a success.
StorePartLost(f, p) == UNCHANGED engineVars

StorePart(f, p) ==
    /\ parts' = [parts EXCEPT ![f] = @ \cup {p}]
    /\ UNCHANGED <<merged, cleanup>>

(* MinIO *)

\* ComposeObject needs every source object.
Composable(f, list) == \A i \in DOMAIN list : list[i] \in parts[f]

\* Mutant: composes what is there and skips the other parts.
ComposePresent(i, f, list) ==
    /\ merged' = [merged EXCEPT ![f] = SelectSeq(list, LAMBDA p : p \in parts[f])]
    /\ cleanup' = cleanup \cup {<<i, f, list[k]>> : k \in DOMAIN list}
    /\ UNCHANGED parts

Compose(i, f, list) ==
    /\ Composable(f, list)
    /\ merged' = [merged EXCEPT ![f] = list]
    /\ cleanup' = cleanup \cup {<<i, f, list[k]>> : k \in DOMAIN list}
    /\ UNCHANGED parts

RemovePart(i, f, p) ==
    /\ <<i, f, p>> \in cleanup
    /\ cleanup' = cleanup \ {<<i, f, p>>}
    /\ parts' = [parts EXCEPT ![f] = @ \ {p}]
    /\ UNCHANGED merged

RemovePartFails(i, f, p) ==
    /\ <<i, f, p>> \in cleanup
    /\ cleanup' = cleanup \ {<<i, f, p>>}
    /\ UNCHANGED <<parts, merged>>

(* Local file system *)

\* os.Create truncates the merged file.
Truncate(f) ==
    /\ merged' = [merged EXCEPT ![f] = <<>>]
    /\ UNCHANGED <<parts, cleanup>>

\* One part is appended and removed; the caller checks that it is there.
AppendPart(f, p) ==
    /\ merged' = [merged EXCEPT ![f] = Append(@, p)]
    /\ parts' = [parts EXCEPT ![f] = @ \ {p}]
    /\ UNCHANGED cleanup

\* The copy fails unnoticed: the part is removed all the same.
DropPart(f, p) ==
    /\ parts' = [parts EXCEPT ![f] = @ \ {p}]
    /\ UNCHANGED <<merged, cleanup>>

\* os.RemoveAll of the temporary directory.
RemoveAll(f) ==
    /\ parts' = [parts EXCEPT ![f] = {}]
    /\ UNCHANGED <<merged, cleanup>>

EngineInit ==
    /\ parts = [f \in Files |-> {}]
    /\ merged = [f \in Files |-> <<>>]
    /\ cleanup = {}

EngineTypeOK(processes) ==
    /\ parts \in [Files -> SUBSET Numbers]
    /\ merged \in [Files -> Seq(Numbers)]
    /\ cleanup \subseteq processes \X Files \X Numbers
=============================================================================
