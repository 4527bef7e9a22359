----------------------------- MODULE FileState -----------------------------
(***************************************************************************)
(* core/state/file_state.py: the records of uploaded files, keyed by the   *)
(* document's SHA-256.  A record is its expiry; the URI, the name and the  *)
(* identity are payload that no decision looks at.                         *)
(***************************************************************************)
EXTENDS LockedJson

CONSTANTS
    Ids,        \* the SHA-256 hashes
    Expiries    \* the expiry times that uploads get

ASSUME ExpiriesAssumption == Expiries \subseteq Nat

FileDocs == UNION {[S -> Expiries] : S \in SUBSET Ids}
NoFiles == [i \in {} |-> 0]

FileOps == [method : {"save"}, id : Ids, expiry : Expiries]
             \cup [method : {"remove"}, id : Ids]
             \cup [method : {"cleanup_expired"}]

(* Mutant of ExpiredKeys: what is about to expire goes too. *)
NearExpiryKeys(d, t) == {i \in DOMAIN d : t + 1 >= d[i]}

(* The ids of d whose record has expired at t. *)
ExpiredKeys(d, t) == {i \in DOMAIN d : t >= d[i]}

Without(d, S) == [i \in DOMAIN d \ S |-> d[i]]

FileApply(o, d, t) ==
    CASE o.method = "save" ->
           [i \in DOMAIN d \cup {o.id} |-> IF i = o.id THEN o.expiry ELSE d[i]]
      [] o.method = "remove" -> Without(d, {o.id})
      [] o.method = "cleanup_expired" -> Without(d, ExpiredKeys(d, t))

(* cleanup_expired writes only when it found something. *)
FileSaves(o, d, t) ==
    o.method = "cleanup_expired" => ExpiredKeys(d, t) # {}

(* LockedJson's calls are those of FileState. *)
CallsAreFileCalls ==
    /\ Ops = FileOps /\ Docs = FileDocs /\ Empty = NoFiles
    /\ \A o \in Ops, d \in Docs, t \in Times :
          Apply(o, d, t) = FileApply(o, d, t) /\ Saves(o, d, t) = FileSaves(o, d, t)

-----------------------------------------------------------------------------
(* file_state.py: "entries are automatically removed when expired" -- and  *)
(* only then: a record that has not expired leaves the file, or changes,   *)
(* only by a remove or a save of its own id, never because another caller  *)
(* wrote back what it had loaded earlier.  All records go when a write     *)
(* falls short, and the others of a caller that could not read the file.   *)
LiveRecordKept ==
    [][\A i \in DOMAIN Read(disk) :
          (/\ clock < Read(disk)[i] /\ disk' # Partial
           /\ i \in DOMAIN Read(disk') => Read(disk')[i] # Read(disk)[i])
              => \E p \in Procs :
                    /\ holder = p
                    /\ op[p].method \in {"save", "remove"}
                    /\ op[p].id = i \/ p \in unread]_vars
=============================================================================
