---------------------------- MODULE StoreState -----------------------------
(***************************************************************************)
(* core/state/store_state.py: the File Search stores and the documents     *)
(* imported into them.  A store is a map from document id to indexing      *)
(* status; store_id, created_at, added_at and operation_name are payload.  *)
(***************************************************************************)
EXTENDS LockedJson, Functions

CONSTANTS
    Names,      \* the store names
    DocIds,     \* the SHA-256 hashes of documents
    Statuses    \* the indexing statuses

PartialFunctions(S, T) == UNION {[D -> T] : D \in SUBSET S}

StoreDocs == PartialFunctions(Names, PartialFunctions(DocIds, Statuses))
NoDocuments == [i \in {} |-> "none"]
NoStores == [n \in {} |-> NoDocuments]

StoreOps == [method : {"create_store", "remove_store"}, name : Names]
              \cup [method : {"add_document", "update_document_status"},
                    name : Names, id : DocIds, status : Statuses]

With(f, x, y) == [z \in DOMAIN f \cup {x} |-> IF z = x THEN y ELSE f[z]]

HasDocument(d, n, i) == n \in DOMAIN d /\ i \in DOMAIN d[n]

(* Mutant of StoreSaves: an update does not look for its document. *)
SavesAnyDocument(o, d, t) ==
    o.method \in {"add_document", "update_document_status"} => o.name \in DOMAIN d

(* The two methods on documents return early when the store, or the        *)
(* document to update, is not there.                                       *)
StoreSaves(o, d, t) ==
    /\ o.method = "add_document" => o.name \in DOMAIN d
    /\ o.method = "update_document_status" => HasDocument(d, o.name, o.id)

StoreApply(o, d, t) ==
    CASE ~StoreSaves(o, d, t) -> d
      [] o.method = "create_store" -> With(d, o.name, NoDocuments)
      [] o.method = "remove_store" -> Restrict(d, DOMAIN d \ {o.name})
      [] OTHER -> With(d, o.name, With(d[o.name], o.id, o.status))

(* LockedJson's calls are those of StoreState. *)
CallsAreStoreCalls ==
    /\ Ops = StoreOps /\ Docs = StoreDocs /\ Empty = NoStores
    /\ \A o \in Ops, d \in Docs, t \in Times :
          Apply(o, d, t) = StoreApply(o, d, t) /\ Saves(o, d, t) = StoreSaves(o, d, t)

-----------------------------------------------------------------------------
(* store_state.py: a late add_document or update_document_status (indexing *)
(* takes minutes) never brings back a store or a document that was removed *)
(* in the meantime, and a store's documents vanish only when it is removed *)
(* or registered anew, or with the whole file: when a write falls short,   *)
(* or when a caller that registers or removes any store cannot read it.    *)
NothingResurrected ==
    [][LET d == Read(disk)
           e == Read(disk')
           o == op[holder]
       IN  /\ \A n \in DOMAIN e \ DOMAIN d : o.method = "create_store" /\ o.name = n
           /\ \A n \in DOMAIN e, i \in DocIds :
                 HasDocument(e, n, i) /\ ~HasDocument(d, n, i)
                     => o.method = "add_document" /\ o.name = n /\ o.id = i
           /\ \A n \in DOMAIN d, i \in DocIds :
                 HasDocument(d, n, i) /\ ~HasDocument(e, n, i) /\ disk' # Partial
                     => /\ o.method \in {"create_store", "remove_store"}
                        /\ o.name = n \/ holder \in unread]_vars
=============================================================================
