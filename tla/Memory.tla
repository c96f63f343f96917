------------------------------- MODULE Memory -------------------------------
(***************************************************************************)
(* The archive of one agent (memory.ts): entries that are never changed    *)
(* but superseded by a next version or retracted, the keys that name a     *)
(* current one, and the index that search reads.  Writers are the agent's  *)
(* sessions, which recall entries and save what they make of them some     *)
(* time later (memory-tools.ts), and the operator (memory-routes.ts).      *)
(***************************************************************************)
EXTENDS Naturals

CONSTANTS
  Writer,      \* sessions of the agent, and the operator
  Key,
  NoKey,
  MaxEntries   \* bound: entries ever made, identified in order

ASSUME MemoryAssumption == NoKey \notin Key /\ MaxEntries \in Nat

VARIABLES
  archive,  \* the entries
  made,     \* entries made so far
  indexed,  \* entries in the search index
  recall,   \* the entry each writer last read, or NoEntryId
  claimed,  \* history: what an update gave as the version it replaces, or NoEntryId
  vacated   \* history: keys that once lost their entry, to a retraction or another key

memoryVars == <<archive, made, indexed, recall, claimed, vacated>>

EntryId == 1 .. MaxEntries
NoEntryId == 0
AnyId == EntryId \cup {NoEntryId}
AnyKey == Key \cup {NoKey}

Entry == [key : AnyKey, status : {"active", "superseded", "retracted"}, version : EntryId,
          supersedes : AnyId]
Blank == [key |-> NoKey, status |-> "none", version |-> 0, supersedes |-> NoEntryId]

MemoryTypeOK ==
  /\ archive \in [EntryId -> Entry \cup {Blank}]
  /\ made \in 0 .. MaxEntries
  /\ \A e \in EntryId : archive[e] = Blank <=> e > made
  /\ indexed \subseteq EntryId
  /\ recall \in [Writer -> AnyId]
  /\ claimed \in [EntryId -> AnyId]
  /\ vacated \subseteq Key

MemoryInit ==
  /\ archive = [e \in EntryId |-> Blank]
  /\ made = 0
  /\ indexed = {}
  /\ recall = [w \in Writer |-> NoEntryId]
  /\ claimed = [e \in EntryId |-> NoEntryId]
  /\ vacated = {}

-----------------------------------------------------------------------------
IsActiveEntry(e) == e \in EntryId /\ archive[e].status = "active"
ActiveByKey(k) == {e \in EntryId : IsActiveEntry(e) /\ archive[e].key = k}

\* memory_get and the routes read any entry, search and briefings the active ones.
Recalls(w, e) ==
  /\ e <= made /\ recall[w] # e
  /\ recall' = [recall EXCEPT ![w] = e]
  /\ UNCHANGED <<archive, made, indexed, claimed, vacated>>

\* Mutant: only the state of the entry is compared.
VersionAgreesAnyhow(prior, basis) == TRUE

\* expectedVersion, if it is given: that of the entry the writer read.
VersionAgrees(prior, basis) ==
  basis # NoEntryId => archive[prior].version = archive[basis].version

\* The next version of an entry, or a first one when there is none; the unique index on
\* the active keys refuses a key that another entry has.
Saved(w, prior, key, basis) ==
  /\ made < MaxEntries
  /\ key = NoKey \/ ActiveByKey(key) \subseteq {prior}
  /\ archive' = [e \in EntryId |->
       CASE e = made + 1 ->
              [key |-> key, status |-> "active", supersedes |-> prior,
               version |-> IF prior = NoEntryId THEN 1 ELSE archive[prior].version + 1]
         [] e = prior    -> [archive[e] EXCEPT !.status = "superseded"]
         [] OTHER        -> archive[e]]
  /\ made' = made + 1
  /\ indexed' = (indexed \ {prior}) \cup {made + 1}
  /\ recall' = [recall EXCEPT ![w] = made + 1]
  /\ claimed' = [claimed EXCEPT ![made + 1] = basis]
  /\ vacated' = vacated \cup (IF prior = NoEntryId THEN {} ELSE {archive[prior].key} \ {NoKey, key})

\* A writer says whether it means the entry as it read it.
Basis(w) == {NoEntryId, recall[w]}

\* By the id of the entry it read, perhaps with a key of its own: refused unless the
\* entry is the active one.
UpdateById(w, key, basis) ==
  /\ IsActiveEntry(recall[w])
  /\ VersionAgrees(recall[w], basis)
  /\ Saved(w, recall[w], IF key = NoKey THEN archive[recall[w]].key ELSE key, basis)

\* By key, with or without a version it read under that key.
UpdateByKey(w, key, basis) ==
  /\ basis # NoEntryId => archive[basis].key = key
  /\ \/ \E prior \in ActiveByKey(key) : VersionAgrees(prior, basis) /\ Saved(w, prior, key, basis)
     \/ ActiveByKey(key) = {} /\ Saved(w, NoEntryId, key, basis)

SaveNew(w) == Saved(w, NoEntryId, NoKey, NoEntryId)

\* The row is retracted, and then taken out of the index, unless the process dies between.
Forget(e, dies) ==
  /\ IsActiveEntry(e)
  /\ archive' = [archive EXCEPT ![e].status = "retracted"]
  /\ indexed' = IF dies THEN indexed ELSE indexed \ {e}
  /\ vacated' = vacated \cup ({archive[e].key} \ {NoKey})
  /\ UNCHANGED <<made, recall, claimed>>

MemoryNext ==
  \/ \E w \in Writer :
       \/ \E e \in EntryId : Recalls(w, e)
       \/ \E basis \in Basis(w) :
            \/ \E key \in AnyKey : UpdateById(w, key, basis)
            \/ \E key \in Key : UpdateByKey(w, key, basis)
       \/ SaveNew(w)
  \/ \E e \in EntryId, dies \in BOOLEAN : Forget(e, dies)

MemorySpec == MemoryInit /\ [][MemoryNext]_memoryVars

-----------------------------------------------------------------------------
(* Properties.                                                             *)

\* A mismatch of the expected version is a conflict "instead of silently replacing
\* knowledge the caller has not seen" (docs/primers/memory.md): an update that says which
\* version it read replaces the entry it read and no other, whoever wrote in between, and
\* no entry is replaced twice.  Versions start again when a key has lost its entry: only
\* under such a key can an update replace an entry of a later line, or none.
UpdatesReplaceWhatTheyRead ==
  /\ \A e \in EntryId :
       claimed[e] # NoEntryId /\ archive[e].supersedes # claimed[e] => archive[e].key \in vacated
  /\ \A e, f \in EntryId :
       archive[e].supersedes = archive[f].supersedes /\ archive[e].supersedes # NoEntryId => e = f
=============================================================================
