--------------------------- MODULE PresetLibrary ---------------------------
(***************************************************************************)
(* The versions of one client preset: the files under presets_root, the    *)
(* catalog the web application keeps in memory (server/catalog.py), the    *)
(* editor that saves an edited version as a new draft (server/editor.py),  *)
(* and the approval lock (presets/governance.py).  One step is one file    *)
(* operation or one access to the shared catalog.                          *)
(*                                                                         *)
(* The editor bumps the minor version, so a version is its minor number,   *)
(* and version v is saved under the file name v.  Negative names are those *)
(* people gave.  A body is the rules a file holds; the parameter catalogue *)
(* of the installed release decides which bodies load.                     *)
(***************************************************************************)
EXTENDS Integers

CONSTANTS
  Pages,       \* handlers of the editor page: they share the event loop
  Calls,       \* handlers of the API: each has a thread of its own
  HandNames,   \* names people give to preset files
  MaxVersion,  \* bound: versions of the preset
  MaxBodies,   \* bound: contents ever written
  MaxHands,    \* bound: deeds of people
  Absent       \* no file

Handlers == Pages \cup Calls
Versions == 0..MaxVersion
Names == HandNames \cup Versions
Bodies == 1..MaxBodies
Docs == [version : Versions, status : {"draft", "approved"}, body : Bodies]
Entries == [name : Names, version : Versions]

ASSUME LibraryAssumption ==
  /\ MaxVersion \in Nat /\ MaxBodies \in Nat \ {0} /\ MaxHands \in Nat
  /\ HandNames \subseteq Int \ Nat
  /\ Absent \notin Docs

VARIABLES
  files,      \* what lies under each name
  temp,       \* the file `.<name>.editing` of each new version
  broken,     \* the bodies that the loader refuses
  lock,       \* approved.lock.json: the file as it was locked
  catalog,    \* AppState.catalog, of this preset
  \* the handlers that save
  pc,
  base,       \* the catalog entry the edit is based on
  draft,      \* the document: as read, then as it is to be saved
  view,       \* the catalog a handler has built and not yet put in place
  \* `deepdub-qc presets lock`, a process of its own
  locking,    \* "idle", or "built" once it has read the files
  newLock,
  \* history
  used,       \* bodies written so far
  saved,      \* what the editor has saved, until people change the file
  hands       \* deeds of people so far

fileVars == <<files, temp, broken, lock>>
saveVars == <<catalog, pc, base, draft, view>>
lockVars == <<locking, newLock>>
histVars == <<used, saved, hands>>
vars == <<fileVars, saveVars, lockVars, histVars>>

Saving == {"read", "based", "free", "written", "valid", "published", "built"}
NoEntry == [name |-> 0, version |-> 0]

TypeOK ==
  /\ files \in [Names -> Docs \cup {Absent}]
  /\ \A v \in Versions : files[v] # Absent => files[v].version = v
  /\ temp \in [Versions -> Docs \cup {Absent}]
  /\ broken \subseteq Bodies
  /\ lock \in [Names -> Docs \cup {Absent}]
  /\ catalog \subseteq Entries
  /\ pc \in [Handlers -> Saving \cup {"idle", "found"}]
  /\ base \in [Handlers -> Entries]
  /\ draft \in [Handlers -> Docs \cup {Absent}]
  /\ view \in [Handlers -> SUBSET Entries]
  /\ locking \in {"idle", "built"}
  /\ newLock \in [Names -> Docs \cup {Absent}]
  /\ used \in Nat
  /\ saved \subseteq [name : Versions, doc : Docs]
  /\ hands \in Nat

Loads(doc) == doc # Absent /\ doc.body \notin broken

(* build_catalog: one entry for each file that loads. *)
Catalogued(n) == [name |-> n, version |-> files[n].version]
BuildCatalog == {Catalogued(n) : n \in {m \in Names : Loads(files[m])}}

(* build_lock: the approved presets, as far as they load. *)
BuildLock ==
  [n \in Names |-> IF Loads(files[n]) /\ files[n].status = "approved"
                   THEN files[n] ELSE Absent]

(* The repository as it is checked out: hand-named files, nothing locked. *)
Init ==
  /\ files \in [Names -> {Absent} \cup [version : {0}, status : {"draft"}, body : {1}]]
  /\ \A v \in Versions : files[v] = Absent
  /\ temp = [v \in Versions |-> Absent]
  /\ broken = {}
  /\ lock = [n \in Names |-> Absent]
  /\ catalog = BuildCatalog
  /\ pc = [h \in Handlers |-> "idle"]
  /\ base = [h \in Handlers |-> NoEntry]
  /\ draft = [h \in Handlers |-> Absent]
  /\ view = [h \in Handlers |-> {}]
  /\ locking = "idle"
  /\ newLock = [n \in Names |-> Absent]
  /\ used = 1
  /\ saved = {}
  /\ hands = 0

-----------------------------------------------------------------------------
(* A save: preset_edit_save and preset_save_version around apply_edits     *)

GoTo(h, there) == pc' = [pc EXCEPT ![h] = there]
(* An error of the operator's making (409, 422) or an exception (500). *)
Refuse(h) == GoTo(h, "idle") /\ UNCHANGED <<catalog, base, draft, view>>

(* Between its two awaits a page handler has the event loop to itself. *)
MayRun(h) == h \in Pages => \A g \in Pages \ {h} : pc[g] \notin Saving

FindPreset(h, e) ==
  /\ pc[h] = "idle"
  /\ e \in catalog
  /\ GoTo(h, "found")
  /\ base' = [base EXCEPT ![h] = e]
  /\ UNCHANGED <<fileVars, lockVars, histVars, catalog, draft, view>>

(* load_raw, and the test of the version the file has. *)
ReadBase(h) ==
  /\ pc[h] = "found"
  /\ MayRun(h)
  /\ LET doc == files[base[h].name] IN
       IF doc = Absent \/ doc.version # base[h].version
         THEN Refuse(h)
         ELSE /\ GoTo(h, "read")
              /\ draft' = [draft EXCEPT ![h] = doc]
              /\ UNCHANGED <<catalog, base, view>>
  /\ UNCHANGED <<fileVars, lockVars, histVars>>

(* Mutant: the successor of an approved preset is approved. *)
FaultySuccessor(doc, b) == [doc EXCEPT !.version = @ + 1, !.body = b]
Successor(doc, b) == [version |-> doc.version + 1, status |-> "draft", body |-> b]

(* Mutant: no conflict guard. *)
FaultyBasedOnNewest(h) == TRUE
(* The conflict guard, by the catalog in memory. *)
BasedOnNewest(h) == \A e \in catalog : e.version <= base[h].version

(* The edits are applied; ok tells whether the loader will take them. *)
ApplyEdits(h, ok) ==
  /\ pc[h] = "read"
  /\ BasedOnNewest(h)
  /\ draft[h].version < MaxVersion /\ used < MaxBodies
  /\ used' = used + 1
  /\ draft' = [draft EXCEPT ![h] = Successor(draft[h], used + 1)]
  /\ broken' = IF ok THEN broken ELSE broken \cup {used + 1}
  /\ GoTo(h, "based")
  /\ UNCHANGED <<files, temp, lock, lockVars, catalog, base, view, saved, hands>>

(* A newer version, no name, an unknown rule, a field that is no number. *)
RejectEdits(h) ==
  /\ pc[h] = "read"
  /\ Refuse(h)
  /\ UNCHANGED <<fileVars, lockVars, histVars>>

(* new_path.exists() *)
CheckName(h) ==
  /\ pc[h] = "based"
  /\ IF files[draft[h].version] # Absent
       THEN Refuse(h)
       ELSE GoTo(h, "free") /\ UNCHANGED <<catalog, base, draft, view>>
  /\ UNCHANGED <<fileVars, lockVars, histVars>>

WriteTemp(h) ==
  /\ pc[h] = "free"
  /\ GoTo(h, "written")
  /\ temp' = [temp EXCEPT ![draft[h].version] = draft[h]]
  /\ UNCHANGED <<files, broken, lock, lockVars, histVars, catalog, base, draft, view>>

(* load_preset(temp_path); a refused file is unlinked. *)
Validate(h) ==
  /\ pc[h] = "written"
  /\ IF Loads(temp[draft[h].version])
       THEN GoTo(h, "valid") /\ UNCHANGED <<temp, catalog, base, draft, view>>
       ELSE /\ temp' = [temp EXCEPT ![draft[h].version] = Absent]
            /\ Refuse(h)
  /\ UNCHANGED <<files, broken, lock, lockVars, histVars>>

(* Mutant: the file is named after the base version. *)
FaultyTarget(h) == base[h].version
Target(h) == draft[h].version

(* temp_path.replace(new_path) *)
Publish(h) ==
  /\ pc[h] = "valid"
  /\ LET v == draft[h].version IN
       IF temp[v] = Absent
         THEN Refuse(h) /\ UNCHANGED <<files, temp, saved>>
         ELSE /\ files' = [files EXCEPT ![Target(h)] = temp[v]]
              /\ temp' = [temp EXCEPT ![v] = Absent]
              /\ saved' = saved \cup {[name |-> v, doc |-> draft[h]]}
              /\ GoTo(h, "published")
              /\ UNCHANGED <<catalog, base, draft, view>>
  /\ UNCHANGED <<broken, lock, lockVars, used, hands>>

Rebuild(h) ==
  /\ pc[h] = "published"
  /\ GoTo(h, "built")
  /\ view' = [view EXCEPT ![h] = BuildCatalog]
  /\ UNCHANGED <<fileVars, lockVars, histVars, catalog, base, draft>>

(* Mutant: the catalog of the start is kept. *)
FaultyRefresh(h) ==
  /\ pc[h] = "built"
  /\ GoTo(h, "idle")
  /\ UNCHANGED <<fileVars, lockVars, histVars, catalog, base, draft, view>>
(* state.catalog[:] = ..., then the answer: 201, or 500 when the new file  *)
(* does not load any more. *)
Refresh(h) ==
  /\ pc[h] = "built"
  /\ GoTo(h, "idle")
  /\ catalog' = view[h]
  /\ UNCHANGED <<fileVars, lockVars, histVars, base, draft, view>>

-----------------------------------------------------------------------------
(* presets lock, the service process, and people                           *)

LockBuild ==
  /\ locking = "idle"
  /\ locking' = "built"
  /\ newLock' = BuildLock
  /\ UNCHANGED <<fileVars, saveVars, histVars>>

(* No locked file that is still there has ceased to load. *)
KeepsClaims ==
  \A n \in Names :
    lock[n] # Absent /\ newLock[n] = Absent /\ files[n] # Absent => Loads(files[n])

LockWrite ==
  /\ locking = "built"
  /\ locking' = "idle"
  /\ lock' = IF KeepsClaims THEN newLock ELSE lock
  /\ UNCHANGED <<files, temp, broken, saveVars, newLock, histVars>>

(* The process ends, at any step, and starts again: with another release,  *)
(* the loader refuses other bodies.                                        *)
Restart(refused) ==
  /\ pc' = [h \in Handlers |-> "idle"]
  /\ broken' = refused
  /\ catalog' = {Catalogued(n) : n \in {m \in Names :
                    files[m] # Absent /\ files[m].body \notin refused}}
  /\ UNCHANGED <<files, temp, lock, base, draft, view, lockVars, used, saved>>

Crash == Restart(broken) /\ UNCHANGED hands

(* People edit, approve, demote and remove files and install releases;     *)
(* they run `presets lock` themselves, so not while it runs.               *)
Deed == locking = "idle" /\ hands < MaxHands /\ hands' = hands + 1

Upgrade(b) ==
  /\ Deed
  /\ b <= used
  /\ Restart(IF b \in broken THEN broken \ {b} ELSE broken \cup {b})

HandEdit(n, doc) ==
  /\ Deed
  /\ files[n] # Absent
  /\ files' = [files EXCEPT ![n] = doc]
  /\ saved' = {a \in saved : a.name # n}
  /\ UNCHANGED <<temp, broken, lock, saveVars, lockVars>>

Rewrite(n) ==
  /\ used < MaxBodies
  /\ used' = used + 1
  /\ HandEdit(n, [files[n] EXCEPT !.body = used + 1])
SetStatus(n, s) ==
  /\ HandEdit(n, [files[n] EXCEPT !.status = s])
  /\ UNCHANGED used
Remove(n) == HandEdit(n, Absent) /\ UNCHANGED used

Save(h) ==
  \/ \E e \in catalog : FindPreset(h, e)
  \/ ReadBase(h) \/ RejectEdits(h) \/ \E ok \in BOOLEAN : ApplyEdits(h, ok)
  \/ CheckName(h) \/ WriteTemp(h) \/ Validate(h)
  \/ Publish(h) \/ Rebuild(h) \/ Refresh(h)

Next ==
  \/ \E h \in Handlers : Save(h)
  \/ LockBuild \/ LockWrite
  \/ Crash
  \/ \E b \in Bodies : Upgrade(b)
  \/ \E n \in Names : Rewrite(n) \/ Remove(n)
                       \/ \E s \in {"draft", "approved"} : SetStatus(n, s)

Spec == Init /\ [][Next]_vars

-----------------------------------------------------------------------------
(* Properties.  Those of saving are about saves that do not overlap in     *)
(* time: those of pages never do, those of the API may, with each other     *)
(* and with a page, and then they fail, SavedStays to begin with.          *)

ByHand == hands' # hands

(* A save is there from the moment it takes its name until somebody        *)
(* changes that very file by hand: no other save, restart or lock run      *)
(* costs it (editor.py:21-23, ADR-031).                                    *)
SavedStays == \A a \in saved : files[a.name] = a.doc

(* The editor never touches a file that exists, approved or not, in the    *)
(* catalog or missing from it because it no longer loads (editor.py:10-15).*)
NeverInPlace ==
  [][~ByHand => \A n \in Names : files[n] # Absent => files'[n] = files[n]]_vars

(* A file appears under presets_root only if the loader takes it, although *)
(* a crash leaves temporary files behind (editor.py:19-20).                *)
OnlyLoadable ==
  [][\A n \in Names : files[n] = Absent /\ files'[n] # Absent => Loads(files'[n])]_vars

(* What a page has saved can be submitted as soon as the save is over and  *)
(* stays so, whatever other pages save after it, people do and restarts     *)
(* find (app.py:581, ADR-031).  Not so where a save of the API overlaps     *)
(* (app.py:210): a catalog that was built before another save published its *)
(* file and is put in place after that one's hides it until the next one.   *)
SavedIsOffered ==
  \A a \in saved :
    Loads(a.doc) /\ (\A h \in Handlers : pc[h] \in {"published", "built"} => draft[h] # a.doc)
      => [name |-> a.name, version |-> a.doc.version] \in catalog

(* No save lands behind a version that the console lists (editor.py:180).  *)
SaveIsNewest ==
  [][\A v \in Versions : files[v] = Absent /\ files'[v] # Absent =>
       \A e \in catalog : e.version < v]_vars

(* verify_approved finds nothing. *)
Verified ==
  \A n \in Names :
    IF Loads(files[n]) /\ files[n].status = "approved"
      THEN lock[n] = files[n] ELSE lock[n] = Absent

(* Neither the console nor `presets lock`, in whatever order they work,    *)
(* puts a verified library out of order: only people can                   *)
(* (governance.py:100-131).                                                *)
StaysVerified == [][~ByHand /\ Verified => Verified']_vars

(* A locked file that stopped loading keeps its entry until it loads again *)
(* or is gone (governance.py:57-86).                                       *)
ClaimsKept ==
  [][\A n \in Names :
       lock[n] # Absent /\ files[n] # Absent /\ ~Loads(files[n]) => lock'[n] = lock[n]]_vars
-----------------------------------------------------------------------------
(* The inductive invariant behind these properties.  It needs that one     *)
(* handler saves at a time, as it is when only pages save.                 *)

(* One save has the event loop, from the reading of its base on. *)
OneSaveInv == \A g, h \in Handlers : pc[g] \in Saving /\ pc[h] \in Saving => g = h

Editing == {"based", "free", "written", "valid"}

(* What a handler carries: the base document, then its successor, which    *)
(* comes after all versions of the catalog; its name is free and stays so, *)
(* and the temporary file is its own.                                      *)
DraftInv ==
  \A h \in Handlers :
    /\ pc[h] \in Editing \cup {"read"} => draft[h] \in Docs
    /\ pc[h] = "read" => draft[h].version = base[h].version
    /\ pc[h] \in Editing =>
         /\ draft[h].status = "draft"
         /\ \A e \in catalog : e.version < draft[h].version
    /\ pc[h] \in {"free", "written", "valid"} => files[draft[h].version] = Absent
    /\ pc[h] \in {"written", "valid"} => temp[draft[h].version] = draft[h]
    /\ pc[h] = "valid" => Loads(draft[h])

(* Contents get their numbers in order: a new one is nowhere yet. *)
BodyInv ==
  /\ \A n \in Names : files[n] # Absent => files[n].body <= used
  /\ \A h \in Handlers : pc[h] \in Editing => draft[h].body <= used
  /\ \A a \in saved : a.doc.body <= used

(* What is saved is in the catalog, or in the one about to take its place, *)
(* or is the save that has just been published.                            *)
Offers(entries, a) == Loads(a.doc) => [name |-> a.name, version |-> a.doc.version] \in entries
OfferInv ==
  /\ \A a \in saved :
       \/ Offers(catalog, a)
       \/ \E h \in Handlers : pc[h] \in {"published", "built"} /\ draft[h] = a.doc
  /\ \A h \in Handlers : pc[h] = "built" => \A a \in saved : Offers(view[h], a)

(* The lock that `presets lock` is about to write is of the files there are. *)
LockInv == locking = "built" => newLock = BuildLock

LibraryInv == OneSaveInv /\ DraftInv /\ BodyInv /\ OfferInv /\ LockInv /\ SavedStays
=============================================================================
