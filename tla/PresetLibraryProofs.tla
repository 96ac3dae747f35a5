------------------------ MODULE PresetLibraryProofs ------------------------
(***************************************************************************)
(* What holds of the preset library for every number of pages, versions,   *)
(* contents and deeds of people.  Types hold with calls of the API too;    *)
(* the rest needs that only pages save, as PresetRace.cfg shows.           *)
(***************************************************************************)
EXTENDS PresetLibrary, TLAPS

(* Names and versions are numbers. *)
LEMMA NameFacts == Versions \subseteq Names /\ 0 \in Names /\ 0 \in Versions /\ Names \subseteq Int
BY LibraryAssumption DEF Names, Versions

(* A lock of what lies under presets_root holds documents. *)
LEMMA LockType ==
  ASSUME files \in [Names -> Docs \cup {Absent}]
  PROVE  BuildLock \in [Names -> Docs \cup {Absent}]
BY DEF BuildLock, Loads

(* A catalog is made of names and versions. *)
LEMMA CatalogType ==
  ASSUME files \in [Names -> Docs \cup {Absent}], NEW S \in SUBSET Names,
         \A n \in S : files[n] # Absent
  PROVE  {Catalogued(n) : n \in S} \subseteq Entries
BY DEF Catalogued, Entries, Docs

(* A catalog is built of entries. *)
LEMMA BuildCatalogType ==
  ASSUME files \in [Names -> Docs \cup {Absent}]
  PROVE  BuildCatalog \subseteq Entries
<1>1. \A n \in {m \in Names : Loads(files[m])} : files[n] # Absent
  BY DEF Loads
<1>2. QED
  BY <1>1, CatalogType DEF BuildCatalog

(* A successor is a draft with the next version and the new content. *)
LEMMA SuccessorType ==
  ASSUME NEW doc \in Docs, NEW b \in Bodies, doc.version < MaxVersion
  PROVE  /\ Successor(doc, b) \in Docs
         /\ Successor(doc, b).version = doc.version + 1
         /\ Successor(doc, b).status = "draft"
         /\ Successor(doc, b).body = b
<1>1. doc.version + 1 \in Versions
  BY LibraryAssumption DEF Docs, Versions
<1>2. QED
  BY <1>1 DEF Successor, Docs

(* The handlers' own state. *)
SaveType ==
  /\ catalog \subseteq Entries
  /\ pc \in [Handlers -> Saving \cup {"idle", "found"}]
  /\ base \in [Handlers -> Entries]
  /\ draft \in [Handlers -> Docs \cup {Absent}]
  /\ view \in [Handlers -> SUBSET Entries]
FileType ==
  /\ files \in [Names -> Docs \cup {Absent}]
  /\ \A v \in Versions : files[v] # Absent => files[v].version = v
  /\ temp \in [Versions -> Docs \cup {Absent}]
  /\ \A v \in Versions : temp[v] # Absent => temp[v].version = v
  /\ broken \subseteq Bodies
  /\ lock \in [Names -> Docs \cup {Absent}]
  /\ locking \in {"idle", "built"}
  /\ newLock \in [Names -> Docs \cup {Absent}]
  /\ used \in Nat
  /\ saved \subseteq [name : Versions, doc : Docs]
  /\ hands \in Nat
(* A handler past the reading of its base holds a document. *)
HeldType ==
  \A h \in Handlers : pc[h] \in Editing \cup {"read"} => draft[h] \in Docs
IType == SaveType /\ FileType /\ HeldType
-----------------------------------------------------------------------------
(* Types.                                                                  *)

(* The initial types. *)
LEMMA InitTypes == Init => IType
<1> SUFFICES ASSUME Init PROVE IType
  OBVIOUS
<1>1. [version |-> 0, status |-> "draft", body |-> 1] \in Docs
  BY NameFacts, LibraryAssumption DEF Docs, Bodies
<1>2. files \in [Names -> Docs \cup {Absent}] /\ \A n \in Names : files[n] # Absent => files[n].version = 0
  <2>1. [version : {0}, status : {"draft"}, body : {1}] \subseteq Docs
    BY NameFacts, LibraryAssumption DEF Docs, Bodies
  <2>2. \A doc \in [version : {0}, status : {"draft"}, body : {1}] : doc.version = 0
    OBVIOUS
  <2>3. QED
    BY <2>1, <2>2, LibraryAssumption DEF Init
<1>3. FileType
  BY <1>2, NameFacts DEF Init, FileType
<1>4. NoEntry \in Entries
  BY NameFacts DEF NoEntry, Entries
<1>5. SaveType
  BY <1>2, <1>4, BuildCatalogType DEF Init, SaveType
<1>6. HeldType
  BY DEF Init, HeldType, Editing
<1>7. QED
  BY <1>3, <1>5, <1>6 DEF IType

(* A save that is refused keeps the types. *)
LEMMA RefuseTypes ==
  ASSUME SaveType, HeldType, NEW h \in Handlers, Refuse(h)
  PROVE  SaveType' /\ HeldType'
BY DEF SaveType, HeldType, Refuse, GoTo, Editing

(* Each step of a save keeps the types. *)
LEMMA SaveTypes ==
  ASSUME IType, NEW h \in Handlers, Save(h)
  PROVE  IType'
<1> USE DEF IType
<1> DEFINE keepFiles == UNCHANGED <<fileVars, lockVars, histVars>>
<1>1. ASSUME keepFiles PROVE FileType'
  BY <1>1 DEF FileType, fileVars, lockVars, histVars
<1>2. CASE \E e \in catalog : FindPreset(h, e)
  BY <1>1, <1>2 DEF FindPreset, GoTo, SaveType, HeldType, Editing
<1>3. CASE ReadBase(h)
  <2>1. FileType'
    BY <1>1, <1>3 DEF ReadBase
  <2>2. base[h].name \in Names
    BY DEF SaveType, Entries
  <2>3. files[base[h].name] \in Docs \cup {Absent}
    BY <2>2 DEF FileType
  <2>4. CASE Refuse(h)
    BY <2>1, <2>4, RefuseTypes
  <2>5. CASE ~Refuse(h)
    <3>1. /\ files[base[h].name] \in Docs
          /\ GoTo(h, "read")
          /\ draft' = [draft EXCEPT ![h] = files[base[h].name]]
          /\ UNCHANGED <<catalog, base, view>>
      BY <1>3, <2>3, <2>5 DEF ReadBase
    <3>2. QED
      BY <2>1, <3>1 DEF GoTo, SaveType, HeldType, Editing, Saving
  <2>6. QED
    BY <2>4, <2>5
<1>4. CASE RejectEdits(h)
  BY <1>1, <1>4, RefuseTypes DEF RejectEdits
<1>5. ASSUME NEW ok \in BOOLEAN, ApplyEdits(h, ok) PROVE IType'
  <2>1. draft[h] \in Docs /\ draft[h].version < MaxVersion /\ used + 1 \in Bodies
    BY <1>5, LibraryAssumption DEF ApplyEdits, HeldType, FileType, Bodies
  <2>2. Successor(draft[h], used + 1) \in Docs
    BY <2>1, SuccessorType
  <2>3. SaveType' /\ HeldType'
    BY <1>5, <2>2 DEF ApplyEdits, GoTo, SaveType, HeldType, Editing, Saving
  <2>4. FileType'
    BY <1>5, <2>1 DEF ApplyEdits, FileType, lockVars
  <2>5. QED
    BY <2>3, <2>4
<1>6. CASE CheckName(h)
  <2>1. FileType'
    BY <1>1, <1>6 DEF CheckName
  <2>2. CASE Refuse(h)
    BY <2>1, <2>2, RefuseTypes
  <2>3. CASE GoTo(h, "free") /\ UNCHANGED <<catalog, base, draft, view>>
    BY <1>6, <2>1, <2>3 DEF CheckName, GoTo, SaveType, HeldType, Editing, Saving
  <2>4. QED
    BY <1>6, <2>2, <2>3 DEF CheckName
<1>7. CASE WriteTemp(h)
  <2>1. draft[h] \in Docs /\ draft[h].version \in Versions
    BY <1>7 DEF WriteTemp, HeldType, Editing, Docs
  <2>2. FileType'
    BY <1>7, <2>1 DEF WriteTemp, FileType, lockVars, histVars
  <2>3. SaveType' /\ HeldType'
    BY <1>7 DEF WriteTemp, GoTo, SaveType, HeldType, Editing, Saving
  <2>4. QED
    BY <2>2, <2>3
<1>8. CASE Validate(h)
  <2>1. CASE Loads(temp[draft[h].version])
    <3>1. GoTo(h, "valid") /\ keepFiles /\ UNCHANGED <<catalog, base, draft, view>>
      BY <1>8, <2>1 DEF Validate, fileVars
    <3>2. SaveType' /\ HeldType'
      BY <1>8, <3>1 DEF Validate, GoTo, SaveType, HeldType, Editing, Saving
    <3>3. QED
      BY <1>1, <3>1, <3>2
  <2>2. CASE ~Loads(temp[draft[h].version])
    <3>1. Refuse(h) /\ temp' = [temp EXCEPT ![draft[h].version] = Absent]
      BY <1>8, <2>2 DEF Validate
    <3>2. FileType'
      BY <1>8, <3>1 DEF Validate, FileType, lockVars, histVars
    <3>3. QED
      BY <3>1, <3>2, RefuseTypes
  <2>3. QED
    BY <2>1, <2>2
<1>9. CASE Publish(h)
  <2>1. draft[h] \in Docs /\ draft[h].version \in Versions
    BY <1>9 DEF Publish, HeldType, Editing, Docs
  <2>2. CASE temp[draft[h].version] = Absent
    BY <1>1, <1>9, <2>2, RefuseTypes DEF Publish, fileVars, histVars
  <2>3. CASE temp[draft[h].version] # Absent
    <3> DEFINE v == draft[h].version
    <3>1. /\ files' = [files EXCEPT ![v] = temp[v]]
          /\ temp' = [temp EXCEPT ![v] = Absent]
          /\ saved' = saved \cup {[name |-> v, doc |-> draft[h]]}
          /\ GoTo(h, "published")
          /\ UNCHANGED <<catalog, base, draft, view, broken, lock, lockVars, used, hands>>
      BY <1>9, <2>3 DEF Publish, Target
    <3>2. v \in Versions /\ v \in Names /\ temp[v] \in Docs /\ temp[v].version = v
      BY <2>1, <2>3, NameFacts DEF FileType
    <3> HIDE DEF v
    <3>3. FileType'
      BY <2>1, <3>1, <3>2 DEF FileType, lockVars
    <3>4. SaveType' /\ HeldType'
      BY <3>1 DEF GoTo, SaveType, HeldType, Editing, Saving
    <3>5. QED
      BY <3>3, <3>4
  <2>4. QED
    BY <2>2, <2>3
<1>10. CASE Rebuild(h)
  <2>1. BuildCatalog \subseteq Entries
    BY BuildCatalogType DEF FileType
  <2>2. QED
    BY <1>1, <1>10, <2>1 DEF Rebuild, GoTo, SaveType, HeldType, Editing, Saving
<1>11. CASE Refresh(h)
  BY <1>1, <1>11 DEF Refresh, GoTo, SaveType, HeldType, Editing, Saving
<1>12. QED
  BY <1>2, <1>3, <1>4, <1>5, <1>6, <1>7, <1>8, <1>9, <1>10, <1>11 DEF Save

(* A restart keeps the types, whatever the release refuses. *)
LEMMA RestartTypes ==
  ASSUME IType, NEW refused \in SUBSET Bodies, Restart(refused), hands' \in Nat
  PROVE  IType'
<1>1. {Catalogued(n) : n \in {m \in Names : files[m] # Absent /\ files[m].body \notin refused}}
        \subseteq Entries
  BY CatalogType DEF IType, FileType
<1>2. SaveType'
  BY <1>1 DEF IType, SaveType, Restart
<1>3. FileType' /\ HeldType'
  BY DEF IType, FileType, HeldType, Restart, lockVars, Editing
<1>4. QED
  BY <1>2, <1>3 DEF IType

(* What people do to a file keeps the types. *)
LEMMA HandEditTypes ==
  ASSUME IType, NEW n \in Names, NEW doc \in Docs \cup {Absent}, HandEdit(n, doc),
         doc # Absent => doc.version = files[n].version, used' \in Nat
  PROVE  IType'
<1>1. FileType'
  BY DEF IType, FileType, HandEdit, Deed, lockVars
<1>2. SaveType' /\ HeldType'
  BY DEF IType, SaveType, HeldType, HandEdit, saveVars
<1>3. QED
  BY <1>1, <1>2 DEF IType

(* Every step keeps the types. *)
LEMMA NextTypes == IType /\ [Next]_vars => IType'
<1> SUFFICES ASSUME IType, [Next]_vars PROVE IType'
  OBVIOUS
<1>1. CASE \E h \in Handlers : Save(h)
  BY <1>1, SaveTypes
<1>2. CASE LockBuild
  <2>1. BuildLock \in [Names -> Docs \cup {Absent}]
    BY LockType DEF IType, FileType
  <2>2. QED
    BY <1>2, <2>1 DEF LockBuild, IType, SaveType, FileType, HeldType, saveVars, fileVars, histVars
<1>3. CASE LockWrite
  BY <1>3 DEF LockWrite, IType, SaveType, FileType, HeldType, saveVars, histVars
<1>4. CASE Crash
  BY <1>4, RestartTypes DEF Crash, IType, FileType
<1>5. ASSUME NEW b \in Bodies, Upgrade(b) PROVE IType'
  <2>1. (IF b \in broken THEN broken \ {b} ELSE broken \cup {b}) \in SUBSET Bodies
    BY DEF IType, FileType
  <2>2. hands' \in Nat
    BY <1>5 DEF Upgrade, Deed, IType, FileType
  <2>3. QED
    BY <1>5, <2>1, <2>2, RestartTypes DEF Upgrade
<1>6. ASSUME NEW n \in Names, Rewrite(n) PROVE IType'
  <2>1. files[n] \in Docs /\ used + 1 \in Bodies /\ used' \in Nat
    BY <1>6, LibraryAssumption DEF Rewrite, HandEdit, IType, FileType, Bodies
  <2>2. [files[n] EXCEPT !.body = used + 1] \in Docs
    BY <2>1 DEF Docs
  <2>3. [files[n] EXCEPT !.body = used + 1].version = files[n].version
    BY <2>1 DEF Docs
  <2>4. QED
    BY <1>6, <2>1, <2>2, <2>3, HandEditTypes DEF Rewrite
<1>7. ASSUME NEW n \in Names, NEW s \in {"draft", "approved"}, SetStatus(n, s) PROVE IType'
  <2>1. files[n] \in Docs /\ used' \in Nat
    BY <1>7 DEF SetStatus, HandEdit, IType, FileType
  <2>2. /\ [files[n] EXCEPT !.status = s] \in Docs
        /\ [files[n] EXCEPT !.status = s].version = files[n].version
    BY <2>1 DEF Docs
  <2>3. QED
    BY <1>7, <2>1, <2>2, HandEditTypes DEF SetStatus
<1>8. ASSUME NEW n \in Names, Remove(n) PROVE IType'
  BY <1>8, HandEditTypes DEF Remove, IType, FileType
<1>9. CASE UNCHANGED vars
  BY <1>9 DEF vars, saveVars, fileVars, lockVars, histVars, IType, SaveType, FileType, HeldType
<1>10. QED
  BY <1>1, <1>2, <1>3, <1>4, <1>5, <1>6, <1>7, <1>8, <1>9 DEF Next

(* Types, also with calls of the API; above all, that what lies under the  *)
(* name of a version is that version.                                      *)
THEOREM TypeCorrect == Spec => []TypeOK
<1>1. Init => IType
  BY InitTypes
<1>2. IType /\ [Next]_vars => IType'
  BY NextTypes
<1>3. IType => TypeOK
  BY DEF IType, SaveType, FileType, TypeOK
<1>4. QED
  BY <1>1, <1>2, <1>3, PTL DEF Spec
-----------------------------------------------------------------------------
(* The invariant, when only pages save.                                    *)

(* A lock is of the files and of what loads. *)
LEMMA QuietLock == ASSUME UNCHANGED <<files, broken>> PROVE BuildLock' = BuildLock
BY DEF BuildLock, Loads

(* A content that is refused as it is written was nowhere before. *)
LEMMA RefusedBody ==
  ASSUME IType, BodyInv, NEW h \in Handlers, NEW ok \in BOOLEAN, ApplyEdits(h, ok)
  PROVE  /\ BuildLock' = BuildLock
         /\ \A doc \in Docs : Loads(doc)' => Loads(doc)
<1>1. \A doc \in Docs : Loads(doc)' => Loads(doc)
  BY DEF ApplyEdits, Loads
<1>2. \A n \in Names : files'[n] = files[n] /\ (Loads(files[n])' <=> Loads(files[n]))
  <2>1. used + 1 > used
    BY DEF IType, FileType
  <2>2. \A n \in Names : files[n] # Absent => files[n] \in Docs /\ files[n].body # used + 1
    BY <2>1, LibraryAssumption DEF BodyInv, IType, FileType, Docs, Bodies
  <2>3. QED
    BY <2>2 DEF ApplyEdits, Loads
<1>3. QED
  BY <1>1, <1>2 DEF BuildLock

IInv == IType /\ LibraryInv

(* The initial states. *)
LEMMA Initially == Init => IInv
<1> SUFFICES ASSUME Init PROVE IInv
  OBVIOUS
<1>1. \A n \in Names : files[n] # Absent => files[n].body <= used
  <2>1. \A doc \in [version : {0}, status : {"draft"}, body : {1}] : doc.body <= 1
    OBVIOUS
  <2>2. QED
    BY <2>1, LibraryAssumption DEF Init
<1>2. LibraryInv
  BY <1>1 DEF Init, LibraryInv, OneSaveInv, DraftInv, BodyInv, OfferInv, LockInv, SavedStays,
       Saving, Editing
<1>3. QED
  BY <1>2, InitTypes DEF IInv

(* A refused save leaves no trace. *)
LEMMA RefuseKeeps ==
  ASSUME IInv, NEW h \in Handlers, pc[h] \notin {"published", "built"}, Refuse(h),
         UNCHANGED <<files, broken, lock, lockVars, histVars>>,
         pc[h] \in Saving => \A g \in Handlers : g # h => pc[g] \notin Saving,
         \/ UNCHANGED temp
         \/ pc[h] \in Saving
  PROVE  LibraryInv'
<1> USE DEF IInv, LibraryInv
<1>1. OneSaveInv'
  BY DEF OneSaveInv, Refuse, GoTo, IType, SaveType, Saving
<1>2. DraftInv'
  BY DEF DraftInv, Refuse, GoTo, IType, SaveType, Saving, Editing, Loads
<1>3. BodyInv'
  BY DEF BodyInv, Refuse, GoTo, IType, SaveType, Editing, histVars
<1>4. OfferInv'
  BY DEF OfferInv, Offers, Loads, Refuse, GoTo, IType, SaveType, histVars
<1>5. LockInv' /\ SavedStays'
  BY QuietLock DEF LockInv, SavedStays, lockVars, histVars
<1>6. QED
  BY <1>1, <1>2, <1>3, <1>4, <1>5

(* A page goes through its save undisturbed. *)
LEMMA SaveKeeps ==
  ASSUME IInv, NEW h \in Handlers, Save(h), IType', OneSaveInv'
  PROVE  LibraryInv'
<1> USE DEF IInv, LibraryInv
<1>0. ASSUME pc[h] \in Saving PROVE \A g \in Handlers : g # h => pc[g] \notin Saving
  BY <1>0 DEF OneSaveInv
<1>1. ASSUME NEW e \in catalog, FindPreset(h, e) PROVE LibraryInv'
  <2> USE <1>1 DEF FindPreset, GoTo, IType, SaveType, fileVars, lockVars, histVars
  <2>1. OneSaveInv'
    BY DEF OneSaveInv, Saving
  <2>2. DraftInv'
    BY DEF DraftInv, Editing, Loads
  <2>3. BodyInv' /\ OfferInv'
    BY DEF BodyInv, OfferInv, Offers, Loads, Editing
  <2>4. LockInv' /\ SavedStays'
    BY QuietLock DEF LockInv, SavedStays
  <2>5. QED
    BY <2>1, <2>2, <2>3, <2>4
<1>2. CASE ReadBase(h)
  <2>0. UNCHANGED <<fileVars, lockVars, histVars>>
    BY <1>2 DEF ReadBase
  <2>1. CASE Refuse(h)
    BY <1>0, <1>2, <2>0, <2>1, RefuseKeeps DEF ReadBase, fileVars, Saving
  <2>2. CASE ~Refuse(h)
    <3>1. /\ files[base[h].name] # Absent
          /\ files[base[h].name].version = base[h].version
          /\ GoTo(h, "read")
          /\ draft' = [draft EXCEPT ![h] = files[base[h].name]]
          /\ UNCHANGED <<catalog, base, view>>
      BY <1>2, <2>2 DEF ReadBase
    <3>2. \A g \in Handlers : g # h => pc[g] \notin Saving
      <4>1. pc'[h] = "read" /\ \A g \in Handlers : g # h => pc'[g] = pc[g]
        BY <3>1 DEF GoTo, IType, SaveType
      <4>2. QED
        BY <4>1 DEF OneSaveInv, Saving
    <3>3. pc[h] = "found"
      BY <1>2 DEF ReadBase
    <3> USE <2>0, <3>1, <3>2, <3>3 DEF GoTo, IType, SaveType, fileVars, lockVars, histVars
    <3>4. OneSaveInv'
      BY DEF OneSaveInv
    <3>5. DraftInv'
      <4>1. draft'[h] \in Docs
        BY DEF HeldType, Editing
      <4>2. \A g \in Handlers : pc'[g] \in Saving => g = h
        OBVIOUS
      <4>3. draft'[h].version = base'[h].version /\ pc'[h] = "read"
        OBVIOUS
      <4>4. QED
        BY <4>1, <4>2, <4>3 DEF DraftInv, Saving, Editing
    <3>6. BodyInv'
      BY DEF BodyInv, Editing
    <3>7. OfferInv'
      BY DEF OfferInv, Offers, Loads, Saving
    <3>8. LockInv' /\ SavedStays'
      BY QuietLock DEF LockInv, SavedStays
    <3>9. QED
      BY <3>4, <3>5, <3>6, <3>7, <3>8
  <2>3. QED
    BY <2>1, <2>2
<1>3. CASE RejectEdits(h)
  BY <1>0, <1>3, RefuseKeeps DEF RejectEdits, fileVars
<1>4. ASSUME NEW ok \in BOOLEAN, ApplyEdits(h, ok) PROVE LibraryInv'
  <2>1. \A g \in Handlers : g # h => pc[g] \notin Saving
    BY <1>0, <1>4 DEF ApplyEdits, Saving
  <2>2. /\ draft[h] \in Docs /\ used + 1 \in Bodies /\ used \in Nat
        /\ draft[h].version \in Int /\ draft[h].version < MaxVersion
        /\ draft[h].version = base[h].version
    BY <1>4, LibraryAssumption
       DEF ApplyEdits, DraftInv, IType, FileType, Bodies, Docs, Versions
  <2>3. /\ draft'[h] = Successor(draft[h], used + 1)
        /\ draft'[h] \in Docs /\ draft'[h].version = draft[h].version + 1
        /\ draft'[h].status = "draft" /\ draft'[h].body = used + 1
    <3>1. draft'[h] = Successor(draft[h], used + 1)
      BY <1>4 DEF ApplyEdits, IType, SaveType
    <3>2. QED
      BY <3>1, <2>2, SuccessorType
  <2>4. /\ pc'[h] = "based" /\ pc[h] = "read"
        /\ \A g \in Handlers : g # h => pc'[g] = pc[g] /\ draft'[g] = draft[g]
        /\ \A g \in Handlers : pc'[g] \in Saving => g = h
    BY <1>4, <2>1 DEF ApplyEdits, GoTo, IType, SaveType
  <2>5. UNCHANGED <<files, temp, catalog, base, view, saved, lockVars>> /\ used' = used + 1
    BY <1>4 DEF ApplyEdits
  <2>6. OneSaveInv'
    BY <2>4 DEF OneSaveInv
  <2>7. DraftInv'
    <3>1. \A e \in catalog : e.version \in Int /\ e.version <= base[h].version
      BY <1>4, LibraryAssumption DEF ApplyEdits, BasedOnNewest, IType, SaveType, Entries, Versions
    <3>2. \A e \in catalog' : e.version < draft'[h].version
      BY <2>2, <2>3, <2>5, <3>1
    <3>3. QED
      BY <2>3, <2>4, <3>2 DEF DraftInv, Editing, Saving
  <2>8. BodyInv'
    <3>1. \A n \in Names : files[n] # Absent => files[n].body \in Int
      BY LibraryAssumption DEF IType, FileType, Docs, Bodies
    <3>2. \A a \in saved : a.doc.body \in Int
      BY DEF IType, FileType, Docs, Bodies
    <3>3. QED
      BY <2>2, <2>3, <2>4, <2>5, <3>1, <3>2 DEF BodyInv, Editing, Saving
  <2>9. OfferInv'
    <3>1. \A g \in Handlers : pc[g] \notin {"published", "built"} /\ pc'[g] \notin {"published", "built"}
      BY <2>1, <2>4 DEF Saving
    <3>2. \A a \in saved : Loads(a.doc)' => Loads(a.doc)
      BY <1>4, RefusedBody DEF IType, FileType
    <3>3. QED
      BY <2>5, <3>1, <3>2 DEF OfferInv, Offers, Loads
  <2>10. LockInv' /\ SavedStays'
    BY <1>4, <2>5, RefusedBody DEF LockInv, SavedStays, lockVars
  <2>11. QED
    BY <2>6, <2>7, <2>8, <2>9, <2>10
<1>5. CASE CheckName(h)
  <2>0. pc[h] = "based" /\ pc[h] \in Saving /\ UNCHANGED <<fileVars, lockVars, histVars>>
    BY <1>5 DEF CheckName, Saving
  <2>1. CASE Refuse(h)
    BY <1>0, <2>0, <2>1, RefuseKeeps DEF fileVars
  <2>2. CASE ~Refuse(h)
    <3>1. /\ files[draft[h].version] = Absent
          /\ GoTo(h, "free") /\ UNCHANGED <<catalog, base, draft, view>>
      BY <1>5, <2>2 DEF CheckName
    <3>2. \A g \in Handlers : g # h => pc[g] \notin Saving
      BY <1>0, <2>0
    <3> USE <2>0, <3>1, <3>2 DEF GoTo, IType, SaveType, fileVars, lockVars, histVars
    <3>4. OneSaveInv'
      BY DEF OneSaveInv
    <3>5. DraftInv'
      BY DEF DraftInv, Editing, Saving
    <3>6. BodyInv' /\ OfferInv'
      BY DEF BodyInv, OfferInv, Offers, Loads, Editing
    <3>7. LockInv' /\ SavedStays'
      BY QuietLock DEF LockInv, SavedStays
    <3>8. QED
      BY <3>4, <3>5, <3>6, <3>7
  <2>3. QED
    BY <2>1, <2>2
<1>6. CASE WriteTemp(h)
  <2>0. pc[h] = "free" /\ pc[h] \in Saving
    BY <1>6 DEF WriteTemp, Saving
  <2>1. \A g \in Handlers : g # h => pc[g] \notin Saving
    BY <1>0, <2>0
  <2>2. draft[h] \in Docs /\ draft[h].version \in Versions
    BY <2>0 DEF DraftInv, Editing, Docs
  <2> USE <1>6, <2>0, <2>1, <2>2 DEF WriteTemp, GoTo, IType, SaveType, FileType, lockVars, histVars
  <2>4. OneSaveInv'
    BY DEF OneSaveInv
  <2>5. DraftInv'
    BY DEF DraftInv, Editing, Saving
  <2>6. BodyInv' /\ OfferInv'
    BY DEF BodyInv, OfferInv, Offers, Loads, Editing
  <2>7. LockInv' /\ SavedStays'
    BY QuietLock DEF LockInv, SavedStays
  <2>8. QED
    BY <2>4, <2>5, <2>6, <2>7
<1>7. CASE Validate(h)
  <2>0. pc[h] = "written" /\ pc[h] \in Saving /\ UNCHANGED <<files, broken, lock, lockVars, histVars>>
    BY <1>7 DEF Validate, Saving
  <2>1. CASE Refuse(h)
    BY <1>0, <2>0, <2>1, RefuseKeeps
  <2>2. CASE ~Refuse(h)
    <3>1. /\ Loads(temp[draft[h].version]) /\ temp[draft[h].version] = draft[h]
          /\ GoTo(h, "valid") /\ UNCHANGED <<temp, catalog, base, draft, view>>
      BY <1>7, <2>0, <2>2 DEF Validate, DraftInv
    <3>2. \A g \in Handlers : g # h => pc[g] \notin Saving
      BY <1>0, <2>0
    <3> USE <2>0, <3>1, <3>2 DEF GoTo, IType, SaveType, lockVars, histVars
    <3>4. OneSaveInv'
      BY DEF OneSaveInv
    <3>5. DraftInv'
      BY DEF DraftInv, Editing, Saving, Loads
    <3>6. BodyInv' /\ OfferInv'
      BY DEF BodyInv, OfferInv, Offers, Loads, Editing
    <3>7. LockInv' /\ SavedStays'
      BY QuietLock DEF LockInv, SavedStays
    <3>8. QED
      BY <3>4, <3>5, <3>6, <3>7
  <2>3. QED
    BY <2>1, <2>2
<1>8. CASE Publish(h)
  <2> DEFINE v == draft[h].version
  <2>0. pc[h] = "valid" /\ pc[h] \in Saving
    BY <1>8 DEF Publish, Saving
  <2>1. \A g \in Handlers : g # h => pc[g] \notin Saving
    BY <1>0, <2>0
  <2>2. /\ draft[h] \in Docs /\ v \in Versions /\ v \in Names /\ draft[h].status = "draft"
        /\ files[v] = Absent /\ temp[v] = draft[h] /\ draft[h].body <= used /\ draft[h] # Absent
    BY <2>0, NameFacts, LibraryAssumption DEF DraftInv, BodyInv, Editing, Docs
  <2>3. /\ files' = [files EXCEPT ![v] = draft[h]]
        /\ saved' = saved \cup {[name |-> v, doc |-> draft[h]]}
        /\ pc' = [pc EXCEPT ![h] = "published"]
        /\ UNCHANGED <<catalog, base, draft, view, broken, lock, lockVars, used, hands>>
    BY <1>8, <2>2 DEF Publish, Target, GoTo
  <2> HIDE DEF v
  <2>4. \A n \in Names : files'[n] = IF n = v THEN draft[h] ELSE files[n]
    BY <2>3 DEF IType, FileType
  <2>5. \A g \in Handlers : pc'[g] = IF g = h THEN "published" ELSE pc[g]
    BY <2>3 DEF IType, SaveType
  <2>6. OneSaveInv' /\ DraftInv'
    BY <2>1, <2>5 DEF OneSaveInv, DraftInv, Editing, Saving
  <2>7. BodyInv'
    BY <2>2, <2>3, <2>4, <2>5 DEF BodyInv, Editing
  <2>8. OfferInv'
    <3>1. \A a \in saved : Offers(catalog, a)
      BY <2>0, <2>1 DEF OfferInv, Saving
    <3>2. \A g \in Handlers : pc'[g] # "built"
      BY <2>1, <2>5 DEF Saving
    <3>3. draft'[h] = [name |-> v, doc |-> draft[h]].doc /\ pc'[h] = "published"
      BY <2>3, <2>5
    <3>4. QED
      BY <2>3, <3>1, <3>2, <3>3 DEF OfferInv, Offers, Loads
  <2>9. BuildLock' = BuildLock
    <3>1. \A n \in Names :
            (Loads(files[n]) /\ files[n].status = "approved")'
               <=> (Loads(files[n]) /\ files[n].status = "approved")
      BY <2>2, <2>3, <2>4 DEF Loads
    <3>2. QED
      BY <2>2, <2>4, <3>1 DEF BuildLock, Loads
  <2>10. LockInv'
    BY <2>3, <2>9 DEF LockInv, lockVars
  <2>11. SavedStays'
    <3>1. \A a \in saved : files'[a.name] = a.doc
      <4> TAKE a \in saved
      <4>1. files[a.name] = a.doc /\ a.doc \in Docs /\ a.name \in Names
        BY NameFacts DEF SavedStays, IType, FileType
      <4>2. a.name # v
        BY <4>1, <2>2, LibraryAssumption
      <4>3. QED
        BY <4>1, <4>2, <2>4
    <3>2. QED
      BY <2>2, <2>3, <2>4, <3>1 DEF SavedStays
  <2>12. QED
    BY <2>6, <2>7, <2>8, <2>10, <2>11
<1>9. CASE Rebuild(h)
  <2>0. pc[h] = "published" /\ pc[h] \in Saving
    BY <1>9 DEF Rebuild, Saving
  <2>1. \A g \in Handlers : g # h => pc[g] \notin Saving
    BY <1>0, <2>0
  <2>2. \A a \in saved : Offers(BuildCatalog, a)
    BY NameFacts DEF SavedStays, IType, FileType, Offers, BuildCatalog, Catalogued
  <2> USE <1>9, <2>0, <2>1 DEF Rebuild, GoTo, IType, SaveType, fileVars, lockVars, histVars
  <2>4. OneSaveInv'
    BY DEF OneSaveInv
  <2>5. DraftInv' /\ BodyInv'
    BY DEF DraftInv, BodyInv, Editing, Saving
  <2>6. OfferInv'
    <3>1. \A g \in Handlers : pc'[g] = "built" => g = h
      BY DEF Saving
    <3>2. view'[h] = BuildCatalog
      OBVIOUS
    <3>3. \A a \in saved : Loads(a.doc)' <=> Loads(a.doc)
      BY DEF Loads
    <3>4. QED
      BY <2>2, <3>1, <3>2, <3>3 DEF OfferInv, Offers
  <2>7. LockInv' /\ SavedStays'
    BY QuietLock DEF LockInv, SavedStays
  <2>8. QED
    BY <2>4, <2>5, <2>6, <2>7
<1>10. CASE Refresh(h)
  <2>0. pc[h] = "built" /\ pc[h] \in Saving
    BY <1>10 DEF Refresh, Saving
  <2>1. \A g \in Handlers : g # h => pc[g] \notin Saving
    BY <1>0, <2>0
  <2> USE <1>10, <2>0, <2>1 DEF Refresh, GoTo, IType, SaveType, fileVars, lockVars, histVars
  <2>4. OneSaveInv'
    BY DEF OneSaveInv
  <2>5. DraftInv' /\ BodyInv'
    BY DEF DraftInv, BodyInv, Editing, Saving
  <2>6. OfferInv'
    BY DEF OfferInv, Offers, Loads, Saving
  <2>7. LockInv' /\ SavedStays'
    BY QuietLock DEF LockInv, SavedStays
  <2>8. QED
    BY <2>4, <2>5, <2>6, <2>7
<1>11. QED
  BY <1>1, <1>2, <1>3, <1>4, <1>5, <1>6, <1>7, <1>8, <1>9, <1>10 DEF Save
(* The end of the process ends the saves; a new one reads what there is. *)
LEMMA RestartKeeps ==
  ASSUME IInv, NEW refused \in SUBSET Bodies, Restart(refused),
         locking = "built" => refused = broken
  PROVE  LibraryInv'
<1> USE DEF IInv, LibraryInv, Restart
<1>1. \A h \in Handlers : pc'[h] = "idle"
  OBVIOUS
<1>2. OneSaveInv' /\ DraftInv' /\ BodyInv'
  BY <1>1 DEF OneSaveInv, DraftInv, BodyInv, Saving, Editing
<1>3. OfferInv'
  <2>1. ASSUME NEW a \in saved, Loads(a.doc)'
        PROVE  [name |-> a.name, version |-> a.doc.version] \in catalog'
    <3>1. files[a.name] = a.doc /\ a.name \in Names
      BY NameFacts DEF SavedStays, IType, FileType
    <3>2. a.doc # Absent /\ a.doc.body \notin refused
      BY <2>1 DEF Loads
    <3>3. Catalogued(a.name) = [name |-> a.name, version |-> a.doc.version]
      BY <3>1 DEF Catalogued
    <3>4. QED
      BY <3>1, <3>2, <3>3
  <2>2. QED
    BY <1>1, <2>1 DEF OfferInv, Offers
<1>4. LockInv'
  BY QuietLock DEF LockInv, lockVars
<1>5. SavedStays'
  BY DEF SavedStays
<1>6. QED
  BY <1>2, <1>3, <1>4, <1>5

(* People change files that exist, and while no lock is written. *)
LEMMA HandEditKeeps ==
  ASSUME IInv, IType', NEW n \in Names, NEW doc \in Docs \cup {Absent}, HandEdit(n, doc),
         used' \in Nat, used <= used', doc # Absent => doc.body <= used'
  PROVE  LibraryInv'
<1> USE DEF IInv, LibraryInv
<1>0. /\ \A m \in Names : files'[m] = IF m = n THEN doc ELSE files[m]
      /\ files[n] # Absent
      /\ UNCHANGED <<broken, temp, catalog, pc, base, draft, view, locking, newLock>>
      /\ locking = "idle"
  BY DEF HandEdit, Deed, IType, FileType, saveVars, lockVars
<1>1. OneSaveInv'
  BY <1>0 DEF OneSaveInv
<1>2. DraftInv'
  <2>1. \A h \in Handlers : pc[h] \in Editing => draft[h].version \in Names
    BY NameFacts DEF DraftInv, Docs
  <2>2. \A h \in Handlers : pc[h] \in {"free", "written", "valid"} => files'[draft[h].version] = Absent
    BY <1>0, <2>1 DEF DraftInv, Editing
  <2>3. QED
    BY <1>0, <2>2 DEF DraftInv, Editing, Loads
<1>3. BodyInv'
  <2>1. \A m \in Names : files[m] # Absent => files[m].body \in Int
    BY DEF IType, FileType, Docs, Bodies
  <2>2. \A h \in Handlers : pc[h] \in Editing => draft[h].body \in Int
    BY DEF DraftInv, Docs, Bodies
  <2>3. saved' \subseteq saved /\ \A a \in saved : a.doc.body \in Int
    BY DEF HandEdit, IType, FileType, Docs, Bodies
  <2>4. used \in Nat
    BY DEF IType, FileType
  <2>5. \A m \in Names : files'[m] # Absent => files'[m].body <= used'
    BY <1>0, <2>1, <2>4 DEF BodyInv
  <2>6. QED
    BY <1>0, <2>2, <2>3, <2>4, <2>5 DEF BodyInv
<1>4. OfferInv'
  BY <1>0 DEF OfferInv, Offers, Loads, HandEdit
<1>5. LockInv'
  BY <1>0 DEF LockInv
<1>6. SavedStays'
  BY <1>0, NameFacts DEF SavedStays, HandEdit, IType, FileType
<1>7. QED
  BY <1>1, <1>2, <1>3, <1>4, <1>5, <1>6

(* What people and releases do to the library. *)
LEMMA DeedKeeps ==
  ASSUME IInv, IType',
         \/ \E b \in Bodies : Upgrade(b)
         \/ \E n \in Names : Rewrite(n) \/ Remove(n)
                              \/ \E s \in {"draft", "approved"} : SetStatus(n, s)
  PROVE  LibraryInv'
<1>0. used \in Nat
  BY DEF IInv, IType, FileType
<1>1. ASSUME NEW b \in Bodies, Upgrade(b) PROVE LibraryInv'
  <2>1. (IF b \in broken THEN broken \ {b} ELSE broken \cup {b}) \in SUBSET Bodies
    BY DEF IInv, IType, FileType
  <2>2. locking # "built"
    BY <1>1 DEF Upgrade, Deed
  <2>3. QED
    BY <1>1, <2>1, <2>2, RestartKeeps DEF Upgrade
<1>2. ASSUME NEW n \in Names, Rewrite(n) PROVE LibraryInv'
  <2>1. files[n] \in Docs /\ used + 1 \in Bodies /\ used' = used + 1
    BY <1>2, <1>0, LibraryAssumption DEF Rewrite, HandEdit, IInv, IType, FileType, Bodies
  <2>2. /\ [files[n] EXCEPT !.body = used + 1] \in Docs
        /\ [files[n] EXCEPT !.body = used + 1].body = used + 1
    BY <2>1 DEF Docs
  <2>3. used' \in Nat /\ used <= used'
    BY <1>0, <2>1
  <2>4. HandEdit(n, [files[n] EXCEPT !.body = used + 1])
    BY <1>2 DEF Rewrite
  <2> DEFINE doc == [files[n] EXCEPT !.body = used + 1]
  <2>5. doc \in Docs /\ doc.body <= used' /\ HandEdit(n, doc)
    BY <1>0, <2>1, <2>2, <2>4
  <2> HIDE DEF doc
  <2>6. QED
    BY <2>3, <2>5, HandEditKeeps
<1>3. ASSUME NEW n \in Names, NEW s \in {"draft", "approved"}, SetStatus(n, s) PROVE LibraryInv'
  <2> DEFINE doc == [files[n] EXCEPT !.status = s]
  <2>1. files[n] \in Docs /\ used' = used
    BY <1>3 DEF SetStatus, HandEdit, IInv, IType, FileType
  <2>2. doc \in Docs /\ doc.body = files[n].body /\ HandEdit(n, doc)
    BY <1>3, <2>1 DEF SetStatus, Docs
  <2>3. files[n].body <= used'
    BY <2>1, LibraryAssumption DEF IInv, LibraryInv, BodyInv
  <2> HIDE DEF doc
  <2>4. QED
    BY <1>0, <2>1, <2>2, <2>3, HandEditKeeps
<1>4. ASSUME NEW n \in Names, Remove(n) PROVE LibraryInv'
  BY <1>0, <1>4, HandEditKeeps DEF Remove
<1>5. QED
  BY <1>1, <1>2, <1>3, <1>4

(* All parts together are inductive, for pages only. *)
LEMMA Inductive == IInv /\ [Next]_vars /\ OneSaveInv' => IInv'
<1> SUFFICES ASSUME IInv, [Next]_vars, OneSaveInv' PROVE IInv'
  OBVIOUS
<1>0. IType'
  BY NextTypes DEF IInv
<1>1. CASE \E h \in Handlers : Save(h)
  BY <1>0, <1>1, SaveKeeps DEF IInv
<1>2. CASE LockBuild \/ LockWrite
  <2>1. UNCHANGED <<files, temp, broken, saveVars, histVars>>
    BY <1>2 DEF LockBuild, LockWrite, fileVars
  <2>2. BuildLock' = BuildLock
    BY <2>1, QuietLock
  <2>3. LockInv'
    BY <1>2, <2>2 DEF LockBuild, LockWrite, LockInv
  <2>4. OneSaveInv' /\ DraftInv' /\ BodyInv' /\ OfferInv' /\ SavedStays'
    BY <2>1 DEF IInv, LibraryInv, OneSaveInv, DraftInv, BodyInv, OfferInv, Offers, Loads,
         SavedStays, saveVars, histVars
  <2>5. QED
    BY <1>0, <2>3, <2>4 DEF IInv, LibraryInv
<1>3. CASE Crash
  BY <1>0, <1>3, RestartKeeps DEF Crash, IInv, IType, FileType
<1>4. ASSUME \/ \E b \in Bodies : Upgrade(b)
             \/ \E n \in Names : Rewrite(n) \/ Remove(n)
                                  \/ \E s \in {"draft", "approved"} : SetStatus(n, s)
      PROVE  IInv'
  BY <1>0, <1>4, DeedKeeps DEF IInv
<1>5. CASE UNCHANGED vars
  <2>1. UNCHANGED <<fileVars, saveVars, lockVars, histVars>>
    BY <1>5 DEF vars
  <2>2. LockInv'
    BY <2>1, QuietLock DEF IInv, LibraryInv, LockInv, fileVars, lockVars
  <2>3. OneSaveInv' /\ DraftInv' /\ BodyInv' /\ OfferInv' /\ SavedStays'
    BY <2>1 DEF IInv, LibraryInv, OneSaveInv, DraftInv, BodyInv, OfferInv, Offers, Loads,
         SavedStays, fileVars, saveVars, histVars
  <2>4. QED
    BY <1>0, <2>2, <2>3 DEF IInv, LibraryInv
<1>6. QED
  BY <1>1, <1>2, <1>3, <1>4, <1>5 DEF Next

-----------------------------------------------------------------------------
(* What follows while no two saves overlap.                                *)

(* One handler changes its place, and saves only when no other does.       *)
LEMMA OneMoves ==
  ASSUME OneSaveInv, IType, NEW h \in Handlers, NEW there, GoTo(h, there),
         \/ there \notin Saving \/ pc[h] \in Saving
         \/ \A g \in Handlers \ {h} : pc[g] \notin Saving
  PROVE  OneSaveInv'
BY DEF OneSaveInv, GoTo, IType, SaveType

(* Pages alone take turns: each has the event loop for its whole save.     *)
LEMMA TurnsKept ==
  ASSUME Calls = {}, OneSaveInv, IType, [Next]_vars
  PROVE  OneSaveInv'
<1>1. ASSUME NEW h \in Handlers, Save(h) PROVE OneSaveInv'
  <2>1. ASSUME NEW e \in catalog, FindPreset(h, e) PROVE OneSaveInv'
    BY <2>1, OneMoves DEF FindPreset, Saving
  <2>2. CASE ReadBase(h)
    <3>1. \A g \in Handlers \ {h} : pc[g] \notin Saving
      BY <2>2 DEF ReadBase, MayRun, Handlers
    <3>2. GoTo(h, "idle") \/ GoTo(h, "read")
      BY <2>2 DEF ReadBase, Refuse
    <3>3. QED
      BY <3>1, <3>2, OneMoves
  <2>3. CASE RejectEdits(h)
    BY <2>3, OneMoves DEF RejectEdits, Refuse, Saving
  <2>4. ASSUME NEW ok \in BOOLEAN, ApplyEdits(h, ok) PROVE OneSaveInv'
    BY <2>4, OneMoves DEF ApplyEdits, Saving
  <2>5. CASE CheckName(h)
    <3>1. pc[h] \in Saving /\ (GoTo(h, "idle") \/ GoTo(h, "free"))
      BY <2>5 DEF CheckName, Refuse, Saving
    <3>2. QED
      BY <3>1, OneMoves
  <2>6. CASE WriteTemp(h)
    BY <2>6, OneMoves DEF WriteTemp, Saving
  <2>7. CASE Validate(h)
    <3>1. pc[h] \in Saving /\ (GoTo(h, "idle") \/ GoTo(h, "valid"))
      BY <2>7 DEF Validate, Refuse, Saving
    <3>2. QED
      BY <3>1, OneMoves
  <2>8. CASE Publish(h)
    <3>1. pc[h] \in Saving /\ (GoTo(h, "idle") \/ GoTo(h, "published"))
      BY <2>8 DEF Publish, Refuse, Saving
    <3>2. QED
      BY <3>1, OneMoves
  <2>9. CASE Rebuild(h)
    BY <2>9, OneMoves DEF Rebuild, Saving
  <2>10. CASE Refresh(h)
    BY <2>10, OneMoves DEF Refresh, Saving
  <2>11. QED
    BY <1>1, <2>1, <2>2, <2>3, <2>4, <2>5, <2>6, <2>7, <2>8, <2>9, <2>10 DEF Save
<1>2. ASSUME NEW refused, Restart(refused) PROVE OneSaveInv'
  BY <1>2 DEF Restart, OneSaveInv, Saving
<1>3. ASSUME UNCHANGED pc PROVE OneSaveInv'
  BY <1>3 DEF OneSaveInv
<1>4. CASE LockBuild \/ LockWrite
  BY <1>3, <1>4 DEF LockBuild, LockWrite, saveVars
<1>5. CASE Crash
  BY <1>2, <1>5 DEF Crash
<1>6. ASSUME NEW b \in Bodies, Upgrade(b) PROVE OneSaveInv'
  BY <1>2, <1>6 DEF Upgrade
<1>7. ASSUME NEW n \in Names, Rewrite(n) \/ Remove(n) \/ (\E s \in {"draft", "approved"} : SetStatus(n, s))
      PROVE  OneSaveInv'
  BY <1>3, <1>7 DEF Rewrite, Remove, SetStatus, HandEdit, saveVars
<1>8. CASE UNCHANGED vars
  BY <1>3, <1>8 DEF vars, saveVars
<1>9. QED
  BY <1>1, <1>4, <1>5, <1>6, <1>7, <1>8 DEF Next

(* The pages of the editor share the event loop (app.py:555-586), so their *)
(* saves never overlap; those of the API, each in a thread of its own       *)
(* (app.py:181-218), may, with one another and with a page.                *)
THEOREM PagesTakeTurns == Calls = {} => (Spec => []OneSaveInv)
<1> SUFFICES ASSUME Calls = {} PROVE Spec => []OneSaveInv
  OBVIOUS
<1>1. Init => IInv
  BY Initially
<1>2. Init => OneSaveInv /\ IType
  BY <1>1 DEF IInv, LibraryInv
<1>3. OneSaveInv /\ IType /\ [Next]_vars => OneSaveInv' /\ IType'
  BY TurnsKept, NextTypes
<1>4. QED
  BY <1>2, <1>3, PTL DEF Spec

(* While saves do not overlap, the invariant holds.                        *)
LEMMA Invariance == Spec /\ []OneSaveInv => []IInv
<1>1. Init => IInv
  BY Initially
<1>2. IInv /\ [Next]_vars /\ OneSaveInv' => IInv'
  BY Inductive
<1>3. QED
  BY <1>1, <1>2, PTL DEF Spec

(* While saves do not overlap: what a handler holds between two steps is   *)
(* what it will save, and the catalog, its successor or the save itself     *)
(* offers what has been saved.                                             *)
THEOREM LibraryHolds == Spec /\ []OneSaveInv => []LibraryInv
<1>1. IInv => LibraryInv
  BY DEF IInv
<1>2. QED
  BY <1>1, Invariance, PTL

(* While saves do not overlap, none is lost: each stays as it was written  *)
(* until a person changes that very file (editor.py:21-23, ADR-031).       *)
(* Where a save of the API overlaps another, one may be (run preset_race). *)
THEOREM SavesAreKept == Spec /\ []OneSaveInv => []SavedStays
<1>1. IInv => SavedStays
  BY DEF IInv, LibraryInv
<1>2. QED
  BY <1>1, Invariance, PTL

(* While saves do not overlap, nothing that is saved is missing from the   *)
(* picker (app.py:210, 581).  Where a save of the API overlaps another, a   *)
(* catalog that was built before the other one's file was there may be put  *)
(* in place after it, and hides it until the next rebuild.                 *)
THEOREM SavedCanBeSubmitted == Spec /\ []OneSaveInv => []SavedIsOffered
<1>1. IInv => SavedIsOffered
  BY DEF IInv, LibraryInv, OfferInv, Offers, SavedIsOffered
<1>2. QED
  BY <1>1, Invariance, PTL

(* What the steps of the console and of the lock do to the files.          *)
LEMMA FilesChange ==
  ASSUME IInv, [Next]_vars
  PROVE  \/ UNCHANGED files
         \/ \E h \in Handlers :
              /\ pc[h] = "valid" /\ files[draft[h].version] = Absent
              /\ draft[h] \in Docs /\ draft[h].status = "draft"
              /\ files' = [files EXCEPT ![draft[h].version] = draft[h]]
              /\ UNCHANGED <<broken, lock, hands>>
         \/ \E n \in Names : files[n] # Absent /\ (\E doc : files' = [files EXCEPT ![n] = doc])
                              /\ hands' = hands + 1
<1>1. ASSUME NEW h \in Handlers, Publish(h) PROVE
        \/ UNCHANGED files
        \/ /\ pc[h] = "valid" /\ files[draft[h].version] = Absent
           /\ draft[h] \in Docs /\ draft[h].status = "draft"
           /\ files' = [files EXCEPT ![draft[h].version] = draft[h]]
           /\ UNCHANGED <<broken, lock, hands>>
  BY <1>1 DEF Publish, Target, IInv, LibraryInv, DraftInv, Editing
<1>2. ASSUME NEW h \in Handlers, Save(h), ~Publish(h) PROVE UNCHANGED files
  BY <1>2 DEF Save, FindPreset, ReadBase, RejectEdits, ApplyEdits, CheckName, WriteTemp,
       Validate, Rebuild, Refresh, fileVars
<1>3. ASSUME LockBuild \/ LockWrite \/ Crash \/ (\E b \in Bodies : Upgrade(b)) \/ UNCHANGED vars
      PROVE  UNCHANGED files
  BY <1>3 DEF LockBuild, LockWrite, Crash, Upgrade, Restart, vars, fileVars
<1>4. ASSUME NEW n \in Names,
             Rewrite(n) \/ Remove(n) \/ \E s \in {"draft", "approved"} : SetStatus(n, s)
      PROVE  files[n] # Absent /\ (\E doc : files' = [files EXCEPT ![n] = doc])
               /\ hands' = hands + 1
  BY <1>4 DEF Rewrite, Remove, SetStatus, HandEdit, Deed
<1>5. QED
  BY <1>1, <1>2, <1>3, <1>4 DEF Next

(* While saves do not overlap, the editor writes no file that exists       *)
(* (editor.py:10-15).  Of two overlapping saves of one version, both may    *)
(* have found the name free, and the second replaces the first one's file.  *)
THEOREM EditorWritesNewFiles == Spec /\ []OneSaveInv => NeverInPlace
<1>1. ASSUME IInv, [Next]_vars, ~ByHand, NEW n \in Names, files[n] # Absent
      PROVE  files'[n] = files[n]
  BY <1>1, FilesChange DEF ByHand, IInv, IType, FileType
<1>2. IInv /\ [Next]_vars =>
        [~ByHand => \A n \in Names : files[n] # Absent => files'[n] = files[n]]_vars
  BY <1>1
<1>3. QED
  BY <1>2, Invariance, PTL DEF Spec, NeverInPlace

(* While saves do not overlap, no file appears that the loader refuses     *)
(* (editor.py:19-20).  An overlapping save of the same version may put      *)
(* another content into the temporary file after it was validated and      *)
(* before it is renamed.                                                   *)
THEOREM OnlyLoadableAppears == Spec /\ []OneSaveInv => OnlyLoadable
<1>1. ASSUME IInv, [Next]_vars, NEW n \in Names, files[n] = Absent, files'[n] # Absent
      PROVE  Loads(files'[n])
  <2>1. PICK h \in Handlers :
          /\ pc[h] = "valid" /\ files' = [files EXCEPT ![draft[h].version] = draft[h]]
    BY <1>1, FilesChange DEF IInv, IType, FileType
  <2>2. files'[n] = draft[h]
    BY <1>1, <2>1 DEF IInv, IType, FileType
  <2>3. QED
    BY <1>1, <2>1, <2>2 DEF IInv, LibraryInv, DraftInv
<1>2. IInv /\ [Next]_vars =>
        [\A n \in Names : files[n] = Absent /\ files'[n] # Absent => Loads(files'[n])]_vars
  BY <1>1
<1>3. QED
  BY <1>2, Invariance, PTL DEF Spec, OnlyLoadable

(* While saves do not overlap, none lands behind a version the console     *)
(* lists (editor.py:180).                                                  *)
THEOREM SavesComeLast == Spec /\ []OneSaveInv => SaveIsNewest
<1>1. ASSUME IInv, [Next]_vars, NEW v \in Versions, files[v] = Absent, files'[v] # Absent
      PROVE  \A e \in catalog : e.version < v
  <2>1. PICK h \in Handlers :
          /\ pc[h] = "valid" /\ files' = [files EXCEPT ![draft[h].version] = draft[h]]
    BY <1>1, NameFacts, FilesChange DEF IInv, IType, FileType
  <2>2. draft[h].version = v
    BY <1>1, <2>1, NameFacts DEF IInv, IType, FileType
  <2>3. QED
    BY <1>1, <2>1, <2>2 DEF IInv, LibraryInv, DraftInv, Editing
<1>2. IInv /\ [Next]_vars =>
        [\A v \in Versions : files[v] = Absent /\ files'[v] # Absent =>
           \A e \in catalog : e.version < v]_vars
  BY <1>1
<1>3. QED
  BY <1>2, Invariance, PTL DEF Spec, SaveIsNewest

(* The lock is verified just when it is the one of the files there are. *)
LEMMA VerifiedLock ==
  ASSUME files \in [Names -> Docs \cup {Absent}], lock \in [Names -> Docs \cup {Absent}]
  PROVE  Verified <=> lock = BuildLock
<1>1. BuildLock \in [Names -> Docs \cup {Absent}]
  BY LockType
<1>2. lock = BuildLock <=> \A n \in Names : lock[n] = BuildLock[n]
  BY <1>1
<1>3. QED
  BY <1>2 DEF Verified, BuildLock

(* The lock changes only where `presets lock` ends. *)
LEMMA LockChange ==
  ASSUME IInv, [Next]_vars, lock' # lock
  PROVE  /\ lock' = BuildLock /\ KeepsClaims /\ newLock = BuildLock
         /\ UNCHANGED <<files, broken>>
<1>1. LockWrite
  BY DEF Next, Save, FindPreset, ReadBase, RejectEdits, ApplyEdits, CheckName, WriteTemp,
     Validate, Publish, Rebuild, Refresh, LockBuild, Crash, Upgrade, Restart, Rewrite, Remove,
     SetStatus, HandEdit, vars, fileVars
<1>2. newLock = BuildLock
  BY <1>1 DEF LockWrite, IInv, LibraryInv, LockInv
<1>3. QED
  BY <1>1, <1>2 DEF LockWrite

(* While saves do not overlap, only people can put a verified library out  *)
(* of order (governance.py:100-131).                                       *)
THEOREM VerifiedStays == Spec /\ []OneSaveInv => StaysVerified
<1>1. ASSUME IInv, [Next]_vars, ~ByHand, Verified PROVE Verified'
  <2>1. lock = BuildLock
    BY <1>1, VerifiedLock DEF IInv, IType, FileType
  <2>2. BuildLock' = BuildLock
    <3>1. CASE UNCHANGED <<files, broken>>
      BY <3>1, QuietLock
    <3>2. ASSUME NEW h \in Handlers, NEW ok \in BOOLEAN, ApplyEdits(h, ok)
          PROVE  BuildLock' = BuildLock
      BY <1>1, <3>2, RefusedBody DEF IInv, LibraryInv
    <3>3. ASSUME NEW h \in Handlers, Publish(h), files' # files PROVE BuildLock' = BuildLock
      <4>1. /\ draft[h] \in Docs /\ draft[h].version \in Names /\ draft[h].status = "draft"
            /\ files[draft[h].version] = Absent /\ UNCHANGED broken
            /\ files' = [files EXCEPT ![draft[h].version] = draft[h]]
        BY <1>1, <3>3, NameFacts
           DEF Publish, Target, IInv, LibraryInv, DraftInv, Editing, Docs
      <4> DEFINE v == draft[h].version
      <4>2. \A n \in Names : files'[n] = IF n = v THEN draft[h] ELSE files[n]
        BY <1>1, <4>1 DEF IInv, IType, FileType
      <4> HIDE DEF v
      <4>3. files[v] = Absent /\ v \in Names
        BY <4>1 DEF v
      <4>4. \A n \in Names :
              (Loads(files[n]) /\ files[n].status = "approved")'
                 <=> (Loads(files[n]) /\ files[n].status = "approved")
        BY <4>1, <4>2, <4>3 DEF Loads
      <4>5. QED
        BY <4>1, <4>2, <4>3, <4>4 DEF BuildLock, Loads
    <3>4. \/ UNCHANGED <<files, broken>>
          \/ \E h \in Handlers : Publish(h) /\ files' # files
          \/ \E h \in Handlers, ok \in BOOLEAN : ApplyEdits(h, ok)
      <4>1. ASSUME NEW h \in Handlers, Save(h) PROVE
              \/ UNCHANGED <<files, broken>>
              \/ Publish(h) /\ files' # files
              \/ \E ok \in BOOLEAN : ApplyEdits(h, ok)
        BY <4>1 DEF Save, FindPreset, ReadBase, RejectEdits, CheckName, WriteTemp,
             Validate, Publish, Rebuild, Refresh, fileVars
      <4>2. ASSUME LockBuild \/ LockWrite \/ Crash \/ UNCHANGED vars
            PROVE  UNCHANGED <<files, broken>>
        BY <4>2 DEF LockBuild, LockWrite, Crash, Restart, vars, fileVars
      <4>3. ASSUME \/ \E b \in Bodies : Upgrade(b)
                   \/ \E n \in Names : Rewrite(n) \/ Remove(n)
                                        \/ \E s \in {"draft", "approved"} : SetStatus(n, s)
            PROVE  FALSE
        <5>1. hands' = hands + 1
          BY <4>3 DEF Upgrade, Rewrite, Remove, SetStatus, HandEdit, Deed
        <5>2. hands' = hands /\ hands \in Nat
          BY <1>1 DEF ByHand, IInv, IType, FileType
        <5>3. QED
          BY <5>1, <5>2
      <4>4. QED
        BY <1>1, <4>1, <4>2, <4>3 DEF Next
    <3>5. QED
      BY <3>1, <3>2, <3>3, <3>4
  <2>3. lock' = BuildLock'
    BY <1>1, <2>1, <2>2, LockChange
  <2>4. QED
    <3>1. \A n \in Names : BuildLock'[n] =
            (IF Loads(files[n]) /\ files[n].status = "approved" THEN files[n] ELSE Absent)'
      BY DEF BuildLock
    <3>2. QED
      BY <2>3, <3>1 DEF Verified
<1>2. IInv /\ [Next]_vars => [~ByHand /\ Verified => Verified']_vars
  BY <1>1
<1>3. QED
  BY <1>2, Invariance, PTL DEF Spec, StaysVerified

(* While saves do not overlap, a locked file that no longer loads keeps    *)
(* its entry (governance.py:57-86).                                        *)
THEOREM LockKeepsClaims == Spec /\ []OneSaveInv => ClaimsKept
<1>1. ASSUME IInv, [Next]_vars, NEW n \in Names, lock[n] # Absent, files[n] # Absent,
             ~Loads(files[n])
      PROVE  lock'[n] = lock[n]
  <2>1. SUFFICES ASSUME lock' # lock PROVE FALSE
    OBVIOUS
  <2>2. newLock[n] = Absent /\ KeepsClaims
    BY <1>1, <2>1, LockChange DEF BuildLock
  <2>3. QED
    BY <1>1, <2>2 DEF KeepsClaims
<1>2. IInv /\ [Next]_vars =>
        [\A n \in Names :
          lock[n] # Absent /\ files[n] # Absent /\ ~Loads(files[n]) => lock'[n] = lock[n]]_vars
  BY <1>1
<1>3. QED
  BY <1>2, Invariance, PTL DEF Spec, ClaimsKept
=============================================================================
