------------------------- MODULE RequestContextProofs -------------------------
(***************************************************************************)
(* What the nodes of a run may count on, for any directory of skills, any  *)
(* tools and any failures of the initialization: an agent, skills that are *)
(* found, tools that are not shadowed, and schemas that fit the model.     *)
(***************************************************************************)
EXTENDS RequestContext, SequenceTheorems, FiniteSetTheorems, TLAPS

\* If no Context is used again that failed to initialize, a store without an
\* agent is never met again: only a run that is still initializing has one.
Initializing ==
  /\ _agent => _skill_store
  /\ at = "entering" => (_skill_store <=> _agent)
  /\ at \in {"scanning", "naming", "connecting"} => _skill_store
  /\ InitializedInBody

\* Whatever the caches point to is, or was, on the disk.
Remembered ==
  /\ OnDisk \subseteq since
  /\ \A n \in DOMAIN _metadata_cache : _metadata_cache[n] \in Paths
  /\ ServedIsCurrent

LEMMA InitInv == Init => Initializing /\ Remembered
  BY DEF Init, StoreInit, Initializing, InitializedInBody, Remembered, ServedIsCurrent,
     Nothing

LEMMA InitializingStep ==
  ASSUME ~ReusesFailed, Initializing, [Next]_vars
  PROVE  Initializing'
<1>1. CASE EnterNode
  BY <1>1 DEF EnterNode, NeedsInit, Initializing, InitializedInBody
<1>2. CASE Scans \/ ScanFails \/ NamesSkills
  BY <1>2 DEF Scans, ScanFails, NamesSkills, context, Initializing, InitializedInBody
<1>3. CASE Connects \/ ConnectFails
  BY <1>3 DEF Connects, ConnectFails, context, Initializing, InitializedInBody
<1>4. CASE NextNode \/ RunEnds
  BY <1>4 DEF NextNode, RunEnds, context, Initializing, InitializedInBody
<1>8. CASE RendersCatalog \/ CatalogFails \/ CallsLlm \/ RunsSkillTool
  BY <1>8 DEF RendersCatalog, CatalogFails, CallsLlm, RunsSkillTool, context,
     Initializing, InitializedInBody
<1>9. CASE SwitchesProvider
  BY <1>9 DEF SwitchesProvider, Initializing, InitializedInBody
<1>5. CASE StartRun \/ StartRunAgain
  BY <1>5 DEF StartRun, StartRunAgain, context, Initializing, InitializedInBody
<1>6. CASE Invalidates \/ EditsDirectory
  BY <1>6 DEF Invalidates, EditsDirectory, context, Initializing, InitializedInBody
<1>7. CASE UNCHANGED vars
  BY <1>7 DEF vars, context, Initializing, InitializedInBody
<1> QED
  BY <1>1, <1>2, <1>3, <1>4, <1>5, <1>6, <1>7, <1>8, <1>9 DEF Next

-----------------------------------------------------------------------------
(* The operations of the store keep what it remembers. *)

LEMMA FoundPaths ==
  ASSUME NEW found \in MayFind, NEW n \in DOMAIN found
  PROVE  found[n] \in Paths
  BY DEF MayFind, SkillPaths

LEMMA ScanRemembers ==
  ASSUME Remembered, scan \/ ScanRaises
  PROVE  Remembered'
<1>1. disk' = disk /\ since' = since
  BY DEF scan, ScanRaises
<1>2. OnDisk' = OnDisk
  BY <1>1 DEF OnDisk, SkillPaths
<1>3. CASE UNCHANGED caches
  BY <1>1, <1>2, <1>3 DEF Remembered, ServedIsCurrent, caches
<1>4. CASE Rescan
  BY <1>1, <1>2, <1>4, FoundPaths DEF Rescan, Remembered, ServedIsCurrent, Nothing
<1>5. CASE ScanRaises
  <2>1. PICK found \in MayFind, part \in SUBSET Names :
          _metadata_cache' = Restrict(found, part)
    BY <1>5 DEF ScanRaises
  <2>2. \A n \in DOMAIN found : found[n] \in Paths
    BY FoundPaths
  <2>3. DOMAIN found = Names
    BY DEF MayFind
  <2>4. \A n \in DOMAIN _metadata_cache' : _metadata_cache'[n] \in Paths
    BY <2>1, <2>2, <2>3 DEF Restrict
  <2>5. _content_cache' = Nothing
    BY <1>5 DEF ScanRaises
  <2> QED
    BY <1>1, <1>2, <2>4, <2>5 DEF Remembered, ServedIsCurrent, Nothing
<1> QED
  BY <1>3, <1>4, <1>5 DEF scan

LEMMA EnsureScannedKeepsPaths ==
  ASSUME Remembered, EnsureScanned
  PROVE  \A n \in DOMAIN _metadata_cache' : _metadata_cache'[n] \in Paths
  BY FoundPaths DEF EnsureScanned, Remembered

LEMMA CatalogRemembers ==
  ASSUME Remembered, get_skill_catalog
  PROVE  Remembered'
<1>1. disk' = disk /\ since' = since
  BY DEF get_skill_catalog
<1>2. OnDisk' = OnDisk
  BY <1>1 DEF OnDisk, SkillPaths
<1>3. \A n \in DOMAIN _metadata_cache' : _metadata_cache'[n] \in Paths
  BY EnsureScannedKeepsPaths DEF get_skill_catalog
<1>4. _content_cache' \in {_content_cache, Nothing}
  BY DEF get_skill_catalog
<1> QED
  BY <1>1, <1>2, <1>3, <1>4 DEF Remembered, ServedIsCurrent, Nothing

\* A skill enters the cache as it is on the disk at that moment.
LEMMA LoadRemembers ==
  ASSUME Remembered, NEW name \in Skills, load(name)
  PROVE  Remembered'
<1>1. disk' = disk /\ since' = since
  BY DEF load
<1>2. OnDisk' = OnDisk
  BY <1>1 DEF OnDisk, SkillPaths
<1>3. CASE UNCHANGED caches
  BY <1>1, <1>2, <1>3 DEF Remembered, ServedIsCurrent, caches
<1>4. CASE name \notin DOMAIN _content_cache /\ EnsureScanned
  <2> DEFINE kept == IF _scanned THEN _content_cache ELSE Nothing
             path == _metadata_cache'[name]
  <2>1. \A n \in DOMAIN _metadata_cache' : _metadata_cache'[n] \in Paths
    BY <1>4, EnsureScannedKeepsPaths
  <2>2. \A n \in DOMAIN kept : kept[n] \in since
    BY DEF Remembered, ServedIsCurrent, Nothing
  <2>3. \/ _content_cache' = kept
        \/ /\ name \in DOMAIN _metadata_cache' /\ disk[path] # NoSkill
           /\ _content_cache' = WithSkill(kept, name, path)
    BY <1>4 DEF load, caches
  <2>4. CASE _content_cache' = kept
    BY <1>1, <1>2, <2>1, <2>2, <2>4 DEF Remembered, ServedIsCurrent
  <2>5. CASE /\ name \in DOMAIN _metadata_cache' /\ disk[path] # NoSkill
             /\ _content_cache' = WithSkill(kept, name, path)
    <3>1. [path |-> path, file |-> disk[path]] \in since
      BY <2>1, <2>5 DEF Remembered, OnDisk, SkillPaths
    <3>2. \A n \in DOMAIN _content_cache' : _content_cache'[n] \in since
      <4> HIDE DEF kept, path
      <4> QED
        BY <2>2, <2>5, <3>1 DEF WithSkill
    <3> QED
      BY <1>1, <1>2, <2>1, <3>2 DEF Remembered, ServedIsCurrent
  <2> QED
    BY <2>3, <2>4, <2>5
<1> QED
  BY <1>3, <1>4 DEF load

LEMMA RememberedStep ==
  ASSUME Remembered, [Next]_vars
  PROVE  Remembered'
<1>1. CASE UNCHANGED store
  BY <1>1 DEF store, caches, Remembered, ServedIsCurrent, OnDisk, SkillPaths
<1>2. CASE Scans \/ ScanFails
  BY <1>2, ScanRemembers DEF Scans, ScanFails
<1>3. CASE NamesSkills \/ RendersCatalog \/ CatalogFails \/ RunsSkillTool
  BY <1>3, CatalogRemembers, LoadRemembers, ScanRemembers
  DEF NamesSkills, get_skill_names, RendersCatalog, CatalogFails, RunsSkillTool
<1>4. CASE StartRun
  BY <1>4 DEF StartRun, EmptyStore, Remembered, ServedIsCurrent, OnDisk, SkillPaths, Nothing
<1>5. CASE Invalidates
  BY <1>5 DEF Invalidates, invalidate, ContentAfterInvalidate, Remembered, ServedIsCurrent,
     OnDisk, SkillPaths, Nothing
<1>6. CASE EditsDirectory
  BY <1>6 DEF EditsDirectory, Edit, Remembered, ServedIsCurrent, caches
<1> QED
  BY <1>1, <1>2, <1>3, <1>4, <1>5, <1>6
  DEF Next, vars, EnterNode, Connects, ConnectFails, CallsLlm, NextNode, RunEnds,
      StartRunAgain, SwitchesProvider

-----------------------------------------------------------------------------
(* The types: only skills with a path of the directory are in the caches. *)

LEMMA InitTypes == Init => TypeOK
<1> SUFFICES ASSUME Init
             PROVE  TypeOK
  OBVIOUS
<1>1. disk \in [Paths -> Files \cup {NoSkill}] /\ edits \in 0..MaxEdits
  BY EditBound DEF Init, StoreInit, Files
<1>2. StoreTypeOK
  BY <1>1 DEF Init, StoreInit, StoreTypeOK, Nothing
<1> QED
  BY <1>2 DEF Init, TypeOK, Nodes

LEMMA FoundNames ==
  ASSUME StoreTypeOK, NEW found \in MayFind
  PROVE  /\ DOMAIN found \subseteq Skills
         /\ \A n \in DOMAIN found : found[n] \in Paths
<1>1. \A p \in SkillPaths : p \in Paths /\ disk[p].name \in Skills
  BY DEF SkillPaths, StoreTypeOK, Files
<1> QED
  BY <1>1 DEF MayFind, Names

LEMMA EnsureScannedTypes ==
  ASSUME StoreTypeOK, EnsureScanned
  PROVE  /\ _scanned' \in BOOLEAN
         /\ DOMAIN _metadata_cache' \subseteq Skills
         /\ \A n \in DOMAIN _metadata_cache' : _metadata_cache'[n] \in Paths
         /\ _scanned => _metadata_cache' = _metadata_cache
<1>1. CASE _scanned /\ UNCHANGED <<_scanned, _metadata_cache>>
  BY <1>1 DEF StoreTypeOK
<1>2. CASE ~_scanned /\ _metadata_cache' \in MayFind /\ _scanned' = TRUE
  BY <1>2, FoundNames
<1> QED
  BY <1>1, <1>2 DEF EnsureScanned

LEMMA ScanTypes ==
  ASSUME StoreTypeOK, scan \/ ScanRaises
  PROVE  StoreTypeOK'
<1>1. UNCHANGED <<disk, edits, invalidated>>
  BY DEF scan, ScanRaises
<1>2. CASE UNCHANGED caches
  BY <1>1, <1>2 DEF StoreTypeOK, caches
<1>3. CASE Rescan
  BY <1>1, <1>3, FoundNames DEF Rescan, StoreTypeOK, Nothing
<1>4. CASE ScanRaises
  <2>1. PICK found \in MayFind, part \in SUBSET Names :
          _metadata_cache' = Restrict(found, part)
    BY <1>4 DEF ScanRaises
  <2>2. DOMAIN found = Names
    BY DEF MayFind
  <2>3. /\ DOMAIN _metadata_cache' \subseteq Skills
        /\ \A n \in DOMAIN _metadata_cache' : _metadata_cache'[n] \in Paths
    BY <2>1, <2>2, FoundNames DEF Restrict
  <2> QED
    BY <1>1, <1>4, <2>3 DEF ScanRaises, MarkedByRaise, StoreTypeOK, Nothing
<1> QED
  BY <1>2, <1>3, <1>4 DEF scan

LEMMA CatalogTypes ==
  ASSUME StoreTypeOK, get_skill_catalog
  PROVE  StoreTypeOK'
<1>1. _scanned \/ _content_cache' = Nothing
  BY DEF get_skill_catalog
<1> QED
  BY <1>1, EnsureScannedTypes DEF get_skill_catalog, StoreTypeOK, Nothing

LEMMA LoadTypes ==
  ASSUME StoreTypeOK, NEW name \in Skills, load(name)
  PROVE  StoreTypeOK'
<1>1. UNCHANGED <<disk, edits, invalidated>>
  BY DEF load
<1>2. CASE UNCHANGED caches
  BY <1>1, <1>2 DEF StoreTypeOK, caches
<1>3. CASE name \notin DOMAIN _content_cache /\ EnsureScanned /\ ~UNCHANGED caches
  <2> DEFINE kept == IF _scanned THEN _content_cache ELSE Nothing
             path == _metadata_cache'[name]
  <2>1. \/ _content_cache' = kept
        \/ name \in DOMAIN _metadata_cache' /\ _content_cache' = WithSkill(kept, name, path)
    BY <1>3 DEF load
  <2>2. /\ DOMAIN kept \subseteq DOMAIN _metadata_cache'
        /\ \A n \in DOMAIN kept : kept[n].path = _metadata_cache'[n]
    BY <1>3, EnsureScannedTypes DEF StoreTypeOK, Nothing
  <2>3. /\ DOMAIN _content_cache' \subseteq DOMAIN _metadata_cache'
        /\ \A n \in DOMAIN _content_cache' : _content_cache'[n].path = _metadata_cache'[n]
    <3>1. CASE _content_cache' = kept
      BY <2>2, <3>1
    <3>2. CASE /\ name \in DOMAIN _metadata_cache'
               /\ _content_cache' = WithSkill(kept, name, path)
      <4> HIDE DEF kept
      <4> QED
        BY <2>2, <3>2 DEF WithSkill
    <3> QED
      BY <2>1, <3>1, <3>2
  <2> QED
    BY <1>1, <1>3, <2>3, EnsureScannedTypes DEF StoreTypeOK
<1> QED
  BY <1>2, <1>3 DEF load

LEMMA EditTypes ==
  ASSUME StoreTypeOK, Edit
  PROVE  StoreTypeOK'
<1>1. edits' \in 0..MaxEdits
  BY EditBound DEF Edit, StoreTypeOK
<1>2. PICK p \in Paths, new \in [name : Skills, text : {edits + 1}] \cup {NoSkill} :
        disk' = [disk EXCEPT ![p] = new]
  BY DEF Edit
<1>3. new \in Files \cup {NoSkill}
  BY <1>1 DEF Edit, Files
<1>4. disk' \in [Paths -> Files \cup {NoSkill}]
  BY <1>2, <1>3 DEF StoreTypeOK
<1> QED
  BY <1>1, <1>4 DEF Edit, caches, StoreTypeOK

LEMMA StoreTypesStep ==
  ASSUME StoreTypeOK, [Next]_vars
  PROVE  StoreTypeOK'
<1>1. CASE UNCHANGED store
  BY <1>1 DEF store, caches, StoreTypeOK
<1>2. CASE Scans \/ ScanFails
  BY <1>2, ScanTypes DEF Scans, ScanFails
<1>3. CASE NamesSkills \/ RendersCatalog \/ CatalogFails \/ RunsSkillTool
  BY <1>3, CatalogTypes, LoadTypes, ScanTypes
  DEF NamesSkills, get_skill_names, RendersCatalog, CatalogFails, RunsSkillTool
<1>4. CASE StartRun
  BY <1>4 DEF StartRun, EmptyStore, StoreTypeOK, Nothing
<1>5. CASE Invalidates
  BY <1>5 DEF Invalidates, invalidate, ContentAfterInvalidate, StoreTypeOK, Nothing
<1>6. CASE EditsDirectory
  BY <1>6, EditTypes DEF EditsDirectory
<1> QED
  BY <1>1, <1>2, <1>3, <1>4, <1>5, <1>6
  DEF Next, vars, EnterNode, Connects, ConnectFails, CallsLlm, NextNode, RunEnds,
      StartRunAgain, SwitchesProvider

\* The servers of a configuration, in whatever order, are servers.
LEMMA OrderedServers ==
  ASSUME NEW order \in SetToAllKPermutations(Servers)
  PROVE  Range(order) \subseteq Servers
  BY DEF SetToAllKPermutations, SetToSeqs, Range

LEMMA TypesStep ==
  ASSUME TypeOK, [Next]_vars
  PROVE  TypeOK'
<1>0. StoreTypeOK'
  BY StoreTypesStep DEF TypeOK
<1>1. CASE EnterNode
  BY <1>0, <1>1 DEF EnterNode, TypeOK
<1>2. CASE Scans \/ ScanFails \/ NamesSkills \/ ConnectFails
  BY <1>0, <1>2 DEF Scans, ScanFails, NamesSkills, ConnectFails, context, TypeOK
<1>3. CASE Connects
  <2>1. connected' \subseteq Servers
    BY <1>3, OrderedServers DEF Connects
  <2> QED
    BY <1>0, <1>3, <2>1 DEF Connects, TypeOK
<1>4. CASE RendersCatalog
  <2>1. told' \subseteq Skills
    BY <1>0, <1>4 DEF RendersCatalog, Described, TypeOK, StoreTypeOK
  <2> QED
    BY <1>0, <1>4, <2>1 DEF RendersCatalog, context, TypeOK
<1>5. CASE CatalogFails \/ CallsLlm \/ RunsSkillTool
  BY <1>0, <1>5 DEF CatalogFails, CallsLlm, RunsSkillTool, context, TypeOK
<1>6. CASE NextNode \/ RunEnds
  BY <1>0, <1>6 DEF NextNode, RunEnds, context, TypeOK, Nodes
<1>7. CASE StartRun \/ StartRunAgain
  BY <1>0, <1>7 DEF StartRun, StartRunAgain, context, TypeOK
<1>8. CASE SwitchesProvider \/ Invalidates \/ EditsDirectory
  BY <1>0, <1>8 DEF SwitchesProvider, Invalidates, EditsDirectory, context, TypeOK
<1>9. CASE UNCHANGED vars
  BY <1>0, <1>9 DEF vars, context, TypeOK
<1> QED
  BY <1>1, <1>2, <1>3, <1>4, <1>5, <1>6, <1>7, <1>8, <1>9 DEF Next

-----------------------------------------------------------------------------
(* What a model was told of is found. *)

\* The skills told of are on disk, whether a store knows of them or not; one that
\* was scanned has for each of them a file that describes it; and unless somebody
\* called invalidate(), a run that has an agent has a store that was scanned.
Told ==
  /\ told \subseteq Skills
  /\ \A n \in told : \E p \in Paths : disk[p].name = n
  /\ _scanned => told \subseteq Described
  /\ ~invalidated => /\ _agent => _scanned
                     /\ at \in {"naming", "connecting"} => _scanned

\* What is on disk under the name of a skill is a skill.
LEMMA ToldNames ==
  ASSUME Told
  PROVE  told \subseteq Names
<1> SUFFICES ASSUME NEW n \in told PROVE n \in Names
  OBVIOUS
<1>1. n # "none"
  BY NoneIsNoSkill DEF Told
<1>2. PICK p \in Paths : disk[p].name = n
  BY DEF Told
<1>3. p \in SkillPaths
  BY <1>1, <1>2 DEF SkillPaths, NoSkill
<1> QED
  BY <1>2, <1>3 DEF Names

\* A walk that comes to its end finds all of them.
LEMMA WalkFinds ==
  ASSUME Told, _metadata_cache' \in MayFind, UNCHANGED disk
  PROVE  told \subseteq Described'
  BY ToldNames DEF MayFind, Described

LEMMA EnsureScannedFinds ==
  ASSUME Told, EnsureScanned, UNCHANGED disk
  PROVE  _scanned' /\ told \subseteq Described'
<1>1. CASE _scanned /\ UNCHANGED <<_scanned, _metadata_cache>>
  BY <1>1 DEF Told, Described
<1>2. CASE ~_scanned /\ _metadata_cache' \in MayFind /\ _scanned' = TRUE
  BY <1>2, WalkFinds
<1> QED
  BY <1>1, <1>2 DEF EnsureScanned

LEMMA ScanFinds ==
  ASSUME Told, scan
  PROVE  _scanned' /\ told \subseteq Described'
<1>1. CASE CacheHit /\ UNCHANGED caches
  BY <1>1 DEF scan, CacheHit, caches, Told, Described
<1>2. CASE Rescan
  BY <1>2, WalkFinds DEF scan, Rescan
<1> QED
  BY <1>1, <1>2 DEF scan

\* A walk that raises is not taken for one that came to its end.
LEMMA ScanRaisesFinds ==
  ASSUME Told, ScanRaises
  PROVE  _scanned' = _scanned /\ (_scanned' => told \subseteq Described')
<1>1. _scanned' = _scanned
  BY DEF ScanRaises, MarkedByRaise
<1>2. CASE _scanned
  <2>1. DOMAIN _metadata_cache = {}
    BY <1>2 DEF ScanRaises, CacheHit, Nothing
  <2>2. told = {}
    BY <1>2, <2>1 DEF Told, Described
  <2> QED
    BY <1>1, <2>2
<1> QED
  BY <1>1, <1>2

\* A step that leaves the directory and what models were told of as they are.
LEMMA StaysOnDisk ==
  ASSUME Told, UNCHANGED <<disk, told>>
  PROVE  told' \subseteq Skills /\ \A n \in told' : \E p \in Paths : disk'[p].name = n
  BY DEF Told

LEMMA ToldStep ==
  ASSUME Told, StoreTypeOK, StoreTypeOK', [Next]_vars
  PROVE  Told'
<1>1. CASE EnterNode \/ Connects \/ ConnectFails
  BY <1>1 DEF EnterNode, Connects, ConnectFails, context, store, caches, Told, Described
<1>2. CASE Scans
  <2>1. UNCHANGED <<disk, told, invalidated, _agent>>
    BY <1>2 DEF Scans, scan, context
  <2> QED
    BY <1>2, <2>1, ScanFinds, StaysOnDisk DEF Scans, Told
<1>3. CASE ScanFails \/ CatalogFails
  <2>1. /\ UNCHANGED <<disk, told, invalidated, _agent>> /\ ScanRaises /\ at' = "host"
    BY <1>3 DEF ScanFails, CatalogFails, ScanRaises, context
  <2> QED
    BY <2>1, ScanRaisesFinds, StaysOnDisk DEF Told
<1>4. CASE NamesSkills
  <2>1. /\ UNCHANGED <<disk, told, invalidated, _agent>> /\ EnsureScanned
    BY <1>4 DEF NamesSkills, get_skill_names, get_skill_catalog, context
  <2> QED
    BY <2>1, EnsureScannedFinds, StaysOnDisk DEF Told
<1>5. CASE RendersCatalog
  <2>1. /\ UNCHANGED disk /\ EnsureScanned /\ told' = told \cup Described'
    BY <1>5 DEF RendersCatalog, get_skill_catalog
  <2>2. _scanned' /\ told' \subseteq Described'
    BY <2>1, EnsureScannedFinds
  <2>3. Described' \subseteq Skills /\ \A n \in Described' : \E p \in Paths : disk'[p].name = n
    BY DEF StoreTypeOK, Described
  <2> QED
    BY <2>2, <2>3 DEF Told
<1>6. CASE RunsSkillTool
  <2>1. UNCHANGED <<disk, told, invalidated, _agent, at>>
    BY <1>6 DEF RunsSkillTool, load, ScanRaises, context
  <2>2. CASE \E name \in Skills : load(name)
    <3>1. EnsureScanned \/ UNCHANGED caches
      BY <2>2 DEF load
    <3>2. (_scanned => _scanned') /\ (_scanned' => told \subseteq Described')
      <4>1. CASE EnsureScanned
        BY <2>1, <4>1, EnsureScannedFinds
      <4>2. CASE UNCHANGED caches
        BY <2>1, <4>2 DEF Told, caches, Described
      <4> QED
        BY <3>1, <4>1, <4>2
    <3> QED
      BY <2>1, <3>2, StaysOnDisk DEF Told
  <2>3. CASE ~_scanned /\ ScanRaises
    BY <2>1, <2>3, ScanRaisesFinds, StaysOnDisk DEF Told
  <2> QED
    BY <1>6, <2>2, <2>3 DEF RunsSkillTool
<1>7. CASE StartRun
  BY <1>7, StaysOnDisk DEF StartRun, EmptyStore, Told
<1>8. CASE Invalidates
  BY <1>8, StaysOnDisk DEF Invalidates, invalidate, Told
<1>9. CASE EditsDirectory
  <2>1. /\ told' = told \ Deprived
        /\ UNCHANGED <<_scanned, _metadata_cache, invalidated, _agent, at>>
    BY <1>9 DEF EditsDirectory, Edit, context, caches
  <2>2. ASSUME NEW n \in told', NEW p \in Paths, disk[p].name = n
        PROVE  disk'[p].name = n
    BY <2>1, <2>2 DEF Deprived, Told
  <2>3. told' \subseteq Skills /\ \A n \in told' : \E p \in Paths : disk'[p].name = n
    BY <2>1, <2>2 DEF Told
  <2>4. _scanned' => told' \subseteq Described'
    <3> SUFFICES ASSUME _scanned, NEW n \in told' PROVE n \in Described'
      BY <2>1
    <3>1. n \in DOMAIN _metadata_cache /\ disk[_metadata_cache[n]].name = n
      BY <2>1 DEF Told, Described
    <3>2. _metadata_cache[n] \in Paths
      BY <3>1 DEF StoreTypeOK
    <3> QED
      BY <2>1, <2>2, <3>1, <3>2 DEF Described
  <2> QED
    BY <2>1, <2>3, <2>4 DEF Told
<1>10. CASE CallsLlm \/ NextNode \/ RunEnds \/ StartRunAgain
  BY <1>10 DEF CallsLlm, NextNode, RunEnds, StartRunAgain, context, store, caches, Told,
     Described
<1>11. CASE SwitchesProvider \/ UNCHANGED vars
  BY <1>11 DEF SwitchesProvider, vars, context, store, caches, Told, Described
<1> QED
  BY <1>1, <1>2, <1>3, <1>4, <1>5, <1>6, <1>7, <1>8, <1>9, <1>10, <1>11 DEF Next

-----------------------------------------------------------------------------

\* If no Context is used again that failed to initialize, no body of a node
\* starts without an agent, wherever the run starts, resumes or is replayed and
\* whatever fails during the initialization (nodes.py:55-70).
THEOREM BodiesAreInitialized ==
  ASSUME ~ReusesFailed
  PROVE  Spec => []InitializedInBody
<1>1. Init => Initializing
  BY InitInv
<1>2. Initializing /\ [Next]_vars => Initializing'
  BY InitializingStep
<1>3. Initializing => InitializedInBody
  BY DEF Initializing
<1> QED
  BY <1>1, <1>2, <1>3, PTL DEF Spec

\* Whatever is edited between scans, loads and invalidate(), no skill is served
\* in a text older than the last time the caches were emptied.
THEOREM ServesCurrentText == Spec => []ServedIsCurrent
<1>1. Init => Remembered
  BY InitInv
<1>2. Remembered /\ [Next]_vars => Remembered'
  BY RememberedStep
<1>3. Remembered => ServedIsCurrent
  BY DEF Remembered
<1> QED
  BY <1>1, <1>2, <1>3, PTL DEF Spec

\* Every variable of the Context and of the store keeps its type; in particular
\* no skill is served that is not in the catalog, under the path it has there.
THEOREM ContextTypesHold == Spec => []TypeOK
<1>1. Init => TypeOK
  BY InitTypes
<1>2. TypeOK /\ [Next]_vars => TypeOK'
  BY TypesStep
<1> QED
  BY <1>1, <1>2, PTL DEF Spec

\* For any directory and any edits of it: a skill that some model was told of and
\* that kept its files is found in the store of whatever Context the node that runs
\* the tools has, also after a resume with a new one, a scan that raised and an
\* invalidate(), as far as the store was scanned, and it was unless somebody called
\* invalidate() (skills.py:242-269, 299-332, 337, 375).
THEOREM ToldSkillsStayKnown ==
  ASSUME ~ReusesFailed
  PROVE  Spec => []ToldSkillsAreFound
<1>1. Init => Initializing /\ TypeOK /\ Told
  <2>1. Init => Told
    BY DEF Init, StoreInit, Told
  <2> QED
    BY <2>1, InitInv, InitTypes
<1>2. Initializing /\ TypeOK /\ Told /\ [Next]_vars => Initializing' /\ TypeOK' /\ Told'
  <2> SUFFICES ASSUME Initializing, TypeOK, Told, [Next]_vars
               PROVE  Initializing' /\ TypeOK' /\ Told'
    OBVIOUS
  <2>1. Initializing' /\ TypeOK'
    BY InitializingStep, TypesStep
  <2> QED
    BY <2>1, ToldStep DEF TypeOK
<1>3. Initializing /\ Told => ToldSkillsAreFound
  BY DEF Initializing, InitializedInBody, Told, ToldSkillsAreFound
<1> QED
  BY <1>1, <1>2, <1>3, PTL DEF Spec

-----------------------------------------------------------------------------
(* The list of tools *)

\* MergedTools is a fold (config.py:299-307).
Merging == INSTANCE Folding WITH op <- UnlessSeen

Flattens(h, m, seqs) ==
  h = [i \in 1..m |-> IF i = 1 THEN seqs[i] ELSE h[i - 1] \o seqs[i]]

\* The flattened list is reached part by part.
LEMMA FlattenExists ==
  ASSUME NEW seqs, NEW n \in Nat
  PROVE  \E h : Flattens(h, n, seqs)
<1> DEFINE H == {m \in Nat : \E h : Flattens(h, m, seqs)}
<1>1. 0 \in H
  <2>1. Flattens(<< >>, 0, seqs)
    BY DEF Flattens
  <2> QED
    BY <2>1
<1>2. ASSUME NEW m \in H PROVE m + 1 \in H
  <2>1. PICK h : Flattens(h, m, seqs)
    OBVIOUS
  <2> DEFINE g == [i \in 1..(m + 1) |->
                     IF i = 1 THEN seqs[i] ELSE IF i = m + 1 THEN h[m] \o seqs[i] ELSE h[i]]
  <2>2. ASSUME NEW i \in 1..(m + 1)
        PROVE  g[i] = IF i = 1 THEN seqs[i] ELSE g[i - 1] \o seqs[i]
    <3>1. CASE i = 1
      BY <3>1
    <3>2. CASE i # 1 /\ i = m + 1
      <4>1. i - 1 = m /\ m \in 1..m /\ m \in 1..(m + 1) /\ m # m + 1
        BY <3>2
      <4>2. g[m] = h[m]
        BY <2>1, <4>1 DEF Flattens
      <4> QED
        BY <3>2, <4>1, <4>2
    <3>3. CASE i # 1 /\ i # m + 1
      <4>1. i \in 1..m /\ i - 1 \in 1..m /\ i - 1 \in 1..(m + 1) /\ i - 1 # m + 1
        BY <3>3
      <4>2. h[i] = h[i - 1] \o seqs[i]
        BY <2>1, <3>3, <4>1 DEF Flattens
      <4>3. g[i - 1] = h[i - 1]
        BY <2>1, <4>1 DEF Flattens
      <4> QED
        BY <3>3, <4>2, <4>3
    <3> QED
      BY <3>1, <3>2, <3>3
  <2>3. g = [i \in 1..(m + 1) |-> g[i]]
    OBVIOUS
  <2> HIDE DEF g
  <2>4. Flattens(g, m + 1, seqs)
    BY <2>2, <2>3 DEF Flattens
  <2> QED
    BY <2>4
<1>3. H = Nat
  <2>1. H \in SUBSET Nat
    OBVIOUS
  <2> HIDE DEF H
  <2> QED
    BY <1>1, <1>2, <2>1, Merging!NatInductionOnSets
<1> QED
  BY <1>3

\* Of two lists that are put together.
LEMMA RangeOfConcat ==
  ASSUME NEW S, NEW a \in Seq(S), NEW b \in Seq(S)
  PROVE  Range(a \o b) = Range(a) \cup Range(b)
<1>1. PICK n \in Nat, m \in Nat : n = Len(a) /\ m = Len(b)
  OBVIOUS
<1>2. /\ DOMAIN a = 1..n /\ DOMAIN b = 1..m /\ DOMAIN (a \o b) = 1..(n + m)
      /\ \A j \in 1..n : (a \o b)[j] = a[j]
      /\ \A j \in 1..m : (a \o b)[n + j] = b[j]
  BY <1>1
<1>3. ASSUME NEW x \in Range(a \o b) PROVE x \in Range(a) \cup Range(b)
  <2>1. PICK j \in 1..(n + m) : (a \o b)[j] = x
    BY <1>2 DEF Range
  <2>2. CASE j \in 1..n
    BY <1>2, <2>1, <2>2 DEF Range
  <2>3. CASE j \notin 1..n
    <3>1. PICK l \in Int : l = j - n
      OBVIOUS
    <3>2. l \in 1..m /\ n + l = j
      BY <2>3, <3>1
    <3> QED
      BY <1>2, <2>1, <3>2 DEF Range
  <2> QED
    BY <2>2, <2>3
<1>4. ASSUME NEW x \in Range(a) PROVE x \in Range(a \o b)
  <2>1. PICK j \in 1..n : a[j] = x
    BY <1>2 DEF Range
  <2>2. j \in 1..(n + m)
    OBVIOUS
  <2> QED
    BY <1>2, <2>1, <2>2 DEF Range
<1>5. ASSUME NEW x \in Range(b) PROVE x \in Range(a \o b)
  <2>1. PICK j \in 1..m : b[j] = x
    BY <1>2 DEF Range
  <2>2. n + j \in 1..(n + m)
    OBVIOUS
  <2> QED
    BY <1>2, <2>1, <2>2 DEF Range
<1> QED
  BY <1>3, <1>4, <1>5

\* A flattened list has what its parts have.
LEMMA FlattenFacts ==
  ASSUME NEW S, NEW n \in Nat, NEW seqs \in [1..n -> Seq(S)]
  PROVE  /\ FlattenSeq(seqs) \in Seq(S)
         /\ \A x : x \in Range(FlattenSeq(seqs)) <=> \E i \in 1..n : x \in Range(seqs[i])
<1>0. Len(seqs) = n
  OBVIOUS
<1>1. CASE n = 0
  <2>1. FlattenSeq(seqs) = << >> /\ 1..n = {}
    <3>1. seqs = << >>
      BY <1>1
    <3> QED
      BY <1>0, <1>1, <3>1 DEF FlattenSeq
  <2>2. << >> \in Seq(S)
    BY EmptySeq, Zenon
  <2>3. \A x : x \notin Range(<< >>)
    BY DEF Range
  <2> QED
    BY <2>1, <2>2, <2>3
<1>2. CASE n # 0
  <2> DEFINE h == CHOOSE h : Flattens(h, n, seqs)
  <2>1. Flattens(h, n, seqs)
    BY FlattenExists
  <2>2. FlattenSeq(seqs) = h[n]
    BY <1>0, <1>2 DEF FlattenSeq, Flattens
  <2> HIDE DEF h
  <2> DEFINE Has(k) == {x \in S : \E i \in 1..k : x \in Range(seqs[i])}
             H == {k \in Nat : h[k] \in Seq(S) /\ Range(h[k]) = Has(k)}
  <2>3. \A i \in 1..n : seqs[i] \in Seq(S) /\ Range(seqs[i]) \subseteq S
    BY DEF Range
  <2>4. 1 \in H
    <3>1. h[1] = seqs[1] /\ 1 \in 1..n
      BY <1>2, <2>1 DEF Flattens
    <3>2. Has(1) = Range(seqs[1])
      BY <2>3, <3>1
    <3> QED
      BY <2>3, <3>1, <3>2
  <2>5. \A k \in 1..(n - 1) : k \in H => k + 1 \in H
    <3> SUFFICES ASSUME NEW k \in 1..(n - 1), k \in H PROVE k + 1 \in H
      OBVIOUS
    <3>1. k + 1 \in Nat /\ k + 1 \in 1..n /\ k + 1 # 1 /\ (k + 1) - 1 = k /\ k \in 1..n
      OBVIOUS
    <3>2. h[k + 1] = h[k] \o seqs[k + 1]
      BY <2>1, <3>1 DEF Flattens
    <3>3. h[k] \in Seq(S) /\ seqs[k + 1] \in Seq(S) /\ Range(h[k]) = Has(k)
      BY <2>3, <3>1
    <3>4. Range(h[k] \o seqs[k + 1]) = Range(h[k]) \cup Range(seqs[k + 1])
      BY <3>3, RangeOfConcat, SMTT(30)
    <3>5. Has(k + 1) = Has(k) \cup Range(seqs[k + 1])
      <4>1. 1..(k + 1) = (1..k) \cup {k + 1}
        BY <3>1
      <4> QED
        BY <2>3, <3>1, <4>1
    <3>6. h[k + 1] \in Seq(S)
      BY <3>2, <3>3
    <3> QED
      BY <3>1, <3>2, <3>3, <3>4, <3>5, <3>6
  <2>6. n \in H
    <3> HIDE DEF H
    <3>1. 1 \in Nat /\ n \in 1..n
      BY <1>2
    <3> QED
      BY <2>4, <2>5, <3>1, Merging!IntervalInduction
  <2> QED
    BY <2>2, <2>3, <2>6
<1> QED
  BY <1>1, <1>2

\* A tool of a server, under the name it gets.
Offered(s, k, many) == [Offers[s][k] EXCEPT !.name = ToolName(Offers[s][k], many)]

\* The tools of the servers are loaded, all of them and no other.
LEMMA LoadedTools ==
  ASSUME NEW order \in Seq(Servers), NEW loaded, loaded = _load_external_mcp_tools(order)
  PROVE  /\ Len(loaded) \in Nat /\ DOMAIN loaded = 1..Len(loaded)
         /\ \A x : x \in Range(loaded) <=>
              \E s \in Range(order) : \E k \in DOMAIN Offers[s] : x = Offered(s, k, Len(order) > 1)
<1> DEFINE many == Len(order) > 1
           S == UNION {{Offered(s, k, many) : k \in DOMAIN Offers[s]} : s \in Servers}
           parts == [i \in DOMAIN order |-> [k \in DOMAIN Offers[order[i]] |-> Offered(order[i], k, many)]]
<1>1. PICK n \in Nat : n = Len(order) /\ DOMAIN order = 1..n
  OBVIOUS
<1>2. loaded = FlattenSeq(parts)
  BY DEF _load_external_mcp_tools, Offered
<1>3. ASSUME NEW i \in 1..n
      PROVE  /\ order[i] \in Servers /\ order[i] \in Range(order)
             /\ parts[i] \in Seq(S)
             /\ \A x : x \in Range(parts[i]) <=>
                  \E k \in DOMAIN Offers[order[i]] : x = Offered(order[i], k, many)
  <2> DEFINE s == order[i]
             part == [k \in DOMAIN Offers[s] |-> Offered(s, k, many)]
  <2>1. s \in Servers /\ s \in Range(order)
    BY <1>1 DEF Range
  <2>2. parts[i] = part
    BY <1>1
  <2> HIDE DEF s
  <2>3. Offers[s] \in Seq(Range(Offers[s]))
    BY <2>1, ContextAssumption
  <2>4. PICK c \in Nat : c = Len(Offers[s]) /\ DOMAIN Offers[s] = 1..c
    BY <2>3
  <2>5. \A k \in 1..c : Offered(s, k, many) \in S
    BY <2>1, <2>4
  <2> HIDE DEF many, S, parts
  <2>6. part \in [1..c -> S]
    BY <2>4, <2>5
  <2>7. part \in Seq(S)
    BY <2>6
  <2>8. \A x : x \in Range(part) <=> \E k \in DOMAIN Offers[s] : x = Offered(s, k, many)
    BY DEF Range
  <2> HIDE DEF part
  <2> QED
    BY <2>1, <2>2, <2>7, <2>8 DEF s
<1> HIDE DEF many, S
<1>4. parts \in [1..n -> Seq(S)]
  <2>1. DOMAIN parts = 1..n /\ parts = [i \in 1..n |-> parts[i]]
    BY <1>1
  <2> HIDE DEF parts
  <2> QED
    BY <1>3, <2>1
<1> HIDE DEF parts
<1>5. /\ loaded \in Seq(S)
      /\ \A x : x \in Range(loaded) <=> \E i \in 1..n : x \in Range(parts[i])
  BY <1>2, <1>4, FlattenFacts
<1>6. ASSUME NEW x \in Range(loaded)
      PROVE  \E s \in Range(order) : \E k \in DOMAIN Offers[s] : x = Offered(s, k, many)
  <2>1. PICK i \in 1..n : x \in Range(parts[i])
    BY <1>5
  <2>2. order[i] \in Range(order)
    BY <1>3
  <2>3. \E k \in DOMAIN Offers[order[i]] : x = Offered(order[i], k, many)
    BY <1>3, <2>1
  <2> QED
    BY <2>2, <2>3
<1>7. ASSUME NEW s \in Range(order), NEW k \in DOMAIN Offers[s]
      PROVE  Offered(s, k, many) \in Range(loaded)
  <2>1. PICK i \in 1..n : order[i] = s
    BY <1>1 DEF Range
  <2>2. Offered(s, k, many) \in Range(parts[i])
    BY <1>3, <2>1
  <2> QED
    BY <1>5, <2>2
<1> QED
  BY <1>5, <1>6, <1>7 DEF many

\* What is kept of the first k external tools: behind the built-in ones, no two with
\* one name, and of each name one.
Keeps(kept, loaded, k) ==
  /\ kept \in Seq(Range(BuiltIns) \cup Range(loaded))
  /\ Len(BuiltIns) <= Len(kept)
  /\ \A i \in 1..Len(BuiltIns) : kept[i] = BuiltIns[i]
  /\ \A i, j \in DOMAIN kept : kept[i].name = kept[j].name => i = j
  /\ \A j \in 1..k : loaded[j].name \in NamesOf(kept)

\* One external tool more.
LEMMA KeepsOneMore ==
  ASSUME NEW loaded, NEW n \in Nat, DOMAIN loaded = 1..n, NEW k \in 1..n,
         Len(BuiltIns) \in Nat, NEW kept, Keeps(kept, loaded, k - 1)
  PROVE  Keeps(UnlessSeen(kept, loaded[k]), loaded, k)
<1> DEFINE ext == loaded[k]
<1>1. \A j \in 1..k : j \in 1..(k - 1) \/ j = k
  OBVIOUS
<1>2. CASE ext.name \in NamesOf(kept)
  BY <1>1, <1>2 DEF Keeps, UnlessSeen
<1>3. CASE ext.name \notin NamesOf(kept)
  <2>1. ext \in Range(BuiltIns) \cup Range(loaded)
    BY DEF Range
  <2> DEFINE T == Range(BuiltIns) \cup Range(loaded)
             more == Append(kept, ext)
  <2>2. kept \in Seq(T)
    BY DEF Keeps
  <2> HIDE DEF T
  <2>3. PICK c \in Nat : c = Len(kept) /\ DOMAIN kept = 1..c
    BY <2>2
  <2>4. /\ more \in Seq(T) /\ Len(more) = c + 1 /\ DOMAIN more = 1..(c + 1)
        /\ \A i \in 1..c : more[i] = kept[i]
        /\ more[c + 1] = ext
    BY <2>1, <2>2, <2>3 DEF T
  <2> HIDE DEF more, ext
  <2>5. \A i \in 1..(c + 1) : i \in 1..c \/ i = c + 1
    OBVIOUS
  <2>6. \A i \in 1..c : i \in 1..(c + 1) /\ kept[i].name \in NamesOf(kept)
    BY <2>3 DEF NamesOf
  <2>7. c + 1 \in 1..(c + 1) /\ c + 1 \notin 1..c
    OBVIOUS
  <2>8. Len(BuiltIns) <= c /\ \A i \in 1..Len(BuiltIns) : i \in 1..c /\ kept[i] = BuiltIns[i]
    BY <2>3 DEF Keeps
  <2>9. ASSUME NEW i \in 1..(c + 1), NEW j \in 1..(c + 1), more[i].name = more[j].name
        PROVE  i = j
    <3>1. CASE i \in 1..c /\ j \in 1..c
      BY <2>3, <2>4, <2>9, <3>1 DEF Keeps
    <3>2. CASE i \in 1..c /\ j = c + 1
      BY <1>3, <2>4, <2>6, <2>9, <3>2
    <3>3. CASE i = c + 1 /\ j \in 1..c
      BY <1>3, <2>4, <2>6, <2>9, <3>3
    <3> QED
      BY <2>5, <3>1, <3>2, <3>3
  <2>10. NamesOf(more) = NamesOf(kept) \cup {ext.name}
    BY <2>3, <2>4, <2>5, <2>6, <2>7, SMTT(30) DEF NamesOf
  <2>11. \A j \in 1..k : loaded[j].name \in NamesOf(more)
    BY <1>1, <2>10 DEF Keeps, ext
  <2>12. Len(BuiltIns) <= Len(more) /\ \A i \in 1..Len(BuiltIns) : more[i] = BuiltIns[i]
    BY <2>4, <2>8
  <2>13. Keeps(more, loaded, k)
    BY <2>4, <2>9, <2>11, <2>12 DEF Keeps, T
  <2> QED
    BY <1>3, <2>13 DEF UnlessSeen, more, ext
<1> QED
  BY <1>2, <1>3

\* All of them.
LEMMA MergedKeeps ==
  ASSUME NEW loaded, NEW n \in Nat, n = Len(loaded), DOMAIN loaded = 1..n
  PROVE  Keeps(MergedTools(loaded), loaded, n)
<1>1. MergedTools(loaded) = Merging!Fold(BuiltIns, loaded)
  BY DEF MergedTools, FoldLeft, MapThenFoldSet, Max, Merging!Fold, Merging!Iterates,
     Merging!Step, Merging!Maximum
<1>2. PICK r : Merging!Runs(r, loaded, BuiltIns) /\ Merging!Fold(BuiltIns, loaded) = r[n]
  BY Merging!FoldRuns
<1>3. r[0] = BuiltIns /\ \A k \in 1..n : r[k] = UnlessSeen(r[k - 1], loaded[k])
  BY <1>2 DEF Merging!Runs
<1> DEFINE H == {k \in Nat : Keeps(r[k], loaded, k)}
<1>4. Len(BuiltIns) \in Nat /\ BuiltIns \in Seq(Range(BuiltIns)) /\ DOMAIN BuiltIns = 1..Len(BuiltIns)
  BY ContextAssumption
<1>5. 0 \in H
  <2>1. BuiltIns \in Seq(Range(BuiltIns) \cup Range(loaded))
    BY <1>4
  <2>2. Keeps(BuiltIns, loaded, 0)
    BY <1>4, <2>1, BuiltInNamesDiffer DEF Keeps
  <2> QED
    BY <1>3, <2>2
<1>6. \A k \in 0..(n - 1) : k \in H => k + 1 \in H
  <2> SUFFICES ASSUME NEW k \in 0..(n - 1), Keeps(r[k], loaded, k)
               PROVE  k + 1 \in Nat /\ Keeps(r[k + 1], loaded, k + 1)
    OBVIOUS
  <2>1. PICK l \in 1..n : l = k + 1 /\ l - 1 = k
    OBVIOUS
  <2>2. r[l] = UnlessSeen(r[k], loaded[l])
    BY <1>3, <2>1
  <2>3. Keeps(r[l], loaded, l)
    BY <1>4, <2>1, <2>2, KeepsOneMore
  <2> QED
    BY <2>1, <2>3
<1>7. n \in H
  <2> HIDE DEF H
  <2>1. 0..n \subseteq H
    BY <1>5, <1>6, Merging!IntervalInduction
  <2> QED
    BY <2>1
<1> QED
  BY <1>1, <1>2, <1>7

-----------------------------------------------------------------------------
(* The tools of an agent *)

\* The agent has the tools of the servers it was connected to, merged.
Merged ==
  \/ ~_agent /\ _tools = << >>
  \/ \E order \in Seq(Servers) :
       /\ connected = Range(order)
       /\ _tools = MergedTools(_load_external_mcp_tools(order))

\* What the model that is being called was given.
BoundAsBuilt ==
  at = "calling" =>
    /\ bound.model # "openai" => bound.strict = {}
    /\ bound.model = "openai" /\ node = "agent_node" => bound.strict = _build_strict_tool_dicts

\* The servers are configured in some order.
LEMMA OrderOfServers ==
  ASSUME NEW order \in SetToAllKPermutations(Servers)
  PROVE  order \in Seq(Servers)
<1>1. PICK s \in SUBSET Servers : order \in [1..Cardinality(s) -> s]
  BY DEF SetToAllKPermutations, SetToSeqs
<1>2. IsFiniteSet(s)
  BY FS_Subset, ContextAssumption
<1>3. PICK n \in Nat : n = Cardinality(s)
  BY <1>2, FS_CardinalityType
<1>4. order \in [1..n -> Servers]
  BY <1>1, <1>3
<1> QED
  BY <1>4

\* Every step keeps both.
LEMMA MergedStep ==
  ASSUME Merged, [Next]_vars
  PROVE  Merged'
<1>1. CASE UNCHANGED <<_agent, _tools, connected>>
  BY <1>1 DEF Merged
<1>2. CASE Connects
  <2>1. PICK order \in SetToAllKPermutations(Servers) :
          /\ connected' = Range(order)
          /\ _tools' = MergedTools(_load_external_mcp_tools(order))
    BY <1>2 DEF Connects
  <2>2. order \in Seq(Servers)
    BY OrderOfServers
  <2> QED
    BY <2>1, <2>2 DEF Merged
<1>3. CASE StartRun
  BY <1>3 DEF StartRun, Merged
<1> QED
  BY <1>1, <1>2, <1>3 DEF Next, vars, context, EnterNode, Scans, ScanFails, NamesSkills, ConnectFails,
     RendersCatalog, CatalogFails, CallsLlm, RunsSkillTool, NextNode, RunEnds, StartRunAgain,
     SwitchesProvider, Invalidates, EditsDirectory

LEMMA BoundStep ==
  ASSUME BoundAsBuilt, [Next]_vars
  PROVE  BoundAsBuilt'
<1>1. CASE at' # "calling"
  BY <1>1 DEF BoundAsBuilt
<1>2. CASE CallsLlm
  <2>1. _tools' = _tools /\ node' = node
    BY <1>2 DEF CallsLlm, context
  <2>2. CASE node = "error_summary_node"
    BY <1>2, <2>1, <2>2 DEF CallsLlm, NotBound, BoundAsBuilt
  <2>3. CASE node # "error_summary_node"
    <3>1. /\ bound'.model = provider
          /\ bound'.strict = IF provider = "openai" THEN _build_strict_tool_dicts ELSE {}
      BY <1>2, <2>3 DEF CallsLlm, _resolve_strict_tool_schema
    <3>2. _build_strict_tool_dicts' = _build_strict_tool_dicts
      BY <2>1 DEF _build_strict_tool_dicts
    <3> QED
      BY <3>1, <3>2 DEF BoundAsBuilt
  <2> QED
    BY <2>2, <2>3
<1>3. CASE UNCHANGED <<at, node, bound, _tools>>
  BY <1>3 DEF BoundAsBuilt, _build_strict_tool_dicts
<1> QED
  BY <1>1, <1>2, <1>3 DEF Next, vars, context, EnterNode, Scans, ScanFails, NamesSkills, Connects, ConnectFails,
     RendersCatalog, CatalogFails, RunsSkillTool, NextNode, RunEnds, StartRun, StartRunAgain,
     SwitchesProvider, Invalidates, EditsDirectory

LEMMA ToolsOfAgent == Spec => [](Merged /\ BoundAsBuilt)
<1>1. Init => Merged /\ BoundAsBuilt
  BY DEF Init, Merged, BoundAsBuilt
<1>2. Merged /\ BoundAsBuilt /\ [Next]_vars => (Merged /\ BoundAsBuilt)'
  BY MergedStep, BoundStep
<1> QED
  BY <1>1, <1>2, PTL DEF Spec

\* The tools of a Context that has an agent, for whatever servers in whatever order.
LEMMA MergedTwice ==
  ASSUME NEW order \in Seq(Servers), NEW loaded, loaded = _load_external_mcp_tools(order)
  PROVE  /\ Len(loaded) \in Nat /\ DOMAIN loaded = 1..Len(loaded)
         /\ Keeps(MergedTools(loaded), loaded, Len(loaded))
<1>1. Len(loaded) \in Nat /\ DOMAIN loaded = 1..Len(loaded)
  BY LoadedTools
<1> QED
  BY <1>1, MergedKeeps

\* "Neither path can silently shadow another tool": the built-in tools keep their
\* places in front, and no two tools have one name (config.py:294-307).
THEOREM NoToolIsShadowed == Spec => []NoToolShadowed
<1>1. Merged => NoToolShadowed
  <2> SUFFICES ASSUME Merged, _agent PROVE
        /\ IsPrefix(BuiltIns, _tools)
        /\ \A i, j \in DOMAIN _tools : _tools[i].name = _tools[j].name => i = j
    BY DEF NoToolShadowed
  <2>1. PICK order \in Seq(Servers) : _tools = MergedTools(_load_external_mcp_tools(order))
    BY DEF Merged
  <2> DEFINE loaded == _load_external_mcp_tools(order)
  <2>2. Keeps(_tools, loaded, Len(loaded))
    BY <2>1, MergedTwice
  <2> HIDE DEF loaded
  <2> DEFINE T == Range(BuiltIns) \cup Range(loaded)
  <2>3. _tools \in Seq(T) /\ BuiltIns \in Seq(T)
    <3>1. BuiltIns \in Seq(Range(BuiltIns))
      BY ContextAssumption
    <3> QED
      BY <2>2, <3>1 DEF Keeps
  <2> HIDE DEF T
  <2>4. PICK b \in Nat : b = Len(BuiltIns)
    BY <2>3
  <2>5. /\ b <= Len(_tools) /\ \A i \in 1..b : _tools[i] = BuiltIns[i]
    BY <2>2, <2>4 DEF Keeps
  <2>6. \A i \in 1..b : _tools[i] \in T /\ BuiltIns[i] \in T
    BY <2>3, <2>4, <2>5
  <2>7. /\ SubSeq(_tools, 1, b) \in Seq(T) /\ SubSeq(BuiltIns, 1, b) \in Seq(T)
        /\ Len(SubSeq(_tools, 1, b)) = b /\ Len(SubSeq(BuiltIns, 1, b)) = b
        /\ \A i \in 1..b : SubSeq(_tools, 1, b)[i] = _tools[i] /\ SubSeq(BuiltIns, 1, b)[i] = BuiltIns[i]
    BY <2>6, SubSeqProperties
  <2>8. SubSeq(BuiltIns, 1, b) = SubSeq(_tools, 1, b)
    BY <2>5, <2>7, SeqEqual
  <2>9. IsPrefix(BuiltIns, _tools)
    BY <2>4, <2>5, <2>8 DEF IsPrefix
  <2> QED
    BY <2>2, <2>9 DEF Keeps
<1> QED
  BY <1>1, ToolsOfAgent, PTL

\* Several servers make a configuration of several entries.
LEMMA SeveralServers ==
  ASSUME NEW order \in Seq(Servers), Cardinality(Range(order)) > 1
  PROVE  Len(order) > 1
<1>1. PICK n \in Nat : n = Len(order) /\ DOMAIN order = 1..n
  OBVIOUS
<1>2. CASE n = 0
  <2>1. Range(order) = {}
    BY <1>1, <1>2 DEF Range
  <2>2. Cardinality(Range(order)) = 0
    BY <2>1, FS_EmptySet
  <2> QED
    BY <2>2
<1>3. CASE n = 1
  <2>1. Range(order) = {order[1]}
    BY <1>1, <1>3 DEF Range
  <2>2. Cardinality(Range(order)) = 1
    BY <2>1, FS_Singleton
  <2> QED
    BY <2>2
<1> QED
  BY <1>1, <1>2, <1>3

\* What a server's tool is offered as.
LEMMA OfferedTool ==
  ASSUME NEW s \in Servers, NEW k \in DOMAIN Offers[s], NEW many \in BOOLEAN
  PROVE  /\ IsTool(Offers[s][k]) /\ IsTool(Offered(s, k, many))
         /\ Offered(s, k, many).name = ToolName(Offers[s][k], many)
<1>1. IsTool(Offers[s][k])
  <2>1. Offers[s][k] \in Range(Offers[s])
    BY DEF Range
  <2> QED
    BY <2>1, ContextAssumption
<1> QED
  BY <1>1 DEF IsTool, Offered

\* Two servers that expose a common name can coexist (config.py:99-103).
THEOREM CommonNamesDoCoexist == Spec => []CommonNamesCoexist
<1>1. Merged => CommonNamesCoexist
  <2> SUFFICES ASSUME Merged, _agent, Cardinality(connected) > 1,
                      NEW s \in connected, NEW k \in DOMAIN Offers[s],
                      Offers[s][k].prefixed \notin NamesOf(BuiltIns),
                      \A t \in connected : \A j \in DOMAIN Offers[t] :
                        Offers[t][j].prefixed = Offers[s][k].prefixed => <<t, j>> = <<s, k>>
               PROVE  \E i \in DOMAIN _tools :
                        _tools[i] = [Offers[s][k] EXCEPT !.name = Offers[s][k].prefixed]
    BY DEF CommonNamesCoexist
  <2>1. PICK order \in Seq(Servers) :
          connected = Range(order) /\ _tools = MergedTools(_load_external_mcp_tools(order))
    BY DEF Merged
  <2>2. Len(order) > 1
    BY <2>1, SeveralServers
  <2> DEFINE loaded == _load_external_mcp_tools(order)
  <2>3. /\ Len(loaded) \in Nat /\ DOMAIN loaded = 1..Len(loaded)
        /\ Keeps(_tools, loaded, Len(loaded))
    BY <2>1, MergedTwice
  <2>4. \A x : x \in Range(loaded) <=>
          \E t \in connected : \E j \in DOMAIN Offers[t] : x = Offered(t, j, TRUE)
    <3>1. \A x : x \in Range(loaded) <=>
            \E t \in Range(order) : \E j \in DOMAIN Offers[t] : x = Offered(t, j, Len(order) > 1)
      BY LoadedTools
    <3>2. (Len(order) > 1) = TRUE
      BY <2>2
    <3> HIDE DEF loaded
    <3> QED
      BY <2>1, <3>1, <3>2
  <2> HIDE DEF loaded
  <2>5. connected \subseteq Servers
    BY <2>1 DEF Range
  <2>6. \A t \in connected : \A j \in DOMAIN Offers[t] : Offered(t, j, TRUE).name = Offers[t][j].prefixed
    BY <2>5, OfferedTool DEF ToolName
  <2>7. PICK i \in DOMAIN _tools : _tools[i].name = Offers[s][k].prefixed
    <3>1. PICK l \in 1..Len(loaded) : loaded[l] = Offered(s, k, TRUE)
      BY <2>3, <2>4 DEF Range
    <3>2. loaded[l].name \in NamesOf(_tools)
      BY <2>3 DEF Keeps
    <3> QED
      BY <2>6, <3>1, <3>2 DEF NamesOf
  <2>8. _tools[i] \in Range(BuiltIns) \cup Range(loaded)
    BY <2>3 DEF Keeps
  <2>9. _tools[i] \notin Range(BuiltIns)
    BY <2>7 DEF NamesOf, Range
  <2>10. PICK t \in connected : \E j \in DOMAIN Offers[t] : _tools[i] = Offered(t, j, TRUE)
    BY <2>4, <2>8, <2>9
  <2>11. PICK j \in DOMAIN Offers[t] : _tools[i] = Offered(t, j, TRUE)
    BY <2>10
  <2>12. t = s /\ j = k
    BY <2>6, <2>7, <2>11
  <2>13. _tools[i] = [Offers[s][k] EXCEPT !.name = Offers[s][k].prefixed]
    BY <2>11, <2>12 DEF Offered, ToolName
  <2> QED
    BY <2>13
<1> QED
  BY <1>1, ToolsOfAgent, PTL

\* A model that is not OpenAI's gets no strict schema, OpenAI's gets it for exactly
\* the tools whose author allowed it, whenever the provider is switched
\* (config.py:342-349, base_agent.py:65-76 and 125-137).
THEOREM StrictSchemasFit == Spec => []StrictFitsModel
<1>1. Merged /\ BoundAsBuilt => StrictFitsModel
  <2> SUFFICES ASSUME Merged, BoundAsBuilt, at = "calling", bound.model = "openai",
                      node = "agent_node", NEW tool \in Range(_tools)
               PROVE  tool.name \in bound.strict <=> tool.strict # "no"
    BY DEF StrictFitsModel, BoundAsBuilt
  <2>1. bound.strict = {t.name : t \in {u \in Range(_tools) : AllowsStrict(u)}}
    BY DEF BoundAsBuilt, _build_strict_tool_dicts
  <2>2. PICK order \in Seq(Servers) : _tools = MergedTools(_load_external_mcp_tools(order))
    BY DEF Merged, Range
  <2> DEFINE loaded == _load_external_mcp_tools(order)
  <2>3. Keeps(_tools, loaded, Len(loaded))
    BY <2>2, MergedTwice
  <2>4. \A x \in Range(loaded) : IsTool(x)
    <3>1. Range(order) \subseteq Servers
      BY DEF Range
    <3>2. ASSUME NEW x \in Range(loaded) PROVE IsTool(x)
      <4>1. PICK s \in Range(order) : \E k \in DOMAIN Offers[s] : x = Offered(s, k, Len(order) > 1)
        BY LoadedTools
      <4>2. PICK k \in DOMAIN Offers[s] : x = Offered(s, k, Len(order) > 1)
        BY <4>1
      <4>3. CASE Len(order) > 1
        <5>1. (Len(order) > 1) = TRUE
          BY <4>3
        <5> QED
          BY <3>1, <4>2, <5>1, OfferedTool
      <4>4. CASE ~(Len(order) > 1)
        <5>1. (Len(order) > 1) = FALSE
          BY <4>4
        <5> QED
          BY <3>1, <4>2, <5>1, OfferedTool
      <4> QED
        BY <4>3, <4>4
    <3> QED
      BY <3>2
  <2> HIDE DEF loaded
  <2>5. tool \in Range(BuiltIns) \cup Range(loaded)
    BY <2>3 DEF Keeps, Range
  <2>6. tool.strict \in {"no", "metadata", "_meta"}
    BY <2>4, <2>5, ContextAssumption DEF IsTool
  <2>7. \A t \in Range(_tools) : t.name = tool.name => t = tool
    BY <2>3 DEF Keeps, Range
  <2> QED
    BY <2>1, <2>6, <2>7 DEF AllowsStrict
<1> QED
  BY <1>1, ToolsOfAgent, PTL

=============================================================================
