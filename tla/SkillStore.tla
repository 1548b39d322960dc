------------------------------ MODULE SkillStore ------------------------------
(***************************************************************************)
(* The two caches of the SkillStore (skills.py) over a directory that is   *)
(* edited meanwhile: scan() fills the metadata cache, load() reads skills  *)
(* one by one into the content cache, invalidate() drops both.  The store  *)
(* is "designed for single-threaded async use": each call is one step.     *)
(***************************************************************************)
EXTENDS Naturals, Sequences, Functions

CONSTANTS
  Paths,       \* where a SKILL.md may be
  Skills,      \* names a skill can have
  MaxEdits     \* bound: edits of the directory

ASSUME EditBound == MaxEdits \in Nat

\* A name that stands for no skill.
ASSUME NoneIsNoSkill == "none" \notin Skills

VARIABLES
  disk,        \* what is at each path
  edits,       \* edits so far; the text of a file is the edit that wrote it
  _scanned, _metadata_cache, _content_cache,
  since,       \* ghost: what was on disk since the caches were last emptied
  invalidated  \* ghost: invalidate() was called on this store

caches == <<_scanned, _metadata_cache, _content_cache>>

\* The frontmatter's name, or the directory's when there is none.
Files == [name : Skills, text : 0..MaxEdits]
NoSkill == [name |-> "none", text |-> 0]   \* no SKILL.md, or one that does not parse
Nothing == [n \in {} |-> {}]

SkillPaths == {p \in Paths : disk[p] # NoSkill}
Names == {disk[p].name : p \in SkillPaths}
OnDisk == {[path |-> p, file |-> disk[p]] : p \in SkillPaths}

EmptyStore ==
  /\ _scanned' = FALSE /\ _metadata_cache' = Nothing /\ _content_cache' = Nothing
  /\ since' = OnDisk

-----------------------------------------------------------------------------

\* Of several files with one name, the last that rglob comes to is kept.
MayFind ==
  {found \in [Names -> SkillPaths] : \A n \in Names : disk[found[n]].name = n}

CacheHit == _scanned /\ _metadata_cache # Nothing

Rescan == _metadata_cache' \in MayFind /\ _content_cache' = Nothing /\ _scanned' = TRUE

scan ==
  /\ \/ CacheHit /\ UNCHANGED caches
     \/ ~CacheHit /\ Rescan
  /\ UNCHANGED <<disk, edits, since, invalidated>>

\* Mutated form: the flag is set before the walk.
MarkedFirst == _scanned' = TRUE

\* The flag is set at the end of the walk, so not by one that raised.
MarkedByRaise == UNCHANGED _scanned

\* A walk that raises keeps what it had registered.
ScanRaises ==
  /\ ~CacheHit
  /\ \E found \in MayFind, part \in SUBSET Names : _metadata_cache' = Restrict(found, part)
  /\ _content_cache' = Nothing /\ MarkedByRaise
  /\ UNCHANGED <<disk, edits, since, invalidated>>

\* load, get_skill_catalog and get_skill_names scan if nobody did.
EnsureScanned ==
  \/ _scanned /\ UNCHANGED <<_scanned, _metadata_cache>>
  \/ ~_scanned /\ _metadata_cache' \in MayFind /\ _scanned' = TRUE

get_skill_catalog ==
  /\ EnsureScanned
  /\ _content_cache' = IF _scanned THEN _content_cache ELSE Nothing
  /\ UNCHANGED <<disk, edits, since, invalidated>>

get_skill_names == get_skill_catalog

WithSkill(cache, name, path) ==
  [n \in DOMAIN cache \cup {name} |->
     IF n = name THEN [path |-> path, file |-> disk[path]] ELSE cache[n]]

\* A skill whose file is gone, or no longer parses, is not cached.
load(name) ==
  /\ \/ name \in DOMAIN _content_cache /\ UNCHANGED caches
     \/ /\ name \notin DOMAIN _content_cache
        /\ EnsureScanned
        /\ LET kept == IF _scanned THEN _content_cache ELSE Nothing
               known == name \in DOMAIN _metadata_cache'
           IN  _content_cache' =
                 IF known /\ disk[_metadata_cache'[name]] # NoSkill
                 THEN WithSkill(kept, name, _metadata_cache'[name]) ELSE kept
  /\ UNCHANGED <<disk, edits, since, invalidated>>

\* Mutated form: skills that were loaded stay.
KeepContent == _content_cache

ContentAfterInvalidate == Nothing

invalidate ==
  /\ _metadata_cache' = Nothing /\ _scanned' = FALSE
  /\ _content_cache' = ContentAfterInvalidate
  /\ since' = OnDisk /\ invalidated' = TRUE
  /\ UNCHANGED <<disk, edits>>

\* Somebody writes, breaks, renames or removes a SKILL.md.
Edit ==
  /\ edits < MaxEdits /\ edits' = edits + 1
  /\ \E p \in Paths, new \in [name : Skills, text : {edits + 1}] \cup {NoSkill} :
       disk' = [disk EXCEPT ![p] = new]
  /\ since' = since \cup OnDisk'
  /\ UNCHANGED <<caches, invalidated>>

StoreInit ==
  /\ disk \in [Paths -> [name : Skills, text : {0}] \cup {NoSkill}] /\ edits = 0
  /\ _scanned = FALSE /\ _metadata_cache = Nothing /\ _content_cache = Nothing
  /\ since = OnDisk /\ invalidated = FALSE

\* Skills of the metadata cache that the file it has for them still describes.
Described == {n \in DOMAIN _metadata_cache : disk[_metadata_cache[n]].name = n}

\* Skills that an edit took a SKILL.md from.
Deprived == {n \in Skills : \E p \in Paths : disk[p].name = n /\ disk'[p].name # n}

-----------------------------------------------------------------------------

\* Only skills of the metadata cache are in the content cache, under the path
\* the catalog has for them (skills.py:198-203).
StoreTypeOK ==
  /\ disk \in [Paths -> Files \cup {NoSkill}] /\ edits \in 0..MaxEdits
  /\ _scanned \in BOOLEAN /\ invalidated \in BOOLEAN
  /\ DOMAIN _metadata_cache \subseteq Skills
  /\ \A n \in DOMAIN _metadata_cache : _metadata_cache[n] \in Paths
  /\ DOMAIN _content_cache \subseteq DOMAIN _metadata_cache
  /\ \A n \in DOMAIN _content_cache : _content_cache[n].path = _metadata_cache[n]

\* The model is served no text older than the last invalidate(): "the next
\* scan() or load() will re-read from disk" (skills.py:433-435).
ServedIsCurrent == \A n \in DOMAIN _content_cache : _content_cache[n] \in since

=============================================================================
