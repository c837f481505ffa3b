------------------------------- MODULE Explorer -------------------------------
(***************************************************************************)
(* A connection in the explorer of the EL panel (crates/dbt_ui/src/el/     *)
(* panel.rs), listed level by level: its databases, the schemas of each,   *)
(* the tables of each schema.  A level is listed by a background job that  *)
(* reads through a cache in Redis (listing_cache.rs), and its answer is    *)
(* taken by a foreground task; a refresh drops cached listings first, in a *)
(* job of its own.  Meanwhile the user unfolds, refreshes, and changes the *)
(* environment, and other programs change the database.                    *)
(*                                                                         *)
(* A job blocks: one that began goes on when its task is dropped, and      *)
(* still stores what it listed.                                            *)
(***************************************************************************)
EXTENDS Naturals, Sequences, FiniteSets, SequencesExt

CONSTANTS
    None,        \* Option::None
    Profiles,    \* environments: what the connection's definition may be
    Databases,   \* of the connection
    Schemas,     \* of each database
    PinnedIn,    \* profile -> the database its definition names, or None
    MaxClicks,   \* what the user does, at most
    MaxChanges,  \* changes of the catalog in the database, at most
    MaxFaults    \* failures of Redis and of listings, at most

VARIABLES
    panel,    \* the connection's fields of the panel, and its tasks
    profile,  \* the environment in force
    cache,    \* profile -> level -> the version of the catalog stored
    orphans,  \* jobs that go on without a task
    catalog,  \* the version of the catalog in the database
    asked,    \* the last refresh, while nothing crossed it
    bounds    \* clicks and faults so far

vars == <<panel, profile, cache, orphans, catalog, asked, bounds>>

-----------------------------------------------------------------------------
(* Data *)

\* A level is the path of what is listed: <<>> the databases, <<d>> the schemas
\* of d, <<d, s>> the tables of s.
Root == <<>>
Levels == {Root} \cup {<<d>> : d \in Databases} \cup {<<d, s>> : d \in Databases, s \in Schemas}
Children(lv) == {l \in Levels : Len(l) = Len(lv) + 1 /\ IsPrefix(lv, l)}
Under(scope) == {l \in Levels : IsPrefix(scope, l)}

\* The keys of refresh tasks: a level, or the whole panel.
All == <<None>>
Scopes == Levels \cup {All}

\* Listing: its state, the environment and the version of the catalog listed.
Unlisted == [state |-> "none", profile |-> None, version |-> 0]
Loading == [state |-> "loading", profile |-> None, version |-> 0]
Failed == [state |-> "failed", profile |-> None, version |-> 0]
Loaded(p, v) == [state |-> "loaded", profile |-> p, version |-> v]
Listing == [state : {"none", "loading", "failed", "loaded"},
            profile : Profiles \cup {None}, version : Nat]

\* A load task and its job: "listing" is what it has listed, or its failure.
Load == [phase : {"none", "ready", "listing", "storing", "done"}, epoch : Nat, listing : Listing]
NoLoad == [phase |-> "none", epoch |-> 0, listing |-> Unlisted]

Refresh == [phase : {"none", "ready", "done"}, epoch : Nat, reloads : BOOLEAN]
NoRefresh == [phase |-> "none", epoch |-> 0, reloads |-> FALSE]

Panel == [expanded : BOOLEAN, toggled : SUBSET Levels, tree : [Levels -> Listing],
          tables_epoch : Nat, loads : [Levels -> Load], refreshes : [Scopes -> Refresh]]

Orphan == [level : Levels, phase : {"listing", "storing"}, listing : Listing]

ASSUME ExplorerAssumption ==
    /\ None \notin Profiles \cup Databases
    /\ Databases # {} /\ Schemas # {} /\ Profiles # {}
    /\ PinnedIn \in [Profiles -> Databases \cup {None}]
    /\ MaxClicks \in Nat /\ MaxChanges \in Nat /\ MaxFaults \in Nat

-----------------------------------------------------------------------------
(* Loading *)

\* What a listing of lv names: a pinned database is the only one.
Entries(lv) ==
    IF lv = Root /\ PinnedIn[profile] # None THEN {<<PinnedIn[profile]>>} ELSE Children(lv)
Parent(lv) == SubSeq(lv, 1, Len(lv) - 1)

\* A level with a single entry starts unfolded.
Open(p, lv) == (Cardinality(Entries(Parent(lv))) = 1) # (lv \in p.toggled)

\* load_schemas and load_schema_tables of each level in S: a task replaces the
\* one there was.
LoadLevels(p, S) ==
    [p EXCEPT !.tree = [lv \in Levels |-> IF lv \in S THEN Loading ELSE @[lv]],
              !.loads = [lv \in Levels |->
                            IF lv \in S
                            THEN [phase |-> "ready", epoch |-> p.tables_epoch, listing |-> Unlisted]
                            ELSE @[lv]]]

\* load_databases
LoadDatabases(p) ==
    LET pinned == PinnedIn[profile]
    IN  IF pinned # None
        THEN LoadLevels([p EXCEPT !.tree[Root] = Loaded(profile, catalog)], {<<pinned>>})
        ELSE LoadLevels(p, {Root})

\* A variant of Cut: jobs that did not begin, or have ended, too.
CutAll(p, p2) ==
    {[level |-> lv, phase |-> p.loads[lv].phase, listing |-> p.loads[lv].listing] :
        lv \in {l \in Levels : p.loads[l] # p2.loads[l] /\ p.loads[l].phase # "none"}}

\* The jobs of p that go on although p2 has other tasks in their place.
Cut(p, p2) ==
    {[level |-> lv, phase |-> p.loads[lv].phase, listing |-> p.loads[lv].listing] :
        lv \in {l \in Levels : p.loads[l] # p2.loads[l] /\ p.loads[l].phase \in {"listing", "storing"}}}

Becomes(p) ==
    /\ panel' = p
    /\ orphans' = orphans \cup Cut(panel, p)

-----------------------------------------------------------------------------
(* Jobs *)

Fault == bounds.faults < MaxFaults /\ bounds' = [bounds EXCEPT !.faults = @ + 1]

SetLoad(lv, phase, listing) ==
    panel' = [panel EXCEPT !.loads[lv].phase = phase, !.loads[lv].listing = listing]

\* read_through asks Redis first; what Redis does not answer is listed.
Look(lv) ==
    /\ panel.loads[lv].phase = "ready"
    /\ \/ /\ IF cache[profile][lv] # None
             THEN SetLoad(lv, "done", Loaded(profile, cache[profile][lv]))
             ELSE SetLoad(lv, "listing", Loaded(profile, 0))
          /\ UNCHANGED <<asked, bounds>>
       \/ /\ cache[profile][lv] # None /\ Fault
          /\ SetLoad(lv, "listing", Loaded(profile, 0))
          /\ UNCHANGED asked
    /\ UNCHANGED <<profile, cache, orphans, catalog>>

\* The database is listed; a failure is not stored.
List(lv) ==
    /\ panel.loads[lv].phase = "listing"
    /\ \/ /\ SetLoad(lv, "storing", [panel.loads[lv].listing EXCEPT !.version = catalog])
          /\ UNCHANGED bounds
       \/ Fault /\ SetLoad(lv, "done", Failed)
    /\ UNCHANGED <<profile, cache, orphans, catalog, asked>>

Store(lv) ==
    /\ panel.loads[lv].phase = "storing"
    /\ LET l == panel.loads[lv].listing
       IN  /\ \/ cache' = [cache EXCEPT ![l.profile][lv] = l.version] /\ UNCHANGED bounds
              \/ Fault /\ UNCHANGED cache
           /\ SetLoad(lv, "done", l)
    /\ UNCHANGED <<profile, orphans, catalog, asked>>

\* What a job without a task still does.
OrphanLists(o) ==
    /\ o.phase = "listing"
    /\ \/ /\ orphans' = (orphans \ {o})
                \cup {[o EXCEPT !.phase = "storing", !.listing.version = catalog]}
          /\ UNCHANGED bounds
       \/ Fault /\ orphans' = orphans \ {o}
    /\ UNCHANGED <<panel, profile, cache, catalog, asked>>

OrphanStores(o) ==
    /\ o.phase = "storing"
    /\ orphans' = orphans \ {o}
    /\ \/ /\ cache' = [cache EXCEPT ![o.listing.profile][o.level] = o.listing.version]
          /\ UNCHANGED bounds
       \/ Fault /\ UNCHANGED cache
    /\ UNCHANGED <<panel, profile, catalog, asked>>

-----------------------------------------------------------------------------
(* Tasks *)

\* What an answer at lv unfolds: one database, or every schema, that is open
\* and not listed.
Unfolds(p, lv) ==
    LET open == {l \in Entries(lv) : Open(p, l) /\ p.tree[l] = Unlisted}
    IN  IF p.tree[lv].state # "loaded" \/ open = {} THEN {{}}
        ELSE IF lv = Root THEN {{l} : l \in open}
        ELSE {open}

\* Variants of Answer: an answer of another environment is taken too; a failure
\* is not shown.
AnswerAnyEpoch(lv) ==
    /\ panel.loads[lv].phase = "done"
    /\ LET p == [panel EXCEPT !.tree[lv] = panel.loads[lv].listing, !.loads[lv] = NoLoad]
       IN  \E S \in Unfolds(p, lv) : Becomes(LoadLevels(p, S))
    /\ UNCHANGED <<profile, cache, catalog, asked, bounds>>
AnswerHidesFailure(lv) ==
    /\ panel.loads[lv].phase = "done"
    /\ IF panel.loads[lv].epoch # panel.tables_epoch \/ panel.loads[lv].listing = Failed
       THEN Becomes([panel EXCEPT !.loads[lv] = NoLoad])
       ELSE LET p == [panel EXCEPT !.tree[lv] = panel.loads[lv].listing, !.loads[lv] = NoLoad]
            IN  \E S \in Unfolds(p, lv) : Becomes(LoadLevels(p, S))
    /\ UNCHANGED <<profile, cache, catalog, asked, bounds>>

\* The task takes its job's answer, if its environment is still the one shown.
Answer(lv) ==
    /\ panel.loads[lv].phase = "done"
    /\ IF panel.loads[lv].epoch # panel.tables_epoch
       THEN Becomes([panel EXCEPT !.loads[lv] = NoLoad])
       ELSE LET p == [panel EXCEPT !.tree[lv] = panel.loads[lv].listing, !.loads[lv] = NoLoad]
            IN  \E S \in Unfolds(p, lv) : Becomes(LoadLevels(p, S))
    /\ UNCHANGED <<profile, cache, catalog, asked, bounds>>

\* A variant of Dropped: the level, and not what is listed under it.
DroppedAlone(scope) == IF scope = All THEN Levels ELSE {scope}

\* The levels whose listings listing_cache::invalidate drops, for every
\* definition of the connection.
Dropped(scope) == IF scope = All THEN Levels ELSE Under(scope)

Invalidate(scope) ==
    /\ panel.refreshes[scope].phase = "ready"
    /\ panel' = [panel EXCEPT !.refreshes[scope].phase = "done"]
    /\ \/ /\ cache' = [p \in Profiles |-> [lv \in Levels |->
                          IF lv \in Dropped(scope) THEN None ELSE cache[p][lv]]]
          /\ UNCHANGED <<asked, bounds>>
       \/ Fault /\ asked' = None /\ UNCHANGED cache
    /\ UNCHANGED <<profile, orphans, catalog>>

\* invalidate_then's reload
Reload(scope) ==
    /\ panel.refreshes[scope].phase = "done"
    /\ LET r == panel.refreshes[scope]
           p == [panel EXCEPT !.refreshes[scope] = NoRefresh]
       IN  IF r.epoch # panel.tables_epoch \/ ~r.reloads THEN Becomes(p)
           ELSE IF scope \in {Root, All} THEN Becomes(LoadDatabases(p))
           ELSE Becomes(LoadLevels(p, {scope}))
    /\ UNCHANGED <<profile, cache, catalog, asked, bounds>>

-----------------------------------------------------------------------------
(* The user, and other programs *)

Click == bounds.clicks < MaxClicks /\ bounds' = [bounds EXCEPT !.clicks = @ + 1]

Shown(lv) ==
    /\ panel.expanded
    /\ lv # Root => lv \in Entries(Parent(lv)) /\ panel.tree[Parent(lv)].state = "loaded"
    /\ Len(lv) = 2 => Open(panel, <<lv[1]>>)

\* toggle_connection
ToggleConnection ==
    /\ Click
    /\ LET p == [panel EXCEPT !.expanded = ~@]
       IN  IF p.expanded /\ p.tree[Root] = Unlisted THEN Becomes(LoadDatabases(p)) ELSE Becomes(p)
    /\ asked' = None
    /\ UNCHANGED <<profile, cache, catalog>>

\* toggle_database and toggle_schema
Toggle(lv) ==
    /\ Click /\ lv # Root /\ Shown(lv)
    /\ LET p == [panel EXCEPT !.toggled = IF lv \in @ THEN @ \ {lv} ELSE @ \cup {lv}]
       IN  IF ~Open(panel, lv) /\ panel.tree[lv] = Unlisted
           THEN Becomes(LoadLevels(p, {lv})) ELSE Becomes(p)
    /\ asked' = None
    /\ UNCHANGED <<profile, cache, catalog>>

Busy ==
    \/ \E lv \in Levels : panel.loads[lv].phase # "none"
    \/ \E scope \in Scopes : panel.refreshes[scope].phase # "none"
    \/ orphans # {}

\* The refresh is noted when nothing else is under way.
Asks(scope) ==
    asked' = IF Busy THEN None ELSE [scope |-> IF scope = All THEN Root ELSE scope, version |-> catalog]

\* refresh_connection, refresh_database and refresh_schema: the button is there
\* while the level is unfolded.
RefreshLevel(lv) ==
    /\ Click /\ Shown(lv) /\ (lv # Root => Open(panel, lv))
    /\ Becomes([panel EXCEPT !.tree = [l \in Levels |-> IF l = lv THEN Loading
                                                        ELSE IF l \in Under(lv) THEN Unlisted
                                                        ELSE @[l]],
                             !.refreshes[lv] = [phase |-> "ready", epoch |-> panel.tables_epoch,
                                                reloads |-> TRUE]])
    /\ Asks(lv)
    /\ UNCHANGED <<profile, cache, catalog>>

\* The Refresh of the panel's header
RefreshAll ==
    /\ Click
    /\ Becomes([panel EXCEPT !.tree = [l \in Levels |-> Unlisted],
                             !.refreshes[All] = [phase |-> "ready", epoch |-> panel.tables_epoch,
                                                 reloads |-> panel.expanded]])
    /\ Asks(All)
    /\ UNCHANGED <<profile, cache, catalog>>

\* A variant of ChangeEnvironment: the tree stays.
ChangeKeepsTree(p) ==
    /\ Click
    /\ profile' = p
    /\ Becomes([panel EXCEPT !.tables_epoch = @ + 1])
    /\ asked' = None
    /\ UNCHANGED <<cache, catalog>>

\* switch_profile and connections_changed
ChangeEnvironment(p) ==
    /\ Click
    /\ profile' = p
    /\ Becomes([panel EXCEPT !.tree = [l \in Levels |-> Unlisted], !.expanded = FALSE,
                             !.toggled = {}, !.tables_epoch = @ + 1])
    /\ asked' = None
    /\ UNCHANGED <<cache, catalog>>

\* Another program changes what the database holds.
CatalogChanges ==
    /\ catalog < MaxChanges
    /\ catalog' = catalog + 1
    /\ UNCHANGED <<panel, profile, cache, orphans, asked, bounds>>

-----------------------------------------------------------------------------
\* An earlier session may have listed the whole catalog into the cache.
Init ==
    /\ panel = [expanded |-> FALSE, toggled |-> {}, tree |-> [lv \in Levels |-> Unlisted],
                tables_epoch |-> 0, loads |-> [lv \in Levels |-> NoLoad],
                refreshes |-> [s \in Scopes |-> NoRefresh]]
    /\ profile \in Profiles
    /\ \E v \in {None, 0} : cache = [p \in Profiles |-> [lv \in Levels |-> v]]
    /\ orphans = {} /\ catalog = 0 /\ asked = None
    /\ bounds = [clicks |-> 0, faults |-> 0]

Work ==
    \/ \E lv \in Levels : Look(lv) \/ List(lv) \/ Store(lv) \/ Answer(lv)
    \/ \E scope \in Scopes : Invalidate(scope) \/ Reload(scope)
    \/ \E o \in orphans : OrphanLists(o) \/ OrphanStores(o)

User ==
    \/ ToggleConnection \/ RefreshAll
    \/ \E lv \in Levels : Toggle(lv) \/ RefreshLevel(lv)
    \/ \E p \in Profiles : ChangeEnvironment(p)

Next == User \/ CatalogChanges \/ Work

Spec == Init /\ [][Next]_vars

\* Jobs end (Redis and listings have time limits) and the executors run what
\* is ready.
FairSpec == Spec /\ WF_vars(Work)

-----------------------------------------------------------------------------
(* Properties *)

\* Every variable has its type.
TypeOK ==
    /\ panel \in Panel
    /\ profile \in Profiles
    /\ cache \in [Profiles -> [Levels -> Nat \cup {None}]]
    /\ orphans \in SUBSET Orphan
    /\ catalog \in Nat

\* Nothing shown was listed for another environment, whichever listings and
\* refreshes were under way when it changed (tables_epoch), and through a
\* cache that holds the listings of every environment.
OwnEnvironment ==
    \A lv \in Levels : panel.tree[lv].state = "loaded" => panel.tree[lv].profile = profile

\* A level that says it is loading has a task, of the environment shown, that
\* ends it: no refresh, reload or change leaves it so.
LoadingIsServed ==
    \A lv \in Levels :
        panel.tree[lv] = Loading =>
            \/ panel.loads[lv].phase # "none" /\ panel.loads[lv].epoch = panel.tables_epoch
            \/ panel.refreshes[lv].phase # "none" /\ panel.refreshes[lv].epoch = panel.tables_epoch

\* "A refresh must reach the database, not the cache it is refreshing": when
\* nothing else was under way or happened since, and Redis answered, no level of
\* what was refreshed shows, at any time, a listing older than the click.
RefreshReached ==
    asked # None =>
        \A lv \in Under(asked.scope) :
            panel.tree[lv].state = "loaded" => panel.tree[lv].version >= asked.version

\* Whatever fails, the explorer comes to rest with no level left loading.
Settles == <>[](\A lv \in Levels : panel.tree[lv] # Loading)
===============================================================================
