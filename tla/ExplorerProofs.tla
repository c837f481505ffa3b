---------------------------- MODULE ExplorerProofs ----------------------------
(***************************************************************************)
(* The safety of the explorer, for any databases, schemas, environments,   *)
(* clicks, failures and changes of the catalog: nothing is shown that      *)
(* another environment listed, no level is left loading without a task     *)
(* that ends it, and a refresh that nothing crossed reaches the database.  *)
(***************************************************************************)
EXTENDS Explorer, TLAPS

\* What the panel p shows, and is about to show, was listed for the environment
\* pr; a listing of an earlier environment is known by its epoch.
Own(p, pr) ==
    /\ \A lv \in Levels : p.tree[lv].state = "loaded" => p.tree[lv].profile = pr
    /\ \A lv \in Levels :
          /\ p.loads[lv].epoch <= p.tables_epoch
          /\ p.loads[lv].listing.state # "loading"
          /\ p.loads[lv].epoch = p.tables_epoch /\ p.loads[lv].listing.state = "loaded"
                => p.loads[lv].listing.profile = pr

\* A refresh of one level always lists it again.
Reloads(p) == \A lv \in Levels : p.refreshes[lv].phase # "none" => p.refreshes[lv].reloads

\* The level lv has a task that ends its loading.
Served(p, lv) ==
    p.tree[lv] = Loading =>
        \/ p.loads[lv].phase # "none" /\ p.loads[lv].epoch = p.tables_epoch
        \/ p.refreshes[lv].phase # "none" /\ p.refreshes[lv].epoch = p.tables_epoch

Good(p, pr) == Own(p, pr) /\ Reloads(p) /\ \A lv \in Levels : Served(p, lv)

\* A refresh of the level sc that nothing crossed, before its listings are
\* dropped: nothing else is under way, and nothing of it is shown.
Dropping(sc) ==
    /\ orphans = {} /\ \A lv \in Levels : panel.loads[lv].phase = "none"
    /\ \A s \in Scopes : panel.refreshes[s].phase # "none" =>
          /\ panel.refreshes[s].phase = "ready" /\ Under(sc) \subseteq Dropped(s)
          /\ \A s2 \in Scopes : panel.refreshes[s2].phase # "none" => s2 = s
    /\ \A lv \in Under(sc) : panel.tree[lv].state # "loaded"

\* ... and after: whatever is shown, cached, or about to be either, of what was
\* refreshed, is of the version v or a later one.
AsNew(l, v) == l.state = "loaded" => l.version >= v
Ahead(p, sc, v) ==
    /\ \A s \in Scopes : p.refreshes[s].phase # "ready"
    /\ \A lv \in Under(sc) :
          /\ AsNew(p.tree[lv], v)
          /\ p.loads[lv].phase = "storing" => p.loads[lv].listing.version >= v
          /\ p.loads[lv].phase = "done" => AsNew(p.loads[lv].listing, v)
Since(sc, v) ==
    /\ Ahead(panel, sc, v)
    /\ \A pr \in Profiles : \A lv \in Under(sc) : cache[pr][lv] # None => cache[pr][lv] >= v
    /\ \A o \in orphans : o.level \in Under(sc) /\ o.phase = "storing" => o.listing.version >= v

Refreshing ==
    asked # None =>
        /\ asked \in [scope : Levels, version : Nat] /\ asked.version <= catalog
        /\ Dropping(asked.scope) \/ Since(asked.scope, asked.version)

IInv == TypeOK /\ Good(panel, profile) /\ Refreshing

-----------------------------------------------------------------------------
(* Levels *)

\* The refresh of everything is the key of no level.
LEMMA LevelFacts ==
    /\ Root \in Levels /\ All \notin Levels
    /\ \A pr \in Profiles : PinnedIn[pr] # None => <<PinnedIn[pr]>> \in Levels
    /\ \A sc \in Levels : Under(sc) \subseteq Levels
<1>1. Root \in Levels /\ \A sc \in Levels : Under(sc) \subseteq Levels
  BY DEF Levels, Under
<1>2. All \notin Levels
  <2>1. <<None>> # Root
    BY DEF Root
  <2>2. ASSUME NEW d \in Databases PROVE <<None>> # <<d>>
    BY ExplorerAssumption
  <2>3. ASSUME NEW d \in Databases, NEW s \in Schemas PROVE <<None>> # <<d, s>>
    OBVIOUS
  <2> QED BY <2>1, <2>2, <2>3 DEF All, Levels
<1>3. ASSUME NEW pr \in Profiles, PinnedIn[pr] # None PROVE <<PinnedIn[pr]>> \in Levels
  <2>1. PinnedIn[pr] \in Databases
    BY <1>3, ExplorerAssumption
  <2> QED BY <2>1 DEF Levels
<1> QED BY <1>1, <1>2, <1>3

\* A level is under itself.
LEMMA UnderSelf == ASSUME NEW lv \in Levels PROVE lv \in Under(lv)
<1>1. Len(lv) \in Nat
  BY DEF Levels, Root
<1>2. IsPrefix(lv, lv)
  BY <1>1 DEF IsPrefix
<1> QED BY <1>2 DEF Under

\* The listings and tasks the model writes have their types.
LEMMA ListingTypes ==
    /\ Unlisted \in Listing /\ Loading \in Listing /\ Failed \in Listing
    /\ \A pr \in Profiles, v \in Nat : Loaded(pr, v) \in Listing
    /\ NoLoad \in Load /\ NoRefresh \in Refresh
BY DEF Unlisted, Loading, Failed, Loaded, Listing, NoLoad, Load, NoRefresh, Refresh

\* What an answer unfolds are levels.
LEMMA UnfoldsLevels ==
    ASSUME TypeOK, NEW p, NEW lv \in Levels, NEW S \in Unfolds(p, lv)
    PROVE  S \in SUBSET Levels
<1>1. Entries(lv) \subseteq Levels
  BY LevelFacts DEF Entries, Children, TypeOK
<1> QED BY <1>1 DEF Unfolds

-----------------------------------------------------------------------------
(* Panels *)

\* LoadLevels, field by field.
LEMMA LoadLevelsFields ==
    ASSUME NEW p \in Panel, NEW S \in SUBSET Levels
    PROVE  LET q == LoadLevels(p, S)
           IN  /\ q \in Panel
               /\ q.tables_epoch = p.tables_epoch /\ q.refreshes = p.refreshes
               /\ \A lv \in S :
                     /\ q.tree[lv] = Loading
                     /\ q.loads[lv] = [phase |-> "ready", epoch |-> p.tables_epoch,
                                       listing |-> Unlisted]
               /\ \A lv \in Levels \ S : q.tree[lv] = p.tree[lv] /\ q.loads[lv] = p.loads[lv]
<1> DEFINE tree == [lv \in Levels |-> IF lv \in S THEN Loading ELSE p.tree[lv]]
           new == [phase |-> "ready", epoch |-> p.tables_epoch, listing |-> Unlisted]
           loads == [lv \in Levels |-> IF lv \in S THEN new ELSE p.loads[lv]]
           q == [p EXCEPT !.tree = tree, !.loads = loads]
<1>1. LoadLevels(p, S) = q
  BY DEF LoadLevels
<1>2. new \in Load
  BY ListingTypes DEF Load, Panel
<1> HIDE DEF new
<1>3. tree \in [Levels -> Listing] /\ loads \in [Levels -> Load]
  BY <1>2, ListingTypes DEF Panel
<1> HIDE DEF tree, loads
<1>4. /\ q \in Panel /\ q.tables_epoch = p.tables_epoch /\ q.refreshes = p.refreshes
      /\ q.tree = tree /\ q.loads = loads
  BY <1>3 DEF Panel
<1> HIDE DEF q
<1>5. \A lv \in S : tree[lv] = Loading /\ loads[lv] = new
  BY DEF tree, loads
<1>6. \A lv \in Levels \ S : tree[lv] = p.tree[lv] /\ loads[lv] = p.loads[lv]
  BY DEF tree, loads
<1> QED BY <1>1, <1>4, <1>5, <1>6 DEF new

\* Loading levels keeps a panel good, and serves the levels it loads.
LEMMA LoadLevelsGood ==
    ASSUME NEW p \in Panel, NEW S \in SUBSET Levels, NEW pr \in Profiles,
           Own(p, pr), Reloads(p), \A lv \in Levels \ S : Served(p, lv)
    PROVE  Good(LoadLevels(p, S), pr)
<1> DEFINE q == LoadLevels(p, S)
<1>1. /\ q \in Panel
      /\ q.tables_epoch = p.tables_epoch /\ q.refreshes = p.refreshes
      /\ \A lv \in S :
            /\ q.tree[lv] = Loading
            /\ q.loads[lv] = [phase |-> "ready", epoch |-> p.tables_epoch, listing |-> Unlisted]
      /\ \A lv \in Levels \ S : q.tree[lv] = p.tree[lv] /\ q.loads[lv] = p.loads[lv]
  BY LoadLevelsFields
<1>2. p.tables_epoch \in Nat
  BY DEF Panel
<1> HIDE DEF q
<1>3. ASSUME NEW lv \in Levels
      PROVE  /\ q.tree[lv].state = "loaded" => q.tree[lv].profile = pr
             /\ q.loads[lv].epoch <= q.tables_epoch
             /\ q.loads[lv].listing.state # "loading"
             /\ q.loads[lv].epoch = q.tables_epoch /\ q.loads[lv].listing.state = "loaded"
                   => q.loads[lv].listing.profile = pr
             /\ Served(q, lv)
  <2>1. CASE lv \in S
    BY <1>1, <1>2, <2>1 DEF Loading, Unlisted, Served
  <2>2. CASE lv \notin S
    <3>1. q.tree[lv] = p.tree[lv] /\ q.loads[lv] = p.loads[lv]
      BY <1>1, <2>2
    <3>2. Served(p, lv)
      BY <2>2
    <3>3. Served(q, lv)
      BY <1>1, <3>1, <3>2, Zenon DEF Served
    <3> QED BY <1>1, <3>1, <3>3, Zenon DEF Own
  <2> QED BY <2>1, <2>2
<1>4. Own(q, pr)
  BY <1>3 DEF Own
<1>5. Reloads(q)
  BY <1>1 DEF Reloads
<1> QED BY <1>3, <1>4, <1>5 DEF Good, q

\* Loading levels shows nothing, and stores nothing, that is not as new.
LEMMA LoadLevelsAhead ==
    ASSUME NEW p \in Panel, NEW S \in SUBSET Levels, NEW sc \in Levels, NEW v \in Nat,
           Ahead(p, sc, v)
    PROVE  Ahead(LoadLevels(p, S), sc, v)
<1> DEFINE q == LoadLevels(p, S)
<1>1. /\ q.refreshes = p.refreshes
      /\ \A lv \in S :
            /\ q.tree[lv] = Loading
            /\ q.loads[lv] = [phase |-> "ready", epoch |-> p.tables_epoch, listing |-> Unlisted]
      /\ \A lv \in Levels \ S : q.tree[lv] = p.tree[lv] /\ q.loads[lv] = p.loads[lv]
  BY LoadLevelsFields
<1> HIDE DEF q
<1>2. ASSUME NEW lv \in Under(sc)
      PROVE  /\ AsNew(q.tree[lv], v)
             /\ q.loads[lv].phase = "storing" => q.loads[lv].listing.version >= v
             /\ q.loads[lv].phase = "done" => AsNew(q.loads[lv].listing, v)
  <2>0. lv \in Levels
    BY LevelFacts
  <2>1. CASE lv \in S
    BY <1>1, <2>1 DEF Loading, AsNew
  <2>2. CASE lv \notin S
    BY <1>1, <2>0, <2>2, Zenon DEF Ahead
  <2> QED BY <2>1, <2>2
<1>3. \A s \in Scopes : q.refreshes[s].phase # "ready"
  BY <1>1 DEF Ahead
<1> QED BY <1>2, <1>3 DEF Ahead, q

-----------------------------------------------------------------------------
(* Steps of jobs *)

\* With a job or an answered refresh under way, the listings of the refresh
\* noted were dropped already.
LEMMA WasDropped ==
    ASSUME IInv, asked # None,
           \/ \E lv \in Levels : panel.loads[lv].phase # "none"
           \/ \E s \in Scopes : panel.refreshes[s].phase = "done"
           \/ orphans # {}
    PROVE  /\ asked.scope \in Levels /\ asked.version \in Nat /\ asked.version <= catalog
           /\ Since(asked.scope, asked.version)
BY DEF IInv, Refreshing, Dropping

\* A load's phase and listing change, and its epoch does not.
LEMMA SetLoadFields ==
    ASSUME panel \in Panel, NEW lv \in Levels, NEW listing \in Listing,
           NEW phase \in {"none", "ready", "listing", "storing", "done"},
           SetLoad(lv, phase, listing)
    PROVE  /\ panel' \in Panel /\ panel'.tree = panel.tree
           /\ panel'.tables_epoch = panel.tables_epoch /\ panel'.refreshes = panel.refreshes
           /\ panel'.loads[lv].phase = phase /\ panel'.loads[lv].listing = listing
           /\ panel'.loads[lv].epoch = panel.loads[lv].epoch
           /\ \A l \in Levels : l # lv => panel'.loads[l] = panel.loads[l]
<1> DEFINE load == [panel.loads[lv] EXCEPT !.phase = phase, !.listing = listing]
           loads == [panel.loads EXCEPT ![lv] = load]
<1>1. panel.loads \in [Levels -> Load] /\ panel.loads[lv] \in Load
  BY DEF Panel
<1>2. /\ load \in Load /\ load.phase = phase /\ load.listing = listing
      /\ load.epoch = panel.loads[lv].epoch
  BY <1>1 DEF Load
<1>3. panel' = [panel EXCEPT !.loads = loads]
  BY <1>1 DEF SetLoad, Panel, Load
<1> HIDE DEF load
<1>4. /\ loads \in [Levels -> Load] /\ loads[lv] = load
      /\ \A l \in Levels : l # lv => loads[l] = panel.loads[l]
  BY <1>1, <1>2
<1> HIDE DEF loads
<1>5. /\ panel' \in Panel /\ panel'.tree = panel.tree /\ panel'.loads = loads
      /\ panel'.tables_epoch = panel.tables_epoch /\ panel'.refreshes = panel.refreshes
  BY <1>3, <1>4 DEF Panel
<1> QED BY <1>2, <1>4, <1>5

\* The job of a load goes on with a listing of its own environment, and as new as
\* a refresh asks for.
LEMMA JobStep ==
    ASSUME IInv, NEW lv \in Levels, NEW phase \in {"listing", "storing", "done"},
           NEW listing \in Listing, SetLoad(lv, phase, listing),
           panel.loads[lv].phase # "none", listing.state # "loading",
           panel.loads[lv].epoch = panel.tables_epoch /\ listing.state = "loaded"
               => listing.profile = profile,
           UNCHANGED <<profile, orphans, catalog, asked>>,
           cache' \in [Profiles -> [Levels -> Nat \cup {None}]],
           \A pr \in Profiles, l \in Levels :
               \/ cache'[pr][l] = cache[pr][l]
               \/ /\ l = lv /\ panel.loads[lv].phase = "storing"
                  /\ cache'[pr][l] = panel.loads[lv].listing.version,
           asked # None /\ Since(asked.scope, asked.version) /\ lv \in Under(asked.scope) =>
               /\ phase = "storing" => listing.version >= asked.version
               /\ phase = "done" => AsNew(listing, asked.version)
    PROVE  IInv'
<1>0. panel \in Panel /\ TypeOK /\ Good(panel, profile)
  BY DEF IInv, TypeOK
<1>1. /\ panel' \in Panel /\ panel'.tree = panel.tree
      /\ panel'.tables_epoch = panel.tables_epoch /\ panel'.refreshes = panel.refreshes
      /\ panel'.loads[lv].phase = phase /\ panel'.loads[lv].listing = listing
      /\ panel'.loads[lv].epoch = panel.loads[lv].epoch
      /\ \A l \in Levels : l # lv => panel'.loads[l] = panel.loads[l]
  BY <1>0, SetLoadFields
<1>2. TypeOK'
  BY <1>0, <1>1 DEF TypeOK
<1>3. Good(panel', profile)
  <2>1. Own(panel', profile)
    <3>1. ASSUME NEW l \in Levels
          PROVE  /\ panel'.loads[l].epoch <= panel'.tables_epoch
                 /\ panel'.loads[l].listing.state # "loading"
                 /\ panel'.loads[l].epoch = panel'.tables_epoch
                       /\ panel'.loads[l].listing.state = "loaded"
                       => panel'.loads[l].listing.profile = profile
      <4>1. CASE l = lv
        BY <1>0, <1>1, <4>1, Zenon DEF Good, Own
      <4>2. CASE l # lv
        BY <1>0, <1>1, <4>2, Zenon DEF Good, Own
      <4> QED BY <4>1, <4>2
    <3> QED BY <1>0, <1>1, <3>1, Zenon DEF Good, Own
  <2>2. Reloads(panel')
    BY <1>0, <1>1, Zenon DEF Good, Reloads
  <2>3. ASSUME NEW l \in Levels PROVE Served(panel', l)
    <3>1. Served(panel, l)
      BY <1>0 DEF Good
    <3>2. CASE l = lv
      BY <1>1, <3>1, <3>2 DEF Served
    <3>3. CASE l # lv
      BY <1>1, <3>1, <3>3, Zenon DEF Served
    <3> QED BY <3>2, <3>3
  <2> QED BY <2>1, <2>2, <2>3 DEF Good
<1>4. Refreshing'
  <2> SUFFICES ASSUME asked # None
               PROVE  /\ asked \in [scope : Levels, version : Nat] /\ asked.version <= catalog
                      /\ Since(asked.scope, asked.version)'
    BY DEF Refreshing
  <2> DEFINE sc == asked.scope
             v == asked.version
  <2>1. /\ asked \in [scope : Levels, version : Nat]
        /\ sc \in Levels /\ v \in Nat /\ v <= catalog /\ Since(sc, v)
    BY WasDropped DEF IInv, Refreshing
  <2>2. Under(sc) \subseteq Levels
    BY <2>1, LevelFacts
  <2>3. Ahead(panel', sc, v)
    <3>1. \A s \in Scopes : panel'.refreshes[s].phase # "ready"
      BY <1>1, <2>1 DEF Since, Ahead
    <3>2. ASSUME NEW l \in Under(sc)
          PROVE  /\ AsNew(panel'.tree[l], v)
                 /\ panel'.loads[l].phase = "storing" => panel'.loads[l].listing.version >= v
                 /\ panel'.loads[l].phase = "done" => AsNew(panel'.loads[l].listing, v)
      <4>1. CASE l = lv
        BY <1>1, <2>1, <4>1, Zenon DEF Since, Ahead
      <4>2. CASE l # lv
        BY <1>1, <2>1, <2>2, <4>2, Zenon DEF Since, Ahead
      <4> QED BY <4>1, <4>2
    <3> QED BY <3>1, <3>2 DEF Ahead
  <2>4. ASSUME NEW pr \in Profiles, NEW l \in Under(sc), cache'[pr][l] # None
        PROVE  cache'[pr][l] >= v
    <3>1. CASE cache'[pr][l] = cache[pr][l]
      BY <2>1, <2>4, <3>1 DEF Since
    <3>2. CASE /\ l = lv /\ panel.loads[lv].phase = "storing"
               /\ cache'[pr][l] = panel.loads[lv].listing.version
      BY <2>1, <3>2 DEF Since, Ahead
    <3> QED BY <2>2, <3>1, <3>2
  <2> QED BY <2>1, <2>3, <2>4, Zenon DEF Since
<1> QED BY <1>2, <1>3, <1>4 DEF IInv

\* A job finds its level in the cache, which holds nothing older than the refresh,
\* or goes to list it.
LEMMA LookKeeps == ASSUME IInv, NEW lv \in Levels, Look(lv) PROVE IInv'
<1> DEFINE found == Loaded(profile, cache[profile][lv])
           begun == Loaded(profile, 0)
<1>1. /\ panel.loads[lv].phase = "ready" /\ UNCHANGED <<profile, cache, orphans, catalog, asked>>
      /\ \/ cache[profile][lv] # None /\ SetLoad(lv, "done", found)
         \/ SetLoad(lv, "listing", begun)
  BY DEF Look
<1>2. /\ cache \in [Profiles -> [Levels -> Nat \cup {None}]] /\ profile \in Profiles
      /\ cache' = cache
  BY <1>1 DEF IInv, TypeOK
<1>3. CASE cache[profile][lv] # None /\ SetLoad(lv, "done", found)
  <2>1. cache[profile][lv] \in Nat
    BY <1>2, <1>3
  <2>2. found \in Listing
    BY <1>2, <2>1, ListingTypes
  <2>3. /\ found.state = "loaded" /\ found.profile = profile
        /\ found.version = cache[profile][lv]
    BY DEF Loaded
  <2>4. asked # None /\ Since(asked.scope, asked.version) /\ lv \in Under(asked.scope)
          => AsNew(found, asked.version)
    BY <1>2, <1>3, <2>3 DEF Since, AsNew
  <2> HIDE DEF found
  <2> QED BY <1>1, <1>2, <1>3, <2>2, <2>3, <2>4, JobStep
<1>4. CASE SetLoad(lv, "listing", begun)
  <2>1. begun \in Listing /\ begun.state = "loaded" /\ begun.profile = profile
    BY <1>2, ListingTypes DEF Loaded
  <2> HIDE DEF begun
  <2> QED BY <1>1, <1>2, <1>4, <2>1, JobStep
<1> QED BY <1>1, <1>3, <1>4

\* A level is listed as the catalog is now, which is as new as the refresh.
LEMMA ListKeeps == ASSUME IInv, NEW lv \in Levels, List(lv) PROVE IInv'
<1> DEFINE old == panel.loads[lv].listing
           listed == [old EXCEPT !.version = catalog]
<1>1. /\ panel.loads[lv].phase = "listing"
      /\ UNCHANGED <<profile, cache, orphans, catalog, asked>>
      /\ SetLoad(lv, "storing", listed) \/ SetLoad(lv, "done", Failed)
  BY DEF List
<1>2. /\ cache \in [Profiles -> [Levels -> Nat \cup {None}]] /\ cache' = cache
      /\ old \in Listing /\ catalog \in Nat
  BY <1>1 DEF IInv, TypeOK, Panel, Load
<1>3. /\ listed \in Listing /\ listed.state = old.state /\ listed.profile = old.profile
      /\ listed.version = catalog
  BY <1>2 DEF Listing
<1>4. /\ old.state # "loading"
      /\ panel.loads[lv].epoch = panel.tables_epoch /\ old.state = "loaded"
            => old.profile = profile
  BY DEF IInv, Good, Own
<1>5. asked # None => asked.version <= catalog
  BY DEF IInv, Refreshing
<1> HIDE DEF listed
<1>6. CASE SetLoad(lv, "storing", listed)
  <2>1. asked # None => listed.version >= asked.version
    BY <1>2, <1>3, <1>5 DEF IInv, Refreshing
  <2> QED BY <1>1, <1>2, <1>3, <1>4, <1>6, <2>1, JobStep
<1>7. CASE SetLoad(lv, "done", Failed)
  <2>1. Failed \in Listing /\ Failed.state = "failed"
    BY ListingTypes DEF Failed
  <2>2. \A v : AsNew(Failed, v)
    BY <2>1 DEF AsNew
  <2> QED BY <1>1, <1>2, <1>7, <2>1, <2>2, JobStep
<1> QED BY <1>1, <1>6, <1>7

\* A listing is stored in the cache by the load that made it, with the version
\* it read.
LEMMA StoreKeeps == ASSUME IInv, NEW lv \in Levels, Store(lv) PROVE IInv'
<1> DEFINE l == panel.loads[lv].listing
<1>1. /\ panel.loads[lv].phase = "storing" /\ SetLoad(lv, "done", l)
      /\ UNCHANGED <<profile, orphans, catalog, asked>>
      /\ cache' = [cache EXCEPT ![l.profile][lv] = l.version] \/ UNCHANGED cache
  BY DEF Store
<1>2. /\ cache \in [Profiles -> [Levels -> Nat \cup {None}]]
      /\ l \in Listing /\ l.version \in Nat
  BY DEF IInv, TypeOK, Panel, Load, Listing
<1>3. /\ l.state # "loading"
      /\ panel.loads[lv].epoch = panel.tables_epoch /\ l.state = "loaded" => l.profile = profile
  BY DEF IInv, Good, Own
<1>4. /\ cache' \in [Profiles -> [Levels -> Nat \cup {None}]]
      /\ \A pr \in Profiles, k \in Levels :
            cache'[pr][k] = cache[pr][k] \/ (k = lv /\ cache'[pr][k] = l.version)
  BY <1>1, <1>2
<1>5. asked # None /\ Since(asked.scope, asked.version) /\ lv \in Under(asked.scope)
        => AsNew(l, asked.version)
  BY <1>1 DEF Since, Ahead, AsNew
<1> HIDE DEF l
<1> QED BY <1>1, <1>2, <1>3, <1>4, <1>5, JobStep DEF l

\* A job without a task touches the cache alone.
LEMMA OrphanStep ==
    ASSUME IInv, orphans # {}, UNCHANGED <<panel, profile, catalog, asked>>,
           orphans' \in SUBSET Orphan, cache' \in [Profiles -> [Levels -> Nat \cup {None}]],
           asked # None /\ Since(asked.scope, asked.version) =>
               /\ \A pr \in Profiles : \A lv \in Under(asked.scope) :
                     cache'[pr][lv] # None => cache'[pr][lv] >= asked.version
               /\ \A o \in orphans' : o.level \in Under(asked.scope) /\ o.phase = "storing"
                     => o.listing.version >= asked.version
    PROVE  IInv'
<1>1. TypeOK' /\ Good(panel, profile)'
  BY DEF IInv, TypeOK
<1>2. Refreshing'
  <2> SUFFICES ASSUME asked # None
               PROVE  /\ asked \in [scope : Levels, version : Nat] /\ asked.version <= catalog
                      /\ Since(asked.scope, asked.version)'
    BY DEF Refreshing
  <2>1. /\ asked \in [scope : Levels, version : Nat] /\ asked.version <= catalog
        /\ Since(asked.scope, asked.version)
    BY WasDropped DEF IInv, Refreshing
  <2> QED BY <2>1, Zenon DEF Since
<1> QED BY <1>1, <1>2 DEF IInv

\* A load whose panel went on without it still lists, and may store what it read.
LEMMA OrphanListsKeeps == ASSUME IInv, NEW o \in orphans, OrphanLists(o) PROVE IInv'
<1> DEFINE o2 == [o EXCEPT !.phase = "storing", !.listing.version = catalog]
           l2 == [o.listing EXCEPT !.version = catalog]
<1>1. /\ UNCHANGED <<panel, profile, cache, catalog, asked>>
      /\ orphans' \subseteq (orphans \ {o}) \cup {o2}
  BY DEF OrphanLists
<1>2. orphans \in SUBSET Orphan /\ o \in Orphan /\ catalog \in Nat
      /\ cache' \in [Profiles -> [Levels -> Nat \cup {None}]]
  BY <1>1 DEF IInv, TypeOK
<1>3. o2 = [o EXCEPT !.phase = "storing", !.listing = l2]
  BY <1>2 DEF Orphan
<1>4. l2 \in Listing /\ l2.version = catalog
  BY <1>2 DEF Orphan, Listing
<1> HIDE DEF l2, o2
<1>5. o2 \in Orphan /\ o2.listing = l2
  BY <1>2, <1>3, <1>4 DEF Orphan
<1>6. asked # None => o2.listing.version >= asked.version
  BY <1>2, <1>4, <1>5 DEF IInv, Refreshing
<1>7. asked # None /\ Since(asked.scope, asked.version) =>
          /\ \A pr \in Profiles : \A lv \in Under(asked.scope) :
                cache'[pr][lv] # None => cache'[pr][lv] >= asked.version
          /\ \A x \in orphans' : x.level \in Under(asked.scope) /\ x.phase = "storing"
                => x.listing.version >= asked.version
  BY <1>1, <1>6 DEF Since
<1>8. orphans' \in SUBSET Orphan
  BY <1>1, <1>2, <1>5
<1> QED BY <1>1, <1>2, <1>7, <1>8, OrphanStep

\* ... and what it stores is of the version it read.
LEMMA OrphanStoresKeeps == ASSUME IInv, NEW o \in orphans, OrphanStores(o) PROVE IInv'
<1>1. /\ UNCHANGED <<panel, profile, catalog, asked>>
      /\ o.phase = "storing" /\ orphans' = orphans \ {o}
      /\ \/ cache' = [cache EXCEPT ![o.listing.profile][o.level] = o.listing.version]
         \/ UNCHANGED cache
  BY DEF OrphanStores
<1>2. /\ orphans \in SUBSET Orphan /\ o \in Orphan
      /\ cache \in [Profiles -> [Levels -> Nat \cup {None}]]
  BY DEF IInv, TypeOK
<1>3. o.listing.version \in Nat
  BY <1>2 DEF Orphan, Listing
<1>4. /\ cache' \in [Profiles -> [Levels -> Nat \cup {None}]]
      /\ \A pr \in Profiles, k \in Levels :
            cache'[pr][k] = cache[pr][k] \/ (k = o.level /\ cache'[pr][k] = o.listing.version)
  BY <1>1, <1>2, <1>3
<1>5. ASSUME asked # None, Since(asked.scope, asked.version), NEW pr \in Profiles,
             NEW lv \in Under(asked.scope), cache'[pr][lv] # None
      PROVE  cache'[pr][lv] >= asked.version
  <2>1. lv \in Levels
    BY <1>5, LevelFacts DEF IInv, Refreshing
  <2>2. CASE cache'[pr][lv] = cache[pr][lv]
    BY <1>5, <2>2 DEF Since
  <2>3. CASE lv = o.level /\ cache'[pr][lv] = o.listing.version
    BY <1>1, <1>5, <2>3 DEF Since
  <2> QED BY <1>4, <2>1, <2>2, <2>3
<1>6. ASSUME asked # None, Since(asked.scope, asked.version), NEW x \in orphans',
             x.level \in Under(asked.scope), x.phase = "storing"
      PROVE  x.listing.version >= asked.version
  BY <1>1, <1>6 DEF Since
<1>7. orphans' \in SUBSET Orphan
  BY <1>1, <1>2
<1> QED BY <1>1, <1>4, <1>5, <1>6, <1>7, OrphanStep

-----------------------------------------------------------------------------
(* Steps of tasks *)

\* The jobs that go on without their tasks, and what they hold.
LEMMA CutJobs ==
    ASSUME panel \in Panel, NEW p
    PROVE  /\ Cut(panel, p) \in SUBSET Orphan
           /\ \A o \in Cut(panel, p) :
                 /\ o.level \in Levels /\ o.phase = panel.loads[o.level].phase
                 /\ o.listing = panel.loads[o.level].listing
<1> SUFFICES ASSUME NEW lv \in Levels, panel.loads[lv].phase \in {"listing", "storing"}
             PROVE  LET o == [level |-> lv, phase |-> panel.loads[lv].phase,
                              listing |-> panel.loads[lv].listing]
                    IN  o \in Orphan
  BY DEF Cut
<1>1. panel.loads[lv] \in Load
  BY DEF Panel
<1> QED BY <1>1 DEF Orphan, Load

\* A panel that takes the place of this one.
LEMMA BecomesType ==
    ASSUME TypeOK, NEW p \in Panel, Becomes(p), profile' \in Profiles, UNCHANGED <<cache, catalog>>
    PROVE  TypeOK'
<1>1. Cut(panel, p) \in SUBSET Orphan
  BY CutJobs DEF TypeOK
<1> QED BY <1>1 DEF TypeOK, Becomes

\* ... and is as good, and keeps what is shown of a refresh as new.
LEMMA BecomesKeeps ==
    ASSUME IInv, NEW p \in Panel, Becomes(p), profile' \in Profiles, UNCHANGED <<cache, catalog>>,
           Good(p, profile'),
           \/ asked' = None
           \/ /\ asked' = asked
              /\ asked # None => /\ Since(asked.scope, asked.version)
                                 /\ Ahead(p, asked.scope, asked.version)
    PROVE  IInv'
<1>1. TypeOK'
  BY BecomesType DEF IInv
<1>2. Good(panel', profile')
  BY DEF Becomes
<1>3. Refreshing'
  <2> SUFFICES ASSUME asked' # None
               PROVE  /\ asked \in [scope : Levels, version : Nat] /\ asked.version <= catalog
                      /\ Since(asked.scope, asked.version)'
    BY DEF Refreshing
  <2>1. /\ asked \in [scope : Levels, version : Nat] /\ asked.version <= catalog
        /\ asked' = asked /\ Since(asked.scope, asked.version)
        /\ Ahead(p, asked.scope, asked.version)
    BY DEF IInv, Refreshing
  <2>2. ASSUME NEW o \in orphans', o.level \in Under(asked.scope), o.phase = "storing"
        PROVE  o.listing.version >= asked.version
    <3>1. CASE o \in orphans
      BY <2>1, <2>2, <3>1 DEF Since
    <3>2. CASE o \in Cut(panel, p)
      <4>1. o.phase = panel.loads[o.level].phase /\ o.listing = panel.loads[o.level].listing
        BY <3>2, CutJobs DEF IInv, TypeOK
      <4> QED BY <2>1, <2>2, <4>1 DEF Since, Ahead
    <3> QED BY <3>1, <3>2 DEF Becomes
  <2>3. panel' = p /\ cache' = cache
    BY DEF Becomes
  <2> QED BY <2>1, <2>2, <2>3, Zenon DEF Since
<1> QED BY <1>1, <1>2, <1>3 DEF IInv

\* An answer of the environment shown is shown, and unfolds what is open.
LEMMA AnswerKeeps == ASSUME IInv, NEW lv \in Levels, Answer(lv) PROVE IInv'
<1> DEFINE load == panel.loads[lv]
<1>1. /\ load.phase = "done" /\ UNCHANGED <<profile, cache, catalog, asked>>
  BY DEF Answer
<1>2. /\ panel \in Panel /\ profile \in Profiles /\ TypeOK /\ Good(panel, profile)
      /\ panel.tree \in [Levels -> Listing] /\ panel.loads \in [Levels -> Load]
      /\ load \in Load /\ load.listing \in Listing /\ panel.tables_epoch \in Nat
  BY DEF IInv, TypeOK, Panel, Load
<1>3. asked # None =>
          /\ asked.scope \in Levels /\ asked.version \in Nat /\ Since(asked.scope, asked.version)
  BY <1>1, WasDropped
<1>4. NoLoad.epoch = 0 /\ NoLoad.phase = "none" /\ NoLoad.listing.state = "none"
  BY DEF NoLoad, Unlisted
<1>5. ASSUME NEW listing \in Listing, listing.state = "loaded" => listing.profile = profile,
             listing = Loading => listing = panel.tree[lv] /\ load.epoch # panel.tables_epoch,
             asked # None /\ lv \in Under(asked.scope) => AsNew(listing, asked.version)
      PROVE  LET q == [panel EXCEPT !.tree[lv] = listing, !.loads[lv] = NoLoad]
             IN  /\ q \in Panel /\ Good(q, profile)
                 /\ asked # None => Ahead(q, asked.scope, asked.version)
  <2> DEFINE q == [panel EXCEPT !.tree[lv] = listing, !.loads[lv] = NoLoad]
  <2>1. /\ q \in Panel /\ q.tables_epoch = panel.tables_epoch /\ q.refreshes = panel.refreshes
        /\ q.tree[lv] = listing /\ q.loads[lv] = NoLoad
        /\ \A l \in Levels : l # lv => q.tree[l] = panel.tree[l] /\ q.loads[l] = panel.loads[l]
    BY <1>2, ListingTypes DEF Panel
  <2> HIDE DEF q
  <2>2. /\ Own(panel, profile) /\ Reloads(panel) /\ \A l \in Levels : Served(panel, l)
    BY <1>2 DEF Good
  <2>4. Own(q, profile)
    <3>1. ASSUME NEW l \in Levels
          PROVE  /\ q.tree[l].state = "loaded" => q.tree[l].profile = profile
                 /\ q.loads[l].epoch <= q.tables_epoch
                 /\ q.loads[l].listing.state # "loading"
                 /\ q.loads[l].epoch = q.tables_epoch /\ q.loads[l].listing.state = "loaded"
                       => q.loads[l].listing.profile = profile
      <4>1. CASE l = lv
        BY <1>2, <1>4, <1>5, <2>1, <4>1
      <4>2. CASE l # lv
        BY <2>1, <2>2, <4>2, Zenon DEF Own
      <4> QED BY <4>1, <4>2
    <3> QED BY <3>1 DEF Own
  <2>5. Reloads(q)
    BY <2>1, <2>2, Zenon DEF Reloads
  <2>6. ASSUME NEW l \in Levels PROVE Served(q, l)
    <3>1. CASE l = lv
      <4>1. Served(panel, lv)
        BY <2>2
      <4> QED BY <1>5, <2>1, <3>1, <4>1, Zenon DEF Served
    <3>2. CASE l # lv
      <4>1. Served(panel, l)
        BY <2>2
      <4> QED BY <2>1, <3>2, <4>1, Zenon DEF Served
    <3> QED BY <3>1, <3>2
  <2>7. ASSUME asked # None PROVE Ahead(q, asked.scope, asked.version)
    <3> DEFINE sc == asked.scope
               v == asked.version
    <3>1. Ahead(panel, sc, v) /\ Under(sc) \subseteq Levels
      BY <1>3, <2>7, LevelFacts DEF Since
    <3>2. \A s \in Scopes : q.refreshes[s].phase # "ready"
      BY <2>1, <3>1 DEF Ahead
    <3>3. ASSUME NEW l \in Under(sc)
          PROVE  /\ AsNew(q.tree[l], v)
                 /\ q.loads[l].phase = "storing" => q.loads[l].listing.version >= v
                 /\ q.loads[l].phase = "done" => AsNew(q.loads[l].listing, v)
      <4>1. CASE l = lv
        BY <1>4, <1>5, <2>1, <2>7, <4>1
      <4>2. CASE l # lv
        BY <2>1, <3>1, <4>2, Zenon DEF Ahead
      <4> QED BY <4>1, <4>2
    <3> QED BY <3>2, <3>3 DEF Ahead
  <2> QED BY <2>1, <2>4, <2>5, <2>6, <2>7 DEF Good, q
<1>6. CASE load.epoch # panel.tables_epoch
  <2> DEFINE q == [panel EXCEPT !.tree[lv] = panel.tree[lv], !.loads[lv] = NoLoad]
  <2>1. Becomes([panel EXCEPT !.loads[lv] = NoLoad])
    BY <1>6 DEF Answer
  <2>2. [panel EXCEPT !.loads[lv] = NoLoad] = q
    BY <1>2 DEF Panel
  <2>3. /\ q \in Panel /\ Good(q, profile)
        /\ asked # None => Ahead(q, asked.scope, asked.version)
    <3>1. panel.tree[lv] \in Listing
      BY <1>2
    <3>2. panel.tree[lv].state = "loaded" => panel.tree[lv].profile = profile
      BY <1>2 DEF Good, Own
    <3>3. asked # None /\ lv \in Under(asked.scope) => AsNew(panel.tree[lv], asked.version)
      BY <1>3 DEF Since, Ahead
    <3> QED BY <1>5, <1>6, <3>1, <3>2, <3>3
  <2> HIDE DEF q
  <2> QED BY <1>1, <1>2, <1>3, <2>1, <2>2, <2>3, BecomesKeeps
<1>7. CASE load.epoch = panel.tables_epoch
  <2> DEFINE p == [panel EXCEPT !.tree[lv] = load.listing, !.loads[lv] = NoLoad]
  <2>1. PICK S \in Unfolds(p, lv) : Becomes(LoadLevels(p, S))
    BY <1>7 DEF Answer
  <2>2. /\ p \in Panel /\ Good(p, profile)
        /\ asked # None => Ahead(p, asked.scope, asked.version)
    <3>1. /\ load.listing.state = "loaded" => load.listing.profile = profile
          /\ load.listing.state # "loading"
      BY <1>2, <1>7 DEF Good, Own
    <3>2. load.listing # Loading
      BY <3>1 DEF Loading
    <3>3. asked # None /\ lv \in Under(asked.scope) => AsNew(load.listing, asked.version)
      BY <1>1, <1>3 DEF Since, Ahead
    <3> QED BY <1>2, <1>5, <3>1, <3>2, <3>3
  <2> HIDE DEF p
  <2>3. S \in SUBSET Levels
    BY <1>2, UnfoldsLevels
  <2>4. LoadLevels(p, S) \in Panel /\ Good(LoadLevels(p, S), profile)
    BY <1>2, <2>2, <2>3, LoadLevelsFields, LoadLevelsGood DEF Good
  <2>5. asked # None => Ahead(LoadLevels(p, S), asked.scope, asked.version)
    BY <1>3, <2>2, <2>3, LoadLevelsAhead
  <2> QED BY <1>1, <1>2, <1>3, <2>1, <2>4, <2>5, BecomesKeeps
<1> QED BY <1>6, <1>7

\* load_databases serves the root, whether it lists the databases or knows the one.
LEMMA LoadDatabasesGood ==
    ASSUME TypeOK, NEW p \in Panel, Own(p, profile), Reloads(p),
           \A lv \in Levels \ {Root} : Served(p, lv)
    PROVE  /\ LoadDatabases(p) \in Panel /\ Good(LoadDatabases(p), profile)
           /\ \A sc \in Levels, v \in Nat :
                 v <= catalog /\ Ahead(p, sc, v) => Ahead(LoadDatabases(p), sc, v)
<1> DEFINE pinned == PinnedIn[profile]
<1>0. profile \in Profiles /\ catalog \in Nat /\ Root \in Levels
  BY LevelFacts DEF TypeOK
<1>1. CASE pinned = None
  <2>1. LoadDatabases(p) = LoadLevels(p, {Root})
    BY <1>1 DEF LoadDatabases
  <2>2. {Root} \in SUBSET Levels
    BY <1>0
  <2>3. LoadLevels(p, {Root}) \in Panel /\ Good(LoadLevels(p, {Root}), profile)
    BY <1>0, <2>2, LoadLevelsFields, LoadLevelsGood
  <2>4. \A sc \in Levels, v \in Nat : Ahead(p, sc, v) => Ahead(LoadLevels(p, {Root}), sc, v)
    BY <2>2, LoadLevelsAhead
  <2> QED BY <2>1, <2>3, <2>4
<1>2. CASE pinned # None
  <2> DEFINE shown == Loaded(profile, catalog)
             q == [p EXCEPT !.tree[Root] = shown]
             S == {<<pinned>>}
  <2>1. LoadDatabases(p) = LoadLevels(q, S)
    BY <1>2 DEF LoadDatabases
  <2>2. S \in SUBSET Levels
    BY <1>0, <1>2, LevelFacts
  <2>3. shown \in Listing
    BY <1>0, ListingTypes
  <2>4. shown.state = "loaded" /\ shown.profile = profile /\ shown.version = catalog
    BY DEF Loaded
  <2> HIDE DEF shown, S
  <2>5. /\ q \in Panel /\ q.tables_epoch = p.tables_epoch /\ q.refreshes = p.refreshes
        /\ q.loads = p.loads /\ q.tree[Root] = shown
        /\ \A l \in Levels : l # Root => q.tree[l] = p.tree[l]
    BY <1>0, <2>3 DEF Panel
  <2> HIDE DEF q
  <2>6. Own(q, profile)
    BY <2>4, <2>5 DEF Own
  <2>7. Reloads(q)
    BY <2>5, Zenon DEF Reloads
  <2>8. ASSUME NEW l \in Levels PROVE Served(q, l)
    <3>1. CASE l = Root
      BY <2>4, <2>5, <3>1 DEF Served, Loading
    <3>2. CASE l # Root
      <4>1. Served(p, l)
        BY <3>2
      <4> QED BY <2>5, <3>2, <4>1, Zenon DEF Served
    <3> QED BY <3>1, <3>2
  <2>9. ASSUME NEW sc \in Levels, NEW v \in Nat, v <= catalog, Ahead(p, sc, v)
        PROVE  Ahead(q, sc, v)
    <3>1. Under(sc) \subseteq Levels
      BY LevelFacts
    <3>2. AsNew(shown, v)
      BY <1>0, <2>4, <2>9 DEF AsNew
    <3>3. ASSUME NEW l \in Under(sc) PROVE AsNew(q.tree[l], v)
      BY <2>5, <2>9, <3>1, <3>2 DEF Ahead
    <3> QED BY <2>5, <2>9, <3>3, Zenon DEF Ahead
  <2>10. LoadLevels(q, S) \in Panel /\ Good(LoadLevels(q, S), profile)
    BY <1>0, <2>2, <2>5, <2>6, <2>7, <2>8, LoadLevelsFields, LoadLevelsGood
  <2>11. \A sc \in Levels, v \in Nat :
            v <= catalog /\ Ahead(p, sc, v) => Ahead(LoadLevels(q, S), sc, v)
    BY <2>2, <2>5, <2>9, LoadLevelsAhead
  <2> QED BY <2>1, <2>10, <2>11
<1> QED BY <1>1, <1>2

\* The cached listings of a refresh are dropped; when nothing crossed it, nothing
\* older is left anywhere.
LEMMA InvalidateKeeps == ASSUME IInv, NEW scope \in Scopes, Invalidate(scope) PROVE IInv'
<1>1. /\ panel.refreshes[scope].phase = "ready" /\ UNCHANGED <<profile, orphans, catalog>>
      /\ panel' = [panel EXCEPT !.refreshes[scope].phase = "done"]
      /\ \/ /\ cache' = [p \in Profiles |-> [lv \in Levels |->
                            IF lv \in Dropped(scope) THEN None ELSE cache[p][lv]]]
            /\ UNCHANGED asked
         \/ asked' = None /\ UNCHANGED cache
  BY DEF Invalidate
<1>2. /\ panel \in Panel /\ Own(panel, profile) /\ Reloads(panel)
      /\ panel.refreshes \in [Scopes -> Refresh]
      /\ cache \in [Profiles -> [Levels -> Nat \cup {None}]]
      /\ \A lv \in Levels : Served(panel, lv)
  BY DEF IInv, TypeOK, Good, Panel
<1> DEFINE r == [panel.refreshes[scope] EXCEPT !.phase = "done"]
           rs == [panel.refreshes EXCEPT ![scope] = r]
<1>3. /\ r \in Refresh /\ r.phase = "done" /\ r.epoch = panel.refreshes[scope].epoch
      /\ r.reloads = panel.refreshes[scope].reloads
  BY <1>2 DEF Refresh
<1>4. panel' = [panel EXCEPT !.refreshes = rs]
  BY <1>1, <1>2 DEF Panel
<1> HIDE DEF r
<1>5. /\ rs \in [Scopes -> Refresh] /\ rs[scope] = r
      /\ \A s \in Scopes : s # scope => rs[s] = panel.refreshes[s]
  BY <1>2, <1>3
<1> HIDE DEF rs
<1>6. /\ panel' \in Panel /\ panel'.refreshes = rs /\ panel'.tree = panel.tree
      /\ panel'.loads = panel.loads /\ panel'.tables_epoch = panel.tables_epoch
  BY <1>2, <1>4, <1>5 DEF Panel
<1>7. cache' \in [Profiles -> [Levels -> Nat \cup {None}]]
  BY <1>1, <1>2
<1>8. TypeOK'
  BY <1>1, <1>6, <1>7 DEF IInv, TypeOK
<1>9. Good(panel', profile')
  <2>1. Own(panel', profile')
    BY <1>1, <1>2, <1>6, Zenon DEF Own
  <2>2. ASSUME NEW l \in Levels
        PROVE  /\ rs[l].phase # "none" => rs[l].reloads
               /\ Served(panel', l)
    <3>0. /\ l \in Scopes /\ Served(panel, l)
          /\ panel.refreshes[l].phase # "none" => panel.refreshes[l].reloads
      BY <1>2 DEF Scopes, Reloads
    <3>1. CASE l = scope
      BY <1>1, <1>3, <1>5, <1>6, <3>0, <3>1 DEF Served
    <3>2. CASE l # scope
      BY <1>5, <1>6, <3>0, <3>2, Zenon DEF Served
    <3> QED BY <3>1, <3>2
  <2>3. Reloads(panel')
    BY <1>6, <2>2 DEF Reloads
  <2> QED BY <2>1, <2>2, <2>3 DEF Good
<1>10. Refreshing'
  <2> SUFFICES ASSUME asked' # None
               PROVE  /\ asked \in [scope : Levels, version : Nat] /\ asked.version <= catalog
                      /\ Since(asked.scope, asked.version)'
    BY <1>1 DEF Refreshing
  <2>1. /\ asked' = asked
        /\ cache' = [p \in Profiles |-> [lv \in Levels |->
                        IF lv \in Dropped(scope) THEN None ELSE cache[p][lv]]]
    BY <1>1
  <2> DEFINE sc == asked.scope
             v == asked.version
  <2>2. /\ asked \in [scope : Levels, version : Nat] /\ asked.version <= catalog
        /\ Dropping(sc)
    BY <1>1, <2>1 DEF IInv, Refreshing, Since, Ahead
  <2>3. /\ Under(sc) \subseteq Dropped(scope) /\ Under(sc) \subseteq Levels
        /\ \A s \in Scopes : s # scope => panel.refreshes[s].phase = "none"
    BY <1>1, <2>2, LevelFacts DEF Dropping
  <2>4. \A pr \in Profiles : \A lv \in Under(sc) : cache'[pr][lv] = None
    BY <2>1, <2>3
  <2>5. \A s \in Scopes : panel'.refreshes[s].phase # "ready"
    BY <1>3, <1>5, <1>6, <2>3
  <2>6. ASSUME NEW lv \in Under(sc)
        PROVE  panel'.tree[lv].state # "loaded" /\ panel'.loads[lv].phase = "none"
    BY <1>6, <2>2, <2>3 DEF Dropping
  <2>7. Ahead(panel', sc, v)
    BY <2>5, <2>6 DEF Ahead, AsNew
  <2>8. orphans' = {}
    BY <1>1, <2>2 DEF Dropping
  <2> QED BY <2>1, <2>2, <2>4, <2>7, <2>8 DEF Since
<1> QED BY <1>8, <1>9, <1>10 DEF IInv

\* The levels of a refresh are listed again, unless the environment has changed.
LEMMA ReloadKeeps == ASSUME IInv, NEW scope \in Scopes, Reload(scope) PROVE IInv'
<1> DEFINE r == panel.refreshes[scope]
           p == [panel EXCEPT !.refreshes[scope] = NoRefresh]
<1>1. /\ r.phase = "done" /\ UNCHANGED <<profile, cache, catalog, asked>>
      /\ IF r.epoch # panel.tables_epoch \/ ~r.reloads THEN Becomes(p)
         ELSE IF scope \in {Root, All} THEN Becomes(LoadDatabases(p))
         ELSE Becomes(LoadLevels(p, {scope}))
  BY DEF Reload
<1>2. /\ panel \in Panel /\ TypeOK /\ profile \in Profiles /\ catalog \in Nat
      /\ Own(panel, profile) /\ Reloads(panel) /\ \A lv \in Levels : Served(panel, lv)
  BY DEF IInv, TypeOK, Good
<1>3. asked # None =>
          /\ asked.scope \in Levels /\ asked.version \in Nat /\ asked.version <= catalog
          /\ Since(asked.scope, asked.version)
  BY <1>1, WasDropped
<1>4. /\ p \in Panel /\ p.tables_epoch = panel.tables_epoch /\ p.tree = panel.tree
      /\ p.loads = panel.loads /\ p.refreshes[scope] = NoRefresh
      /\ \A s \in Scopes : s # scope => p.refreshes[s] = panel.refreshes[s]
  BY <1>2, ListingTypes DEF Panel
<1> HIDE DEF p
<1>5. NoRefresh.phase = "none"
  BY DEF NoRefresh
<1>6. Own(p, profile)
  BY <1>2, <1>4, Zenon DEF Own
<1>7. Reloads(p)
  BY <1>2, <1>4, <1>5 DEF Reloads, Scopes
<1>8. ASSUME NEW l \in Levels, l # scope \/ r.epoch # panel.tables_epoch PROVE Served(p, l)
  <2>0. l \in Scopes /\ Served(panel, l)
    BY <1>2 DEF Scopes
  <2>1. CASE l # scope
    BY <1>4, <2>0, <2>1, Zenon DEF Served
  <2>2. CASE l = scope
    BY <1>4, <1>8, <2>0, <2>2, Zenon DEF Served
  <2> QED BY <2>1, <2>2
<1>9. asked # None => Ahead(p, asked.scope, asked.version)
  BY <1>3, <1>4, <1>5 DEF Since, Ahead
<1>10. CASE r.epoch # panel.tables_epoch \/ ~r.reloads
  <2>1. scope \in Levels => r.reloads
    BY <1>1, <1>2 DEF Reloads
  <2>2. Good(p, profile)
    BY <1>6, <1>7, <1>8, <1>10, <2>1 DEF Good
  <2> QED BY <1>1, <1>2, <1>3, <1>4, <1>9, <1>10, <2>2, BecomesKeeps
<1>11. CASE ~(r.epoch # panel.tables_epoch \/ ~r.reloads) /\ scope \in {Root, All}
  <2>1. \A l \in Levels \ {Root} : Served(p, l)
    BY <1>8, <1>11, LevelFacts
  <2>2. /\ LoadDatabases(p) \in Panel /\ Good(LoadDatabases(p), profile)
        /\ \A sc \in Levels, v \in Nat :
              v <= catalog /\ Ahead(p, sc, v) => Ahead(LoadDatabases(p), sc, v)
    BY <1>2, <1>4, <1>6, <1>7, <2>1, LoadDatabasesGood
  <2>3. Becomes(LoadDatabases(p))
    BY <1>1, <1>11
  <2> QED BY <1>1, <1>2, <1>3, <1>9, <2>2, <2>3, BecomesKeeps
<1>12. CASE ~(r.epoch # panel.tables_epoch \/ ~r.reloads) /\ scope \notin {Root, All}
  <2>1. {scope} \in SUBSET Levels
    BY <1>12 DEF Scopes
  <2>2. LoadLevels(p, {scope}) \in Panel /\ Good(LoadLevels(p, {scope}), profile)
    BY <1>2, <1>4, <1>6, <1>7, <1>8, <2>1, LoadLevelsFields, LoadLevelsGood
  <2>3. asked # None => Ahead(LoadLevels(p, {scope}), asked.scope, asked.version)
    BY <1>3, <1>4, <1>9, <2>1, LoadLevelsAhead
  <2>4. Becomes(LoadLevels(p, {scope}))
    BY <1>1, <1>12
  <2> QED BY <1>1, <1>2, <1>3, <2>2, <2>3, <2>4, BecomesKeeps
<1> QED BY <1>10, <1>11, <1>12

-----------------------------------------------------------------------------
(* The user, and other programs *)

\* A click that changes only what is unfolded leaves the panel as good.
LEMMA UnfoldedGood ==
    ASSUME NEW p \in Panel, NEW pr, Good(p, pr), NEW q,
           q.tree = p.tree, q.loads = p.loads, q.refreshes = p.refreshes,
           q.tables_epoch = p.tables_epoch
    PROVE  Own(q, pr) /\ Reloads(q) /\ \A lv \in Levels : Served(q, lv)
<1>1. Own(q, pr)
  BY Zenon DEF Good, Own
<1>2. Reloads(q)
  BY Zenon DEF Good, Reloads
<1>3. ASSUME NEW lv \in Levels PROVE Served(q, lv)
  <2>1. Served(p, lv)
    BY DEF Good
  <2> QED BY <2>1, Zenon DEF Served
<1> QED BY <1>1, <1>2, <1>3

\* Unfolding the connection lists its databases, or loads none.
LEMMA ToggleConnectionKeeps == ASSUME IInv, ToggleConnection PROVE IInv'
<1> DEFINE p == [panel EXCEPT !.expanded = ~panel.expanded]
<1>1. /\ Becomes(LoadDatabases(p)) \/ Becomes(p)
      /\ asked' = None /\ UNCHANGED <<profile, cache, catalog>>
  BY DEF ToggleConnection
<1>2. TypeOK /\ panel \in Panel /\ profile \in Profiles /\ profile' = profile
      /\ Good(panel, profile)
  BY <1>1 DEF IInv, TypeOK
<1>3. /\ p \in Panel /\ p.tree = panel.tree /\ p.loads = panel.loads
      /\ p.refreshes = panel.refreshes /\ p.tables_epoch = panel.tables_epoch
  BY <1>2 DEF Panel
<1> HIDE DEF p
<1>4. Own(p, profile) /\ Reloads(p) /\ \A lv \in Levels : Served(p, lv)
  BY <1>2, <1>3, UnfoldedGood
<1>5. CASE Becomes(LoadDatabases(p))
  <2>1. LoadDatabases(p) \in Panel /\ Good(LoadDatabases(p), profile)
    BY <1>2, <1>3, <1>4, LoadDatabasesGood
  <2> QED BY <1>1, <1>2, <1>5, <2>1, BecomesKeeps
<1>6. CASE Becomes(p)
  BY <1>1, <1>2, <1>3, <1>4, <1>6, BecomesKeeps DEF Good
<1> QED BY <1>1, <1>5, <1>6

\* Unfolding a level lists it when it was not, folding it leaves its listing.
LEMMA ToggleKeeps == ASSUME IInv, NEW lv \in Levels, Toggle(lv) PROVE IInv'
<1> DEFINE toggled == IF lv \in panel.toggled THEN panel.toggled \ {lv}
                      ELSE panel.toggled \cup {lv}
           p == [panel EXCEPT !.toggled = toggled]
<1>1. /\ Becomes(LoadLevels(p, {lv})) \/ Becomes(p)
      /\ asked' = None /\ UNCHANGED <<profile, cache, catalog>>
  BY DEF Toggle
<1>2. TypeOK /\ panel \in Panel /\ profile \in Profiles /\ profile' = profile
      /\ Good(panel, profile)
  BY <1>1 DEF IInv, TypeOK
<1>3. toggled \in SUBSET Levels
  BY <1>2 DEF Panel
<1> HIDE DEF toggled
<1>4. /\ p \in Panel /\ p.tree = panel.tree /\ p.loads = panel.loads
      /\ p.refreshes = panel.refreshes /\ p.tables_epoch = panel.tables_epoch
  BY <1>2, <1>3 DEF Panel
<1> HIDE DEF p
<1>5. Own(p, profile) /\ Reloads(p) /\ \A l \in Levels : Served(p, l)
  BY <1>2, <1>4, UnfoldedGood
<1>6. CASE Becomes(LoadLevels(p, {lv}))
  <2>1. {lv} \in SUBSET Levels
    OBVIOUS
  <2>2. LoadLevels(p, {lv}) \in Panel /\ Good(LoadLevels(p, {lv}), profile)
    BY <1>2, <1>4, <1>5, <2>1, LoadLevelsFields, LoadLevelsGood
  <2> QED BY <1>1, <1>2, <1>6, <2>2, BecomesKeeps
<1>7. CASE Becomes(p)
  BY <1>1, <1>2, <1>4, <1>5, <1>7, BecomesKeeps DEF Good
<1> QED BY <1>1, <1>6, <1>7

\* A refresh clears what it is of, and is noted when nothing else is under way.
LEMMA RefreshStep ==
    ASSUME IInv, NEW scope \in Scopes, NEW p \in Panel, Becomes(p), Asks(scope),
           UNCHANGED <<profile, cache, catalog>>,
           p.tables_epoch = panel.tables_epoch, p.loads = panel.loads,
           p.refreshes[scope].phase = "ready",
           p.refreshes[scope].epoch = panel.tables_epoch,
           scope # All => p.refreshes[scope].reloads,
           \A s \in Scopes : s # scope => p.refreshes[s] = panel.refreshes[s],
           \A lv \in Levels :
               \/ lv \in Dropped(scope) /\ p.tree[lv].state # "loaded"
                  /\ (p.tree[lv] = Loading => lv = scope)
               \/ lv \notin Dropped(scope) /\ p.tree[lv] = panel.tree[lv]
    PROVE  IInv'
<1>1. /\ panel \in Panel /\ Own(panel, profile) /\ Reloads(panel)
      /\ TypeOK /\ profile \in Profiles /\ profile' = profile
      /\ \A lv \in Levels : Served(panel, lv)
  BY DEF IInv, TypeOK, Good
<1>2. Own(p, profile)
  BY <1>1 DEF Own
<1>3. Reloads(p)
  BY <1>1, LevelFacts DEF Reloads, Scopes
<1>4. ASSUME NEW l \in Levels PROVE Served(p, l)
  <2>1. Served(panel, l) /\ l \in Scopes
    BY <1>1 DEF Scopes
  <2>2. CASE l = scope
    BY <2>2 DEF Served
  <2>3. CASE l # scope
    BY <2>1, <2>3 DEF Served
  <2> QED BY <2>2, <2>3
<1>5. Good(p, profile)
  BY <1>2, <1>3, <1>4 DEF Good
<1>6. CASE Busy
  <2>1. asked' = None
    BY <1>6 DEF Asks
  <2> QED BY <1>1, <1>5, <2>1, BecomesKeeps
<1>7. CASE ~Busy
  <2> DEFINE sc == IF scope = All THEN Root ELSE scope
  <2>1. asked' = [scope |-> sc, version |-> catalog]
    BY <1>7 DEF Asks
  <2>2. sc \in Levels /\ Under(sc) \subseteq Dropped(scope) /\ Under(sc) \subseteq Levels
    BY LevelFacts DEF Scopes, Dropped
  <2>3. asked' \in [scope : Levels, version : Nat] /\ asked'.scope = sc
        /\ asked'.version <= catalog'
    BY <1>1, <2>1, <2>2 DEF TypeOK
  <2> HIDE DEF sc
  <2>4. /\ orphans = {} /\ \A lv \in Levels : panel.loads[lv].phase = "none"
        /\ \A s \in Scopes : panel.refreshes[s].phase = "none"
    BY <1>7 DEF Busy
  <2>5. panel' = p /\ orphans' = {}
    BY <2>4 DEF Becomes, Cut
  <2>6. Dropping(sc)'
    BY <2>2, <2>4, <2>5 DEF Dropping
  <2>7. Refreshing'
    BY <2>3, <2>6 DEF Refreshing
  <2>8. TypeOK'
    BY <1>1, BecomesType
  <2> QED BY <1>1, <1>5, <2>5, <2>7, <2>8 DEF IInv
<1> QED BY <1>6, <1>7

\* A refresh of one level begins: its listing is dropped from the tree at once.
LEMMA RefreshLevelKeeps == ASSUME IInv, NEW lv \in Levels, RefreshLevel(lv) PROVE IInv'
<1> DEFINE tree == [l \in Levels |-> IF l = lv THEN Loading
                                     ELSE IF l \in Under(lv) THEN Unlisted ELSE panel.tree[l]]
           r == [phase |-> "ready", epoch |-> panel.tables_epoch, reloads |-> TRUE]
           p == [panel EXCEPT !.tree = tree, !.refreshes[lv] = r]
<1>1. Becomes(p) /\ Asks(lv) /\ UNCHANGED <<profile, cache, catalog>>
  BY DEF RefreshLevel
<1>2. panel \in Panel /\ panel.tables_epoch \in Nat /\ lv \in Scopes
  BY DEF IInv, TypeOK, Panel, Scopes
<1>3. tree \in [Levels -> Listing]
  BY <1>2, ListingTypes DEF Panel
<1>4. r \in Refresh /\ r.phase = "ready" /\ r.epoch = panel.tables_epoch /\ r.reloads
  BY <1>2 DEF Refresh
<1> HIDE DEF tree, r
<1>5. /\ p \in Panel /\ p.tables_epoch = panel.tables_epoch /\ p.loads = panel.loads
      /\ p.tree = tree /\ p.refreshes[lv] = r
      /\ \A s \in Scopes : s # lv => p.refreshes[s] = panel.refreshes[s]
  BY <1>2, <1>3, <1>4 DEF Panel
<1> HIDE DEF p
<1>6. lv \in Under(lv) /\ Dropped(lv) = Under(lv)
  BY LevelFacts, UnderSelf DEF Dropped
<1>7. ASSUME NEW l \in Levels
      PROVE  \/ l \in Dropped(lv) /\ p.tree[l].state # "loaded" /\ (p.tree[l] = Loading => l = lv)
             \/ l \notin Dropped(lv) /\ p.tree[l] = panel.tree[l]
  <2>1. Loading.state = "loading" /\ Unlisted.state = "none" /\ Unlisted # Loading
    BY DEF Loading, Unlisted
  <2> QED BY <1>5, <1>6, <2>1 DEF tree
<1> QED BY <1>1, <1>2, <1>4, <1>5, <1>7, RefreshStep

\* A refresh of everything begins: the tree forgets every listing at once.
LEMMA RefreshAllKeeps == ASSUME IInv, RefreshAll PROVE IInv'
<1> DEFINE tree == [l \in Levels |-> Unlisted]
           r == [phase |-> "ready", epoch |-> panel.tables_epoch, reloads |-> panel.expanded]
           p == [panel EXCEPT !.tree = tree, !.refreshes[All] = r]
<1>1. Becomes(p) /\ Asks(All) /\ UNCHANGED <<profile, cache, catalog>>
  BY DEF RefreshAll
<1>2. panel \in Panel /\ panel.tables_epoch \in Nat /\ panel.expanded \in BOOLEAN /\ All \in Scopes
  BY DEF IInv, TypeOK, Panel, Scopes
<1>3. tree \in [Levels -> Listing]
  BY ListingTypes
<1>4. r \in Refresh /\ r.phase = "ready" /\ r.epoch = panel.tables_epoch
  BY <1>2 DEF Refresh
<1> HIDE DEF tree, r
<1>5. /\ p \in Panel /\ p.tables_epoch = panel.tables_epoch /\ p.loads = panel.loads
      /\ p.tree = tree /\ p.refreshes[All] = r
      /\ \A s \in Scopes : s # All => p.refreshes[s] = panel.refreshes[s]
  BY <1>2, <1>3, <1>4 DEF Panel
<1> HIDE DEF p
<1>6. ASSUME NEW l \in Levels
      PROVE  l \in Dropped(All) /\ p.tree[l].state # "loaded" /\ p.tree[l] # Loading
  BY <1>5 DEF tree, Dropped, Loading, Unlisted
<1> QED BY <1>1, <1>2, <1>4, <1>5, <1>6, RefreshStep

\* Another environment: nothing is shown, and every listing under way is of an
\* earlier epoch.
LEMMA ChangeEnvironmentKeeps ==
    ASSUME IInv, NEW pr \in Profiles, ChangeEnvironment(pr) PROVE IInv'
<1> DEFINE tree == [l \in Levels |-> Unlisted]
           epoch == panel.tables_epoch + 1
           p == [panel EXCEPT !.tree = tree, !.expanded = FALSE, !.toggled = {},
                              !.tables_epoch = epoch]
<1>1. Becomes(p) /\ profile' = pr /\ asked' = None /\ UNCHANGED <<cache, catalog>>
  BY DEF ChangeEnvironment
<1>2. /\ panel \in Panel /\ panel.tables_epoch \in Nat /\ Own(panel, profile) /\ Reloads(panel)
      /\ panel.loads \in [Levels -> Load]
  BY DEF IInv, TypeOK, Panel, Good
<1>3. tree \in [Levels -> Listing] /\ \A l \in Levels : tree[l].state = "none"
  BY ListingTypes DEF Unlisted
<1>e. epoch \in Nat
  BY <1>2
<1> HIDE DEF tree, epoch
<1>4. /\ p \in Panel /\ p.tables_epoch = epoch /\ p.loads = panel.loads
      /\ p.tree = tree /\ p.refreshes = panel.refreshes
  BY <1>2, <1>3, <1>e DEF Panel
<1> HIDE DEF p
<1>5. ASSUME NEW l \in Levels
      PROVE  /\ p.loads[l].epoch <= p.tables_epoch /\ p.loads[l].epoch # p.tables_epoch
             /\ p.loads[l].listing.state # "loading"
  <2>1. panel.loads[l].epoch \in Nat
    BY <1>2 DEF Load
  <2> QED BY <1>2, <1>4, <2>1 DEF Own, epoch
<1>6. Own(p, pr)
  BY <1>3, <1>4, <1>5 DEF Own
<1>7. Reloads(p)
  BY <1>2, <1>4, Zenon DEF Reloads
<1>8. \A l \in Levels : Served(p, l)
  BY <1>3, <1>4 DEF Served, Loading
<1> QED BY <1>1, <1>4, <1>6, <1>7, <1>8, BecomesKeeps DEF Good

\* Another program changes the database: the version only grows.
LEMMA CatalogChangesKeeps == ASSUME IInv, CatalogChanges PROVE IInv'
<1>1. /\ catalog' = catalog + 1 /\ UNCHANGED <<panel, profile, cache, orphans, asked>>
  BY DEF CatalogChanges
<1>2. TypeOK' /\ Good(panel, profile)'
  BY <1>1 DEF IInv, TypeOK
<1>3. /\ Dropping(asked.scope) => Dropping(asked.scope)'
      /\ Since(asked.scope, asked.version) => Since(asked.scope, asked.version)'
  BY <1>1, Zenon DEF Dropping, Since
<1>4. Refreshing'
  <2> SUFFICES ASSUME asked # None
               PROVE  /\ asked \in [scope : Levels, version : Nat] /\ asked.version <= catalog'
                      /\ Dropping(asked.scope)' \/ Since(asked.scope, asked.version)'
    BY <1>1, Zenon DEF Refreshing
  <2>1. /\ asked \in [scope : Levels, version : Nat] /\ asked.version <= catalog
        /\ Dropping(asked.scope) \/ Since(asked.scope, asked.version)
    BY DEF IInv, Refreshing
  <2>2. asked.version <= catalog'
    BY <1>1, <2>1 DEF IInv, TypeOK
  <2> QED BY <1>3, <2>1, <2>2
<1> QED BY <1>2, <1>4 DEF IInv

-----------------------------------------------------------------------------
(* The theorems *)

\* The panel starts with nothing listed and nothing under way.
LEMMA InitInv == Init => IInv
<1> SUFFICES ASSUME Init PROVE IInv
  OBVIOUS
<1> DEFINE tree == [lv \in Levels |-> Unlisted]
           loads == [lv \in Levels |-> NoLoad]
           refreshes == [s \in Scopes |-> NoRefresh]
<1>1. /\ panel = [expanded |-> FALSE, toggled |-> {}, tree |-> tree, tables_epoch |-> 0,
                  loads |-> loads, refreshes |-> refreshes]
      /\ profile \in Profiles /\ orphans = {} /\ catalog = 0 /\ asked = None
  BY DEF Init
<1>2. cache \in [Profiles -> [Levels -> Nat \cup {None}]]
  BY DEF Init
<1>3. /\ tree \in [Levels -> Listing] /\ loads \in [Levels -> Load]
      /\ refreshes \in [Scopes -> Refresh]
  BY ListingTypes
<1>4. /\ \A lv \in Levels : tree[lv] = Unlisted /\ loads[lv] = NoLoad /\ refreshes[lv] = NoRefresh
  BY DEF Scopes
<1> HIDE DEF tree, loads, refreshes
<1>5. /\ panel \in Panel /\ panel.tree = tree /\ panel.loads = loads
      /\ panel.refreshes = refreshes /\ panel.tables_epoch = 0
  BY <1>1, <1>3 DEF Panel
<1>6. TypeOK
  BY <1>1, <1>2, <1>5 DEF TypeOK
<1>7. Good(panel, profile)
  BY <1>4, <1>5 DEF Good, Own, Reloads, Served, Unlisted, Loading, NoLoad, NoRefresh
<1> QED BY <1>1, <1>6, <1>7 DEF IInv, Refreshing

\* Every step keeps the inductive invariant.
LEMMA NextInv == IInv /\ [Next]_vars => IInv'
<1> SUFFICES ASSUME IInv, [Next]_vars PROVE IInv'
  OBVIOUS
<1>1. CASE User
  BY <1>1, ToggleConnectionKeeps, RefreshAllKeeps, ToggleKeeps, RefreshLevelKeeps,
     ChangeEnvironmentKeeps DEF User
<1>2. CASE CatalogChanges
  BY <1>2, CatalogChangesKeeps
<1>3. CASE Work
  BY <1>3, LookKeeps, ListKeeps, StoreKeeps, AnswerKeeps, InvalidateKeeps, ReloadKeeps,
     OrphanListsKeeps, OrphanStoresKeeps DEF Work
<1>4. CASE UNCHANGED vars
  <2>1. /\ panel' = panel /\ profile' = profile /\ cache' = cache /\ orphans' = orphans
        /\ catalog' = catalog /\ asked' = asked
    BY <1>4 DEF vars
  <2>2. TypeOK' /\ Good(panel, profile)'
    BY <2>1 DEF IInv, TypeOK
  <2>3. Refreshing'
    BY <2>1, Zenon DEF IInv, Refreshing, Dropping, Since
  <2> QED BY <2>2, <2>3 DEF IInv
<1> QED BY <1>1, <1>2, <1>3, <1>4 DEF Next

\* The inductive invariant holds of every behaviour of the explorer.
THEOREM Invariance == Spec => []IInv
BY InitInv, NextInv, PTL DEF Spec

\* Every variable keeps its type, for any tree of databases and schemas.
THEOREM TypeCorrect == Spec => []TypeOK
<1>1. IInv => TypeOK
  BY DEF IInv
<1> QED BY <1>1, Invariance, PTL

\* Nothing shown was listed for another environment, whatever was under way when
\* it changed and whatever the shared cache holds (tables_epoch).
THEOREM ShownIsOfTheEnvironment == Spec => []OwnEnvironment
<1>1. IInv => OwnEnvironment
  BY DEF IInv, Good, Own, OwnEnvironment
<1> QED BY <1>1, Invariance, PTL

\* No refresh, reload, answer or change leaves a level that says it is loading
\* without a task of the environment shown that will end it.
THEOREM EveryLoadIsServed == Spec => []LoadingIsServed
<1>1. IInv => LoadingIsServed
  BY Zenon DEF IInv, Good, Served, LoadingIsServed
<1> QED BY <1>1, Invariance, PTL

\* A refresh that nothing crossed shows nothing older than the click, however many
\* levels it unfolds: it reaches the database, not the cache it is refreshing.
THEOREM RefreshReachesTheDatabase == Spec => []RefreshReached
<1>1. IInv => RefreshReached
  <2> SUFFICES ASSUME IInv, asked # None, NEW lv \in Under(asked.scope),
                      panel.tree[lv].state = "loaded"
               PROVE  panel.tree[lv].version >= asked.version
    BY DEF RefreshReached
  <2>1. Since(asked.scope, asked.version)
    BY DEF IInv, Refreshing, Dropping
  <2> QED BY <2>1 DEF Since, Ahead, AsNew
<1> QED BY <1>1, Invariance, PTL
===============================================================================
