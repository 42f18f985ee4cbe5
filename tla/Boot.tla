-------------------------------- MODULE Boot --------------------------------
(***************************************************************************)
(* Kernel.boot (kernel/loader.py) and PluginRegistry.load_plugins          *)
(* (plugin_system/registry.py): the configuration is read, plugins are     *)
(* admitted and loaded one by one, meta plugins may change the             *)
(* configuration, and if they did everything is loaded again.              *)
(*                                                                         *)
(* A plugin is the index of its manifest: an id may have several, and the  *)
(* last one in path order is the one that counts.                          *)
(***************************************************************************)
EXTENDS UserConfig, Sequences

CONSTANTS Ids,          \* plugin ids
          Manifests,    \* the plugin.json files in path order
          Proposals,    \* changes a configurator may make: records like Overrides
          Grants        \* network_allowed_plugin_ids a policy plugin may return

Plugins == DOMAIN Manifests
NoPlugin == 0

Manifest ==
    [id : Ids,
     extra : BOOLEAN,         \* it lies below a search path
     enabled : BOOLEAN, deps : SUBSET Ids, network : BOOLEAN,
     locked : BOOLEAN,        \* the lockfile has its hashes
     entries : Seq(SUBSET STRING)] \* the capabilities of each entry point

Config ==
    [safeMode : BOOLEAN, allow : SUBSET Ids, pack : SUBSET Ids,
     enabled : UNION {[S -> BOOLEAN] : S \in SUBSET Ids},
     searched : BOOLEAN,      \* search_paths is not empty
     enforce : BOOLEAN,       \* locks.enforce
     hosted : BOOLEAN,        \* hosting.mode = "subprocess"
     inproc : SUBSET Ids, net : SUBSET Ids,
     configurators : SUBSET Ids, policies : SUBSET Ids,
     top : STRING]            \* every other section

\* config/default.json searches nowhere and lets no meta plugin have a say.
ASSUME BootAssumption ==
    /\ Manifests \in Seq(Manifest)
    /\ Default \in Config
    /\ ~Default.searched /\ Default.configurators = {} /\ Default.policies = {}

VARIABLES
    safe,               \* --safe-mode
    config,             \* Kernel.config, the registry's and the contexts' config
    updated,            \* _apply_meta_plugins' updated
    shared,             \* config["plugins"] and updated["plugins"] are one object
    load,               \* 1 or 2: the first load_plugins, or the one after a change
    todo,               \* ids load_plugins has yet to come to
    current, entry,     \* the plugin being loaded, its entry points loaded so far
    loaded,             \* load_plugins' loaded: [by, hosted, caps]
    table,              \* CapabilityRegistry._capabilities: cap -> [by, network]
    position,           \* of the meta plugin loop in loaded
    error,              \* what the last boot failed with
    loadedWith,         \* history: the configuration the load under way began with
    ran,                \* history: plugins whose code has run in this load
    altered             \* history: config was changed through the shared object

bootVars == <<safe, config, updated, shared, load, todo, current, entry, loaded,
              table, position, error, loadedWith, ran, altered>>
vars == <<files, cmd, bootVars>>

Phases == {"load", "configure", "police", "compare"}

----------------------------------------------------------------------------
(* What the registry decides from a configuration.                         *)

\* discover_manifests: plugins/builtin, and the search paths.
Found(c) == {k \in Plugins : Manifests[k].extra => c.searched}
FoundIds(c) == {Manifests[k].id : k \in Found(c)}

\* manifests_by_id: a later manifest replaces an earlier one of the same id ...
Wins(c, k) ==
    /\ k \in Found(c)
    /\ \A j \in Found(c) : Manifests[j].id = Manifests[k].id => j <= k

\* ... and keeps its place: of the ids that are left, the next one is the one
\* that was found first.
IsNext(c, i) ==
    i \in todo /\ \E k \in Found(c) :
        /\ Manifests[k].id = i
        /\ \A j \in Found(c) : Manifests[j].id \in todo => k <= j

\* is_enabled, for an id that was found
SwitchedOn(c, i) ==
    IF c.safeMode THEN i \in c.pack
    ELSE IF i \in DOMAIN c.enabled THEN c.enabled[i]
    ELSE \A k \in Plugins : Wins(c, k) /\ Manifests[k].id = i => Manifests[k].enabled

\* enabled_set
Enabled(c, i) == i \in FoundIds(c) /\ i \in c.allow /\ SwitchedOn(c, i)

\* Mutation of DependenciesMet: the allowlist is enough.
DependenciesListed(c, k) == \A d \in Manifests[k].deps : d \in c.allow
DependenciesMet(c, k) == \A d \in Manifests[k].deps : Enabled(c, d)

\* Mutation of LockHolds: the lock is looked up by id, and an earlier manifest's will do.
LockOfId(c, k) ==
    c.enforce => \E j \in Plugins : Manifests[j].id = Manifests[k].id /\ Manifests[j].locked
\* _check_lock: the id is in the lockfile and both hashes are those of the files.
LockHolds(c, k) == c.enforce => Manifests[k].locked

\* _check_permissions
NetworkGranted(c, k) == Manifests[k].network => Manifests[k].id \in c.net

Admissible(c, k) ==
    /\ DependenciesMet(c, k)
    /\ NetworkGranted(c, k)
    /\ LockHolds(c, k)
    /\ Manifests[k].entries # << >>

\* load_plugins: hosting_mode and inproc_allowlist.
Hosted(c, k) == c.hosted /\ Manifests[k].id \notin c.inproc

----------------------------------------------------------------------------

TypeOK ==
    /\ FilesTypeOK
    /\ cmd \in {"none", "up"} \cup Commands \cup Phases
    /\ safe \in BOOLEAN /\ shared \in BOOLEAN /\ altered \in BOOLEAN
    /\ config \in Config /\ updated \in Config /\ loadedWith \in Config
    /\ load \in {1, 2}
    /\ todo \subseteq Ids
    /\ current \in Plugins \cup {NoPlugin} /\ entry \in Nat
    /\ \A n \in DOMAIN loaded :
          loaded[n].by \in Plugins /\ loaded[n].hosted \in BOOLEAN
    /\ \A cap \in DOMAIN table : table[cap].by \in Plugins
    /\ position \in 1..(Len(loaded) + 1)
    /\ error \in {"none", "unreadable", "invalid", "refused", "raised", "unhosted"}
    /\ ran \in SUBSET Plugins

Init ==
    /\ FilesInit
    /\ safe = FALSE /\ shared = TRUE /\ altered = FALSE
    /\ config = Default /\ updated = Default /\ loadedWith = Default
    /\ load = 1 /\ todo = {} /\ current = NoPlugin /\ entry = 0
    /\ loaded = << >> /\ table = << >> /\ position = 1
    /\ ran = {}
    /\ error = "none"

\* The process ends; only the error of its boot is remembered.
Ends(why) ==
    /\ cmd' = "none"
    /\ error' = why
    /\ safe' = FALSE /\ shared' = TRUE /\ altered' = FALSE
    /\ config' = Default /\ updated' = Default /\ loadedWith' = Default
    /\ load' = 1 /\ todo' = {} /\ current' = NoPlugin /\ entry' = 0
    /\ loaded' = << >> /\ table' = << >> /\ position' = 1
    /\ ran' = {}
    /\ UNCHANGED files

----------------------------------------------------------------------------
(* load_config                                                             *)

\* Mutation of Effective: safe mode is switched on, the overrides stay.
EffectiveMerged(safely) ==
    LET c == IF userFile \in {Absent, Torn} THEN Default ELSE Merged(Default, userFile)
    IN IF safely THEN [c EXCEPT !.safeMode = TRUE] ELSE c
Effective(safely) ==
    IF safely THEN [Default EXCEPT !.safeMode = TRUE]
    ELSE IF userFile = Absent THEN Default ELSE Merged(Default, userFile)

\* A load begins with a registry of its own.
BeginLoad(c) ==
    /\ todo' = FoundIds(c)
    /\ current' = NoPlugin /\ entry' = 0
    /\ loaded' = << >> /\ table' = << >> /\ position' = 1
    /\ ran' = {}
    /\ loadedWith' = c

ReadConfig(safely) ==
    /\ cmd = "none"
    /\ safely \/ userFile # Torn
    /\ Valid(Effective(safely))
    /\ cmd' = "load"
    /\ safe' = safely
    /\ config' = Effective(safely) /\ updated' = config' /\ shared' = TRUE
    /\ load' = 1
    /\ BeginLoad(config')
    /\ error' = "none" /\ altered' = FALSE
    /\ UNCHANGED files

\* JSONDecodeError, ConfigError
ConfigUnusable ==
    /\ cmd = "none"
    /\ \/ userFile = Torn /\ Ends("unreadable")
       \/ userFile # Torn /\ ~Valid(Effective(FALSE)) /\ Ends("invalid")

----------------------------------------------------------------------------
(* load_plugins                                                            *)

Choosing(i) == cmd = "load" /\ current = NoPlugin /\ IsNext(config, i)

SkipPlugin ==
    /\ \E i \in todo :
          /\ Choosing(i) /\ ~Enabled(config, i)
          /\ todo' = todo \ {i}
    /\ UNCHANGED <<files, cmd, safe, config, updated, shared, load, current, entry, loaded,
                   table, position, error, loadedWith, ran, altered>>

AdmitPlugin ==
    /\ \E k \in Plugins :
          /\ Choosing(Manifests[k].id) /\ Enabled(config, Manifests[k].id)
          /\ Wins(config, k) /\ Admissible(config, k)
          /\ current' = k
          /\ todo' = todo \ {Manifests[k].id}
    /\ entry' = 0
    /\ UNCHANGED <<files, cmd, safe, config, updated, shared, load, loaded, table,
                   position, error, loadedWith, ran, altered>>

\* PluginError ends the boot, whatever was loaded before.
RefusePlugin ==
    /\ \E k \in Plugins :
          /\ Choosing(Manifests[k].id) /\ Enabled(config, Manifests[k].id)
          /\ Wins(config, k) /\ ~Admissible(config, k)
    /\ Ends("refused")

\* Mutation of Registered: who came first stays.
RegisteredFirst(caps, k) == Update([cap \in caps |-> [by |-> k, network |-> Manifests[k].network]], table)
\* CapabilityRegistry.register
Registered(caps, k) == Update(table, [cap \in caps |-> [by |-> k, network |-> Manifests[k].network]])

\* One entry point: its module is executed and its factory called, here or in a
\* child process, and what it offers is registered.
LoadEntry ==
    /\ cmd = "load" /\ current # NoPlugin
    /\ LET caps == Manifests[current].entries[entry + 1]
       IN /\ table' = Registered(caps, current)
          /\ loaded' = Append(loaded, [by |-> current, hosted |-> Hosted(config, current),
                                       caps |-> caps])
    /\ ran' = ran \cup {current}
    /\ IF entry + 1 < Len(Manifests[current].entries)
       THEN entry' = entry + 1 /\ UNCHANGED current
       ELSE entry' = 0 /\ current' = NoPlugin
    /\ UNCHANGED <<files, cmd, safe, config, updated, shared, load, todo, position, error,
                   loadedWith, altered>>

\* Its file or its factory is missing, it raises, or its child dies.
EntryFails == cmd = "load" /\ current # NoPlugin /\ Ends("raised")

\* Mutation of AfterLoad: every load is followed by the meta plugins.
AfterEveryLoad == "configure"
AfterLoad == IF load = 1 THEN "configure" ELSE "up"

LoadDone ==
    /\ cmd = "load" /\ current = NoPlugin /\ todo = {}
    /\ cmd' = AfterLoad
    /\ UNCHANGED <<files, bootVars>>

----------------------------------------------------------------------------
(* _apply_meta_plugins.  Who is allowed is read before anything is changed, *)
(* which is the configuration of the load.                                  *)

Meta == loaded[position]
IsMeta(cap, allowed) ==
    position <= Len(loaded) /\ Manifests[Meta.by].id \in allowed /\ cap \in Meta.caps
IsConfigurator == IsMeta("meta.configurator", loadedWith.configurators)
IsPolicy == IsMeta("meta.policy", loadedWith.policies)

\* Mutation of NextPosition: the list is shortened while it is walked.
NextPositionShortened == position + 2
NextPosition == position + 1

NextMeta ==
    /\ position' = NextPosition
    /\ UNCHANGED <<files, cmd, safe, load, todo, current, entry, loaded, table, error,
                   loadedWith, ran>>

\* A change within config["plugins"] reaches config while it is shared; one of
\* another section does not, for the outer dictionary was copied.
ChangeInPlace(change) ==
    /\ updated' = Merged(updated, change)
    /\ config' = IF shared THEN [Merged(config, change) EXCEPT !.top = config.top] ELSE config
    /\ altered' = (altered \/ config' # config)

\* Mutation of Copied: what a configurator returns is taken for config itself.
CopiedOver(change) ==
    updated' = Merged(updated, change) /\ config' = updated' /\ UNCHANGED <<shared, altered>>
Copied(change) ==
    updated' = Merged(updated, change) /\ shared' = FALSE /\ UNCHANGED <<config, altered>>

\* configure(updated) returns its argument as it was, or changed, or a changed copy.
Configure ==
    /\ cmd = "configure" /\ IsConfigurator /\ ~Meta.hosted
    /\ NextMeta
    /\ \/ UNCHANGED <<config, updated, shared, altered>>
       \/ \E change \in Proposals :
             \/ ChangeInPlace(change) /\ UNCHANGED shared
             \/ Copied(change)

\* updated["plugins"]["permissions"] = apply(...)
ApplyPolicy ==
    /\ cmd = "police" /\ IsPolicy /\ ~Meta.hosted
    /\ NextMeta
    /\ \E grant \in Grants : ChangeInPlace([net |-> grant])
    /\ UNCHANGED shared

\* Any other plugin.
PassMeta ==
    /\ \/ cmd = "configure" /\ position <= Len(loaded) /\ ~IsConfigurator
       \/ cmd = "police" /\ position <= Len(loaded) /\ ~IsPolicy
    /\ NextMeta
    /\ UNCHANGED <<config, updated, shared, altered>>

MetaLoopDone ==
    /\ cmd \in {"configure", "police"} /\ position > Len(loaded)
    /\ cmd' = IF cmd = "configure" THEN "police" ELSE "compare"
    /\ position' = 1
    /\ UNCHANGED <<files, safe, config, updated, shared, load, todo, current, entry, loaded,
                   table, error, loadedWith, ran, altered>>

\* It raises; or it is hosted, and SubprocessPlugin has no such method.
MetaFails ==
    /\ \/ cmd = "configure" /\ IsConfigurator
       \/ cmd = "police" /\ IsPolicy
    /\ Ends(IF Meta.hosted THEN "unhosted" ELSE "raised")

----------------------------------------------------------------------------
(* boot, after the meta plugins.                                           *)

NothingChanged ==
    /\ cmd = "compare" /\ updated = config
    /\ cmd' = "up"
    /\ UNCHANGED <<files, bootVars>>

LoadAgain ==
    /\ cmd = "compare" /\ updated # config /\ Valid(updated)
    /\ cmd' = "load"
    /\ config' = updated /\ shared' = TRUE
    /\ load' = 2
    /\ BeginLoad(updated)
    /\ UNCHANGED <<files, safe, updated, error, altered>>

ChangeInvalid ==
    /\ cmd = "compare" /\ updated # config /\ ~Valid(updated)
    /\ Ends("invalid")

\* The command is done, or killed on the way up.
Exit == cmd \in Phases \cup {"up"} /\ Ends("none")

----------------------------------------------------------------------------

Step ==
    \/ SkipPlugin \/ AdmitPlugin \/ RefusePlugin \/ LoadEntry \/ EntryFails \/ LoadDone
    \/ Configure \/ ApplyPolicy \/ PassMeta \/ MetaLoopDone \/ MetaFails
    \/ NothingChanged \/ LoadAgain \/ ChangeInvalid

Next ==
    \/ ConfigCommand /\ UNCHANGED bootVars
    \/ \E safely \in BOOLEAN : ReadConfig(safely)
    \/ ConfigUnusable
    \/ Step
    \/ Exit

Spec == Init /\ [][Next]_vars

\* boot is straight-line code; factories and meta plugins are taken to return.
FairSpec == Spec /\ WF_vars(Step)

----------------------------------------------------------------------------
(* Properties.                                                             *)

Up == cmd = "up"
Id(n) == Manifests[loaded[n].by].id

\* contracts/security.md, "Fail-closed defaults": code runs only of plugins that
\* are allowlisted, of the pack in safe mode, the very files that are locked, and
\* without the network unless they may, by the configuration they are loaded
\* under; also when two manifests claim one id, and when a load comes to nothing.
OnlyAdmittedCodeRuns ==
    \A k \in ran :
        LET m == Manifests[k]
            c == loadedWith
        IN /\ m.id \in c.allow
           /\ c.safeMode => m.id \in c.pack
           /\ c.enforce => m.locked
           /\ m.network => m.id \in c.net

\* In a system that is up every dependency of a plugin is loaded, though nothing
\* orders the loading by it and a dependency may come, or fail, later.
DependenciesLoaded ==
    Up => \A n \in DOMAIN loaded : \A d \in Manifests[loaded[n].by].deps :
              \E j \in DOMAIN loaded : Id(j) = d

\* "Safe mode boots with defaults only and ignores user overrides"
\* (docs/safe_mode.md:3): under --safe-mode neither a user's configuration nor what
\* lies below their search paths has a say.
SafeModeHolds ==
    safe => \A k \in ran : Manifests[k].id \in Default.pack /\ ~Manifests[k].extra

\* "If plugins.safe_mode is true, only plugins.default_pack may load. Any user
\* overrides are ignored" (contracts/plugin_sdk.md:63): the same of a user's file
\* that switches safe mode on.
SafeModeOfTheFileHolds ==
    loadedWith.safeMode =>
        \A k \in ran : Manifests[k].id \in Default.pack /\ ~Manifests[k].extra

\* The capability table is that of the plugins of the system: each capability is
\* the last plugin's that offers it, and guarded by that plugin's permission.
TableMatchesLoaded ==
    Up => /\ DOMAIN table = UNION {loaded[n].caps : n \in DOMAIN loaded}
          /\ \A n \in DOMAIN loaded : \A cap \in loaded[n].caps :
                (\A j \in DOMAIN loaded : j > n => cap \notin loaded[j].caps)
                => table[cap] = [by |-> loaded[n].by,
                                 network |-> Manifests[loaded[n].by].network]

\* The system's plugins were loaded under the configuration it shows, whatever
\* copies configurators returned; unless config was changed behind boot's back.
LoadedAsConfigured == Up /\ ~altered => config = loadedWith

\* boot comes to an end: a change by a meta plugin is loaded once, and not asked about again.
BootEnds == cmd \in Phases ~> cmd \in {"none", "up"}

\* "meta.policy may propose permission changes when explicitly allowed"
\* (contracts/plugin_sdk.md): no plugin of the system has a network permission
\* the policy took away.
PolicyTakesEffect ==
    Up => \A n \in DOMAIN loaded : Manifests[loaded[n].by].network => Id(n) \in config.net

\* The same, for being asked at all.
MetaPluginsAreAsked == error # "unhosted"

============================================================================
