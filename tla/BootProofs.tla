----------------------------- MODULE BootProofs -----------------------------
(***************************************************************************)
(* Safety of Boot and UserConfig, for any manifests and any configuration  *)
(* a user, a configurator or a policy may write.                           *)
(***************************************************************************)
EXTENDS Boot, SequenceTheorems, TLAPS

SafeConfig == [Default EXCEPT !.safeMode = TRUE]

\* What was checked of a plugin before its code runs.
Cleared(c, k) ==
    /\ k \in Found(c)
    /\ Enabled(c, Manifests[k].id)
    /\ DependenciesMet(c, k)
    /\ NetworkGranted(c, k)
    /\ LockHolds(c, k)

Admitted ==
    /\ current # NoPlugin => cmd = "load" /\ Cleared(loadedWith, current)
    /\ \A k \in ran : Cleared(loadedWith, k)
    /\ \A n \in DOMAIN loaded : loaded[n].by \in ran

\* An id that is switched on is loaded, under way, or still to come.
Loading(i) ==
    \/ i \in todo
    \/ current # NoPlugin /\ Manifests[current].id = i
    \/ \E n \in DOMAIN loaded : Id(n) = i

NoneForgotten ==
    cmd \in Phases \cup {"up"} =>
        /\ \A i : Enabled(loadedWith, i) => Loading(i)
        /\ cmd # "load" => todo = {}

\* config strays from what was loaded only after a change in place, and not
\* while plugins are being loaded.
Settled == cmd = "load" \/ ~altered => config = loadedWith

\* Nobody is asked for changes in safe mode.
StaysSafe == safe => loadedWith = SafeConfig /\ config = SafeConfig /\ updated = SafeConfig

\* The table at every moment of a load.
Offers(n, cap) == n \in DOMAIN loaded /\ cap \in loaded[n].caps
Provider(k) == [by |-> k, network |-> Manifests[k].network]

TableFollows ==
    /\ \A cap : cap \in DOMAIN table <=> \E n : Offers(n, cap)
    /\ \A n, cap : Offers(n, cap) /\ (\A j : j > n => ~Offers(j, cap))
                   => table[cap] = Provider(loaded[n].by)

\* Where what the user wrote is while a command is at work.
WrittenIsKept ==
    ~discarded /\ written # Absent =>
        /\ cmd = "backup" => userFile = written
        /\ cmd \in {"reset", "dump", "copy"} => backupFile = written
        /\ written \in {userFile, backupFile}

Loaded == [by : Plugins, hosted : BOOLEAN, caps : SUBSET STRING]

IInv ==
    /\ current \in Plugins \cup {NoPlugin}
    /\ entry \in Nat
    /\ current # NoPlugin => entry + 1 \in DOMAIN Manifests[current].entries
    /\ loaded \in Seq(Loaded)
    /\ Admitted /\ NoneForgotten /\ Settled /\ StaysSafe
    /\ TableFollows
    /\ WrittenIsKept

----------------------------------------------------------------------------

LEMMA InitEstablishes == Init => IInv
<1> SUFFICES ASSUME Init PROVE IInv  OBVIOUS
<1> USE DEF Init, FilesInit
<1>1. Admitted /\ NoneForgotten /\ Settled /\ StaysSafe
  BY DEF Admitted, NoneForgotten, Phases, Settled, StaysSafe
<1>2. TableFollows  BY DEF TableFollows, Offers
<1>3. WrittenIsKept  BY DEF WrittenIsKept
<1>4. loaded \in Seq(Loaded)  BY EmptySeq
<1>5. QED  BY <1>1, <1>2, <1>3, <1>4 DEF IInv

\* The process ends, from wherever it was.
LEMMA EndsPreserves ==
    ASSUME IInv, NEW why, Ends(why)
    PROVE  IInv'
<1> USE DEF Ends
<1>1. (Admitted /\ NoneForgotten /\ Settled /\ StaysSafe)'
  BY DEF Admitted, NoneForgotten, Phases, Settled, StaysSafe
<1>2. TableFollows'  BY DEF TableFollows, Offers
<1>3. WrittenIsKept'  BY DEF IInv, WrittenIsKept, files
<1>4. loaded' \in Seq(Loaded)  BY EmptySeq
<1>5. QED  BY <1>1, <1>2, <1>3, <1>4 DEF IInv

\* A load begins with the configuration c.
LEMMA BeginLoadPreserves ==
    ASSUME IInv, NEW c, BeginLoad(c), config' = c,
           safe' => c = SafeConfig /\ updated' = SafeConfig,
           cmd \notin Commands, cmd' = "load", UNCHANGED files
    PROVE  IInv'
<1> USE DEF BeginLoad
<1>1. (Admitted /\ NoneForgotten /\ Settled /\ StaysSafe)'
  BY DEF Admitted, NoneForgotten, Loading, Enabled, Settled, StaysSafe
<1>2. TableFollows'  BY DEF TableFollows, Offers
<1>3. WrittenIsKept'  BY DEF IInv, WrittenIsKept, files
<1>4. loaded' \in Seq(Loaded)  BY EmptySeq
<1>5. QED  BY <1>1, <1>2, <1>3, <1>4 DEF IInv

\* A step that registers nothing and loads nothing.
LEMMA TableUnchanged ==
    ASSUME TableFollows, UNCHANGED <<loaded, table>>
    PROVE  TableFollows'
BY DEF TableFollows, Offers

----------------------------------------------------------------------------
(* The commands of UserConfig.                                             *)

LEMMA CommandPreserves ==
    ASSUME IInv, ConfigCommand, UNCHANGED bootVars
    PROVE  IInv'
<1> USE DEF bootVars
<1>1. cmd \notin Phases \cup {"up"} /\ cmd' \notin Phases \cup {"up"}
  BY DEF Phases, ConfigCommand, Edit, BeginBackup, EndBackup, BeginReset, BackedUp, EndReset,
         BeginRestore, EndRestore, CommandDies, Commands
<1>2. (Admitted /\ NoneForgotten /\ Settled /\ StaysSafe)'
  BY <1>1 DEF IInv, Admitted, NoneForgotten, Phases, Settled, StaysSafe
<1>3. TableFollows'  BY TableUnchanged DEF IInv
<1>4. WrittenIsKept'
  <2> USE DEF IInv, WrittenIsKept
  <2>1. CASE Edit  BY <2>1 DEF Edit
  <2>2. CASE BeginBackup  BY <2>2 DEF BeginBackup
  <2>3. CASE EndBackup  BY <2>3 DEF EndBackup
  <2>4. CASE BeginReset  BY <2>4 DEF BeginReset, BackedUp
  <2>5. CASE EndReset  BY <2>5 DEF EndReset
  <2>6. CASE BeginRestore  BY <2>6 DEF BeginRestore
  <2>7. CASE EndRestore  BY <2>7 DEF EndRestore
  <2>8. CASE CommandDies  BY <2>8 DEF CommandDies, files
  <2>9. QED  BY <2>1, <2>2, <2>3, <2>4, <2>5, <2>6, <2>7, <2>8 DEF ConfigCommand
<1>5. QED  BY <1>2, <1>3, <1>4 DEF IInv

----------------------------------------------------------------------------
(* load_plugins.                                                           *)

LEMMA ManifestType ==
    ASSUME NEW k \in Plugins
    PROVE  /\ Manifests[k].entries \in Seq(SUBSET STRING)
           /\ Manifests[k].id \in Ids
<1>1. Manifests[k] \in Manifest
  BY BootAssumption, LenProperties, ElementOfSeq DEF Plugins
<1>2. QED  BY <1>1 DEF Manifest

LEMMA ReadPreserves ==
    ASSUME IInv, NEW safely \in BOOLEAN, ReadConfig(safely)
    PROVE  IInv'
<1>1. safe' => config' = SafeConfig /\ updated' = SafeConfig
  BY DEF ReadConfig, Effective, SafeConfig
<1>2. /\ BeginLoad(config') /\ cmd = "none" /\ cmd' = "load"
      /\ UNCHANGED files
  BY DEF ReadConfig
<1>3. QED  BY <1>1, <1>2, BeginLoadPreserves DEF Commands

LEMMA SkipPreserves ==
    ASSUME IInv, SkipPlugin
    PROVE  IInv'
<1> USE DEF SkipPlugin, Choosing
<1>1. (Admitted /\ Settled /\ StaysSafe)'  BY DEF IInv, Admitted, Settled, StaysSafe
<1>2. TableFollows'  BY TableUnchanged DEF IInv
<1>3. WrittenIsKept'  BY DEF IInv, WrittenIsKept, files
<1>4. NoneForgotten'
  <2>1. PICK i \in todo : ~Enabled(loadedWith, i) /\ todo' = todo \ {i}
    BY DEF IInv, Settled
  <2>2. QED  BY <2>1 DEF IInv, NoneForgotten, Loading, Phases, Enabled, Id
<1>5. QED  BY <1>1, <1>2, <1>3, <1>4 DEF IInv

LEMMA AdmitPreserves ==
    ASSUME IInv, AdmitPlugin
    PROVE  IInv'
<1> USE DEF AdmitPlugin, Choosing
<1>1. PICK k \in Plugins :
         /\ Enabled(config, Manifests[k].id) /\ Wins(config, k) /\ Admissible(config, k)
         /\ current' = k
         /\ todo' = todo \ {Manifests[k].id}
  OBVIOUS
<1>2. config = loadedWith  BY DEF IInv, Settled
<1>3. Cleared(loadedWith, k)
  BY <1>1, <1>2 DEF Cleared, Wins, Admissible
<1>4. Admitted'  BY <1>1, <1>3 DEF IInv, Admitted
<1>5. (Settled /\ StaysSafe)'  BY DEF IInv, Settled, StaysSafe
<1>6. TableFollows'  BY TableUnchanged DEF IInv
<1>7. WrittenIsKept'  BY DEF IInv, WrittenIsKept, files
<1>8. 1 \in DOMAIN Manifests[k].entries
  <2>1. Manifests[k].entries \in Seq(SUBSET STRING) /\ Manifests[k].entries # << >>
    BY <1>1, ManifestType DEF Admissible
  <2>2. QED  BY <2>1, EmptySeq, LenProperties
<1>9. NoneForgotten'
  <2>1. k # NoPlugin
    BY BootAssumption, LenProperties DEF Plugins, NoPlugin
  <2>2. QED  BY <1>1, <2>1 DEF IInv, NoneForgotten, Loading, Phases, Enabled, Id
<1>10. QED  BY <1>1, <1>4, <1>5, <1>6, <1>7, <1>8, <1>9 DEF IInv

\* What is registered last wins, and is the last in loaded.
LEMMA RegisterFollows ==
    ASSUME loaded \in Seq(Loaded), TableFollows,
           NEW item \in Loaded,
           loaded' = Append(loaded, item),
           table' = Registered(item.caps, item.by)
    PROVE  TableFollows'
<1> DEFINE last == Len(loaded) + 1
<1>1. /\ Len(loaded) \in Nat /\ DOMAIN loaded = 1..Len(loaded)
      /\ DOMAIN loaded' = 1..last
      /\ \A n \in DOMAIN loaded : loaded'[n] = loaded[n]
      /\ loaded'[last] = item
  BY LenProperties, AppendProperties
<1>2. \A cap, n : Offers(n, cap)' <=> Offers(n, cap) \/ (n = last /\ cap \in item.caps)
  BY <1>1 DEF Offers
<1>3. \A cap : cap \in DOMAIN table' <=> cap \in item.caps \/ cap \in DOMAIN table
  BY DEF Registered, Update
<1>4. \A cap : cap \in DOMAIN table' =>
         table'[cap] = IF cap \in item.caps THEN Provider(item.by) ELSE table[cap]
  BY DEF Registered, Update, Provider
<1>5. \A cap : (cap \in DOMAIN table <=> \E n : Offers(n, cap))'
  BY <1>2, <1>3 DEF TableFollows
<1>6. ASSUME NEW n, NEW cap, Offers(n, cap)', \A j : j > n => ~Offers(j, cap)'
      PROVE  (table[cap] = Provider(loaded[n].by))'
  <2>0. cap \in DOMAIN table'  BY <1>5, <1>6
  <2>1. CASE cap \in item.caps
    <3>1. \A m : m = last => Offers(m, cap)'  BY <1>2, <2>1
    <3>2. n = last  BY <1>1, <1>6, <3>1 DEF Offers
    <3>3. QED  BY <1>1, <1>4, <2>0, <2>1, <3>2 DEF Provider
  <2>2. CASE cap \notin item.caps
    <3>1. Offers(n, cap) /\ \A j : j > n => ~Offers(j, cap)  BY <1>2, <1>6, <2>2
    <3>2. table[cap] = Provider(loaded[n].by)  BY <3>1 DEF TableFollows
    <3>3. loaded'[n] = loaded[n]  BY <1>1, <3>1 DEF Offers
    <3>4. QED  BY <1>4, <2>0, <2>2, <3>2, <3>3 DEF Provider
  <2>3. QED  BY <2>1, <2>2
<1>7. QED  BY <1>5, <1>6 DEF TableFollows

LEMMA LoadEntryPreserves ==
    ASSUME IInv, LoadEntry
    PROVE  IInv'
<1> USE DEF LoadEntry
<1> DEFINE caps == Manifests[current].entries[entry + 1]
           item == [by |-> current, hosted |-> Hosted(config, current), caps |-> caps]
<1>1. current \in Plugins  BY DEF IInv
<1>2. Manifests[current].entries \in Seq(SUBSET STRING)  BY <1>1, ManifestType
<1>3. caps \in SUBSET STRING
  BY <1>2, ElementOfSeq, LenProperties DEF IInv
<1>4. item \in Loaded  BY <1>1, <1>3 DEF Loaded, Hosted
<1>5. loaded' = Append(loaded, item) /\ table' = Registered(item.caps, item.by)  OBVIOUS
<1>6. loaded' \in Seq(Loaded)  BY <1>4, <1>5, AppendProperties DEF IInv
<1>7. TableFollows'  BY <1>4, <1>5, RegisterFollows DEF IInv
<1>8. /\ current' \in Plugins \cup {NoPlugin}
      /\ entry' \in Nat
      /\ current' # NoPlugin => entry' + 1 \in DOMAIN Manifests[current'].entries
  BY <1>1, <1>2, LenProperties DEF IInv
<1>9. /\ DOMAIN loaded' = 1..(Len(loaded) + 1) /\ DOMAIN loaded = 1..Len(loaded)
      /\ Len(loaded) \in Nat
      /\ \A n \in DOMAIN loaded : loaded'[n] = loaded[n]
      /\ loaded'[Len(loaded) + 1].by = current
  BY <1>4, <1>5, LenProperties, AppendProperties DEF IInv
<1>10. Admitted'
  <2>1. \A n \in DOMAIN loaded' : n \in DOMAIN loaded \/ n = Len(loaded) + 1  BY <1>9
  <2>2. \A n \in DOMAIN loaded' : loaded'[n].by \in ran'  BY <1>9, <2>1 DEF IInv, Admitted
  <2>3. QED  BY <2>2 DEF IInv, Admitted
<1>11. (Settled /\ StaysSafe)'  BY DEF IInv, Settled, StaysSafe
<1>12. NoneForgotten'
  <2>1. ASSUME NEW i, Loading(i) PROVE Loading(i)'
    <3>1. \A n \in DOMAIN loaded : n \in DOMAIN loaded'  BY <1>9
    <3>2. Len(loaded) + 1 \in DOMAIN loaded'  BY <1>9
    <3>3. QED  BY <1>9, <2>1, <3>1, <3>2 DEF Loading, Id
  <2>2. QED  BY <2>1 DEF IInv, NoneForgotten, Phases, Enabled, FoundIds, Found, SwitchedOn, Wins
<1>13. WrittenIsKept'  BY DEF IInv, WrittenIsKept, files
<1>14. QED  BY <1>6, <1>7, <1>8, <1>10, <1>11, <1>12, <1>13 DEF IInv

LEMMA LoadDonePreserves ==
    ASSUME IInv, LoadDone
    PROVE  IInv'
<1> USE DEF LoadDone, bootVars, AfterLoad
<1>1. (Admitted /\ NoneForgotten /\ Settled /\ StaysSafe)'
  BY DEF IInv, Admitted, NoneForgotten, Loading, Phases, Id, Settled, StaysSafe
<1>2. TableFollows'  BY TableUnchanged DEF IInv
<1>3. WrittenIsKept'  BY DEF IInv, WrittenIsKept, files
<1>4. QED  BY <1>1, <1>2, <1>3 DEF IInv

----------------------------------------------------------------------------
(* The meta plugins.                                                       *)

LEMMA NobodyAskedInSafeMode ==
    ASSUME IInv, safe
    PROVE  ~IsConfigurator /\ ~IsPolicy
<1>1. loadedWith = SafeConfig  BY DEF IInv, StaysSafe
<1>2. SafeConfig.configurators = {} /\ SafeConfig.policies = {}
  BY BootAssumption DEF SafeConfig, Config
<1>3. QED  BY <1>1, <1>2 DEF IsConfigurator, IsPolicy, IsMeta

\* A step of either loop outside a load, which changes config or says so.
LEMMA MetaPreserves ==
    ASSUME IInv, NextMeta, cmd # "load",
           \/ config' = config /\ altered' = altered
           \/ altered' = (altered \/ config' # config),
           safe => UNCHANGED <<config, updated>>
    PROVE  IInv'
<1> USE DEF NextMeta
<1>1. (Admitted /\ NoneForgotten)'
  BY DEF IInv, Admitted, NoneForgotten, Loading, Phases, Id
<1>2. Settled'  BY DEF IInv, Settled
<1>3. StaysSafe'  BY DEF IInv, StaysSafe
<1>4. TableFollows'  BY TableUnchanged DEF IInv
<1>5. WrittenIsKept'  BY DEF IInv, WrittenIsKept, files
<1>6. QED  BY <1>1, <1>2, <1>3, <1>4, <1>5 DEF IInv

LEMMA ConfigurePreserves ==
    ASSUME IInv, Configure
    PROVE  IInv'
<1> USE DEF Configure
<1>1. ~safe  BY NobodyAskedInSafeMode
<1>2. \/ config' = config /\ altered' = altered
      \/ altered' = (altered \/ config' # config)
  BY DEF ChangeInPlace, Copied
<1>3. QED  BY <1>1, <1>2, MetaPreserves

LEMMA PolicyPreserves ==
    ASSUME IInv, ApplyPolicy
    PROVE  IInv'
<1> USE DEF ApplyPolicy
<1>1. ~safe  BY NobodyAskedInSafeMode
<1>2. altered' = (altered \/ config' # config)  BY DEF ChangeInPlace
<1>3. QED  BY <1>1, <1>2, MetaPreserves

LEMMA PassPreserves ==
    ASSUME IInv, PassMeta
    PROVE  IInv'
BY MetaPreserves DEF PassMeta

LEMMA MetaLoopDonePreserves ==
    ASSUME IInv, MetaLoopDone
    PROVE  IInv'
<1> USE DEF MetaLoopDone
<1>1. (Admitted /\ NoneForgotten /\ Settled /\ StaysSafe)'
  BY DEF IInv, Admitted, NoneForgotten, Loading, Phases, Id, Settled, StaysSafe
<1>2. TableFollows'  BY TableUnchanged DEF IInv
<1>3. WrittenIsKept'  BY DEF IInv, WrittenIsKept, files
<1>4. QED  BY <1>1, <1>2, <1>3 DEF IInv

LEMMA NothingChangedPreserves ==
    ASSUME IInv, NothingChanged
    PROVE  IInv'
<1> USE DEF NothingChanged, bootVars
<1>1. (Admitted /\ NoneForgotten /\ Settled /\ StaysSafe)'
  BY DEF IInv, Admitted, NoneForgotten, Loading, Phases, Id, Settled, StaysSafe
<1>2. TableFollows'  BY TableUnchanged DEF IInv
<1>3. WrittenIsKept'  BY DEF IInv, WrittenIsKept, files
<1>4. QED  BY <1>1, <1>2, <1>3 DEF IInv

LEMMA LoadAgainPreserves ==
    ASSUME IInv, LoadAgain
    PROVE  IInv'
<1>1. safe' => updated = SafeConfig /\ updated' = SafeConfig
  BY DEF IInv, StaysSafe, LoadAgain
<1>2. /\ BeginLoad(updated) /\ config' = updated
      /\ cmd = "compare" /\ cmd' = "load" /\ UNCHANGED files
  BY DEF LoadAgain
<1>3. QED  BY <1>1, <1>2, BeginLoadPreserves DEF Commands

----------------------------------------------------------------------------

LEMMA StepPreserves ==
    ASSUME IInv, [Next]_vars
    PROVE  IInv'
<1>1. CASE ConfigCommand /\ UNCHANGED bootVars  BY <1>1, CommandPreserves
<1>2. CASE \E safely \in BOOLEAN : ReadConfig(safely)  BY <1>2, ReadPreserves
<1>3. CASE ConfigUnusable
  <2>1. Ends("unreadable") \/ Ends("invalid")  BY <1>3 DEF ConfigUnusable
  <2>2. QED  BY <2>1, EndsPreserves
<1>4. CASE Step
  <2>1. CASE SkipPlugin  BY <2>1, SkipPreserves
  <2>2. CASE AdmitPlugin  BY <2>2, AdmitPreserves
  <2>3. CASE RefusePlugin  BY <2>3, EndsPreserves DEF RefusePlugin
  <2>4. CASE LoadEntry  BY <2>4, LoadEntryPreserves
  <2>5. CASE EntryFails  BY <2>5, EndsPreserves DEF EntryFails
  <2>6. CASE LoadDone  BY <2>6, LoadDonePreserves
  <2>7. CASE Configure  BY <2>7, ConfigurePreserves
  <2>8. CASE ApplyPolicy  BY <2>8, PolicyPreserves
  <2>9. CASE PassMeta  BY <2>9, PassPreserves
  <2>10. CASE MetaLoopDone  BY <2>10, MetaLoopDonePreserves
  <2>11. CASE MetaFails  BY <2>11, EndsPreserves DEF MetaFails
  <2>12. CASE NothingChanged  BY <2>12, NothingChangedPreserves
  <2>13. CASE LoadAgain  BY <2>13, LoadAgainPreserves
  <2>14. CASE ChangeInvalid  BY <2>14, EndsPreserves DEF ChangeInvalid
  <2>15. QED
    BY <1>4, <2>1, <2>2, <2>3, <2>4, <2>5, <2>6, <2>7, <2>8, <2>9, <2>10, <2>11,
       <2>12, <2>13, <2>14 DEF Step
<1>5. CASE Exit  BY <1>5, EndsPreserves DEF Exit
<1>6. CASE UNCHANGED vars
  <2> USE <1>6 DEF vars, bootVars
  <2>1. (Admitted /\ NoneForgotten /\ Settled /\ StaysSafe)'
    BY DEF IInv, Admitted, NoneForgotten, Loading, Id, Settled, StaysSafe
  <2>2. TableFollows'  BY TableUnchanged DEF IInv
  <2>3. WrittenIsKept'  BY DEF IInv, WrittenIsKept, files
  <2>4. QED  BY <2>1, <2>2, <2>3 DEF IInv
<1>7. QED  BY <1>1, <1>2, <1>3, <1>4, <1>5, <1>6 DEF Next

----------------------------------------------------------------------------
(* What the invariant says of the properties.                              *)

LEMMA ClearedIsAdmitted == IInv => OnlyAdmittedCodeRuns
BY DEF IInv, Admitted, Cleared, OnlyAdmittedCodeRuns, Enabled, SwitchedOn,
       NetworkGranted, LockHolds

LEMMA SafeIsPack == IInv => SafeModeHolds
<1> SUFFICES ASSUME IInv, safe, NEW k \in ran
             PROVE  Manifests[k].id \in Default.pack /\ ~Manifests[k].extra
  BY DEF SafeModeHolds
<1>1. Cleared(SafeConfig, k)  BY DEF IInv, Admitted, StaysSafe
<1>2. SafeConfig.safeMode /\ SafeConfig.pack = Default.pack /\ ~SafeConfig.searched
  BY BootAssumption DEF SafeConfig, Config
<1>3. QED  BY <1>1, <1>2 DEF Cleared, Found, Enabled, SwitchedOn

LEMMA TableIsLoaded == IInv => TableMatchesLoaded
<1> SUFFICES ASSUME IInv
             PROVE  /\ DOMAIN table = UNION {loaded[n].caps : n \in DOMAIN loaded}
                    /\ \A n \in DOMAIN loaded : \A cap \in loaded[n].caps :
                          (\A j \in DOMAIN loaded : j > n => cap \notin loaded[j].caps)
                          => table[cap] = [by |-> loaded[n].by,
                                           network |-> Manifests[loaded[n].by].network]
  BY DEF TableMatchesLoaded
<1>1. TableFollows  BY DEF IInv
<1>2. DOMAIN table = UNION {loaded[n].caps : n \in DOMAIN loaded}
  BY <1>1 DEF TableFollows, Offers
<1>3. ASSUME NEW n \in DOMAIN loaded, NEW cap \in loaded[n].caps,
             \A j \in DOMAIN loaded : j > n => cap \notin loaded[j].caps
      PROVE  table[cap] = Provider(loaded[n].by)
  BY <1>1, <1>3 DEF TableFollows, Offers
<1>4. QED  BY <1>2, <1>3 DEF Provider

LEMMA DependenciesAreLoaded == IInv => DependenciesLoaded
<1> SUFFICES ASSUME IInv, Up, NEW n \in DOMAIN loaded, NEW d \in Manifests[loaded[n].by].deps
             PROVE  \E j \in DOMAIN loaded : Id(j) = d
  BY DEF DependenciesLoaded
<1>1. Cleared(loadedWith, loaded[n].by)  BY DEF IInv, Admitted
<1>2. Enabled(loadedWith, d)  BY <1>1 DEF Cleared, DependenciesMet
<1>3. Loading(d) /\ todo = {}  BY <1>2 DEF IInv, NoneForgotten, Up
<1>4. current = NoPlugin  BY DEF IInv, Admitted, Up
<1>5. QED  BY <1>3, <1>4 DEF Loading

\* Whatever manifests are found, whatever a user, a configurator or a policy
\* writes, wherever a command is killed: code runs only of plugins that were
\* admitted, and in safe mode of the pack; dependencies are loaded; the table is that of the plugins
\* loaded; an unaltered configuration is the one they were loaded under; and
\* what the user wrote survives a reset and a restore.
THEOREM BootSafety ==
    Spec => [](/\ OnlyAdmittedCodeRuns /\ DependenciesLoaded /\ SafeModeHolds
               /\ TableMatchesLoaded /\ LoadedAsConfigured /\ WrittenSurvives)
<1>1. Init => IInv  BY InitEstablishes
<1>2. IInv /\ [Next]_vars => IInv'  BY StepPreserves
<1>3. IInv => /\ OnlyAdmittedCodeRuns /\ DependenciesLoaded /\ SafeModeHolds
              /\ TableMatchesLoaded /\ LoadedAsConfigured /\ WrittenSurvives
  <2>1. IInv => LoadedAsConfigured  BY DEF IInv, Settled, LoadedAsConfigured
  <2>2. IInv => WrittenSurvives  BY DEF IInv, WrittenIsKept, WrittenSurvives
  <2>3. QED  BY <2>1, <2>2, ClearedIsAdmitted, DependenciesAreLoaded, SafeIsPack,
         TableIsLoaded
<1>4. QED  BY <1>1, <1>2, <1>3, PTL DEF Spec

\* Neither a user's configuration nor what lies below their search paths has a
\* say in safe mode, through either load and every meta plugin between them.
THEOREM SafeModeIsThePack == Spec => []SafeModeHolds
  BY BootSafety, PTL

\* In a system that is up every dependency of a plugin is there: whether one is
\* enabled is asked of the configuration before it is loaded, and the boot comes
\* up only when all that are enabled were loaded.
THEOREM DependenciesAreThere == Spec => []DependenciesLoaded
  BY BootSafety, PTL

\* A capability is the last plugin's that offers it, with that plugin's
\* permission, also when everything is loaded a second time.
THEOREM TableIsOfTheLoaded == Spec => []TableMatchesLoaded
  BY BootSafety, PTL

\* A reset or a restore killed anywhere leaves what the user last wrote in one of
\* the two files, unless they discard it themselves.
THEOREM WrittenIsNeverLost == Spec => []WrittenSurvives
  BY BootSafety, PTL

============================================================================
