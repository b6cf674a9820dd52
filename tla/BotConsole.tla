---------------------------- MODULE BotConsole ----------------------------
(***************************************************************************)
(* What the owner sets, in the console (webui/qqbot.go) and in chat        *)
(* (handleOwnerCommand, the group tool): the bot's profiles, the plugins,  *)
(* and the settings of a group.  Each is kept in memory under a lock, and  *)
(* a copy of the whole is written to SQLite after the lock is released.    *)
(* The runtime has a copy of the active profile of its own (Runtime.cfg),  *)
(* and is started anew when that changes.  Changes may overlap; then the   *)
(* later write may be of the older copy, and any of them may be lost.      *)
(***************************************************************************)
EXTENDS Integers, FiniteSets

CONSTANTS
    Plugins,      \* the catalog; every plugin is built in
    Changes,      \* requests and messages under way that change a setting
    MaxProfiles,  \* bound: profile ids drawn
    MaxChanges,   \* bound: changes that are begun
    MaxUnwritten, \* bound: writes that fail
    MaxReloads    \* bound: times the process is started again

ASSUME ConsoleConstants ==
    /\ MaxProfiles \in Nat \ {0} /\ {MaxChanges, MaxUnwritten, MaxReloads} \subseteq Nat
    /\ IsFiniteSet(Plugins) /\ IsFiniteSet(Changes)

VARIABLES
    memory,    \* per setting: what the store in memory holds
    db,        \* per setting: what app_state holds
    cfg,       \* Runtime.cfg
    botRuns,   \* Runtime.running
    change,    \* the changes under way
    drawn,     \* ids drawn so far
    begun, failed, reloads,
    tangled,   \* history: settings changed by changes that overlapped, and
               \* not since by one alone; "run" is whether the bot runs
    unwritten, \* history: settings whose last write failed
    alone      \* history: settings whose last change overlaps no other so far

consoleCounts == <<drawn, begun, failed, reloads>>
consoleHistory == <<tangled, unwritten, alone>>
consoleVars == <<memory, db, cfg, botRuns, change, consoleCounts, consoleHistory>>

Settings == {"profiles", "plugins", "group"}
ProfileIds == 1 .. MaxProfiles
Profile == [on : BOOLEAN, silenced : BOOLEAN]    \* Enabled, DisabledGroups
Absent == [on |-> FALSE, silenced |-> TRUE]      \* no profile starts like this
GroupConfig == [level : 0 .. 1, chance : 0 .. 1]
NoChange == [at |-> "idle", of |-> "none", next |-> 0]

\* ProfileSet
Present(set) == {id \in ProfileIds : set.has[id]}
Current(set) == [id |-> set.active, is |-> set.of[set.active]]
Put(set, id, p) ==
    [active |-> id, has |-> [set.has EXCEPT ![id] = TRUE], of |-> [set.of EXCEPT ![id] = p]]
Removed(set, id, first) ==
    [active |-> IF set.active = id THEN first ELSE set.active,
     has |-> [set.has EXCEPT ![id] = FALSE], of |-> [set.of EXCEPT ![id] = Absent]]

\* PluginManager.Restore: a plugin that is built in is installed, and enabled
\* unless the saved state says otherwise.
PluginsEnabled(states) == {p \in Plugins : states[p].installed /\ states[p].enabled}
Restored(states) ==
    [p \in Plugins |-> [installed |-> TRUE, enabled |-> states[p].enabled]]

ConsoleInit ==
    /\ memory = [profiles |-> [active |-> 1, has |-> [id \in ProfileIds |-> id = 1],
                               of |-> [id \in ProfileIds |->
                                          IF id = 1 THEN [on |-> TRUE, silenced |-> FALSE]
                                          ELSE Absent]],
                 plugins |-> [p \in Plugins |-> [installed |-> TRUE, enabled |-> TRUE]],
                 group |-> [level |-> 0, chance |-> 0]]
    /\ db = memory /\ cfg = Current(memory.profiles) /\ botRuns = TRUE
    /\ change = [c \in Changes |-> NoChange]
    /\ drawn = 1 /\ begun = 0 /\ failed = 0 /\ reloads = 0
    /\ tangled = {} /\ unwritten = {} /\ alone = {}

-----------------------------------------------------------------------------
\* Changes

ChangeAt(c, at) == change[c].at = at
Goes(c, at) == change' = [change EXCEPT ![c].at = at]
UnderWay(s) == {c \in Changes : change[c].of = s}
Aspects(s) == IF s = "profiles" THEN {s, "run"} ELSE {s}

\* A change of setting s begins; history notes whether it is alone.
Begin(c, s, at, next) ==
    /\ ChangeAt(c, "idle") /\ begun < MaxChanges /\ begun' = begun + 1
    /\ change' = [change EXCEPT ![c] = [at |-> at, of |-> s, next |-> next]]
    /\ IF UnderWay(s) = {} THEN alone' = alone \cup Aspects(s) /\ UNCHANGED tangled
       ELSE alone' = alone \ Aspects(s) /\ tangled' = tangled \cup Aspects(s)
    /\ UNCHANGED <<failed, reloads, unwritten>>

\* saveConfig, activateProfile, cloneProfile, deleteProfile: the set that is
\* to be, made from a copy of the one in memory
AskProfiles(c) ==
    LET set == memory.profiles
        Asks(next) == Begin(c, "profiles", "update", [set |-> next, ran |-> FALSE])
    IN  /\ \/ \E id \in Present(set), p \in Profile : Asks(Put(set, id, p)) /\ UNCHANGED drawn
           \/ \E id \in Present(set) : Asks([set EXCEPT !.active = id]) /\ UNCHANGED drawn
           \/ /\ drawn < MaxProfiles /\ drawn' = drawn + 1
              /\ \E id \in Present(set) : Asks(Put(set, drawn + 1, set.of[id]))
           \/ /\ Cardinality(Present(set)) > 1
              /\ \E id \in Present(set), first \in Present(set) :
                    first # id /\ Asks(Removed(set, id, first))
              /\ UNCHANGED drawn
        /\ UNCHANGED <<memory, db, cfg, botRuns>>

\* Variant with a defect: a profile that is disabled does not end the run.
StopOldUnlessDisabled(c) ==
    LET current == Current(change[c].next.set).is IN
    /\ ChangeAt(c, "update")
    /\ botRuns' = (botRuns /\ ~current.on)
    /\ change' = [change EXCEPT ![c].at = "configure", ![c].next.ran = botRuns]
    /\ UNCHANGED <<memory, db, cfg, consoleCounts, consoleHistory>>

\* UpdateConfig up to the end of Stop
StopOld(c) ==
    /\ ChangeAt(c, "update")
    /\ botRuns' = FALSE
    /\ change' = [change EXCEPT ![c].at = "configure", ![c].next.ran = botRuns]
    /\ UNCHANGED <<memory, db, cfg, consoleCounts, consoleHistory>>

\* UpdateConfig sets the new profile; the runtime is started again if it ran.
Configure(c) ==
    LET current == Current(change[c].next.set) IN
    /\ ChangeAt(c, "configure")
    /\ cfg' = current
    /\ Goes(c, IF change[c].next.ran /\ current.is.on THEN "start" ELSE "save")
    /\ UNCHANGED <<memory, db, botRuns, consoleCounts, consoleHistory>>

\* Start does nothing when the runtime runs or its profile is disabled.
StartBot == botRuns' = (botRuns \/ cfg.is.on)

StartAgain(c) ==
    /\ ChangeAt(c, "start") /\ StartBot /\ Goes(c, "save")
    /\ UNCHANGED <<memory, db, cfg, consoleCounts, consoleHistory>>

\* SaveProfiles under its lock
SaveProfiles(c) ==
    /\ ChangeAt(c, "save")
    /\ memory' = [memory EXCEPT !.profiles = change[c].next.set]
    /\ change' = [change EXCEPT ![c].at = "write", ![c].next = @.set]
    /\ tangled' = IF "run" \in alone THEN tangled \ {"run"} ELSE tangled
    /\ UNCHANGED <<db, cfg, botRuns, consoleCounts, unwritten, alone>>

\* disableGroup and enableGroup, from the runtime's copy
OwnerCommand(c) ==
    /\ Begin(c, "profiles", "apply", [cfg EXCEPT !.is.silenced = ~@])
    /\ UNCHANGED <<memory, db, cfg, botRuns, drawn>>

ApplyCommand(c) ==
    /\ ChangeAt(c, "apply") /\ cfg' = change[c].next /\ Goes(c, "saveCurrent")
    /\ UNCHANGED <<memory, db, botRuns, consoleCounts, consoleHistory>>

\* SaveCurrentConfig: the profile becomes the active one, also if it was
\* deleted in the meantime.
SaveCurrentConfig(c) ==
    LET own == change[c].next
        next == Put(memory.profiles, own.id, own.is)
    IN  /\ ChangeAt(c, "saveCurrent")
        /\ memory' = [memory EXCEPT !.profiles = next]
        /\ change' = [change EXCEPT ![c].at = "write", ![c].next = next]
        /\ UNCHANGED <<db, cfg, botRuns, consoleCounts, consoleHistory>>

\* Install, Uninstall, SetEnabled
ChangePlugin(c) ==
    /\ \E p \in Plugins, to \in [installed : BOOLEAN, enabled : BOOLEAN] :
          /\ to.enabled => to.installed
          /\ to.installed /\ ~to.enabled => memory.plugins[p].installed
          /\ memory' = [memory EXCEPT !.plugins[p] = to]
    /\ Begin(c, "plugins", "snapshot", 0)
    /\ UNCHANGED <<db, cfg, botRuns, drawn>>

\* persistState takes its snapshot when the change has been made.
Snapshot(c) ==
    /\ ChangeAt(c, "snapshot")
    /\ change' = [change EXCEPT ![c].at = "write", ![c].next = memory.plugins]
    /\ UNCHANGED <<memory, db, cfg, botRuns, consoleCounts, consoleHistory>>

\* saveGroupAdminConfig: the page has all of the group's settings; the tool
\* of the chat reads them and changes one.
AskGroup(c) ==
    /\ \E page \in GroupConfig, level \in 0 .. 1 :
          Begin(c, "group", "saveGroup", page)
          \/ Begin(c, "group", "saveGroup", [memory.group EXCEPT !.level = level])
    /\ UNCHANGED <<memory, db, cfg, botRuns, drawn>>

SaveGroupConfig(c) ==
    /\ ChangeAt(c, "saveGroup") /\ Goes(c, "write")
    /\ memory' = [memory EXCEPT !.group = change[c].next]
    /\ UNCHANGED <<db, cfg, botRuns, consoleCounts, consoleHistory>>

\* The write at the end of each, of the copy that was taken; only the page of
\* a group and the log are told of an error.
WriteSetting(c) ==
    LET s == change[c].of IN
    /\ ChangeAt(c, "write")
    /\ change' = [change EXCEPT ![c] = NoChange]
    /\ \/ db' = [db EXCEPT ![s] = change[c].next]
          /\ unwritten' = unwritten \ {s} /\ UNCHANGED failed
       \/ failed < MaxUnwritten /\ failed' = failed + 1
          /\ unwritten' = unwritten \cup {s} /\ UNCHANGED db
    /\ tangled' = IF s \in alone THEN tangled \ {s} ELSE tangled
    /\ UNCHANGED <<memory, cfg, botRuns, drawn, begun, reloads, alone>>

-----------------------------------------------------------------------------
\* The run, and the process

\* The buttons that start and stop the bot
Disturb ==
    /\ UNCHANGED <<memory, db, cfg, change, consoleCounts, unwritten>>
    /\ IF UnderWay("profiles") = {} THEN UNCHANGED <<tangled, alone>>
       ELSE alone' = alone \ {"run"} /\ tangled' = tangled \cup {"run"}

PressStart == StartBot /\ Disturb
PressStop == botRuns' = FALSE /\ Disturb

\* main: the settings are read back, and the bot starts if it is enabled.
Reload ==
    /\ reloads < MaxReloads /\ reloads' = reloads + 1
    /\ memory' = [db EXCEPT !.plugins = Restored(@)]
    /\ cfg' = Current(db.profiles) /\ botRuns' = cfg'.is.on
    /\ change' = [c \in Changes |-> NoChange]
    /\ tangled' = {} /\ unwritten' = {} /\ alone' = {}
    /\ UNCHANGED <<db, drawn, begun, failed>>

ConsoleNext ==
    \/ \E c \in Changes :
          \/ AskProfiles(c) \/ StopOld(c) \/ Configure(c) \/ StartAgain(c) \/ SaveProfiles(c)
          \/ OwnerCommand(c) \/ ApplyCommand(c) \/ SaveCurrentConfig(c)
          \/ ChangePlugin(c) \/ Snapshot(c)
          \/ AskGroup(c) \/ SaveGroupConfig(c) \/ WriteSetting(c)
    \/ PressStart \/ PressStop \/ Reload

ConsoleSpec == ConsoleInit /\ [][ConsoleNext]_consoleVars

-----------------------------------------------------------------------------
ProfileSet == [active : ProfileIds, has : [ProfileIds -> BOOLEAN],
               of : [ProfileIds -> Profile]]

\* Type invariant of the settings.
ConsoleTypeOK ==
    /\ \A held \in {memory, db} :
          /\ held.profiles \in ProfileSet /\ held.profiles.active \in Present(held.profiles)
          /\ held.plugins \in [Plugins -> [installed : BOOLEAN, enabled : BOOLEAN]]
          /\ held.group \in GroupConfig
    /\ cfg \in [id : ProfileIds, is : Profile] /\ botRuns \in BOOLEAN
    /\ drawn \in ProfileIds /\ begun \in 0 .. MaxChanges
    /\ failed \in 0 .. MaxUnwritten /\ reloads \in 0 .. MaxReloads
    /\ {tangled, unwritten, alone} \subseteq SUBSET (Settings \cup {"run"})

Settled(s) == UnderWay(s) = {} /\ s \notin tangled

\* Once a change that overlapped no other is through, the runtime has the
\* active profile, whatever went before: overlapping changes, failed writes,
\* starts, stops and restarts.  After a change in the console it runs only if
\* that profile is enabled.
RuntimeHasProfile ==
    Settled("profiles") =>
       /\ cfg = Current(memory.profiles)
       /\ "run" \notin tangled /\ botRuns => cfg.is.on

\* A restart then brings back what is in force, unless the write failed.
RestartKeepsSettings ==
    \A s \in Settings \ unwritten : Settled(s) =>
       IF s = "plugins" THEN PluginsEnabled(Restored(db[s])) = PluginsEnabled(memory[s])
       ELSE db[s] = memory[s]

\* Console, runtime and table agree on the settings once changes are through.
ConsoleSafe == ConsoleTypeOK /\ RuntimeHasProfile /\ RestartKeepsSettings
=============================================================================
