--------------------------- MODULE Configuration ---------------------------
(***************************************************************************)
(* shared/config: how a process gets its configuration and keeps it up to  *)
(* date, from Consul's key-value store (ConsulConfig, ConfigWatcher) or    *)
(* from files (LocalConfig), and the saved versions.  Two layers are       *)
(* merged, the second over the first; a configuration is the contents that *)
(* went into it.  The file system, fsnotify, Consul and whoever edits the  *)
(* sources are external.                                                   *)
(***************************************************************************)
EXTENDS Naturals, FiniteSets

CONSTANTS
  MaxEdits,   \* bound on the changes of the sources
  MaxFaults   \* bound on the failing calls to Consul

ASSUME ConfigurationAssumption ==
  MaxEdits \in Nat /\ MaxFaults \in Nat

VARIABLES
  provider,  \* "consul" or "local", from app.yaml
  source,    \* source[l]: content of the key or file of layer l
  config,    \* the global configuration, Unset before the first
  main,      \* what the goroutine that loads, and then watches, is doing
  last,      \* lastConfigs of the watcher
  timer,     \* the debounce timer of the file watcher is armed
  watched,   \* layers whose file is watched
  reloads,   \* running reloads of LocalConfig: what each has read so far
  version,   \* the version saved in this second, Nothing before
  rolled,    \* the key RollbackToVersion writes
  edits, faults,
  unseen,    \* a change nobody is told of, not yet read (history)
  missed,    \* the last reload did not use what was compared (history)
  byHand,    \* the configuration in use was put there by hand (history)
  overlapped, \* the last reload began while another ran (history)
  wanted     \* the version rolled back to since the last change (history)

ghosts == <<unseen, missed, byHand, overlapped, wanted>>
vars == <<provider, source, config, main, last, timer, watched, reloads,
          version, rolled, edits, faults, ghosts>>

Providers == {"consul", "local"}
Layers == {1, 2}
Good == {"a", "b"}
Contents == Good \union {"invalid", "garbled", "absent"}

Parses(c) == c \in Good \union {"invalid"}

(* A layer that does not parse or is not there contributes nothing.        *)
Part(c) == IF Parses(c) THEN c ELSE "absent"

Nothing == [l \in Layers |-> "absent"]
Unset == [l \in Layers |-> "unset"]
Merged == [l \in Layers |-> Part(source[l])]

(* The validator looks at the merged configuration.                        *)
Valid(cfg) == cfg[1] \in Good /\ cfg[2] \in Good \union {"absent"}

(* The files as they are could be loaded.                                  *)
Fit == Valid(Merged) /\ \A l \in Layers : source[l] # "garbled"

Begin(pc) == [pc |-> pc, layer |-> 1, acc |-> Nothing, changed |-> FALSE]

Init ==
  /\ provider \in Providers
  /\ source \in [Layers -> {"a", "absent"}]
  /\ config = Unset
  /\ main = Begin("load")
  /\ last = Nothing
  /\ timer = FALSE /\ watched = {} /\ reloads = {}
  /\ version = Nothing /\ rolled = Nothing
  /\ edits = 0 /\ faults = 0
  /\ unseen = FALSE /\ missed = FALSE /\ byHand = FALSE /\ overlapped = FALSE
  /\ wanted = Nothing

Consul == provider = "consul"
Doing(pc) == main.pc = pc

-----------------------------------------------------------------------------
(* ConsulConfig.LoadAppConfig, at the start of the process: every key must *)
(* be there and parse, or the process does not start.                      *)
LoadAppConfig ==
  /\ Consul /\ Doing("load")
  /\ \/ /\ Parses(source[main.layer])
        /\ main' = IF main.layer = 1
                   THEN [main EXCEPT !.layer = 2, !.acc[1] = Part(source[1])]
                   ELSE Begin("idle")
        /\ config' = IF main.layer = 1 THEN config
                     ELSE [main.acc EXCEPT ![2] = Part(source[2])]
     \/ /\ ~Parses(source[main.layer]) \/ faults < MaxFaults
        /\ main' = Begin("exited")
        /\ UNCHANGED config
  /\ UNCHANGED <<provider, source, last, timer, watched, reloads, version, rolled,
                 edits, faults, ghosts>>

(* checkConfigChange: on every tick. *)
Check ==
  /\ Consul /\ Doing("idle")
  /\ main' = Begin("compare")
  /\ UNCHANGED <<provider, source, config, last, timer, watched, reloads, version,
                 rolled, edits, faults, ghosts>>

NextLayer(m, then) == IF m.layer = 1 THEN [m EXCEPT !.layer = 2] ELSE then

(* Mutant: the second layer decides alone whether to reload.               *)
CompareLast ==
  LET c == source[main.layer]
      new == c # "absent" /\ last[main.layer] # c
      after(m) == NextLayer(m, IF m.changed THEN Begin("reload") ELSE Begin("idle")) IN
  /\ Consul /\ Doing("compare")
  /\ last' = IF new THEN [last EXCEPT ![main.layer] = c] ELSE last
  /\ main' = after([main EXCEPT !.changed = new])
  /\ UNCHANGED <<provider, source, config, timer, watched, reloads, version, rolled,
                 edits, faults, ghosts>>

(* The first pass compares, and notes what it saw at once; a key that is   *)
(* missing or cannot be read is passed over.                               *)
Compare ==
  LET c == source[main.layer]
      new == c # "absent" /\ last[main.layer] # c
      seen == [main EXCEPT !.changed = @ \/ new]
      after(m) == NextLayer(m, IF m.changed THEN Begin("reload") ELSE Begin("idle")) IN
  /\ Consul /\ Doing("compare")
  /\ \/ /\ last' = IF new THEN [last EXCEPT ![main.layer] = c] ELSE last
        /\ main' = after(seen)
        /\ UNCHANGED faults
     \/ /\ faults < MaxFaults /\ faults' = faults + 1
        /\ main' = after(main)
        /\ UNCHANGED last
  /\ UNCHANGED <<provider, source, config, timer, watched, reloads, version, rolled,
                 edits, ghosts>>

Publish(cfg) == config' = cfg /\ byHand' = FALSE

(* Mutant: a layer that changed since the first pass keeps its old value.  *)
ReloadUnchanged ==
  LET c == source[main.layer]
      read(s) == [main EXCEPT !.acc[main.layer] = s]
      done(m) == IF m.layer = 1 THEN UNCHANGED <<config, byHand>> ELSE Publish(m.acc)
      before == main.layer = 2 /\ missed IN
  /\ Consul /\ Doing("reload")
  /\ LET m == read(IF last[main.layer] = c THEN Part(c) ELSE config[main.layer]) IN
       /\ main' = NextLayer(m, Begin("idle")) /\ done(m)
       /\ last' = [last EXCEPT ![main.layer] = c]
       /\ missed' = before
       /\ UNCHANGED faults
  /\ UNCHANGED <<provider, source, timer, watched, reloads, version, rolled,
                 edits, unseen, overlapped, wanted>>

(* The second pass reads everything again and merges what it can.          *)
Reload ==
  LET read(s) == [main EXCEPT !.acc[main.layer] = s]
      done(m) == IF m.layer = 1 THEN UNCHANGED <<config, byHand>> ELSE Publish(m.acc)
      before == main.layer = 2 /\ missed IN
  /\ Consul /\ Doing("reload")
  /\ \/ LET m == read(Part(source[main.layer])) IN
          /\ main' = NextLayer(m, Begin("idle")) /\ done(m)
          /\ missed' = (before \/ last[main.layer] # source[main.layer])
          /\ UNCHANGED faults
     \/ /\ faults < MaxFaults /\ faults' = faults + 1
        /\ main' = NextLayer(main, Begin("idle")) /\ done(main)
        /\ missed' = TRUE
  /\ UNCHANGED <<provider, source, last, timer, watched, reloads, version, rolled,
                 edits, unseen, overlapped, wanted>>

-----------------------------------------------------------------------------
(* LocalConfig.                                                            *)

(* One file read: what the reader has then, or Unset when it gives up.  A  *)
(* service file that is not there is normal.                               *)
ReadFile(r) ==
  IF Parses(source[r.layer]) \/ (r.layer = 2 /\ source[2] = "absent")
  THEN [r EXCEPT !.layer = @ + 1, !.acc[r.layer] = Part(source[r.layer])]
  ELSE [r EXCEPT !.layer = 4]

(* loadAndMerge and the validation at the start of the process. *)
LoadLocal ==
  /\ ~Consul /\ Doing("load")
  /\ CASE main.layer \in Layers -> main' = ReadFile(main) /\ UNCHANGED config
       [] main.layer = 3 /\ Valid(main.acc) -> main' = Begin("watch") /\ config' = main.acc
       [] OTHER -> main' = Begin("exited") /\ UNCHANGED config
  /\ UNCHANGED <<provider, source, last, timer, watched, reloads, version, rolled,
                 edits, faults, ghosts>>

(* A file that is not there cannot be watched. *)
Watchable == {l \in Layers : source[l] # "absent"}

(* startWatcher: the files that exist by now are watched from now on. *)
StartWatcher ==
  /\ ~Consul /\ Doing("watch")
  /\ watched' = Watchable
  /\ main' = Begin("idle")
  /\ UNCHANGED <<provider, source, config, last, timer, reloads, version, rolled,
                 edits, faults, ghosts>>

Reader == [layer |-> 1, acc |-> Nothing]

(* Mutant: a timer that fires during a reload is dropped.                  *)
TimerDropped ==
  /\ timer
  /\ timer' = FALSE
  /\ reloads' = IF reloads = {} THEN {Reader} ELSE reloads
  /\ unseen' = FALSE /\ overlapped' = (overlapped /\ reloads # {})
  /\ UNCHANGED <<provider, source, config, main, last, watched, version, rolled,
                 edits, faults, missed, byHand, wanted>>

(* The timer starts a reload in a goroutine of its own; an earlier one may *)
(* still be running.                                                       *)
TimerFires ==
  /\ timer /\ Cardinality(reloads) < 2
  /\ Reader \notin reloads
  /\ timer' = FALSE
  /\ reloads' = reloads \union {Reader}
  /\ unseen' = FALSE
  /\ overlapped' = (reloads # {})
  /\ UNCHANGED <<provider, source, config, main, last, watched, version, rolled,
                 edits, faults, missed, byHand, wanted>>

(* Mutant: the configuration is set before it is validated.                *)
ReloadLocalUnvalidated(r) ==
  /\ r \in reloads
  /\ \/ /\ r.layer \in Layers
        /\ reloads' = (reloads \ {r}) \union {ReadFile(r)}
        /\ UNCHANGED <<config, byHand>>
     \/ /\ r.layer = 3 /\ Publish(r.acc)
        /\ reloads' = reloads \ {r}
     \/ /\ r.layer = 4
        /\ reloads' = reloads \ {r}
        /\ UNCHANGED <<config, byHand>>
  /\ UNCHANGED <<provider, source, main, last, timer, watched, version, rolled,
                 edits, faults, unseen, missed, overlapped, wanted>>

(* reloadConfig: a configuration that cannot be read or is not valid       *)
(* leaves the old one in place.                                            *)
ReloadLocal(r) ==
  /\ r \in reloads
  /\ \/ /\ r.layer \in Layers
        /\ reloads' = (reloads \ {r}) \union {ReadFile(r)}
        /\ UNCHANGED <<config, byHand>>
     \/ /\ r.layer = 3 /\ Valid(r.acc) /\ Publish(r.acc)
        /\ reloads' = reloads \ {r}
     \/ /\ r.layer = 4 \/ (r.layer = 3 /\ ~Valid(r.acc))
        /\ reloads' = reloads \ {r}
        /\ UNCHANGED <<config, byHand>>
  /\ UNCHANGED <<provider, source, main, last, timer, watched, version, rolled,
                 edits, faults, unseen, missed, overlapped, wanted>>

-----------------------------------------------------------------------------
(* A key or a file gets the contents c. *)
Change(l, c) ==
  /\ edits < MaxEdits /\ edits' = edits + 1
  /\ source' = [source EXCEPT ![l] = c]
  /\ wanted' = Nothing
  /\ UNCHANGED <<provider, config, main, last, reloads, version, rolled,
                 faults, missed, byHand, overlapped>>

(* Mutant: what happens during a reload is taken for its own doing.        *)
EditFileUnheard(l, c) ==
  /\ ~Consul /\ c # "absent" /\ Change(l, c)
  /\ timer' = (timer \/ (l \in watched /\ reloads = {}))
  /\ unseen' = (unseen \/ l \notin watched)
  /\ UNCHANGED watched

(* A file is written in place, or made.  A watched one arms the timer      *)
(* again, which is stopped first.                                          *)
EditFile(l, c) ==
  /\ ~Consul /\ c # "absent" /\ Change(l, c)
  /\ timer' = (timer \/ l \in watched)
  /\ unseen' = (unseen \/ l \notin watched)
  /\ UNCHANGED watched

(* A file is removed, or another one is renamed to it: neither is a write  *)
(* or a creation to the watcher, whose watch ends with the old file.       *)
ReplaceFile(l, c) ==
  /\ ~Consul /\ source[l] # "absent" /\ Change(l, c)
  /\ watched' = watched \ {l}
  /\ unseen' = TRUE
  /\ UNCHANGED timer

ChangeKey(l, c) ==
  /\ Consul /\ Change(l, c)
  /\ UNCHANGED <<timer, watched, unseen>>

(* push-config writes the keys one by one, from the files of a checkout; a *)
(* file that does not parse is passed over, and so is a key that cannot be *)
(* written.                                                                *)
PushConfig(l, c) == Parses(c) /\ ChangeKey(l, c)

(* By hand, anything may get into a key, and a key may be deleted. *)
EditKey(l, c) == ~Parses(c) /\ ChangeKey(l, c)

-----------------------------------------------------------------------------
(* ConfigurationManager and ConfigHandler.                                 *)

(* SaveConfigVersion: the identifier is the second, of which there is one  *)
(* here; another save in it replaces the version.                          *)
SaveConfigVersion ==
  /\ config # Unset
  /\ version' = config
  /\ UNCHANGED <<provider, source, config, main, last, timer, watched, reloads, rolled,
                 edits, faults, ghosts>>

(* RollbackToVersion: the version goes to a key named after environment    *)
(* and service, which is none of the layers' keys.                         *)
RollbackToVersion ==
  /\ version # Nothing    \* or GetConfigVersion fails
  /\ rolled' = version /\ wanted' = version
  /\ UNCHANGED <<provider, source, config, main, last, timer, watched, reloads, version,
                 edits, faults, unseen, missed, byHand, overlapped>>

(* POST /config/version and POST /config/rollback: the handler was made    *)
(* with a client of Consul, and adds nothing but the answer.               *)
SaveVersion == Consul /\ SaveConfigVersion
Rollback == Consul /\ RollbackToVersion

(* PUT /config/current sets the configuration of this process alone, to    *)
(* whatever the body binds to: it is not validated.                        *)
UpdateConfig ==
  /\ edits < MaxEdits /\ edits' = edits + 1
  /\ config # Unset
  /\ \E c \in {"b", "invalid"} : config' = [l \in Layers |-> c]
  /\ byHand' = TRUE
  /\ wanted' = Nothing
  /\ UNCHANGED <<provider, source, main, last, timer, watched, reloads, version, rolled,
                 faults, unseen, missed, overlapped>>

Watcher == Check \/ Compare \/ Reload

Edit ==
  \E l \in Layers, c \in Contents :
    EditFile(l, c) \/ ReplaceFile(l, c) \/ PushConfig(l, c) \/ EditKey(l, c)

Next ==
  \/ LoadAppConfig \/ Watcher
  \/ LoadLocal \/ StartWatcher \/ TimerFires \/ \E r \in reloads : ReloadLocal(r)
  \/ Edit \/ SaveVersion \/ Rollback \/ UpdateConfig

(* The watcher's ticker ticks, timers fire, a reload once begun ends.      *)
Fairness ==
  /\ WF_vars(Watcher) /\ WF_vars(StartWatcher) /\ WF_vars(TimerFires)
  /\ WF_vars(\E r \in reloads : ReloadLocal(r))

Spec == Init /\ [][Next]_vars /\ Fairness

-----------------------------------------------------------------------------
Configs == [Layers -> Good \union {"invalid", "absent"}]
Readers == [layer : 1 .. 4, acc : Configs]

(* Every variable has its type.                                            *)
TypeOK ==
  /\ provider \in Providers
  /\ source \in [Layers -> Contents]
  /\ config \in Configs \union {Unset}
  /\ main \in [pc : {"load", "watch", "idle", "compare", "reload", "exited"},
               layer : 1 .. 4, acc : Configs, changed : BOOLEAN]
  /\ last \in [Layers -> Contents]
  /\ timer \in BOOLEAN /\ watched \subseteq Layers
  /\ reloads \subseteq Readers /\ Cardinality(reloads) <= 2
  /\ version \in Configs /\ rolled \in Configs
  /\ edits \in 0 .. MaxEdits /\ faults \in 0 .. MaxFaults
  /\ unseen \in BOOLEAN /\ missed \in BOOLEAN
  /\ byHand \in BOOLEAN /\ overlapped \in BOOLEAN
  /\ wanted \in Configs

(* A key that is not there any more counts as it was when it was last      *)
(* compared: its disappearance is passed over.                             *)
Known(l) == IF source[l] = "absent" THEN last[l] ELSE source[l]

(* watcher.go:82-152: the process ends up with what Consul has, although   *)
(* keys change, go and come between and during the two passes and a        *)
(* comparison fails now and then; a deleted key stays in use as it was.    *)
(* Exceptions: the configuration was set by hand, or the last reload could *)
(* not read a layer, or read another value of it than was compared and     *)
(* that one came back.  None is made up for until some key changes again.  *)
WatcherSettles ==
  <>[](Consul /\ config # Unset /\ ~missed /\ ~byHand /\ source # Nothing)
  => <>[](config = [l \in Layers |-> Part(Known(l))])

(* watcher.go:16: what changes in Consul is brought into use.  It does not *)
(* hold where WatcherSettles has its exceptions.                           *)
ChangesTakeEffect ==
  <>[](Consul /\ config # Unset /\ ~byHand /\ \A l \in Layers : Parses(source[l]))
  => <>[](config = Merged)

(* local.go:133-224: so does a process that reads files, if they are fit   *)
(* to be used in the end: except for a change the watcher does not hear    *)
(* of, for two reloads that overlap and for a configuration set by hand.   *)
FilesSettle ==
  <>[](~Consul /\ Doing("idle") /\ ~unseen /\ ~overlapped /\ ~byHand /\ Fit)
  => <>[](config = Merged)

(* local.go:27: files are reloaded when they change.  It does not hold: a  *)
(* change before the watcher started, of a file that was not there then,   *)
(* by removal or by renaming is not heard of, and of two reloads that      *)
(* overlap the older may be the last.                                      *)
ReloadFollowsFiles ==
  <>[](~Consul /\ Doing("idle") /\ ~byHand /\ Fit) => <>[](config = Merged)

(* watcher.go:82-152: between two polls the configuration in use is what   *)
(* the last comparison saw, however keys changed during the two passes; so *)
(* whatever Consul has that is not in use differs from what the next       *)
(* comparison holds against it.  The exceptions are those above.           *)
ComparedIsInUse ==
  Consul /\ Doing("idle") /\ ~missed /\ ~byHand /\ last # Nothing
  => config = [l \in Layers |-> Part(last[l])]

(* local.go:133-224: while no timer is armed and no reload runs, nothing   *)
(* is still to be done: the files, if they are fit to be used, are what is *)
(* in use, also when they change during a reload.  The exceptions are      *)
(* those of FilesSettle.                                                   *)
QuietFilesInUse ==
  /\ ~Consul /\ Doing("idle") /\ ~timer /\ reloads = {} /\ Fit
  /\ ~unseen /\ ~overlapped /\ ~byHand
  => config = Merged

(* local.go:68-130, 212-224: with files, no configuration ever becomes     *)
(* current that was read in part or does not validate, whatever is being   *)
(* written meanwhile; only one that is set by hand need not be valid.      *)
LocalConfigValid == ~Consul /\ config # Unset /\ ~byHand => Valid(config)

(* manager.go:167-176, README.md:234: after a rollback the watcher brings  *)
(* the version back.  It does not hold: it is written to a key nobody      *)
(* reads.                                                                  *)
RollbackTakesEffect ==
  <>[](Consul /\ wanted # Nothing) => []<>(config = wanted)
=============================================================================
