---------------------------- MODULE ProcessProofs ----------------------------
(***************************************************************************)
(* What every process carries with it: its configuration, for any number   *)
(* of changes of the sources and of failing calls, and its logger, for any *)
(* goroutines, numbers of messages, capacities and batch sizes.            *)
(***************************************************************************)
EXTENDS Configuration, Logger, FiniteSetTheorems, SequenceTheorems, TLAPS

-----------------------------------------------------------------------------
(***************************************************************************)
(* Configuration                                                           *)
(***************************************************************************)

(* Both passes of the watcher, and the loading from Consul, are at one of  *)
(* the layers; LocalConfig is past them when it validates.                 *)
PassInv ==
  /\ main.pc \in {"compare", "reload"} => main.layer \in Layers
  /\ Consul /\ main.pc = "load" => main.layer \in Layers
  /\ IsFiniteSet(reloads)

ConfigInv == TypeOK /\ PassInv /\ LocalConfigValid

(* The kinds of contents are pairwise different.                           *)
LEMMA PartType == \A c \in Contents : Part(c) \in Good \union {"invalid", "absent"}
  BY DEF Part, Parses, Contents, Good

LEMMA NothingType == Nothing \in Configs /\ \A pc : Begin(pc).acc = Nothing
  BY DEF Nothing, Configs, Begin

(* A configuration in which one more layer has been read.                  *)
LEMMA LayerRead ==
  ASSUME NEW acc \in Configs, NEW l \in Layers, NEW c \in Contents
  PROVE  [acc EXCEPT ![l] = Part(c)] \in Configs
  BY PartType DEF Configs

LEMMA SetIsNotUnset ==
  ASSUME NEW cfg, Valid(cfg) \/ cfg \in Configs
  PROVE  cfg # Unset
  BY DEF Valid, Configs, Unset, Good, Layers

Mains == [pc : {"load", "watch", "idle", "compare", "reload", "exited"},
          layer : 1 .. 4, acc : Configs, changed : BOOLEAN]

LEMMA BeginType ==
  \A pc \in {"load", "watch", "idle", "compare", "reload", "exited"} :
    Begin(pc) \in Mains /\ Begin(pc).pc = pc /\ Begin(pc).layer = 1
  BY NothingType DEF Begin, Mains

(* One file read, by the loading goroutine or by a reload.                 *)
LEMMA ReadFileType ==
  ASSUME TypeOK, NEW R, R \in Mains \/ R \in Readers, R.layer \in Layers
  PROVE  /\ R \in Mains => ReadFile(R) \in Mains /\ ReadFile(R).pc = R.pc
         /\ R \in Readers => ReadFile(R) \in Readers
  <1>1. source[R.layer] \in Contents
    BY DEF TypeOK
  <1>2. R.acc \in Configs
    BY DEF Mains, Readers
  <1>3. [R.acc EXCEPT ![R.layer] = Part(source[R.layer])] \in Configs
    BY <1>1, <1>2, LayerRead
  <1>4. R.layer + 1 \in 1 .. 4
    BY DEF Layers
  <1>5. ASSUME R \in Mains PROVE ReadFile(R) \in Mains /\ ReadFile(R).pc = R.pc
    <2>1. [R EXCEPT !.layer = 4] \in Mains
      BY <1>5 DEF Mains
    <2>2. [R EXCEPT !.layer = @ + 1, !.acc[R.layer] = Part(source[R.layer])] \in Mains
      BY <1>3, <1>4, <1>5 DEF Mains
    <2> QED
      BY <1>5, <2>1, <2>2 DEF ReadFile, Mains
  <1>6. ASSUME R \in Readers PROVE ReadFile(R) \in Readers
    <2>1. [R EXCEPT !.layer = 4] \in Readers
      BY <1>6 DEF Readers
    <2>2. [R EXCEPT !.layer = @ + 1, !.acc[R.layer] = Part(source[R.layer])] \in Readers
      BY <1>3, <1>4, <1>6 DEF Readers
    <2> QED
      BY <2>1, <2>2 DEF ReadFile
  <1> QED
    BY <1>5, <1>6

LEMMA ConfigInit == Init => ConfigInv
  <1> SUFFICES ASSUME Init PROVE ConfigInv
    OBVIOUS
  <1>1. IsFiniteSet(reloads) /\ Cardinality(reloads) <= 2
    BY FS_EmptySet DEF Init
  <1>2. main \in Mains /\ main.pc = "load" /\ main.layer = 1
    BY BeginType DEF Init
  <1>3. source \in [Layers -> Contents]
    BY DEF Init, Contents, Good
  <1>4. last \in [Layers -> Contents]
    BY DEF Init, Nothing, Contents
  <1>5. provider \in Providers /\ reloads \subseteq Readers /\ watched \subseteq Layers
    BY DEF Init
  <1>6. edits \in 0 .. MaxEdits /\ faults \in 0 .. MaxFaults
    BY ConfigurationAssumption DEF Init
  <1>7. TypeOK
    BY <1>1, <1>2, <1>3, <1>4, <1>5, <1>6, NothingType DEF Init, TypeOK, Mains
  <1> QED
    BY <1>1, <1>2, <1>7 DEF Init, ConfigInv, PassInv, LocalConfigValid, Layers

(* What no reader and no edit changes.                                     *)
LEMMA ConfigFrame ==
  ASSUME TypeOK, UNCHANGED <<provider, source, watched, edits>>,
         main' \in Mains, config' \in Configs \union {Unset},
         last' \in [Layers -> Contents], faults' \in 0 .. MaxFaults,
         timer' \in BOOLEAN, unseen' \in BOOLEAN, missed' \in BOOLEAN, byHand' \in BOOLEAN,
         UNCHANGED <<reloads, version, rolled, overlapped, wanted>>
  PROVE  TypeOK'
  BY DEF TypeOK, Mains, Configs, Layers, Contents, Good, Readers, Unset, Providers

(* The watcher and the loading from Consul: no step leaves its layer, and  *)
(* LocalConfig's promise is not theirs to keep.                            *)
LEMMA MainRead ==
  ASSUME TypeOK, main.layer \in Layers, NEW v \in Good \union {"invalid", "absent"}
  PROVE  LET m == [main EXCEPT !.acc[main.layer] = v] IN
           m \in Mains /\ m.acc \in Configs /\ m.pc = main.pc /\ m.layer = main.layer
  <1> DEFINE m == [main EXCEPT !.acc[main.layer] = v]
  <1>1. main \in Mains
    BY DEF TypeOK, Mains
  <1>2. [main.acc EXCEPT ![main.layer] = v] \in Configs
    BY <1>1 DEF Mains, Configs
  <1>3. m \in Mains /\ m.pc = main.pc /\ m.layer = main.layer
    BY <1>1, <1>2 DEF Mains
  <1> QED
    BY <1>3 DEF Mains

LEMMA NextLayerType ==
  ASSUME NEW m \in Mains, m.layer \in Layers, NEW then \in Mains
  PROVE  /\ NextLayer(m, then) \in Mains
         /\ \/ NextLayer(m, then) = then
            \/ NextLayer(m, then).layer = 2 /\ NextLayer(m, then).pc = m.pc
  <1>1. [m EXCEPT !.layer = 2] \in Mains /\ [m EXCEPT !.layer = 2].layer = 2
          /\ [m EXCEPT !.layer = 2].pc = m.pc
    BY DEF Mains
  <1> QED
    BY <1>1 DEF NextLayer

LEMMA FirstRead ==
  ASSUME NEW m \in Mains, NEW v \in Good \union {"invalid", "absent"}
  PROVE  LET q == [m EXCEPT !.layer = 2, !.acc[1] = v] IN q \in Mains /\ q.layer = 2
  <1> DEFINE n == [m EXCEPT !.layer = 2]
  <1>1. n \in Mains /\ n.layer = 2
    BY DEF Mains
  <1>2. [n EXCEPT !.acc[1] = v] \in Mains /\ [n EXCEPT !.acc[1] = v].layer = 2
    <2> HIDE DEF n
    <2>1. [n.acc EXCEPT ![1] = v] \in Configs
      BY <1>1 DEF Mains, Configs, Layers
    <2> QED
      BY <1>1, <2>1 DEF Mains
  <1>3. [m EXCEPT !.layer = 2, !.acc[1] = v] = [n EXCEPT !.acc[1] = v]
    OBVIOUS
  <1> QED
    BY <1>2, <1>3

LEMMA LoadAppConfigStep == ASSUME ConfigInv, LoadAppConfig PROVE ConfigInv'
  <1> USE DEF ConfigInv, PassInv, Doing
  <1>1. main \in Mains /\ main.layer \in Layers /\ main.acc \in Configs
    BY DEF TypeOK, Mains, LoadAppConfig
  <1>2. \A l \in Layers : Part(source[l]) \in Good \union {"invalid", "absent"}
    BY PartType DEF TypeOK
  <1>3. main' \in Mains /\ main'.layer \in Layers
    <2>1. CASE main' = Begin("idle") \/ main' = Begin("exited")
      BY <2>1, BeginType DEF Layers
    <2>2. CASE main.layer = 1 /\ main' = [main EXCEPT !.layer = 2, !.acc[1] = Part(source[1])]
      <3> DEFINE q == [main EXCEPT !.layer = 2, !.acc[1] = Part(source[1])]
      <3>1. q \in Mains /\ q.layer = 2
        BY <1>1, <1>2, FirstRead DEF Layers
      <3> QED
        BY <2>2, <3>1 DEF Layers
    <2> QED
      BY <2>1, <2>2 DEF LoadAppConfig
  <1>4. config' \in Configs \union {Unset}
    <2>1. [main.acc EXCEPT ![2] = Part(source[2])] \in Configs
      BY <1>1, <1>2 DEF Configs, Layers
    <2> QED
      BY <2>1 DEF LoadAppConfig, TypeOK
  <1>5. TypeOK'
    BY <1>3, <1>4, ConfigFrame DEF LoadAppConfig, TypeOK, ghosts
  <1> QED
    BY <1>3, <1>5 DEF LoadAppConfig, LocalConfigValid, Consul

LEMMA CheckStep == ASSUME ConfigInv, Check PROVE ConfigInv'
  <1> USE DEF ConfigInv, PassInv, Doing
  <1>1. main' \in Mains /\ main'.layer \in Layers
    BY BeginType DEF Check, Layers
  <1>2. TypeOK'
    BY <1>1, ConfigFrame DEF Check, TypeOK, ghosts
  <1> QED
    BY <1>1, <1>2 DEF Check, LocalConfigValid, Consul

LEMMA CompareStep == ASSUME ConfigInv, Compare PROVE ConfigInv'
  <1> USE DEF ConfigInv, PassInv, Doing
  <1> DEFINE c == source[main.layer]
             new == c # "absent" /\ last[main.layer] # c
             seen == [main EXCEPT !.changed = @ \/ new]
             after(m) == NextLayer(m, IF m.changed THEN Begin("reload") ELSE Begin("idle"))
  <1>1. main \in Mains /\ main.layer \in Layers /\ c \in Contents
    BY DEF TypeOK, Mains, Compare
  <1>2. seen \in Mains /\ seen.layer = main.layer
    <2>1. main.changed \in BOOLEAN /\ (main.changed \/ new) \in BOOLEAN
      BY <1>1 DEF Mains
    <2> HIDE DEF new
    <2> QED
      BY <1>1, <2>1 DEF Mains
  <1>3. ASSUME NEW m \in Mains, m.layer \in Layers
        PROVE  after(m) \in Mains /\ after(m).layer \in Layers
    <2>1. (IF m.changed THEN Begin("reload") ELSE Begin("idle")) \in Mains
            /\ (IF m.changed THEN Begin("reload") ELSE Begin("idle")).layer \in Layers
      BY BeginType DEF Layers
    <2> HIDE DEF c
    <2> QED
      BY <1>3, <2>1, NextLayerType DEF Layers
  <1>4. main' = after(seen) \/ main' = after(main)
    BY DEF Compare
  <1>5. main' \in Mains /\ main'.layer \in Layers
    <2> HIDE DEF after, seen
    <2> QED
      BY <1>1, <1>2, <1>3, <1>4
  <1>6. last' \in [Layers -> Contents] /\ faults' \in 0 .. MaxFaults
    <2>1. [last EXCEPT ![main.layer] = c] \in [Layers -> Contents]
      BY <1>1 DEF TypeOK
    <2>2. faults' \in 0 .. MaxFaults
      BY ConfigurationAssumption DEF Compare, TypeOK
    <2>3. last' = last \/ last' = [last EXCEPT ![main.layer] = c]
      BY DEF Compare
    <2> QED
      BY <2>1, <2>2, <2>3 DEF TypeOK
  <1>7. TypeOK'
    <2>1. UNCHANGED <<provider, source, config, timer, watched, reloads, version, rolled,
                      edits, ghosts>>
      BY DEF Compare
    <2> QED
      BY <1>5, <1>6, <2>1, ConfigFrame DEF TypeOK, ghosts
  <1> QED
    BY <1>5, <1>7 DEF Compare, LocalConfigValid, Consul

LEMMA ReloadStep == ASSUME ConfigInv, Reload PROVE ConfigInv'
  <1> USE DEF ConfigInv, PassInv, Doing
  <1> DEFINE m == [main EXCEPT !.acc[main.layer] = Part(source[main.layer])]
             idle == Begin("idle")
  <1>1. main \in Mains /\ main.layer \in Layers
    BY DEF TypeOK, Mains, Reload
  <1>2. Part(source[main.layer]) \in Good \union {"invalid", "absent"}
    BY <1>1, PartType DEF TypeOK
  <1>3. m \in Mains /\ m.acc \in Configs /\ m.layer = main.layer
    BY <1>1, <1>2, MainRead
  <1>4. idle \in Mains /\ idle.layer \in Layers
    BY BeginType DEF Layers
  <1>5. \E q \in {m, main} :
          /\ main' = NextLayer(q, idle)
          /\ config' = config \/ config' = q.acc
          /\ byHand' = byHand \/ byHand' = FALSE
    BY DEF Reload, Publish
  <1>6. main.acc \in Configs
    BY <1>1 DEF Mains
  <1>7. main' \in Mains /\ main'.layer \in Layers /\ config' \in Configs \union {Unset}
    <2> HIDE DEF m, idle
    <2>1. PICK q \in {m, main} : main' = NextLayer(q, idle) /\ (config' = config \/ config' = q.acc)
      BY <1>5
    <2>2. q \in Mains /\ q.layer \in Layers /\ q.acc \in Configs
      BY <1>1, <1>3, <1>6
    <2>3. main' \in Mains /\ main'.layer \in Layers
      BY <1>4, <2>1, <2>2, NextLayerType DEF Layers
    <2> QED
      BY <2>1, <2>2, <2>3 DEF TypeOK
  <1>8. missed' \in BOOLEAN /\ byHand' \in BOOLEAN
    BY <1>5 DEF Reload, TypeOK
  <1>9. faults' \in 0 .. MaxFaults
    BY ConfigurationAssumption DEF Reload, TypeOK
  <1>10. TypeOK'
    <2>1. UNCHANGED <<provider, source, last, timer, watched, reloads, version, rolled,
                      edits, unseen, overlapped, wanted>>
      BY DEF Reload
    <2> QED
      BY <1>7, <1>8, <1>9, <2>1, ConfigFrame DEF TypeOK
  <1> QED
    BY <1>7, <1>10 DEF Reload, LocalConfigValid, Consul

(* LocalConfig sets what it has validated.                                 *)
LEMMA LoadLocalStep == ASSUME ConfigInv, LoadLocal PROVE ConfigInv'
  <1> USE DEF ConfigInv, PassInv, Doing
  <1>1. main \in Mains
    BY DEF TypeOK, Mains
  <1>2. CASE main.layer \in Layers
    <2>1. main' \in Mains /\ main'.pc = "load" /\ UNCHANGED config
      BY <1>1, <1>2, ReadFileType DEF LoadLocal, Layers
    <2>2. TypeOK'
      BY <2>1, ConfigFrame DEF LoadLocal, TypeOK, ghosts
    <2> QED
      BY <2>1, <2>2 DEF LoadLocal, LocalConfigValid, Consul, ghosts
  <1>3. CASE main.layer = 3 /\ Valid(main.acc)
    <2>1. main' \in Mains /\ main'.pc = "watch" /\ config' \in Configs /\ config' = main.acc
      BY <1>1, <1>3, BeginType DEF LoadLocal, Layers, Mains
    <2>2. TypeOK'
      BY <2>1, ConfigFrame DEF LoadLocal, TypeOK, ghosts
    <2> QED
      BY <1>3, <2>1, <2>2 DEF LoadLocal, LocalConfigValid, Consul
  <1>4. CASE main.layer \notin Layers /\ ~(main.layer = 3 /\ Valid(main.acc))
    <2>1. main' = Begin("exited") /\ UNCHANGED config
      BY <1>4 DEF LoadLocal
    <2>2. main' \in Mains /\ main'.pc = "exited"
      BY <2>1, BeginType
    <2>3. TypeOK'
      BY <2>1, <2>2, ConfigFrame DEF LoadLocal, TypeOK, ghosts
    <2> QED
      BY <2>1, <2>2, <2>3 DEF LoadLocal, LocalConfigValid, Consul, ghosts
  <1> QED
    BY <1>2, <1>3, <1>4

LEMMA StartWatcherStep == ASSUME ConfigInv, StartWatcher PROVE ConfigInv'
  <1>1. main' \in Mains /\ main'.pc = "idle"
    BY BeginType DEF StartWatcher
  <1>2. watched' \subseteq Layers
    BY DEF StartWatcher, Watchable, Layers
  <1>3. TypeOK'
    BY <1>1, <1>2 DEF ConfigInv, StartWatcher, TypeOK, ghosts, Mains
  <1> QED
    BY <1>1, <1>3 DEF ConfigInv, PassInv, StartWatcher, LocalConfigValid, Consul, ghosts

(* At most two reloads at a time, each with what it has read so far.       *)
LEMMA TimerFiresStep == ASSUME ConfigInv, TimerFires PROVE ConfigInv'
  <1>1. Reader \in Readers
    BY NothingType DEF Reader, Readers
  <1>2. IsFiniteSet(reloads') /\ Cardinality(reloads') = Cardinality(reloads) + 1
    BY FS_AddElement DEF ConfigInv, PassInv, TimerFires
  <1>3. Cardinality(reloads) \in Nat /\ Cardinality(reloads) < 2
    BY FS_CardinalityType DEF ConfigInv, PassInv, TimerFires
  <1>4. reloads' \subseteq Readers /\ Cardinality(reloads') <= 2
    BY <1>1, <1>2, <1>3 DEF ConfigInv, TypeOK, TimerFires
  <1>5. TypeOK'
    BY <1>4 DEF ConfigInv, TypeOK, TimerFires
  <1> QED
    BY <1>2, <1>5 DEF ConfigInv, PassInv, TimerFires, LocalConfigValid, Consul

LEMMA ReloadLocalStep ==
  ASSUME ConfigInv, NEW r \in reloads, ReloadLocal(r)
  PROVE  ConfigInv'
  <1>1. r \in Readers /\ r.acc \in Configs
    BY DEF ConfigInv, TypeOK, Readers
  <1>2. IsFiniteSet(reloads \ {r}) /\ Cardinality(reloads \ {r}) = Cardinality(reloads) - 1
    BY FS_RemoveElement DEF ConfigInv, PassInv
  <1>3. Cardinality(reloads) \in Nat /\ Cardinality(reloads) <= 2
    BY FS_CardinalityType DEF ConfigInv, PassInv, TypeOK
  <1>4. CASE r.layer \in Layers
    <2>1. ReadFile(r) \in Readers
      BY <1>1, <1>4, ReadFileType DEF ConfigInv
    <2>2. reloads' = (reloads \ {r}) \union {ReadFile(r)} /\ UNCHANGED <<config, byHand>>
      BY <1>4 DEF ReloadLocal, Layers
    <2>3. /\ IsFiniteSet(reloads')
          /\ Cardinality(reloads') \in {Cardinality(reloads \ {r}), Cardinality(reloads \ {r}) + 1}
      BY <1>2, <2>2, FS_AddElement
    <2>4. Cardinality(reloads') <= 2
      BY <1>2, <1>3, <2>3
    <2>5. TypeOK'
      BY <2>1, <2>2, <2>4 DEF ConfigInv, TypeOK, ReloadLocal
    <2> QED
      BY <2>2, <2>3, <2>5 DEF ConfigInv, PassInv, ReloadLocal, LocalConfigValid, Consul
  <1>5. CASE r.layer \notin Layers
    <2>0. reloads' = reloads \ {r}
      BY <1>5 DEF ReloadLocal, Layers
    <2>1. \/ UNCHANGED <<config, byHand>>
          \/ config' = r.acc /\ byHand' = FALSE /\ Valid(r.acc)
      BY <1>5 DEF ReloadLocal, Publish
    <2>2. Cardinality(reloads') <= 2
      BY <1>2, <1>3, <2>0
    <2>3. TypeOK'
      BY <1>1, <2>0, <2>1, <2>2 DEF ConfigInv, TypeOK, ReloadLocal
    <2> QED
      BY <1>2, <2>0, <2>1, <2>3 DEF ConfigInv, PassInv, ReloadLocal, LocalConfigValid, Consul
  <1> QED
    BY <1>4, <1>5

(* Whoever changes a source, a version or the configuration by hand.       *)
LEMMA EditStep ==
  ASSUME ConfigInv, NEW l \in Layers, NEW c \in Contents,
         EditFile(l, c) \/ ReplaceFile(l, c) \/ PushConfig(l, c) \/ EditKey(l, c)
  PROVE  ConfigInv'
  <1> USE DEF EditFile, ReplaceFile, PushConfig, EditKey, ChangeKey
  <1>1. Change(l, c)
    OBVIOUS
  <1>2. edits' \in 0 .. MaxEdits /\ source' \in [Layers -> Contents]
    BY <1>1, ConfigurationAssumption DEF ConfigInv, TypeOK, Change
  <1>3. /\ timer' \in BOOLEAN /\ unseen' \in BOOLEAN /\ wanted' \in Configs
        /\ watched' \subseteq Layers
    BY <1>1, NothingType DEF ConfigInv, TypeOK, Change
  <1>4. TypeOK'
    BY <1>1, <1>2, <1>3 DEF ConfigInv, TypeOK, Change
  <1> QED
    BY <1>1, <1>4 DEF ConfigInv, PassInv, Change, LocalConfigValid, Consul

LEMMA VersionStep ==
  ASSUME ConfigInv, SaveVersion \/ Rollback
  PROVE  ConfigInv'
  <1>1. TypeOK'
    BY DEF ConfigInv, TypeOK, SaveVersion, Rollback, SaveConfigVersion, RollbackToVersion, ghosts
  <1> QED
    BY <1>1 DEF ConfigInv, PassInv, SaveVersion, Rollback, SaveConfigVersion, RollbackToVersion,
                LocalConfigValid, Consul

LEMMA UpdateConfigStep == ASSUME ConfigInv, UpdateConfig PROVE ConfigInv'
  <1>1. config' \in Configs /\ byHand'
    BY DEF UpdateConfig, Configs, Good
  <1>2. edits' \in 0 .. MaxEdits
    BY ConfigurationAssumption DEF ConfigInv, TypeOK, UpdateConfig
  <1>3. TypeOK'
    BY <1>1, <1>2, NothingType DEF ConfigInv, TypeOK, UpdateConfig
  <1> QED
    BY <1>1, <1>3 DEF ConfigInv, PassInv, UpdateConfig, LocalConfigValid, Consul

LEMMA ConfigStep == ConfigInv /\ [Next]_vars => ConfigInv'
  <1> SUFFICES ASSUME ConfigInv, [Next]_vars PROVE ConfigInv'
    OBVIOUS
  <1>1. CASE LoadAppConfig \/ Watcher \/ LoadLocal \/ StartWatcher \/ TimerFires
    BY <1>1, LoadAppConfigStep, CheckStep, CompareStep, ReloadStep, LoadLocalStep,
       StartWatcherStep, TimerFiresStep DEF Watcher
  <1>2. ASSUME NEW r \in reloads, ReloadLocal(r) PROVE ConfigInv'
    BY <1>2, ReloadLocalStep
  <1>3. CASE Edit
    BY <1>3, EditStep DEF Edit
  <1>4. CASE SaveVersion \/ Rollback \/ UpdateConfig
    BY <1>4, VersionStep, UpdateConfigStep
  <1>5. CASE UNCHANGED vars
    <2>1. TypeOK'
      BY <1>5 DEF ConfigInv, TypeOK, vars, ghosts
    <2> QED
      BY <1>5, <2>1 DEF ConfigInv, PassInv, LocalConfigValid, Consul, ghosts, vars
  <1> QED
    BY <1>1, <1>2, <1>3, <1>4, <1>5 DEF Next

LEMMA ConfigInvariance == Spec => []ConfigInv
  <1> QED
    BY ConfigInit, ConfigStep, PTL DEF Spec

(* The configuration, what the watchers hold and what the reloads have     *)
(* read keep their types; no pass of a watcher reads past the layers.      *)
THEOREM ConfigTypeCorrect == Spec => []TypeOK
  <1>1. ConfigInv => TypeOK
    BY DEF ConfigInv
  <1> QED
    BY <1>1, ConfigInvariance, PTL

(* local.go:68-130, 212-224: with files, no configuration ever becomes     *)
(* current that was read in part or does not validate, however many        *)
(* changes there are and however reloads overlap: if the one in use does   *)
(* not validate, it was set by hand.                                       *)
THEOREM FilesValidated == Spec => []LocalConfigValid
  <1>1. ConfigInv => LocalConfigValid
    BY DEF ConfigInv
  <1> QED
    BY <1>1, ConfigInvariance, PTL

(* With Consul: a difference is noticed once the comparison has passed it, *)
(* and a reload that has missed nothing so far has read what was compared. *)
Held == ~missed /\ ~byHand /\ last # Nothing => config = [l \in Layers |-> Part(last[l])]

ComparedInv ==
  Consul =>
    /\ ~timer /\ watched = {} /\ reloads = {}
    /\ Doing("load") => last = Nothing
    /\ Doing("idle") \/ (Doing("compare") /\ ~main.changed) => Held
    /\ Doing("reload") /\ main.layer = 2 /\ ~missed => main.acc[1] = Part(last[1])

LEMMA NextLayerIs ==
  ASSUME NEW m \in Mains, m.layer \in Layers, NEW then \in Mains
  PROVE  LET n == NextLayer(m, then) IN
           \/ /\ m.layer = 1 /\ n.pc = m.pc /\ n.layer = 2
              /\ n.acc = m.acc /\ n.changed = m.changed
           \/ m.layer = 2 /\ n = then
  BY DEF NextLayer, Mains, Layers

LEMMA ComparedStarts == Init => ComparedInv
  BY DEF Init, ComparedInv, Begin, Doing

(* The loading of the process leaves it to the first comparison.           *)
LEMMA LoadComparedStep ==
  ASSUME ConfigInv, ComparedInv, LoadAppConfig
  PROVE  ComparedInv'
  <1>1. main \in Mains /\ main.layer \in Layers /\ main.pc = "load" /\ last = Nothing /\ last' = last
          /\ UNCHANGED <<provider, timer, watched, reloads>>
    BY DEF ConfigInv, TypeOK, PassInv, Mains, LoadAppConfig, Doing, ComparedInv
  <1>2. main' = Begin("idle") \/ main' = Begin("exited")
          \/ main' = [main EXCEPT !.layer = 2, !.acc[1] = Part(source[1])]
    BY DEF LoadAppConfig
  <1>3. main'.pc \in {"idle", "exited", "load"}
    <2>1. CASE main' = [main EXCEPT !.layer = 2, !.acc[1] = Part(source[1])]
      BY <1>1, <2>1 DEF Mains
    <2> QED
      BY <1>2, <2>1, BeginType
  <1> QED
    BY <1>1, <1>3 DEF ComparedInv, Held, Doing, Consul

LEMMA CompareComparedStep ==
  ASSUME ConfigInv, ComparedInv, Compare
  PROVE  ComparedInv'
  <1> DEFINE c == source[main.layer]
             new == c # "absent" /\ last[main.layer] # c
             seen == [main EXCEPT !.changed = @ \/ new]
             then(m) == IF m.changed THEN Begin("reload") ELSE Begin("idle")
  <1>1. main \in Mains /\ main.layer \in Layers /\ main.pc = "compare" /\ main.changed \in BOOLEAN
    BY DEF ConfigInv, TypeOK, PassInv, Mains, Compare, Doing
  <1>2. UNCHANGED <<provider, config, timer, watched, reloads, missed, byHand>>
    BY DEF Compare, ghosts
  <1>3. /\ seen \in Mains /\ seen.layer = main.layer /\ seen.pc = main.pc
        /\ seen.changed <=> (main.changed \/ new)
    <2>1. (main.changed \/ new) \in BOOLEAN
      BY <1>1
    <2> HIDE DEF new
    <2> QED
      BY <1>1, <2>1 DEF Mains
  <1>4. PICK m \in {seen, main} :
          /\ main' = NextLayer(m, then(m))
          /\ ~m.changed => ~main.changed /\ last' = last
    BY <1>3 DEF Compare
  <1>5. m \in Mains /\ m.layer \in Layers /\ m.pc = "compare" /\ m.changed \in BOOLEAN
    BY <1>1, <1>3 DEF Mains
  <1> HIDE DEF seen
  <1>6. then(m) \in Mains /\ then(m).layer = 1
          /\ then(m).pc = IF m.changed THEN "reload" ELSE "idle"
    BY BeginType
  <1>7. \/ main'.pc = "compare" /\ main'.changed = m.changed
        \/ main'.pc = (IF m.changed THEN "reload" ELSE "idle") /\ main'.layer = 1
    BY <1>4, <1>5, <1>6, NextLayerIs
  <1>8. CASE m.changed
    <2>1. \/ main'.pc = "compare" /\ main'.changed
          \/ main'.pc = "reload" /\ main'.layer = 1
      BY <1>7, <1>8
    <2> QED
      BY <1>2, <2>1 DEF ComparedInv, Doing, Consul
  <1>9. CASE ~m.changed
    <2>1. main'.pc \in {"compare", "idle"} /\ last' = last /\ ~main.changed
      BY <1>4, <1>7, <1>9
    <2> QED
      BY <1>1, <1>2, <2>1 DEF ComparedInv, Held, Doing, Consul
  <1> QED
    BY <1>8, <1>9

LEMMA ReloadComparedStep ==
  ASSUME ConfigInv, ComparedInv, Reload
  PROVE  ComparedInv'
  <1> DEFINE m == [main EXCEPT !.acc[main.layer] = Part(source[main.layer])]
             idle == Begin("idle")
  <1>1. main \in Mains /\ main.layer \in Layers /\ main.pc = "reload" /\ main.acc \in Configs
    BY DEF ConfigInv, TypeOK, PassInv, Mains, Reload, Doing
  <1>2. Part(source[main.layer]) \in Good \union {"invalid", "absent"}
    BY <1>1, PartType DEF ConfigInv, TypeOK
  <1>3. /\ m \in Mains /\ m.pc = "reload" /\ m.layer = main.layer
        /\ m.acc = [main.acc EXCEPT ![main.layer] = Part(source[main.layer])]
    <2>1. m \in Mains /\ m.layer = main.layer /\ m.pc = main.pc
      BY <1>1, <1>2, MainRead DEF ConfigInv
    <2>2. m.acc = [main.acc EXCEPT ![main.layer] = Part(source[main.layer])]
      BY <1>1 DEF Mains
    <2> QED
      BY <1>1, <2>1, <2>2
  <1>4. /\ UNCHANGED <<provider, last>> /\ provider = "consul" /\ missed \in BOOLEAN
        /\ ~timer' /\ watched' = {} /\ reloads' = {}
    BY DEF ComparedInv, Reload, Consul, ConfigInv, TypeOK
  <1>5. idle \in Mains /\ idle.pc = "idle" /\ idle.layer = 1
    BY BeginType
  <1>6. CASE /\ main' = NextLayer(m, idle)
             /\ IF m.layer = 1 THEN UNCHANGED <<config, byHand>> ELSE Publish(m.acc)
             /\ missed' = ((main.layer = 2 /\ missed) \/ last[main.layer] # source[main.layer])
    <2>1. CASE main.layer = 1
      <3>1. main'.pc = "reload" /\ main'.layer = 2 /\ main'.acc = m.acc
        <4> HIDE DEF m, idle
        <4> QED
          BY <1>1, <1>3, <1>5, <1>6, <2>1, NextLayerIs
      <3>2. m.acc[1] = Part(source[1])
        BY <1>1, <1>3, <2>1 DEF Configs, Layers
      <3> QED
        BY <1>4, <1>6, <2>1, <3>1, <3>2 DEF ComparedInv, Doing
    <2>2. CASE main.layer = 2
      <3>1. main' = idle
        <4> HIDE DEF m, idle
        <4> QED
          BY <1>1, <1>3, <1>5, <1>6, <2>2, NextLayerIs
      <3>2. ASSUME ~missed'
            PROVE  config' = [l \in Layers |-> Part(last[l])]
        <4>1. ~missed /\ last[2] = source[2]
          BY <1>6, <2>2, <3>2
        <4>2. main.acc[1] = Part(last[1])
          BY <1>1, <1>4, <2>2, <4>1 DEF ComparedInv, Doing, Consul
        <4>3. m.acc[1] = Part(last[1]) /\ m.acc[2] = Part(last[2]) /\ m.acc \in Configs
          BY <1>1, <1>2, <1>3, <2>2, <4>1, <4>2 DEF Configs, Layers
        <4>4. config' = m.acc
          BY <1>3, <1>6, <2>2 DEF Publish
        <4> QED
          BY <4>3, <4>4 DEF Configs, Layers
      <3> QED
        BY <1>4, <1>5, <3>1, <3>2 DEF ComparedInv, Held, Doing
    <2> QED
      BY <1>1, <2>1, <2>2 DEF Layers
  <1>7. CASE missed' = TRUE /\ main' = NextLayer(main, idle)
    <2>1. main'.pc \in {"reload", "idle"}
      BY <1>1, <1>5, <1>7, NextLayerIs
    <2> QED
      BY <1>4, <1>7, <2>1 DEF ComparedInv, Held, Doing
  <1> QED
    BY <1>6, <1>7 DEF Reload

LEMMA ComparedStep == ConfigInv /\ ComparedInv /\ [Next]_vars => ComparedInv'
  <1> SUFFICES ASSUME ConfigInv, ComparedInv, [Next]_vars PROVE ComparedInv'
    OBVIOUS
  <1>1. CASE LoadAppConfig \/ Compare \/ Reload
    BY <1>1, LoadComparedStep, CompareComparedStep, ReloadComparedStep
  <1>2. CASE Check
    <2>1. /\ main' = Begin("compare") /\ main'.pc = "compare" /\ main.pc = "idle"
          /\ UNCHANGED <<provider, config, last, timer, watched, reloads, missed, byHand>>
      BY <1>2, BeginType DEF Check, Doing, ghosts
    <2> QED
      BY <2>1 DEF ComparedInv, Held, Doing, Consul
  <1>3. CASE LoadLocal \/ StartWatcher
    BY <1>3 DEF LoadLocal, StartWatcher, ComparedInv, Consul
  <1>4. ASSUME TimerFires \/ \E r \in reloads : ReloadLocal(r) PROVE ComparedInv'
    BY <1>4 DEF TimerFires, ReloadLocal, ComparedInv, Consul
  <1>5. CASE Edit
    <2>1. /\ UNCHANGED <<provider, config, main, last, reloads, missed, byHand>>
          /\ Consul => UNCHANGED <<timer, watched>>
      BY <1>5 DEF Edit, EditFile, ReplaceFile, PushConfig, EditKey, ChangeKey, Change
    <2> QED
      BY <2>1 DEF ComparedInv, Held, Doing, Consul
  <1>6. CASE SaveVersion \/ Rollback
    BY <1>6 DEF SaveVersion, Rollback, SaveConfigVersion, RollbackToVersion, ghosts,
                ComparedInv, Held, Doing, Consul
  <1>7. CASE UpdateConfig
    BY <1>7 DEF UpdateConfig, ComparedInv, Held, Doing, Consul
  <1>8. CASE UNCHANGED vars
    BY <1>8 DEF vars, ghosts, ComparedInv, Held, Doing, Consul
  <1> QED
    BY <1>1, <1>2, <1>3, <1>4, <1>5, <1>6, <1>7, <1>8
       DEF Next, Watcher

(* watcher.go:82-152: between two polls the configuration in use is what   *)
(* the last comparison saw, unless it was set by hand or the last reload   *)
(* met another value, for any number of changes and failing calls.         *)
THEOREM ComparedInUse == Spec => []ComparedIsInUse
  <1>1. Spec => []ComparedInv
    BY ComparedStarts, ComparedStep, ConfigInvariance, PTL DEF Spec
  <1>2. ComparedInv => ComparedIsInUse
    BY DEF ComparedInv, Held, ComparedIsInUse
  <1> QED
    BY <1>1, <1>2, PTL

(* With files: what a reader has read is what the files hold, and one that *)
(* has given up has met a file that is not fit, unless there was a change  *)
(* meanwhile, which has armed the timer or is known to go unnoticed.       *)
ReadSoFar(R) ==
  IF R.layer = 4 THEN ~Fit
  ELSE \A l \in Layers : l < R.layer => R.acc[l] = Part(source[l])

FilesInv ==
  ~Consul =>
    /\ Doing("load") =>
         /\ config = Unset /\ ~timer /\ reloads = {} /\ watched = {} /\ ~overlapped
         /\ ~unseen => ReadSoFar(main)
    /\ Doing("watch") =>
         /\ ~timer /\ reloads = {} /\ watched = {} /\ ~overlapped
         /\ ~unseen /\ ~byHand => config = Merged
    /\ Doing("idle") /\ ~overlapped =>
         /\ \A r, s \in reloads : r = s
         /\ ~timer /\ ~unseen =>
              /\ reloads = {} /\ Fit /\ ~byHand => config = Merged
              /\ \A r \in reloads : ReadSoFar(r)

LEMMA FilesStart == Init => FilesInv
  <1>1. Init => main.layer = 1 /\ main.pc = "load"
    BY BeginType DEF Init
  <1> QED
    BY <1>1 DEF Init, FilesInv, ReadSoFar, Layers, Doing

LEMMA ReadFileSoFar ==
  ASSUME TypeOK, NEW R, R \in Mains \/ R \in Readers, R.layer \in Layers, ReadSoFar(R)
  PROVE  ReadSoFar(ReadFile(R))
  <1> DEFINE l == R.layer
  <1>1. l \in {1, 2} /\ source[l] \in Contents /\ R.acc \in Configs
    BY DEF TypeOK, Mains, Readers, Layers
  <1>2. CASE Parses(source[l]) \/ (l = 2 /\ source[2] = "absent")
    <2> DEFINE q == [R EXCEPT !.layer = @ + 1, !.acc[R.layer] = Part(source[R.layer])]
    <2>1. q.layer = l + 1 /\ q.acc = [R.acc EXCEPT ![l] = Part(source[l])]
      BY <1>1 DEF Mains, Readers
    <2>2. ReadFile(R) = q
      BY <1>2 DEF ReadFile
    <2> HIDE DEF q
    <2>3. \A k \in Layers : k < l + 1 => q.acc[k] = Part(source[k])
      BY <1>1, <2>1 DEF ReadSoFar, Layers, Configs
    <2>4. ReadSoFar(q)
      BY <1>1, <2>1, <2>3 DEF ReadSoFar
    <2> QED
      BY <2>2, <2>4
  <1>3. CASE ~(Parses(source[l]) \/ (l = 2 /\ source[2] = "absent"))
    <2>1. ReadFile(R).layer = 4
      BY <1>3 DEF ReadFile, Mains, Readers
    <2>2. ~Fit
      BY <1>1, <1>3 DEF Fit, Valid, Merged, Part, Parses, Contents, Good, Layers
    <2> QED
      BY <2>1, <2>2 DEF ReadSoFar
  <1> QED
    BY <1>2, <1>3

(* Who has read both files has what they merge to.                         *)
LEMMA ReadAll ==
  ASSUME NEW R, R.acc \in Configs, R.layer = 3, ReadSoFar(R)
  PROVE  R.acc = Merged
  <1>1. \A l \in Layers : R.acc[l] = Part(source[l])
    BY DEF ReadSoFar, Layers
  <1> QED
    BY <1>1 DEF Merged, Configs

LEMMA SourceStays ==
  ASSUME source' = source
  PROVE  /\ Merged' = Merged /\ (Fit' <=> Fit)
         /\ \A R : (ReadSoFar(R))' <=> ReadSoFar(R)
  <1>1. Merged' = Merged /\ (Fit' <=> Fit)
    BY DEF Merged, Fit, Part, Valid
  <1> QED
    BY <1>1 DEF ReadSoFar, Part

LEMMA LoadFilesStep ==
  ASSUME ConfigInv, FilesInv, LoadLocal
  PROVE  FilesInv'
  <1>1. /\ main \in Mains /\ main.pc = "load" /\ main.layer \in 1 .. 4 /\ main.acc \in Configs
        /\ UNCHANGED <<provider, source, timer, watched, reloads, unseen, overlapped>>
        /\ ~Consul
    BY DEF LoadLocal, ConfigInv, TypeOK, Mains, Doing, ghosts
  <1>2. /\ config = Unset /\ ~timer /\ reloads = {} /\ watched = {} /\ ~overlapped
        /\ ~unseen => ReadSoFar(main)
    BY <1>1 DEF FilesInv, Doing
  <1>3. CASE main.layer \in Layers
    <2>1. main' = ReadFile(main) /\ UNCHANGED config /\ main'.pc = "load"
      BY <1>1, <1>3, ReadFileType DEF LoadLocal, ConfigInv, Layers
    <2>2. ~unseen => (ReadSoFar(main))'
      <3>1. ~unseen => ReadSoFar(ReadFile(main))
        BY <1>1, <1>2, <1>3, ReadFileSoFar DEF ConfigInv
      <3> QED
        BY <1>1, <2>1, <3>1 DEF ReadSoFar, Fit, Merged, Part
    <2> QED
      BY <1>1, <1>2, <2>1, <2>2 DEF FilesInv, Doing
  <1>4. CASE main.layer = 3 /\ Valid(main.acc)
    <2>1. main'.pc = "watch" /\ config' = main.acc
      BY <1>1, <1>4, BeginType DEF LoadLocal, Layers
    <2>2. ~unseen => main.acc = Merged
      BY <1>1, <1>2, <1>4, ReadAll
    <2> QED
      BY <1>1, <1>2, <2>1, <2>2, SourceStays DEF FilesInv, Doing
  <1>5. CASE main' = Begin("exited")
    BY <1>5, BeginType DEF FilesInv, Doing
  <1> QED
    BY <1>3, <1>4, <1>5 DEF LoadLocal

LEMMA TimerFilesStep ==
  ASSUME ConfigInv, FilesInv, TimerFires
  PROVE  FilesInv'
  <1>1. UNCHANGED <<provider, source, config, main, watched>> /\ timer
          /\ reloads' = reloads \union {Reader} /\ overlapped' = (reloads # {})
    BY DEF TimerFires
  <1>2. (ReadSoFar(Reader))'
    BY DEF ReadSoFar, Reader, Layers
  <1>3. ~overlapped' => reloads' = {Reader}
    BY <1>1
  <1> QED
    BY <1>1, <1>2, <1>3 DEF FilesInv, Doing, Consul

LEMMA ReloadFilesStep ==
  ASSUME ConfigInv, FilesInv, NEW r \in reloads, ReloadLocal(r)
  PROVE  FilesInv'
  <1>1. r \in Readers /\ r.acc \in Configs /\ r.layer \in 1 .. 4
    BY DEF ConfigInv, TypeOK, Readers
  <1>2. UNCHANGED <<provider, source, main, timer, watched, unseen, overlapped>>
    BY DEF ReloadLocal, ghosts
  <1>3. ASSUME ~Consul, Doing("idle"), ~overlapped
        PROVE  /\ reloads = {r} /\ \A s, q \in reloads' : s = q
               /\ ~timer /\ ~unseen =>
                    /\ reloads' = {} /\ Fit /\ ~byHand' => config' = Merged
                    /\ \A s \in reloads' : ReadSoFar(s)
    <2>1. reloads = {r} /\ (~timer /\ ~unseen => ReadSoFar(r))
      BY <1>3 DEF FilesInv
    <2>2. CASE r.layer \in Layers
      <3>1. reloads' = {ReadFile(r)}
        BY <2>1, <2>2 DEF ReloadLocal, Layers
      <3>2. ~timer /\ ~unseen => ReadSoFar(ReadFile(r))
        BY <1>1, <2>1, <2>2, ReadFileSoFar DEF ConfigInv
      <3> QED
        BY <2>1, <3>1, <3>2
    <2>3. CASE r.layer \notin Layers
      <3>1. reloads' = {} /\ (r.layer = 3 /\ Valid(r.acc) => config' = r.acc)
        BY <2>1, <2>3 DEF ReloadLocal, Publish, Layers
      <3>2. ASSUME ~timer, ~unseen, Fit PROVE config' = Merged
        <4>1. r.layer = 3
          BY <1>1, <2>1, <2>3, <3>2 DEF ReadSoFar, Layers
        <4>2. r.acc = Merged /\ Valid(r.acc)
          BY <1>1, <2>1, <3>2, <4>1, ReadAll DEF Fit
        <4> QED
          BY <3>1, <4>1, <4>2
      <3> QED
        BY <2>1, <3>1, <3>2
    <2> QED
      BY <2>2, <2>3
  <1>4. (~Doing("load") /\ ~Doing("watch")) \/ Consul
    BY DEF FilesInv
  <1>5. ASSUME ~Consul', (Doing("idle"))', ~overlapped'
        PROVE  /\ \A s, q \in reloads' : s = q
               /\ ~timer' /\ ~unseen' =>
                    /\ reloads' = {} /\ Fit' /\ ~byHand' => config' = Merged'
                    /\ \A s \in reloads' : (ReadSoFar(s))'
    <2>1. ~Consul /\ Doing("idle") /\ ~overlapped
      BY <1>2, <1>5 DEF Consul, Doing
    <2> QED
      BY <1>2, <1>3, <2>1, SourceStays
  <1> QED
    BY <1>2, <1>4, <1>5 DEF FilesInv, Doing, Consul

LEMMA FilesStep == ConfigInv /\ FilesInv /\ [Next]_vars => FilesInv'
  <1> SUFFICES ASSUME ConfigInv, FilesInv, [Next]_vars PROVE FilesInv'
    OBVIOUS
  <1>1. CASE LoadAppConfig \/ Watcher
    BY <1>1 DEF LoadAppConfig, Watcher, Check, Compare, Reload, FilesInv, Consul
  <1>2. CASE LoadLocal \/ TimerFires
    BY <1>2, LoadFilesStep, TimerFilesStep
  <1>3. ASSUME NEW r \in reloads, ReloadLocal(r) PROVE FilesInv'
    BY <1>3, ReloadFilesStep
  <1>4. CASE StartWatcher
    <2>1. /\ main.pc = "watch" /\ main'.pc = "idle" /\ ~Consul
          /\ UNCHANGED <<provider, source, config, timer, reloads, unseen, byHand, overlapped>>
      BY <1>4, BeginType DEF StartWatcher, Doing, ghosts
    <2> QED
      BY <2>1, SourceStays DEF FilesInv, Doing
  <1>5. CASE Edit
    <2> USE DEF EditFile, ReplaceFile, PushConfig, EditKey, ChangeKey
    <2>1. PICK l \in Layers, c \in Contents :
            EditFile(l, c) \/ ReplaceFile(l, c) \/ PushConfig(l, c) \/ EditKey(l, c)
      BY <1>5 DEF Edit
    <2>2. UNCHANGED <<provider, config, main, reloads, byHand, overlapped>>
      BY <2>1 DEF Change
    <2>3. ~Consul => timer' \/ unseen'
      BY <2>1 DEF ConfigInv, TypeOK, Change
    <2>4. ~Consul /\ watched = {} => unseen' /\ timer' = timer /\ watched' = {}
      BY <2>1 DEF ConfigInv, TypeOK, Change
    <2> QED
      BY <2>2, <2>3, <2>4 DEF FilesInv, Doing, Consul
  <1>6. CASE SaveVersion \/ Rollback
    BY <1>6 DEF SaveVersion, Rollback, SaveConfigVersion, RollbackToVersion, FilesInv, Consul
  <1>7. CASE UpdateConfig
    <2>1. /\ UNCHANGED <<provider, source, main, timer, watched, reloads, unseen, overlapped>>
          /\ config # Unset /\ byHand'
      BY <1>7 DEF UpdateConfig
    <2> QED
      BY <2>1, SourceStays DEF FilesInv, Doing, Consul
  <1>8. CASE UNCHANGED vars
    <2>1. UNCHANGED <<provider, source, config, main, timer, watched, reloads, unseen, byHand,
                      overlapped>>
      BY <1>8 DEF vars, ghosts
    <2> QED
      BY <2>1, SourceStays DEF FilesInv, Doing, Consul
  <1> QED
    BY <1>1, <1>2, <1>3, <1>4, <1>5, <1>6, <1>7, <1>8
       DEF Next

(* local.go:133-224: while no timer is armed and no reload runs, the files *)
(* that are fit to be used are in use, unless a change went unnoticed, the *)
(* configuration was set by hand or two reloads overlapped.                *)
THEOREM QuietFiles == Spec => []QuietFilesInUse
  <1>1. Spec => []FilesInv
    BY FilesStart, FilesStep, ConfigInvariance, PTL DEF Spec
  <1>2. FilesInv => QuietFilesInUse
    BY DEF FilesInv, QuietFilesInUse
  <1> QED
    BY <1>1, <1>2, PTL

-----------------------------------------------------------------------------
(***************************************************************************)
(* Logger                                                                  *)
(***************************************************************************)

(* The messages of a channel or a batch, and that each is there once.      *)
Msgs(s) == {s[i].msg : i \in DOMAIN s}
Distinct(s) == \A i, j \in DOMAIN s : s[i].msg = s[j].msg => i = j

LEMMA MsgsType ==
  ASSUME NEW s \in Seq(Entries)
  PROVE  Msgs(s) \subseteq Messages /\ \A i \in DOMAIN s : s[i] \in Entries
  <1>1. \A i \in DOMAIN s : s[i] \in Entries
    BY LenProperties
  <1> QED
    BY <1>1 DEF Msgs, Entries

LEMMA NoMsgs == Msgs(<<>>) = {} /\ Distinct(<<>>)
  BY EmptySeq DEF Msgs, Distinct

LEMMA AppendMsgs ==
  ASSUME NEW s \in Seq(Entries), NEW e \in Entries
  PROVE  /\ Msgs(Append(s, e)) = Msgs(s) \union {e.msg}
         /\ Distinct(s) /\ e.msg \notin Msgs(s) => Distinct(Append(s, e))
  <1>1. DOMAIN Append(s, e) = 1 .. Len(s) + 1 /\ DOMAIN s = 1 .. Len(s) /\ Len(s) \in Nat
    BY AppendProperties, LenProperties
  <1>2. \A i \in 1 .. Len(s) : Append(s, e)[i] = s[i]
    BY AppendProperties
  <1>3. Append(s, e)[Len(s) + 1] = e
    BY AppendProperties
  <1> QED
    BY <1>1, <1>2, <1>3 DEF Msgs, Distinct

LEMMA TailMsgs ==
  ASSUME NEW s \in Seq(Entries), s # <<>>
  PROVE  /\ Head(s) \in Entries /\ Tail(s) \in Seq(Entries) /\ Len(Tail(s)) = Len(s) - 1
         /\ Msgs(s) = Msgs(Tail(s)) \union {Head(s).msg}
         /\ Distinct(s) => Distinct(Tail(s)) /\ Head(s).msg \notin Msgs(Tail(s))
  <1>1. Head(s) \in Entries /\ Tail(s) \in Seq(Entries) /\ Len(Tail(s)) = Len(s) - 1
    BY HeadTailProperties
  <1>2. Len(s) \in Nat \ {0} /\ DOMAIN s = 1 .. Len(s) /\ DOMAIN Tail(s) = 1 .. Len(s) - 1
    BY <1>1, LenProperties, EmptySeq
  <1>3. Head(s) = s[1] /\ \A i \in 1 .. Len(s) - 1 : Tail(s)[i] = s[i + 1]
    BY HeadTailProperties, <1>1, <1>2
  <1>4. Msgs(s) = Msgs(Tail(s)) \union {Head(s).msg}
    <2>1. ASSUME NEW i \in DOMAIN s PROVE s[i].msg \in Msgs(Tail(s)) \union {Head(s).msg}
      <3>1. CASE i = 1
        BY <1>3, <3>1
      <3>2. CASE i # 1
        <4>1. i - 1 \in DOMAIN Tail(s) /\ Tail(s)[i - 1] = s[i]
          BY <1>2, <1>3, <3>2
        <4> QED
          BY <4>1 DEF Msgs
      <3> QED
        BY <3>1, <3>2
    <2>2. ASSUME NEW i \in DOMAIN Tail(s) PROVE Tail(s)[i].msg \in Msgs(s)
      <3>1. i + 1 \in DOMAIN s /\ Tail(s)[i] = s[i + 1]
        BY <1>2, <1>3
      <3> QED
        BY <3>1 DEF Msgs
    <2>3. Head(s).msg \in Msgs(s)
      BY <1>2, <1>3 DEF Msgs
    <2> QED
      BY <2>1, <2>2, <2>3 DEF Msgs
  <1>5. ASSUME Distinct(s) PROVE Distinct(Tail(s)) /\ Head(s).msg \notin Msgs(Tail(s))
    BY <1>2, <1>3, <1>5 DEF Msgs, Distinct
  <1> QED
    BY <1>1, <1>4, <1>5

(* The messages at some places of a sequence, and how often one is there   *)
(* if the sequence has each once.                                          *)
At(s, I) == {s[i].msg : i \in I}

LEMMA CountAt ==
  ASSUME NEW s, Distinct(s), NEW I \in SUBSET DOMAIN s, NEW m
  PROVE  Cardinality({i \in I : s[i].msg = m}) = IF m \in At(s, I) THEN 1 ELSE 0
  <1>1. CASE m \in At(s, I)
    <2>1. PICK k \in I : s[k].msg = m
      BY <1>1 DEF At
    <2>2. {i \in I : s[i].msg = m} = {k}
      BY <2>1 DEF Distinct
    <2> QED
      BY <1>1, <2>2, FS_Singleton
  <1>2. CASE m \notin At(s, I)
    <2>1. {i \in I : s[i].msg = m} = {}
      BY <1>2 DEF At
    <2> QED
      BY <1>2, <2>1, FS_EmptySet
  <1> QED
    BY <1>1, <1>2

LEMMA CountMsgs ==
  ASSUME NEW s, Distinct(s), NEW m
  PROVE  Cardinality({i \in DOMAIN s : s[i].msg = m}) = IF m \in Msgs(s) THEN 1 ELSE 0
  BY CountAt DEF At, Msgs

(* A full batch is flushed before the next entry, and attempts to reach    *)
(* Loki belong to a flush; entries are not copied.                         *)
BatchInv ==
  /\ proc = "select" => Len(logs) < BatchSize
  /\ proc \in {"select", "returned"} \/ backend # "loki" => attempt = 0
  /\ Distinct(logChan) /\ Distinct(logs)

InHand(m) == \E g \in Goroutines : hand[g] # <<>> /\ hand[g][1].msg = m
Waiting(m) == InHand(m) \/ m \in Msgs(logChan)
Discarded == sampled \union dropped

(* A message is in one place at a time, from its submission on.  Only Loki *)
(* may have taken what is still in the batch, once for each attempt.       *)
PlaceInv ==
  /\ \A g \in Goroutines : hand[g] # <<>> => hand[g][1].msg = <<g, logged[g]>>
  /\ \A m \in Messages :
       /\ InHand(m) => m \notin Msgs(logChan)
       /\ Waiting(m) => m \notin Msgs(logs) /\ written[m] = 0
       /\ Waiting(m) \/ m \in Msgs(logs) => m \notin Discarded /\ m \in Logged
       /\ m \in Msgs(logs) => written[m] <= attempt
       /\ m \in Discarded => written[m] = 0 /\ m \in Logged
       /\ written[m] > 0 => m \in Logged
       /\ m \notin sampled \intersect dropped
       /\ backend # "loki" => written[m] <= 1
       /\ m \in Logged =>
            \/ Waiting(m) \/ m \in Msgs(logs) \union Discarded \/ written[m] > 0
            \/ backend = "loki" /\ m \in failed \union skipped

(* Loki alone skips, and what it skips stays in the batch for the retries; *)
(* what was reported is nowhere else.                                      *)
ReportInv ==
  /\ backend # "loki" => skipped = {}
  /\ \A m \in failed \union skipped : m \in Logged /\ ~Waiting(m) /\ m \notin Discarded
  /\ \A m \in skipped : m \notin failed /\ written[m] = 0
  /\ failed \intersect Msgs(logs) = {}
  /\ \A i \in DOMAIN logs :
       IF Marshals(logs[i]) THEN logs[i].msg \notin skipped ELSE backend = "loki" => written[logs[i].msg] = 0

(* An entry has its own fields and at most those that were in the pool,    *)
(* which are those of messages that were given up.                         *)
OwnFields(e) == e.msg \in e.fields /\ e.fields \ {e.msg} \subseteq Discarded

FieldsInv ==
  /\ \A left \in pool : left \subseteq Discarded
  /\ \A g \in Goroutines : hand[g] # <<>> => OwnFields(hand[g][1])
  /\ \A i \in DOMAIN logChan : OwnFields(logChan[i])
  /\ \A i \in DOMAIN logs : OwnFields(logs[i])
  /\ \A m \in Messages :
       carried[m] \ {m} \subseteq Discarded /\ (written[m] > 0 => m \in carried[m])

LoggerInv == LoggerTypeOK /\ BatchInv /\ PlaceInv /\ ReportInv /\ FieldsInv

LEMMA LoggerStarts == LoggerInit => LoggerInv
  <1> SUFFICES ASSUME LoggerInit PROVE LoggerInv
    OBVIOUS
  <1>1. <<>> \in Seq(Entries) /\ Len(<<>>) = 0
    BY EmptySeq
  <1>2. LoggerTypeOK
    <2>1. hand \in [Goroutines -> Seq(Entries)] /\ \A g \in Goroutines : Len(hand[g]) <= 1
      BY <1>1 DEF LoggerInit
    <2>2. logged \in [Goroutines -> 0 .. PerGoroutine] /\ attempt \in 0 .. MaxRetries - 1
      BY LoggerAssumption DEF LoggerInit
    <2>3. written \in [Messages -> 0 .. MaxRetries] /\ carried \in [Messages -> SUBSET Messages]
      BY LoggerAssumption DEF LoggerInit
    <2>4. /\ logChan \in Seq(Entries) /\ Len(logChan) <= ChanSize
          /\ logs \in Seq(Entries) /\ Len(logs) <= BatchSize
      BY <1>1, LoggerAssumption DEF LoggerInit
    <2>5. /\ backend \in Backends /\ proc = "select" /\ closed \in BOOLEAN
          /\ pool \subseteq SUBSET Messages /\ sampled = {} /\ dropped = {}
          /\ skipped = {} /\ failed = {}
      BY DEF LoggerInit
    <2> QED
      BY <2>1, <2>2, <2>3, <2>4, <2>5 DEF LoggerTypeOK
  <1>3. BatchInv
    BY <1>1, NoMsgs, LoggerAssumption DEF LoggerInit, BatchInv
  <1>4. PlaceInv
    <2>1. \A m \in Messages : ~InHand(m) /\ ~Waiting(m)
      BY NoMsgs DEF LoggerInit, InHand, Waiting
    <2>2. \A m \in Messages : m \notin Logged
      BY DEF LoggerInit, Logged, Messages
    <2> QED
      BY <2>1, <2>2, NoMsgs DEF LoggerInit, PlaceInv, Discarded
  <1>5. FieldsInv
    BY EmptySeq DEF LoggerInit, FieldsInv
  <1>6. ReportInv
    BY EmptySeq DEF LoggerInit, ReportInv
  <1> QED
    BY <1>2, <1>3, <1>4, <1>5, <1>6 DEF LoggerInv

(* The entry a goroutine is about to send.                                 *)
LEMMA HandType ==
  ASSUME LoggerTypeOK, NEW g \in Goroutines, hand[g] # <<>>
  PROVE  /\ hand[g][1] \in Entries /\ hand[g][1].msg \in Messages
         /\ hand[g][1].fields \subseteq Messages
  <1>1. hand[g] \in Seq(Entries)
    BY DEF LoggerTypeOK
  <1>2. hand[g][1] \in Entries
    BY <1>1, HeadTailProperties
  <1> QED
    BY <1>2 DEF Entries

(* submit: a message that was nowhere is in a goroutine's hand, with the   *)
(* fields of the entry it got.                                             *)
LEMMA SubmitStep ==
  ASSUME LoggerInv, NEW g \in Goroutines, Submit(g)
  PROVE  LoggerInv'
  <1> DEFINE m0 == <<g, logged[g] + 1>>
  <1> USE DEF LoggerInv
  <1>0. logged \in [Goroutines -> 0 .. PerGoroutine] /\ logged' = [logged EXCEPT ![g] = @ + 1]
          /\ logged[g] < PerGoroutine
    BY DEF LoggerTypeOK, Submit
  <1>1. logged[g] \in 0 .. PerGoroutine /\ PerGoroutine \in Nat
    BY <1>0, LoggerAssumption
  <1>2. m0 \in Messages /\ m0 \notin Logged
    BY <1>1 DEF Messages, Logged, Submit
  <1>3. \A m \in Messages : m \in Logged' <=> (m \in Logged \/ m = m0)
    <2>1. \A m \in Messages : m = <<m[1], m[2]>> /\ m[1] \in Goroutines /\ m[2] \in Nat
      BY DEF Messages
    <2>2. \A h \in Goroutines :
            logged[h] \in Nat /\ logged'[h] = IF h = g THEN logged[g] + 1 ELSE logged[h]
      BY <1>0, <1>1
    <2>3. \A m \in Messages : m[2] <= logged'[m[1]] <=> (m[2] <= logged[m[1]] \/ m = m0)
      BY <2>1, <2>2
    <2> QED
      BY <2>3 DEF Logged
  <1>4. PICK left \in pool \union {{}} :
          /\ pool' = pool \ {left}
          /\ hand' = [hand EXCEPT ![g] = <<[msg |-> m0, fields |-> left \union {m0}]>>]
    BY DEF Submit
  <1> DEFINE e0 == [msg |-> m0, fields |-> left \union {m0}]
  <1>5. left \subseteq Messages /\ left \subseteq Discarded
    BY DEF LoggerTypeOK, FieldsInv
  <1>6. e0 \in Entries /\ e0.msg = m0 /\ <<e0>> \in Seq(Entries) /\ Len(<<e0>>) = 1 /\ <<e0>>[1] = e0
          /\ <<e0>> # <<>>
    BY <1>2, <1>5 DEF Entries
  <1>7. hand'[g] = <<e0>> /\ \A h \in Goroutines \ {g} : hand'[h] = hand[h]
    BY <1>4 DEF LoggerTypeOK
  <1>8. LoggerTypeOK'
    <2>1. hand' \in [Goroutines -> Seq(Entries)] /\ \A h \in Goroutines : Len(hand'[h]) <= 1
      <3>1. hand \in [Goroutines -> Seq(Entries)] /\ \A h \in Goroutines : Len(hand[h]) <= 1
        BY DEF LoggerTypeOK
      <3>2. hand' \in [Goroutines -> Seq(Entries)]
        BY <1>4, <1>6, <3>1
      <3>3. Len(hand'[g]) <= 1
        BY <1>6, <1>7
      <3> QED
        BY <1>7, <3>1, <3>2, <3>3
    <2>2. logged' \in [Goroutines -> 0 .. PerGoroutine]
      BY <1>0, <1>1
    <2> QED
      BY <1>4, <2>1, <2>2 DEF Submit, LoggerTypeOK, sinks
  <1>9. BatchInv'
    BY DEF Submit, BatchInv, Distinct
  <1>10. PlaceInv'
    <2>1. \A h \in Goroutines : hand'[h] # <<>> => hand'[h][1].msg = <<h, logged'[h]>>
      <3>1. \A h \in Goroutines \ {g} : logged'[h] = logged[h]
        BY DEF Submit, LoggerTypeOK
      <3>2. logged'[g] = logged[g] + 1
        BY DEF Submit, LoggerTypeOK
      <3> QED
        BY <1>6, <1>7, <3>1, <3>2 DEF PlaceInv
    <2>2. \A m : (InHand(m))' <=> (InHand(m) \/ m = m0)
      BY <1>6, <1>7 DEF InHand, Submit
    <2>3. (Msgs(logChan))' = Msgs(logChan) /\ (Msgs(logs))' = Msgs(logs) /\ Discarded' = Discarded
      BY DEF Submit, Msgs, sinks, Discarded
    <2>4. \A m : (Waiting(m))' <=> (Waiting(m) \/ m = m0)
      BY <2>2, <2>3 DEF Waiting
    <2>5. written' = written /\ sampled' = sampled /\ dropped' = dropped /\ failed' = failed
            /\ skipped' = skipped /\ attempt' = attempt /\ backend' = backend
      BY DEF Submit, sinks
    <2>6. ~Waiting(m0) /\ m0 \notin Msgs(logs) /\ m0 \notin Discarded /\ written[m0] = 0
      <3>1. written \in [Messages -> 0 .. MaxRetries]
        BY DEF LoggerTypeOK
      <3>2. written[m0] \in Nat
        BY <1>2, <3>1, LoggerAssumption
      <3> QED
        BY <1>2, <3>2 DEF PlaceInv
    <2>7. m0 \notin Msgs(logChan)
      BY <2>6 DEF Waiting
    <2> QED
      BY <1>2, <1>3, <2>1, <2>2, <2>3, <2>4, <2>5, <2>6, <2>7 DEF PlaceInv
  <1>12. ReportInv'
    <2>1. UNCHANGED <<backend, logChan, logs, written, sampled, dropped, skipped, failed>>
      BY DEF Submit, sinks
    <2>2. m0 \notin failed \union skipped
      BY <1>2 DEF ReportInv
    <2>3. \A m \in failed \union skipped : m \in Messages /\ (m \in Logged' <=> m \in Logged)
      BY <1>3, <2>2 DEF LoggerTypeOK
    <2>4. \A m : (Waiting(m))' => Waiting(m) \/ m = m0
      BY <1>6, <1>7, <2>1 DEF Waiting, InHand, Msgs
    <2> QED
      BY <2>1, <2>2, <2>3, <2>4 DEF ReportInv, Discarded, Msgs, Marshals
  <1>11. FieldsInv'
    <2>1. Discarded' = Discarded /\ logChan' = logChan /\ logs' = logs /\ pool' \subseteq pool
            /\ carried' = carried /\ written' = written
      BY <1>4 DEF Submit, sinks, Discarded
    <2>2. \A e : (OwnFields(e))' <=> OwnFields(e)
      BY <2>1 DEF OwnFields
    <2>3. (OwnFields(e0))'
      BY <1>5, <1>6, <2>1 DEF OwnFields
    <2>4. \A h \in Goroutines : hand'[h] # <<>> => (OwnFields(hand[h][1]))'
      BY <1>6, <1>7, <2>1, <2>3 DEF FieldsInv, OwnFields
    <2> QED
      BY <2>1, <2>2, <2>4 DEF FieldsInv, OwnFields
  <1> QED
    BY <1>8, <1>9, <1>10, <1>11, <1>12

(* Giving a message up: its fields, which were its own or given up before, *)
(* go to the pool, and nothing else is disturbed.                          *)
LEMMA OwnFieldsKept ==
  ASSUME Discarded \subseteq Discarded', NEW e, OwnFields(e)
  PROVE  (OwnFields(e))'
  BY DEF OwnFields

(* The select of submit: into the channel, or given up.                    *)
LEMMA SendStep ==
  ASSUME LoggerInv, NEW g \in Goroutines, Send(g)
  PROVE  LoggerInv'
  <1> DEFINE e == hand[g][1]
             m0 == e.msg
  <1> USE DEF LoggerInv
  <1>1. e \in Entries /\ m0 \in Messages /\ e.fields \subseteq Messages
    BY HandType DEF Send
  <1>2. hand' = [hand EXCEPT ![g] = <<>>] /\ hand[g] # <<>> /\ <<>> \in Seq(Entries) /\ Len(<<>>) = 0
    BY DEF Send
  <1>3. hand' \in [Goroutines -> Seq(Entries)] /\ \A h \in Goroutines : Len(hand'[h]) <= 1
    <2>1. hand \in [Goroutines -> Seq(Entries)] /\ \A h \in Goroutines : Len(hand[h]) <= 1
      BY DEF LoggerTypeOK
    <2>2. \A h \in Goroutines : hand'[h] = IF h = g THEN <<>> ELSE hand[h]
      BY <1>2, <2>1
    <2> QED
      BY <1>2, <2>1, <2>2
  <1>4. hand'[g] = <<>> /\ \A h \in Goroutines \ {g} : hand'[h] = hand[h]
    BY <1>2 DEF LoggerTypeOK
  <1>5. m0 = <<g, logged[g]>> /\ InHand(m0) /\ OwnFields(e)
    BY <1>2 DEF PlaceInv, InHand, FieldsInv
  <1>6. \A m : (InHand(m))' <=> (InHand(m) /\ m # m0)
    <2>1. \A h \in Goroutines \ {g} : hand[h] # <<>> => hand[h][1].msg # m0
      BY <1>5 DEF PlaceInv
    <2> QED
      BY <1>2, <1>4, <2>1 DEF InHand
  <1>7. /\ backend' = backend /\ logged' = logged /\ logs' = logs /\ proc' = proc
        /\ attempt' = attempt /\ closed' = closed /\ written' = written /\ carried' = carried
        /\ sampled' = sampled /\ skipped' = skipped /\ failed' = failed /\ Logged' = Logged
    BY DEF Send, Logged
  <1>8. m0 \notin Msgs(logChan) /\ m0 \notin Msgs(logs) /\ m0 \notin Discarded /\ written[m0] = 0
          /\ m0 \in Logged
    BY <1>1, <1>5 DEF PlaceInv, Waiting
  <1>9. \A h \in Goroutines : hand'[h] # <<>> => hand'[h][1].msg = <<h, logged'[h]>>
    BY <1>4, <1>7 DEF PlaceInv
  <1>10. CASE Len(logChan) < ChanSize /\ logChan' = Append(logChan, e) /\ UNCHANGED <<pool, dropped>>
    <2>1. logChan \in Seq(Entries)
      BY DEF LoggerTypeOK
    <2>2. logChan' \in Seq(Entries) /\ Len(logChan') = Len(logChan) + 1
      BY <1>1, <1>10, <2>1, AppendProperties
    <2>3. (Msgs(logChan))' = Msgs(logChan) \union {m0} /\ (Distinct(logChan))'
      <3>1. Msgs(logChan') = Msgs(logChan) \union {m0} /\ Distinct(logChan')
        BY <1>1, <1>8, <1>10, <2>1, AppendMsgs DEF BatchInv
      <3> QED
        BY <3>1 DEF Msgs, Distinct
    <2>4. Len(logChan') <= ChanSize
      BY <1>10, <2>1, <2>2, LenProperties, LoggerAssumption
    <2>5. LoggerTypeOK'
      BY <1>3, <1>7, <1>10, <2>2, <2>4 DEF LoggerTypeOK
    <2>6. BatchInv'
      BY <1>7, <2>3 DEF BatchInv, Distinct
    <2>7. PlaceInv'
      <3>1. \A m : (Waiting(m))' <=> Waiting(m)
        BY <1>5, <1>6, <2>3 DEF Waiting
      <3>2. (Msgs(logs))' = Msgs(logs) /\ Discarded' = Discarded /\ dropped' = dropped
        BY <1>7, <1>10 DEF Msgs, Discarded
      <3> QED
        BY <1>6, <1>7, <1>9, <2>3, <3>1, <3>2 DEF PlaceInv
    <2>8. FieldsInv'
      <3>1. Discarded' = Discarded
        BY <1>7, <1>10 DEF Discarded
      <3>2. \A i \in DOMAIN logChan' : logChan'[i] = e \/ \E j \in DOMAIN logChan : logChan'[i] = logChan[j]
        <4>1. DOMAIN logChan' = 1 .. Len(logChan) + 1 /\ DOMAIN logChan = 1 .. Len(logChan)
                /\ Len(logChan) \in Nat
          BY <2>1, <2>2, LenProperties
        <4>2. \A i \in DOMAIN logChan : logChan'[i] = logChan[i]
          BY <1>1, <1>10, <2>1, <4>1, AppendProperties
        <4>3. logChan'[Len(logChan) + 1] = e
          BY <1>1, <1>10, <2>1, AppendProperties
        <4> QED
          BY <4>1, <4>2, <4>3
      <3>3. \A i \in DOMAIN logChan' : OwnFields(logChan'[i])
        BY <1>5, <3>2 DEF FieldsInv
      <3> QED
        BY <1>4, <1>7, <1>10, <3>1, <3>3 DEF FieldsInv, OwnFields
    <2>9. ReportInv'
      <3>1. \A m : (Waiting(m))' <=> Waiting(m)
        BY <1>5, <1>6, <2>3 DEF Waiting
      <3> QED
        BY <1>7, <1>10, <3>1 DEF ReportInv, Discarded, Msgs, Marshals
    <2> QED
      BY <2>5, <2>6, <2>7, <2>8, <2>9
  <1>11. CASE pool' = pool \union {e.fields} /\ dropped' = dropped \union {m0} /\ UNCHANGED logChan
    <2>1. LoggerTypeOK'
      BY <1>1, <1>3, <1>7, <1>11 DEF LoggerTypeOK
    <2>2. BatchInv'
      BY <1>7, <1>11 DEF BatchInv, Distinct
    <2>3. Discarded' = Discarded \union {m0}
      BY <1>7, <1>11 DEF Discarded
    <2>4. PlaceInv'
      <3>1. \A m : (Waiting(m))' <=> (Waiting(m) /\ m # m0)
        BY <1>6, <1>8, <1>11 DEF Waiting, Msgs
      <3>2. (Msgs(logs))' = Msgs(logs) /\ (Msgs(logChan))' = Msgs(logChan)
        BY <1>7, <1>11 DEF Msgs
      <3> QED
        BY <1>6, <1>7, <1>8, <1>9, <1>11, <2>3, <3>1, <3>2 DEF PlaceInv, Discarded
    <2>5. FieldsInv'
      BY <1>4, <1>5, <1>7, <1>11, <2>3 DEF FieldsInv, OwnFields
    <2>6. ReportInv'
      <3>1. \A m : (Waiting(m))' => Waiting(m)
        BY <1>6, <1>11 DEF Waiting, Msgs
      <3>2. m0 \notin failed \union skipped
        BY <1>5 DEF ReportInv, Waiting
      <3> QED
        BY <1>7, <2>3, <3>1, <3>2 DEF ReportInv, Msgs, Marshals
    <2> QED
      BY <2>1, <2>2, <2>4, <2>5, <2>6
  <1> QED
    BY <1>10, <1>11 DEF Send

(* The first entry of the channel is sampled out or joins the batch.       *)
LEMMA ReceiveStep == LoggerInv /\ Receive => LoggerInv'
  <1> SUFFICES ASSUME LoggerInv, Receive PROVE LoggerInv'
    OBVIOUS
  <1> DEFINE e == Head(logChan)
             m0 == e.msg
  <1> USE DEF LoggerInv
  <1>1. /\ logChan \in Seq(Entries) /\ logs \in Seq(Entries) /\ Len(logChan) <= ChanSize
        /\ Len(logs) <= BatchSize /\ logChan # <<>> /\ logChan' = Tail(logChan)
        /\ Distinct(logChan) /\ Distinct(logs) /\ Len(logs) < BatchSize /\ proc = "select"
    BY DEF LoggerTypeOK, Receive, BatchInv
  <1>2. /\ e \in Entries /\ logChan' \in Seq(Entries) /\ Len(logChan') = Len(logChan) - 1
        /\ Msgs(logChan) = Msgs(logChan') \union {m0}
        /\ Distinct(logChan') /\ m0 \notin Msgs(logChan')
    BY <1>1, TailMsgs
  <1>3. /\ m0 \in Messages /\ e.fields \subseteq Messages /\ Len(logChan') <= ChanSize
        /\ Len(logs) \in Nat
    BY <1>1, <1>2, LenProperties, LoggerAssumption DEF Entries
  <1>4. (Msgs(logChan))' = Msgs(logChan') /\ ((Distinct(logChan))' <=> Distinct(logChan'))
    BY DEF Msgs, Distinct
  <1>5. OwnFields(e) /\ \A i \in DOMAIN logChan' : OwnFields(logChan'[i])
    <2>1. DOMAIN logChan = 1 .. Len(logChan) /\ Len(logChan) \in Nat \ {0}
      BY <1>1, EmptySeq, LenProperties
    <2>2. DOMAIN logChan' = 1 .. Len(logChan) - 1
      BY <1>2, LenProperties
    <2>3. e = logChan[1] /\ \A i \in 1 .. Len(logChan) - 1 : logChan'[i] = logChan[i + 1]
      BY <1>1, <1>2, <2>1, HeadTailProperties
    <2> QED
      BY <2>1, <2>2, <2>3 DEF FieldsInv
  <1>6. /\ backend' = backend /\ logged' = logged /\ hand' = hand /\ attempt' = attempt
        /\ closed' = closed /\ written' = written /\ carried' = carried /\ dropped' = dropped
        /\ skipped' = skipped /\ failed' = failed /\ Logged' = Logged
        /\ \A m : (InHand(m))' <=> InHand(m)
    BY DEF Receive, Logged, InHand
  <1>7. /\ ~InHand(m0) /\ m0 \notin Msgs(logs) /\ m0 \notin Discarded /\ written[m0] = 0
        /\ m0 \in Logged /\ m0 \notin failed \union skipped
    BY <1>2, <1>3 DEF PlaceInv, ReportInv, Waiting
  <1>8. \A m : (Waiting(m))' <=> (Waiting(m) /\ m # m0)
    BY <1>2, <1>4, <1>6, <1>7 DEF Waiting
  <1>9. CASE pool' = pool \union {e.fields} /\ sampled' = sampled \union {m0} /\ UNCHANGED <<logs, proc>>
    <2>1. Discarded' = Discarded \union {m0} /\ (Msgs(logs))' = Msgs(logs)
      BY <1>6, <1>9 DEF Discarded, Msgs
    <2>2. LoggerTypeOK'
      BY <1>2, <1>3, <1>6, <1>9 DEF LoggerTypeOK
    <2>3. BatchInv'
      BY <1>2, <1>4, <1>6, <1>9 DEF BatchInv, Distinct
    <2>4. PlaceInv'
      BY <1>2, <1>4, <1>6, <1>7, <1>8, <1>9, <2>1 DEF PlaceInv, Discarded
    <2>5. FieldsInv'
      BY <1>5, <1>6, <1>9, <2>1 DEF FieldsInv, OwnFields
    <2>6. ReportInv'
      BY <1>6, <1>7, <1>8, <1>9, <2>1 DEF ReportInv, Marshals
    <2> QED
      BY <2>2, <2>3, <2>4, <2>5, <2>6
  <1>10. CASE /\ logs' = Append(logs, e)
              /\ proc' = IF Len(logs') >= BatchSize THEN "flush" ELSE proc
              /\ UNCHANGED <<pool, sampled>>
    <2>1. /\ logs' \in Seq(Entries) /\ Len(logs') = Len(logs) + 1
          /\ DOMAIN logs' = 1 .. Len(logs) + 1 /\ DOMAIN logs = 1 .. Len(logs)
          /\ logs'[Len(logs) + 1] = e /\ \A i \in 1 .. Len(logs) : logs'[i] = logs[i]
      BY <1>1, <1>2, <1>10, AppendProperties, LenProperties
    <2>2. (Msgs(logs))' = Msgs(logs) \union {m0} /\ (Distinct(logs))'
      <3>1. Msgs(logs') = Msgs(logs) \union {m0} /\ Distinct(logs')
        BY <1>1, <1>2, <1>7, <1>10, AppendMsgs
      <3> QED
        BY <3>1 DEF Msgs, Distinct
    <2>3. Discarded' = Discarded
      BY <1>6, <1>10 DEF Discarded
    <2>4. proc' \in {"select", "flush"} /\ (proc' = "select" => Len(logs') < BatchSize)
            /\ Len(logs') <= BatchSize
      <3>1. BatchSize \in Nat
        BY LoggerAssumption
      <3> QED
        BY <1>1, <1>3, <1>10, <2>1, <3>1
    <2>5. LoggerTypeOK'
      BY <1>2, <1>3, <1>6, <1>10, <2>1, <2>4 DEF LoggerTypeOK
    <2>6. attempt = 0
      BY <1>1 DEF BatchInv
    <2>7. BatchInv'
      BY <1>2, <1>4, <1>6, <2>2, <2>4, <2>6 DEF BatchInv
    <2>8. PlaceInv'
      BY <1>2, <1>4, <1>6, <1>7, <1>8, <1>10, <2>2, <2>3, <2>6 DEF PlaceInv
    <2>9. \A i \in DOMAIN logs' : OwnFields(logs'[i])
      BY <1>3, <1>5, <2>1 DEF FieldsInv
    <2>10. FieldsInv'
      BY <1>5, <1>6, <1>10, <2>3, <2>9 DEF FieldsInv, OwnFields
    <2>11. ReportInv'
      <3>1. \A i \in DOMAIN logs' :
              IF Marshals(logs'[i]) THEN logs'[i].msg \notin skipped
              ELSE backend = "loki" => written[logs'[i].msg] = 0
        <4>1. \A i \in DOMAIN logs : logs'[i] = logs[i]
          BY <2>1
        <4>2. \A i \in DOMAIN logs' : i \in DOMAIN logs \/ logs'[i] = e
          BY <1>3, <2>1
        <4> QED
          BY <1>7, <4>1, <4>2 DEF ReportInv
      <3> QED
        BY <1>6, <1>7, <1>8, <2>2, <2>3, <3>1 DEF ReportInv, Marshals
    <2> QED
      BY <2>5, <2>7, <2>8, <2>10, <2>11
  <1> QED
    BY <1>9, <1>10 DEF Receive

(* The steps that change neither the entries nor the pool.                 *)
LEMMA EntriesStay ==
  ASSUME LoggerInv, LoggerTypeOK', BatchInv',
         UNCHANGED <<backend, logged, hand, pool, logChan, logs, attempt, sinks>>
  PROVE  LoggerInv'
  <1>1. Discarded' = Discarded /\ Logged' = Logged /\ (Msgs(logs))' = Msgs(logs)
          /\ (Msgs(logChan))' = Msgs(logChan)
    BY DEF Discarded, Logged, Msgs, sinks
  <1>2. \A m : ((InHand(m))' <=> InHand(m)) /\ ((Waiting(m))' <=> Waiting(m))
    BY DEF InHand, Waiting, Msgs
  <1>3. PlaceInv'
    BY <1>1, <1>2 DEF PlaceInv, LoggerInv, sinks
  <1>4. FieldsInv'
    BY <1>1 DEF FieldsInv, OwnFields, LoggerInv, sinks
  <1>5. ReportInv'
    BY <1>1, <1>2 DEF ReportInv, Marshals, LoggerInv, sinks
  <1> QED
    BY <1>3, <1>4, <1>5 DEF LoggerInv

LEMMA TickStep == LoggerInv /\ Tick => LoggerInv'
  <1> SUFFICES ASSUME LoggerInv, Tick PROVE LoggerInv'
    OBVIOUS
  <1>1. LoggerTypeOK'
    BY DEF Tick, LoggerInv, LoggerTypeOK, sinks
  <1>2. BatchInv'
    BY DEF Tick, LoggerInv, BatchInv, Distinct
  <1> QED
    BY <1>1, <1>2, EntriesStay DEF Tick

LEMMA CloseStep == LoggerInv /\ Close => LoggerInv'
  <1> SUFFICES ASSUME LoggerInv, Close PROVE LoggerInv'
    OBVIOUS
  <1>1. LoggerTypeOK'
    BY DEF Close, LoggerInv, LoggerTypeOK, sinks
  <1>2. BatchInv'
    BY DEF Close, LoggerInv, BatchInv, Distinct
  <1> QED
    BY <1>1, <1>2, EntriesStay DEF Close

LEMMA ShutdownStep == LoggerInv /\ Shutdown => LoggerInv'
  <1> SUFFICES ASSUME LoggerInv, Shutdown PROVE LoggerInv'
    OBVIOUS
  <1>1. LoggerTypeOK'
    BY DEF Shutdown, LoggerInv, LoggerTypeOK, sinks
  <1>2. BatchInv'
    BY DEF Shutdown, LoggerInv, BatchInv, Distinct
  <1> QED
    BY <1>1, <1>2, EntriesStay DEF Shutdown

(* What is taken of a batch counts each of its messages once, with the     *)
(* fields of its one entry.                                                *)
LEMMA TakenOnce ==
  ASSUME LoggerInv, NEW I \in SUBSET DOMAIN logs, Taken(I)
  PROVE  /\ \A m \in Messages :
              /\ written'[m] = IF m \in At(logs, I) THEN written[m] + 1 ELSE written[m]
              /\ carried'[m] \subseteq Messages /\ carried'[m] \ {m} \subseteq Discarded
              /\ written'[m] > 0 => m \in carried'[m]
         /\ written' \in [Messages -> 0 .. MaxRetries]
         /\ carried' \in [Messages -> SUBSET Messages]
  <1>1. /\ logs \in Seq(Entries) /\ Distinct(logs) /\ attempt \in 0 .. MaxRetries - 1
        /\ written \in [Messages -> 0 .. MaxRetries] /\ carried \in [Messages -> SUBSET Messages]
        /\ MaxRetries \in Nat
    BY LoggerAssumption DEF LoggerInv, LoggerTypeOK, BatchInv
  <1>2. \A i \in DOMAIN logs : logs[i] \in Entries /\ OwnFields(logs[i])
    BY <1>1, MsgsType DEF LoggerInv, FieldsInv
  <1> DEFINE more(m) == Cardinality({i \in I : logs[i].msg = m})
             added(m) == UNION {logs[i].fields : i \in {k \in I : logs[k].msg = m}}
  <1>3. written' = [m \in Messages |-> written[m] + more(m)]
    BY DEF Taken
  <1>4. carried' = [m \in Messages |-> carried[m] \union added(m)]
    BY DEF Taken
  <1>5. \A m : more(m) = IF m \in At(logs, I) THEN 1 ELSE 0
    BY <1>1, CountAt
  <1> HIDE DEF more, added
  <1>6. ASSUME NEW m \in Messages
        PROVE  /\ written'[m] = IF m \in At(logs, I) THEN written[m] + 1 ELSE written[m]
               /\ written'[m] \in 0 .. MaxRetries
    <2>1. written[m] \in 0 .. MaxRetries
      BY <1>1
    <2>2. written'[m] = IF m \in At(logs, I) THEN written[m] + 1 ELSE written[m]
      BY <1>3, <1>5, <2>1
    <2>3. m \in At(logs, I) => written[m] <= attempt
      BY DEF LoggerInv, PlaceInv, At, Msgs
    <2> QED
      BY <1>1, <2>1, <2>2, <2>3
  <1>7. ASSUME NEW m \in Messages
        PROVE  /\ added(m) \subseteq Messages /\ added(m) \ {m} \subseteq Discarded
               /\ m \in At(logs, I) => m \in added(m)
    <2>1. ASSUME NEW x \in added(m)
          PROVE  x \in Messages /\ (x = m \/ x \in Discarded)
      <3>1. PICK i \in I : logs[i].msg = m /\ x \in logs[i].fields
        BY <2>1 DEF added
      <3> QED
        BY <1>2, <3>1 DEF Entries, OwnFields
    <2>2. ASSUME m \in At(logs, I) PROVE m \in added(m)
      <3>1. PICK i \in I : logs[i].msg = m
        BY <2>2 DEF At
      <3>2. m \in logs[i].fields
        BY <1>2, <3>1 DEF OwnFields
      <3> QED
        BY <3>1, <3>2 DEF added
    <2> QED
      BY <2>1, <2>2
  <1>8. ASSUME NEW m \in Messages
        PROVE  /\ carried'[m] = carried[m] \union added(m)
               /\ carried'[m] \subseteq Messages /\ carried'[m] \ {m} \subseteq Discarded
               /\ written'[m] > 0 => m \in carried'[m]
    <2>1. carried'[m] = carried[m] \union added(m)
      BY <1>4
    <2>2. /\ carried[m] \subseteq Messages /\ carried[m] \ {m} \subseteq Discarded
          /\ written[m] > 0 => m \in carried[m]
      BY <1>1 DEF LoggerInv, FieldsInv
    <2> QED
      BY <1>6, <1>7, <2>1, <2>2
  <1>9. written' \in [Messages -> 0 .. MaxRetries]
    BY <1>3, <1>6
  <1>10. carried' \in [Messages -> SUBSET Messages]
    BY <1>4, <1>8
  <1> QED
    BY <1>6, <1>8, <1>9, <1>10

(* What the three backends have in common: they take the batch, Loki only  *)
(* what marshals and perhaps not that; then the batch is empty, or with    *)
(* Loki tried once more.                                                   *)
LEMMA BatchStep ==
  ASSUME LoggerInv, Flushing,
         NEW I, I = IF backend = "loki" THEN Streams ELSE DOMAIN logs,
         Taken(I) \/ (backend = "loki" /\ UNCHANGED <<written, carried>>),
         Flushed \/ /\ backend = "loki" /\ attempt + 1 < MaxRetries
                    /\ attempt' = attempt + 1 /\ UNCHANGED <<logs, pool, proc, failed>>,
         failed' \in {failed, failed \union At(logs, I)},
         Taken(I) \/ UNCHANGED logs \/ At(logs, I) \subseteq failed',
         skipped' = skipped \union At(logs, DOMAIN logs \ I),
         UNCHANGED <<backend, logged, hand, logChan, closed, sampled, dropped>>
  PROVE  LoggerInv'
  <1> DEFINE grows(m) == written'[m] = IF m \in At(logs, I) THEN written[m] + 1 ELSE written[m]
  <1>0. /\ I \in SUBSET DOMAIN logs /\ At(logs, I) \subseteq Msgs(logs)
        /\ Msgs(logs) = At(logs, I) \union At(logs, DOMAIN logs \ I)
        /\ Msgs(logs) \subseteq Messages
        /\ failed \subseteq failed' /\ failed' \subseteq Messages /\ skipped' \subseteq Messages
        /\ skipped \subseteq skipped'
    <2>1. I \in SUBSET DOMAIN logs
      BY DEF Streams
    <2>2. /\ Msgs(logs) = At(logs, I) \union At(logs, DOMAIN logs \ I)
          /\ Msgs(logs) \subseteq Messages
      BY <2>1, MsgsType DEF At, Msgs, LoggerInv, LoggerTypeOK
    <2> QED
      BY <2>1, <2>2 DEF LoggerInv, LoggerTypeOK
  <1>1. /\ written' \in [Messages -> 0 .. MaxRetries] /\ carried' \in [Messages -> SUBSET Messages]
        /\ \A m \in Messages :
             /\ grows(m) \/ (backend = "loki" /\ (UNCHANGED logs \/ At(logs, I) \subseteq failed'))
             /\ grows(m) \/ written'[m] = written[m]
             /\ carried'[m] \ {m} \subseteq Discarded /\ (written'[m] > 0 => m \in carried'[m])
    <2>1. CASE Taken(I)
      BY <1>0, <2>1, TakenOnce
    <2>2. CASE ~Taken(I) /\ backend = "loki" /\ UNCHANGED <<written, carried>>
      BY <2>2 DEF LoggerInv, LoggerTypeOK, FieldsInv
    <2> QED
      BY <2>1, <2>2
  <1>2. /\ backend' = backend /\ logged' = logged /\ hand' = hand /\ logChan' = logChan
        /\ closed' = closed /\ sampled' = sampled /\ dropped' = dropped /\ pool' = pool
        /\ Logged' = Logged /\ Discarded' = Discarded /\ (Msgs(logChan))' = Msgs(logChan)
    BY DEF Flushed, Logged, Discarded, Msgs
  <1>3. \A m : ((InHand(m))' <=> InHand(m)) /\ ((Waiting(m))' <=> Waiting(m))
    BY <1>2 DEF InHand, Waiting
  <1>4. attempt \in 0 .. MaxRetries - 1 /\ MaxRetries \in Nat \ {0} /\ BatchSize \in Nat \ {0}
          /\ \A m \in Messages : written[m] \in Nat
    <2>1. written \in [Messages -> 0 .. MaxRetries] /\ attempt \in 0 .. MaxRetries - 1
      BY DEF LoggerInv, LoggerTypeOK
    <2> QED
      BY <2>1, LoggerAssumption
  <1>5. /\ backend # "loki" => attempt = 0
        /\ \A m \in Messages : m \in Msgs(logs) => written[m] <= attempt
    BY DEF LoggerInv, BatchInv, PlaceInv
  <1>8. /\ backend # "loki" => skipped' = {}
        /\ \A m \in failed' \union skipped' : m \in Logged /\ ~Waiting(m) /\ m \notin Discarded
        /\ \A m \in skipped' : m \notin failed' /\ written'[m] = 0
        /\ \A i \in DOMAIN logs :
             IF Marshals(logs[i]) THEN logs[i].msg \notin skipped'
             ELSE backend = "loki" => written'[logs[i].msg] = 0
    <2> USE DEF LoggerInv, ReportInv
    <2>1. At(logs, I) \intersect At(logs, DOMAIN logs \ I) = {}
      BY <1>0 DEF BatchInv, Distinct, At
    <2>2. backend # "loki" => At(logs, DOMAIN logs \ I) = {}
      BY DEF At
    <2>3. \A m \in Msgs(logs) : m \in Logged /\ ~Waiting(m) /\ m \notin Discarded
      BY <1>0 DEF PlaceInv
    <2>4. \A m \in At(logs, I) : m \notin skipped
      <3>1. backend = "loki" => \A i \in I : Marshals(logs[i])
        BY DEF Streams
      <3> QED
        BY <1>0, <3>1 DEF At
    <2>5. \A m \in At(logs, DOMAIN logs \ I) : written[m] = 0
      <3>1. backend = "loki" => \A i \in DOMAIN logs \ I : ~Marshals(logs[i])
        BY DEF Streams
      <3> QED
        BY <2>2, <3>1 DEF At
    <2>6. \A m \in skipped' : m \notin At(logs, I) /\ written[m] = 0 /\ m \notin failed
      BY <1>0, <2>1, <2>4, <2>5
    <2>7. \A m \in skipped' : m \notin failed' /\ written'[m] = 0
      BY <1>0, <1>1, <2>6
    <2>8. ASSUME NEW i \in DOMAIN logs
          PROVE  IF Marshals(logs[i]) THEN logs[i].msg \notin skipped'
                 ELSE backend = "loki" => written'[logs[i].msg] = 0
      <3>1. CASE Marshals(logs[i])
        <4>1. i \in I
          BY <3>1 DEF Streams
        <4>2. logs[i].msg \in At(logs, I)
          BY <4>1 DEF At
        <4> QED
          BY <2>6, <3>1, <4>2
      <3>2. CASE ~Marshals(logs[i]) /\ backend = "loki"
        <4>1. i \in DOMAIN logs \ I
          BY <3>2 DEF Streams
        <4>2. logs[i].msg \in At(logs, DOMAIN logs \ I)
          BY <4>1 DEF At
        <4> QED
          BY <2>7, <3>2, <4>2
      <3> QED
        BY <3>1, <3>2
    <2> QED
      BY <1>0, <2>2, <2>3, <2>7, <2>8
  <1>6. CASE Flushed
    <2>1. /\ logs' = <<>> /\ logs' \in Seq(Entries) /\ Len(logs') = 0 /\ attempt' = 0
          /\ proc' \in {"select", "returned"}
      BY <1>6 DEF Flushed
    <2>2. LoggerTypeOK'
      <3>1. attempt' \in 0 .. MaxRetries - 1 /\ Len(logs') <= BatchSize
        BY <1>4, <2>1
      <3> QED
        BY <1>0, <1>1, <1>2, <2>1, <3>1 DEF LoggerInv, LoggerTypeOK
    <2>3. (Msgs(logs))' = {} /\ (Distinct(logs))'
      <3>1. Msgs(logs') = {} /\ Distinct(logs')
        BY <2>1, NoMsgs
      <3> QED
        BY <3>1 DEF Msgs, Distinct
    <2>4. BatchInv'
      <3>1. Len(logs') < BatchSize
        BY <1>4, <2>1
      <3>2. (Distinct(logChan))'
        BY <1>2 DEF LoggerInv, BatchInv, Distinct
      <3> QED
        BY <2>1, <2>3, <3>1, <3>2 DEF BatchInv
    <2>8. \A m \in Msgs(logs) :
            written'[m] > 0 \/ (backend = "loki" /\ m \in failed' \union skipped')
      <3>1. UNCHANGED logs => Msgs(logs) = {}
        BY <2>1, NoMsgs
      <3>2. \A m \in At(logs, I) : written'[m] = written[m] + 1 \/ (backend = "loki" /\ m \in failed')
        BY <1>0, <1>1, <3>1
      <3>3. \A m \in At(logs, I) : written[m] + 1 > 0
        BY <1>0, <1>4
      <3>4. \A m \in At(logs, DOMAIN logs \ I) : backend = "loki" /\ m \in skipped'
        BY DEF At
      <3> QED
        BY <1>0, <3>2, <3>3, <3>4
    <2>5. PlaceInv'
      <3>1. \A m \in Messages : written[m] > 0 => written'[m] > 0
        BY <1>1, <1>4
      <3>2. \A m \in Messages : m \notin Msgs(logs) => written'[m] = written[m]
        BY <1>0, <1>1
      <3>3. \A m \in Messages : backend # "loki" => written'[m] <= 1
        BY <1>0, <1>1, <1>4, <1>5 DEF LoggerInv, PlaceInv
      <3>4. \A m \in Msgs(logs) : ~Waiting(m) /\ m \in Logged /\ m \notin Discarded
        BY <1>0 DEF LoggerInv, PlaceInv
      <3> HIDE DEF grows
      <3> QED
        BY <1>0, <1>2, <1>3, <2>3, <2>8, <3>1, <3>2, <3>3, <3>4 DEF LoggerInv, PlaceInv, Discarded
    <2>6. FieldsInv'
      BY <1>1, <1>2, <2>1, EmptySeq DEF LoggerInv, FieldsInv, OwnFields
    <2>7. ReportInv'
      <3>1. DOMAIN logs' = {}
        BY <2>1, EmptySeq
      <3> QED
        BY <1>2, <1>3, <1>8, <2>3, <3>1 DEF ReportInv
    <2> QED
      BY <2>2, <2>4, <2>5, <2>6, <2>7 DEF LoggerInv
  <1>7. CASE /\ backend = "loki" /\ attempt + 1 < MaxRetries
             /\ attempt' = attempt + 1 /\ UNCHANGED <<logs, pool, proc, failed>>
    <2>1. LoggerTypeOK'
      <3>1. attempt' \in 0 .. MaxRetries - 1
        BY <1>4, <1>7
      <3> QED
        BY <1>0, <1>1, <1>2, <1>7, <3>1 DEF LoggerInv, LoggerTypeOK
    <2>2. (Msgs(logs))' = Msgs(logs)
      BY <1>7 DEF Msgs
    <2>3. BatchInv'
      BY <1>2, <1>7 DEF LoggerInv, BatchInv, Flushing, Distinct
    <2>4. PlaceInv'
      <3>1. \A m \in Messages :
              /\ written[m] > 0 => written'[m] > 0
              /\ m \in Msgs(logs) => written'[m] <= attempt'
              /\ m \notin Msgs(logs) => written'[m] = written[m]
        <4>1. attempt \in Nat /\ attempt' = attempt + 1
          BY <1>4, <1>7
        <4>2. ASSUME NEW m \in Messages
              PROVE  /\ written[m] > 0 => written'[m] > 0
                     /\ m \in Msgs(logs) => written'[m] <= attempt'
                     /\ m \notin Msgs(logs) => written'[m] = written[m]
          <5>1. grows(m) \/ written'[m] = written[m]
            BY <1>1
          <5>2. written[m] \in Nat /\ (m \in Msgs(logs) => written[m] <= attempt)
            BY <1>4, <1>5
          <5> QED
            BY <1>0, <4>1, <5>1, <5>2
        <4> QED
          BY <4>2
      <3>2. \A m \in Msgs(logs) : ~Waiting(m) /\ m \in Logged /\ m \notin Discarded
        BY <1>0 DEF LoggerInv, PlaceInv
      <3> HIDE DEF grows
      <3> QED
        BY <1>0, <1>2, <1>3, <1>7, <2>2, <3>1, <3>2 DEF LoggerInv, PlaceInv, Discarded
    <2>5. FieldsInv'
      BY <1>1, <1>2, <1>7 DEF LoggerInv, FieldsInv, OwnFields
    <2>6. ReportInv'
      <3>1. failed' \intersect (Msgs(logs))' = {} /\ DOMAIN logs' = DOMAIN logs
        BY <1>7, <2>2 DEF LoggerInv, ReportInv
      <3>2. \A i \in DOMAIN logs : (Marshals(logs[i]))' <=> Marshals(logs[i])
        BY <1>7 DEF Marshals
      <3> QED
        BY <1>2, <1>3, <1>7, <1>8, <3>1, <3>2 DEF ReportInv
    <2> QED
      BY <2>1, <2>3, <2>4, <2>5, <2>6 DEF LoggerInv
  <1> QED
    BY <1>6, <1>7

LEMMA LoggerStep == LoggerInv /\ [LoggerNext]_loggerVars => LoggerInv'
  <1> SUFFICES ASSUME LoggerInv, [LoggerNext]_loggerVars PROVE LoggerInv'
    OBVIOUS
  <1>1. backend # "loki" => At(logs, DOMAIN logs \ DOMAIN logs) = {}
    BY DEF At
  <1>2. ASSUME NEW g \in Goroutines, Submit(g) PROVE LoggerInv'
    BY <1>2, SubmitStep
  <1>3. ASSUME NEW g \in Goroutines, Send(g) PROVE LoggerInv'
    BY <1>3, SendStep
  <1>4. CASE Receive
    BY <1>4, ReceiveStep
  <1>5. CASE Tick
    BY <1>5, TickStep
  <1>6. CASE Close
    BY <1>6, CloseStep
  <1>7. CASE WriteFile
    BY <1>1, <1>7, BatchStep DEF WriteFile
  <1>8. CASE WriteStdout
    BY <1>1, <1>8, BatchStep DEF WriteStdout
  <1>9. CASE SendToLoki
    <2>1. /\ Taken(Streams) \/ UNCHANGED logs \/ At(logs, Streams) \subseteq failed'
          /\ failed' \in {failed, failed \union At(logs, Streams)}
          /\ skipped' = skipped \union At(logs, DOMAIN logs \ Streams)
      BY <1>9 DEF SendToLoki, At
    <2>2. backend = "loki" /\ Flushing
            /\ UNCHANGED <<backend, logged, hand, logChan, closed, sampled, dropped>>
      BY <1>9 DEF SendToLoki
    <2>3. Taken(Streams) \/ (backend = "loki" /\ UNCHANGED <<written, carried>>)
      BY <1>9 DEF SendToLoki
    <2>4. Flushed \/ /\ backend = "loki" /\ attempt + 1 < MaxRetries
                     /\ attempt' = attempt + 1 /\ UNCHANGED <<logs, pool, proc, failed>>
      BY <1>9 DEF SendToLoki
    <2> QED
      BY <2>1, <2>2, <2>3, <2>4, BatchStep
  <1>10. CASE Shutdown
    BY <1>10, ShutdownStep
  <1>11. CASE UNCHANGED loggerVars
    <2>1. LoggerTypeOK'
      BY <1>11 DEF LoggerInv, LoggerTypeOK, loggerVars, sinks
    <2>2. BatchInv'
      BY <1>11 DEF LoggerInv, BatchInv, Distinct, loggerVars
    <2> QED
      BY <1>11, <2>1, <2>2, EntriesStay DEF loggerVars
  <1> QED
    BY <1>2, <1>3, <1>4, <1>5, <1>6, <1>7, <1>8, <1>9, <1>10, <1>11 DEF LoggerNext, Processor

LEMMA LoggerInvariance == LoggerSpec => []LoggerInv
  BY LoggerStarts, LoggerStep, PTL DEF LoggerSpec

(* logger.go:201-403: every variable of the logger has its type; the       *)
(* channel and the batch stay within their sizes, and Loki is tried at     *)
(* most MaxRetries times for a batch.                                      *)
THEOREM LoggerTypeCorrect == LoggerSpec => []LoggerTypeOK
  <1>1. LoggerInv => LoggerTypeOK
    BY DEF LoggerInv
  <1> QED
    BY <1>1, LoggerInvariance, PTL

(* logger.go:242, 279-299, 321, 356: what is written has its own fields,   *)
(* and else only those of messages that were never written.                *)
THEOREM FieldsAreOwn == LoggerSpec => []FieldsOwnOrDiscarded
  <1>1. LoggerInv => FieldsOwnOrDiscarded
    BY DEF LoggerInv, FieldsInv, FieldsOwnOrDiscarded, Discarded
  <1> QED
    BY <1>1, LoggerInvariance, PTL

(* logger.go:218-299, 346-357, loki_logger.go:40-107: with a file or the   *)
(* standard output each message that was submitted is in one place, and    *)
(* written at most once; with Loki none vanishes without a report, and     *)
(* what is reported as skipped was sent with no batch.                     *)
THEOREM OneFate == LoggerSpec => []FateIsUnique
  <1>1. ASSUME LoggerInv, backend # "loki", NEW m \in Logged
        PROVE  Cardinality({g \in Goroutines : hand[g] # <<>> /\ hand[g][1].msg = m})
               + Cardinality({i \in DOMAIN logChan : logChan[i].msg = m})
               + Cardinality({i \in DOMAIN logs : logs[i].msg = m})
               + written[m]
               + (IF m \in sampled THEN 1 ELSE 0) + (IF m \in dropped THEN 1 ELSE 0) = 1
    <2>1. m \in Messages
      BY DEF Logged
    <2>2. logChan \in Seq(Entries) /\ logs \in Seq(Entries) /\ Distinct(logChan) /\ Distinct(logs)
      BY <1>1 DEF LoggerInv, LoggerTypeOK, BatchInv
    <2>3. /\ Cardinality({i \in DOMAIN logChan : logChan[i].msg = m})
               = IF m \in Msgs(logChan) THEN 1 ELSE 0
          /\ Cardinality({i \in DOMAIN logs : logs[i].msg = m}) = IF m \in Msgs(logs) THEN 1 ELSE 0
      BY <2>2, CountMsgs
    <2>4. Cardinality({g \in Goroutines : hand[g] # <<>> /\ hand[g][1].msg = m})
            = IF InHand(m) THEN 1 ELSE 0
      <3>1. CASE InHand(m)
        <4>1. PICK g \in Goroutines : hand[g] # <<>> /\ hand[g][1].msg = m
          BY <3>1 DEF InHand
        <4>2. \A h \in Goroutines : hand[h] # <<>> => hand[h][1].msg = <<h, logged[h]>>
          BY <1>1 DEF LoggerInv, PlaceInv
        <4>3. {h \in Goroutines : hand[h] # <<>> /\ hand[h][1].msg = m} = {g}
          BY <4>1, <4>2
        <4> QED
          BY <3>1, <4>3, FS_Singleton
      <3>2. CASE ~InHand(m)
        <4>1. {h \in Goroutines : hand[h] # <<>> /\ hand[h][1].msg = m} = {}
          BY <3>2 DEF InHand
        <4> QED
          BY <3>2, <4>1, FS_EmptySet
      <3> QED
        BY <3>1, <3>2
    <2>5. written[m] \in Nat
      <3>1. written \in [Messages -> 0 .. MaxRetries]
        BY <1>1 DEF LoggerInv, LoggerTypeOK
      <3> QED
        BY <2>1, <3>1, LoggerAssumption
    <2>6. /\ InHand(m) => m \notin Msgs(logChan)
          /\ InHand(m) \/ m \in Msgs(logChan) => m \notin Msgs(logs) /\ written[m] = 0
          /\ InHand(m) \/ m \in Msgs(logChan) \/ m \in Msgs(logs) => m \notin sampled /\ m \notin dropped
          /\ m \in Msgs(logs) => written[m] <= 0
          /\ m \in sampled \/ m \in dropped => written[m] = 0
          /\ ~(m \in sampled /\ m \in dropped) /\ written[m] <= 1
          /\ \/ InHand(m) \/ m \in Msgs(logChan) \/ m \in Msgs(logs)
             \/ m \in sampled \/ m \in dropped \/ written[m] > 0
      BY <1>1, <2>1 DEF LoggerInv, BatchInv, PlaceInv, Waiting, Discarded
    <2> QED
      BY <2>3, <2>4, <2>5, <2>6
  <1>2. Queued = Msgs(logChan) \union Msgs(logs)
    BY DEF Queued, Msgs, ToSet
  <1>3. ASSUME LoggerInv, NEW m \in Logged
        PROVE  \/ {g \in Goroutines : hand[g] # <<>> /\ hand[g][1].msg = m} # {}
               \/ m \in Queued \/ written[m] > 0
               \/ m \in sampled \union dropped \union skipped \union failed
    BY <1>2, <1>3 DEF LoggerInv, PlaceInv, Waiting, InHand, Discarded, Logged
  <1>4. LoggerInv => FateIsUnique
    BY <1>1, <1>3 DEF FateIsUnique, LoggerInv, ReportInv
  <1> QED
    BY <1>4, LoggerInvariance, PTL
=============================================================================
