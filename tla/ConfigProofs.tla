---------------------------- MODULE ConfigProofs ----------------------------
(***************************************************************************)
(* The configuration of netmeter, for any number of sessions and users and *)
(* whatever is set, edited and killed.                                     *)
(***************************************************************************)
EXTENDS Config, TLAPS

USE ConfigAssumption DEF ConfigAssumption

-----------------------------------------------------------------------------
(* Layers.                                                                 *)

(* A layer has some of the keys, each with a value.                        *)
LEMMA LayerIsFunction ==
  ASSUME NEW layer
  PROVE  layer \in Layer <=>
           DOMAIN layer \subseteq Key /\ layer \in [DOMAIN layer -> Numbers \cup Words]
  BY DEF Layer

(* One layer over another is a layer.                                      *)
LEMMA MergedLayers ==
  ASSUME NEW base \in Layer, NEW over \in Layer
  PROVE  MergeValue(base, over) \in Layer
<1>1. MergeValue(base, over) \in [DOMAIN base \cup DOMAIN over -> Numbers \cup Words]
  BY LayerIsFunction DEF MergeValue
<1>2. DOMAIN base \cup DOMAIN over \in SUBSET Key
  BY LayerIsFunction
<1> QED BY <1>1, <1>2 DEF Layer

(* An empty file is a layer, as is the built-in one, and inserting a       *)
(* setting makes another of one.                                           *)
LEMMA SimpleLayers ==
  /\ Nothing \in Layer /\ Default \in Layer
  /\ \A table \in Layer, setting \in Settings : Insert(table, setting) \in Layer
<1>1. Nothing \in [{} -> Numbers \cup Words]
  BY DEF Nothing
<1>2. Default \in [Key -> Numbers \cup Words]
  BY DEF Default, Key, Numbers, Words
<1>3. ASSUME NEW table \in Layer, NEW setting \in Settings
      PROVE  Insert(table, setting) \in Layer
  <2> DEFINE single == [k \in {setting[1]} |-> setting[2]]
  <2>1. setting[1] \in Key /\ setting[2] \in Numbers \cup Words
    OBVIOUS
  <2>2. single \in Layer
    <3>1. DOMAIN single = {setting[1]} /\ single \in [{setting[1]} -> Numbers \cup Words]
      BY <2>1
    <3> HIDE DEF single
    <3> QED BY <2>1, <3>1, LayerIsFunction
  <2> QED BY <2>2, MergedLayers DEF Insert
<1> QED BY <1>1, <1>2, <1>3 DEF Layer

-----------------------------------------------------------------------------
(* Part 1.  Of a file that is not spoiled at most one session is half way  *)
(* through a `config set`, with a copy of what the file was meant to say.  *)

Holds(s, f) == Target(s) = f /\ pc[s] \in {"truncate", "write"}

Typed ==
  /\ files \in [File -> Layer \cup {Garbage}]
  /\ intended \in [File -> Layer]
  /\ pc \in [Session -> {"idle", "read", "truncate", "write"}]
  /\ copy \in [Session -> Layer]
  /\ job \in [Session -> Settings \cup {<<>>}]
  /\ \A s \in Session : pc[s] # "idle" => job[s] \in Settings

(* What FilesKeepWhatWasSet needs of file f.                               *)
InOrder(f) ==
  /\ \A s, t \in Session : Holds(s, f) /\ Holds(t, f) => s = t
  /\ \A s \in Session : Holds(s, f) => copy[s] = intended[f]
  /\ \A s \in Session : Holds(s, f) /\ pc[s] = "write" => files[f] = Nothing
  /\ (\A s \in Session : ~(Holds(s, f) /\ pc[s] = "write")) => Table(f) = intended[f]

FilesInv == Typed /\ \A f \in File \ spoiled : InOrder(f)

LEMMA TargetIsFile == \A s \in Session : Target(s) \in File
  BY DEF Target, File, Account

LEMMA TableIsLayer ==
  ASSUME Typed, NEW f \in File
  PROVE  Table(f) \in Layer
  BY SimpleLayers DEF Typed, Table

(* Nobody has changed an empty file.                                       *)
LEMMA FilesInit == Init => FilesInv
<1> SUFFICES ASSUME Init PROVE FilesInv
  OBVIOUS
<1>1. Typed
  BY SimpleLayers DEF Init, Typed
<1>2. ASSUME NEW f \in File PROVE InOrder(f)
  <2>1. Table(f) = intended[f]
    BY DEF Init, Table
  <2> QED BY <2>1 DEF Init, InOrder, Holds
<1> QED BY <1>1, <1>2 DEF FilesInv

(* A step that leaves files and what they are meant to say alone, and      *)
(* takes no session half way through a set, or out of it.                  *)
LEMMA FilesQuiet ==
  ASSUME FilesInv, Typed', UNCHANGED <<files, intended>>, spoiled \subseteq spoiled',
         NEW s \in Session,
         \A t \in Session \ {s} : pc'[t] = pc[t] /\ copy'[t] = copy[t],
         pc'[s] \in {"idle", "read"},
         pc[s] = "write" => Target(s) \in spoiled'
  PROVE  FilesInv'
<1>1. ASSUME NEW f \in File, f \notin spoiled' PROVE InOrder(f)'
  <2>1. InOrder(f) /\ (Target(s) = f => pc[s] # "write")
    BY <1>1 DEF FilesInv
  <2>2. \A t \in Session : Holds(t, f)' => t # s /\ Holds(t, f)
    BY DEF Holds, Target
  <2>3. Table(f)' = Table(f)
    BY DEF Table
  <2> QED BY <2>1, <2>2, <2>3 DEF InOrder, Holds, Target
<1> QED BY <1>1 DEF FilesInv

(* Another step that concerns no session and no file.                      *)
LEMMA FilesElsewhere ==
  ASSUME FilesInv, UNCHANGED <<files, intended, spoiled, pc, copy, job>>
  PROVE  FilesInv'
<1>1. Typed'
  BY DEF FilesInv, Typed
<1>2. \A f \in File : InOrder(f)' <=> InOrder(f)
  BY DEF InOrder, Holds, Target, Table
<1> QED BY <1>1, <1>2 DEF FilesInv

(* The first step of a set copies what the file was meant to say.          *)
LEMMA FilesRead ==
  ASSUME FilesInv, NEW s \in Session, ReadFile(s)
  PROVE  FilesInv'
<1> DEFINE g == Target(s)
<1>1. Typed'
  <2>1. Table(g) \in Layer
    BY TargetIsFile, TableIsLayer DEF FilesInv
  <2> QED BY <2>1 DEF ReadFile, FilesInv, Typed
<1>2. ASSUME NEW f \in File, f \notin spoiled' PROVE InOrder(f)'
  <2>1. /\ InOrder(f) /\ pc[s] = "read"
        /\ f = g => ~UnderWay(g) /\ copy'[s] = Table(g)
    BY <1>2, TargetIsFile DEF FilesInv, ReadFile, Typed
  <2>2. \A t \in Session \ {s} :
          /\ Holds(t, f)' <=> Holds(t, f)
          /\ pc'[t] = pc[t] /\ copy'[t] = copy[t]
    BY DEF ReadFile, Holds, Target, FilesInv, Typed
  <2>3. Holds(s, f)' <=> f = g
    BY DEF ReadFile, Holds, Target, FilesInv, Typed
  <2>4. pc'[s] = "truncate" /\ files' = files /\ intended' = intended /\ Table(f)' = Table(f)
    BY DEF ReadFile, FilesInv, Typed, Table
  <2>5. f = g => \A t \in Session : ~Holds(t, f)
    BY <2>1 DEF UnderWay, Holds
  <2> QED BY <2>1, <2>2, <2>3, <2>4, <2>5 DEF InOrder, Holds
<1> QED BY <1>1, <1>2 DEF FilesInv

(* The second empties the file, which nobody else is changing.             *)
LEMMA FilesTruncate ==
  ASSUME FilesInv, NEW s \in Session, Truncate(s)
  PROVE  FilesInv'
<1> DEFINE g == Target(s)
<1>1. Typed'
  BY SimpleLayers, TargetIsFile DEF Truncate, Put, FilesInv, Typed
<1>2. ASSUME NEW f \in File, f \notin spoiled' PROVE InOrder(f)'
  <2>1. InOrder(f) /\ pc[s] = "truncate" /\ pc'[s] = "write"
    BY <1>2 DEF FilesInv, Truncate, Typed
  <2>2. /\ \A t \in Session : Holds(t, f)' <=> Holds(t, f)
        /\ \A t \in Session \ {s} : pc'[t] = pc[t]
        /\ copy' = copy /\ intended' = intended
    BY DEF Truncate, Holds, Target, FilesInv, Typed
  <2>3. CASE f = g
    <3>1. files'[f] = Nothing /\ Holds(s, f)
      BY <2>1, <2>3 DEF Truncate, Put, Holds, FilesInv, Typed
    <3> QED BY <2>1, <2>2, <3>1 DEF InOrder
  <2>4. CASE f # g
    <3>1. files'[f] = files[f] /\ Table(f)' = Table(f) /\ ~Holds(s, f)
      BY <2>4 DEF Truncate, Put, Holds, FilesInv, Typed, Table
    <3> QED BY <2>1, <2>2, <3>1 DEF InOrder
  <2> QED BY <2>3, <2>4
<1> QED BY <1>1, <1>2 DEF FilesInv

(* The third writes the copy with the setting, over nothing unless the     *)
(* file is spoiled.                                                        *)
LEMMA FilesWrite ==
  ASSUME FilesInv, NEW s \in Session, WriteFile(s)
  PROVE  FilesInv'
<1> DEFINE g == Target(s)
           written == Insert(copy[s], job[s])
<1>1. g \in File /\ written \in Layer /\ pc[s] = "write" /\ job[s] \in Settings
  BY TargetIsFile, SimpleLayers DEF FilesInv, Typed, WriteFile
<1>2. /\ intended' = [intended EXCEPT ![g] = Insert(intended[g], job[s])]
      /\ Insert(intended[g], job[s]) \in Layer
  BY <1>1, SimpleLayers DEF FilesInv, Typed, WriteFile
<1>3. PICK content \in Outcomes(g, written) : files' = [files EXCEPT ![g] = content]
  BY DEF WriteFile, Put
<1>4. content \in Layer \cup {Garbage}
  <2>1. ASSUME NEW rest \in SUBSET (DOMAIN Table(g) \ DOMAIN written), files[g] # Garbage
        PROVE  MergeValue([k \in rest |-> files[g][k]], written) \in Layer
    <3>1. files[g] \in Layer /\ Table(g) = files[g]
      BY <1>1, <2>1 DEF FilesInv, Typed, Table
    <3>2. [k \in rest |-> files[g][k]] \in [rest -> Numbers \cup Words] /\ rest \in SUBSET Key
      BY <3>1, LayerIsFunction
    <3>3. [k \in rest |-> files[g][k]] \in Layer
      BY <3>2 DEF Layer
    <3> QED BY <1>1, <3>3, MergedLayers
  <2>2. ASSUME NEW rest \in SUBSET (DOMAIN Table(g) \ DOMAIN written), files[g] = Garbage
        PROVE  MergeValue([k \in rest |-> files[g][k]], written) \in Layer
    <3>1. rest = {}
      BY <2>2 DEF Table, Nothing
    <3>2. [k \in rest |-> files[g][k]] = Nothing
      BY <3>1 DEF Nothing
    <3> QED BY <1>1, <3>2, SimpleLayers, MergedLayers
  <2> QED BY <1>1, <2>1, <2>2 DEF Outcomes
<1>5. Typed'
  BY <1>2, <1>3, <1>4, SimpleLayers DEF WriteFile, FilesInv, Typed
<1>6. ASSUME NEW f \in File, f \notin spoiled' PROVE InOrder(f)'
  <2>1. InOrder(f)
    BY <1>6 DEF FilesInv, WriteFile
  <2>2. /\ \A t \in Session : Holds(t, f)' <=> t # s /\ Holds(t, f)
        /\ \A t \in Session \ {s} : pc'[t] = pc[t] /\ copy'[t] = copy[t]
    BY DEF WriteFile, Holds, Target, FilesInv, Typed
  <2>3. CASE f = g
    <3>1. Holds(s, f) /\ files[f] = Nothing /\ copy[s] = intended[f]
      BY <1>1, <2>1, <2>3 DEF Holds, InOrder
    <3>2. content = written
      BY <2>3, <3>1 DEF Outcomes
    <3>3. files'[f] = written /\ intended'[f] = written /\ written # Garbage
      BY <1>1, <1>2, <1>3, <2>3, <3>1, <3>2 DEF FilesInv, Typed
    <3>4. \A t \in Session : ~Holds(t, f)'
      BY <2>1, <2>2, <3>1 DEF InOrder
    <3> QED BY <3>3, <3>4 DEF InOrder, Table
  <2>4. CASE f # g
    <3>1. files'[f] = files[f] /\ intended'[f] = intended[f] /\ ~Holds(s, f)
      BY <1>1, <1>2, <1>3, <2>4 DEF FilesInv, Typed, Holds
    <3> QED BY <2>1, <2>2, <3>1 DEF InOrder, Table
  <2> QED BY <2>3, <2>4
<1> QED BY <1>5, <1>6 DEF FilesInv

(* A file replaced as a whole says what it is meant to, unless somebody is *)
(* half way through a set of it.                                           *)
LEMMA FilesReplace ==
  ASSUME FilesInv, NEW g \in File, NEW content \in Layer \cup {Garbage},
         Replace(g, content), UNCHANGED sessions
  PROVE  FilesInv'
<1>1. Typed'
  BY SimpleLayers DEF Replace, Put, sessions, FilesInv, Typed
<1>2. ASSUME NEW f \in File, f \notin spoiled' PROVE InOrder(f)'
  <2>1. \A t \in Session : (Holds(t, f)' <=> Holds(t, f)) /\ pc'[t] = pc[t] /\ copy'[t] = copy[t]
    BY DEF sessions, Holds, Target
  <2>2. CASE f = g
    <3>1. \A t \in Session : ~Holds(t, f)
      BY <1>2, <2>2 DEF Replace, UnderWay, Holds
    <3>2. Table(f)' = intended'[f]
      BY <2>2 DEF Replace, Put, Table, FilesInv, Typed
    <3> QED BY <2>1, <3>1, <3>2 DEF InOrder
  <2>3. CASE f # g
    <3>1. files'[f] = files[f] /\ intended'[f] = intended[f] /\ InOrder(f)
      BY <1>2, <2>3 DEF Replace, Put, FilesInv, Typed
    <3> QED BY <2>1, <3>1 DEF InOrder, Table
  <2> QED BY <2>2, <2>3
<1> QED BY <1>1, <1>2 DEF FilesInv

(* Every step keeps the files that are not spoiled in order.               *)
LEMMA FilesNext == FilesInv /\ [Next]_vars => FilesInv'
<1> SUFFICES ASSUME FilesInv, [Next]_vars PROVE FilesInv'
  OBVIOUS
<1> USE DEF processes, sessions, counts
<1>1. ASSUME NEW s \in Session, Launch(s) PROVE FilesInv'
  <2>1. Typed'
    BY <1>1 DEF Launch, FilesInv, Typed
  <2>2. /\ pc[s] = "idle" /\ pc'[s] = "read" /\ UNCHANGED <<files, intended, spoiled, copy>>
        /\ \A t \in Session \ {s} : pc'[t] = pc[t]
    BY <1>1 DEF Launch, FilesInv, Typed
  <2> QED BY <2>1, <2>2, FilesQuiet
<1>2. ASSUME NEW s \in Session, Kill(s) PROVE FilesInv'
  <2>1. Typed'
    BY <1>2, SimpleLayers DEF Kill, FilesInv, Typed
  <2>2. /\ pc'[s] = "idle" /\ UNCHANGED <<files, intended>>
        /\ \A t \in Session \ {s} : pc'[t] = pc[t] /\ copy'[t] = copy[t]
    BY <1>2 DEF Kill, FilesInv, Typed
  <2>3. spoiled \subseteq spoiled' /\ (pc[s] = "write" => Target(s) \in spoiled')
    BY <1>2 DEF Kill
  <2> QED BY <2>1, <2>2, <2>3, FilesQuiet
<1>3. ASSUME NEW s \in Session, Reset(s) PROVE FilesInv'
  <2>1. AccountOf[s] \in File
    BY DEF File, Account
  <2> QED BY <1>3, <2>1, SimpleLayers, FilesReplace DEF Reset
<1>4. ASSUME NEW f \in File, Edit(f) PROVE FilesInv'
  BY <1>4, FilesReplace DEF Edit
<1>5. CASE StartDaemon \/ StopDaemon \/ (\E u \in User : Login(u) \/ StartAgent(u))
  <2>1. UNCHANGED <<files, intended, spoiled, pc, copy, job>>
    BY <1>5 DEF StartDaemon, StopDaemon, Login, StartAgent
  <2> QED BY <2>1, FilesElsewhere
<1>6. CASE UNCHANGED vars
  BY <1>6, FilesElsewhere DEF vars
<1> QED
  BY <1>1, <1>2, <1>3, <1>4, <1>5, <1>6, FilesRead, FilesTruncate, FilesWrite DEF Next, Set

(* A file says what was last set of each key and nothing else: for any     *)
(* number of sessions and users, whatever they set, reset and edit and     *)
(* wherever a command is cut off.                                          *)
THEOREM ConfigFilesKeepWhatWasSet == Spec => []FilesKeepWhatWasSet
<1>1. FilesInv => FilesKeepWhatWasSet
  BY DEF FilesInv, InOrder, Holds, FilesKeepWhatWasSet
<1>2. Init => FilesInv
  BY FilesInit
<1>3. FilesInv /\ [Next]_vars => FilesInv'
  BY FilesNext
<1> QED BY <1>1, <1>2, <1>3, PTL DEF Spec

-----------------------------------------------------------------------------
(* Part 2.  What runs has loaded the layers as they are, or is out of      *)
(* date.                                                                   *)

LoadedInv ==
  /\ Typed
  /\ inForce \in [{Daemon} \cup User -> [Key -> Numbers \cup Words]]
  /\ env \in [Account -> Layer]
  /\ files[Daemon] = Nothing
  /\ agent \in [User -> {"starting", "running", "failed"}]
  /\ \A a \in {Daemon} \cup User : IsRunning(a) /\ a \notin stale => inForce[a] = Load(a)

(* Load gives a value to each key.                                         *)
LEMMA LoadIsTyped ==
  ASSUME Typed, env \in [Account -> Layer], NEW a \in Account
  PROVE  Load(a) \in [Key -> Numbers \cup Words]
<1>1. Merged(a) \in Layer /\ DOMAIN Merged(a) = Key
  <2>1. Table(a) \in Layer /\ Table(System) \in Layer
    BY TableIsLayer DEF File
  <2>2. DOMAIN Default = Key /\ DOMAIN Table(a) \subseteq Key /\ DOMAIN Table(System) \subseteq Key
    BY <2>1, LayerIsFunction DEF Default
  <2>3. MergeValue(Default, Table(System)) \in Layer
    BY <2>1, SimpleLayers, MergedLayers
  <2> QED BY <2>1, <2>2, <2>3, MergedLayers DEF Merged, MergeValue
<1>2. \A k \in Key : Merged(a)[k] \in Numbers \cup Words
  BY <1>1, LayerIsFunction
<1>3. \A k \in Overrides(a) : env[a][k] \in Numbers \cup Words
  BY LayerIsFunction DEF Overrides
<1>4. \A word \in Numbers \cup Words : Lower(word) \in Numbers \cup Words
  BY DEF Lower, Numbers, Words
<1> QED BY <1>2, <1>3, <1>4 DEF Load

(* Load agrees with the documented order of the layers.                    *)
LEMMA LoadIsDocumented ==
  ASSUME Typed, NEW a \in Account, NEW k \in Key
  PROVE  Load(a)[k] = Documented(a, k)
<1>1. k \in DOMAIN Default
  BY DEF Default
<1>2. Merged(a)[k] = IF k \in DOMAIN Table(a) THEN Table(a)[k]
                     ELSE IF k \in DOMAIN Table(System) THEN Table(System)[k] ELSE Default[k]
  BY <1>1 DEF Merged, MergeValue
<1>3. Load(a)[k] = Lower(IF k \in Overrides(a) THEN env[a][k] ELSE Merged(a)[k])
  BY DEF Load
<1>4. Lower(Default[k]) = Default[k]
  BY DEF Lower, Default
<1> QED BY <1>2, <1>3, <1>4 DEF Documented

(* Nothing runs at first.                                                  *)
LEMMA LoadedInit == Init => LoadedInv
<1> SUFFICES ASSUME Init PROVE LoadedInv
  OBVIOUS
<1>1. Typed
  BY FilesInit DEF FilesInv
<1>2. inForce \in [{Daemon} \cup User -> [Key -> Numbers \cup Words]]
  BY DEF Init, Default, Numbers, Words
<1> QED BY <1>1, <1>2 DEF Init, LoadedInv, IsRunning, File, Account

(* What account a loads depends on two files and its variables only.       *)
LEMMA LoadUnchanged ==
  ASSUME NEW a \in Account,
         files'[a] = files[a], files'[System] = files[System], env' = env
  PROVE  Load(a)' = Load(a)
<1>1. Table(a)' = Table(a) /\ Table(System)' = Table(System)
  BY DEF Table
<1>2. Merged(a)' = Merged(a) /\ Overrides(a)' = Overrides(a)
  BY <1>1 DEF Merged, Overrides
<1> QED BY <1>2 DEF Load

(* A file that changes makes out of date whoever loads it.                 *)
LEMMA LoadedPut ==
  ASSUME LoadedInv, Typed', NEW f \in File \ {Daemon}, NEW content, Put(f, content),
         UNCHANGED <<env, daemon, agent, inForce>>
  PROVE  LoadedInv'
<1>1. files' = [files EXCEPT ![f] = content] /\ f \in DOMAIN files
  BY DEF Put, LoadedInv, Typed
<1>2. files'[Daemon] = Nothing
  BY <1>1 DEF LoadedInv, Typed
<1>3. ASSUME NEW a \in {Daemon} \cup User, a \notin stale' PROVE a \notin stale /\ Load(a)' = Load(a)
  <2>1. a \notin stale
    BY <1>3 DEF Put
  <2>2. files'[a] = files[a] /\ files'[System] = files[System]
    BY <1>1, <1>3 DEF Put, Readers
  <2> QED BY <2>1, <2>2, LoadUnchanged DEF Account
<1> QED BY <1>2, <1>3 DEF LoadedInv, IsRunning

(* Files and processes are as they were.                                   *)
LEMMA LoadedElsewhere ==
  ASSUME LoadedInv, Typed', UNCHANGED <<files, env, daemon, agent, inForce, stale>>
  PROVE  LoadedInv'
<1>1. \A a \in {Daemon} \cup User : Load(a)' = Load(a)
  BY LoadUnchanged DEF Account
<1> QED BY <1>1 DEF LoadedInv, IsRunning

(* A process ends, or one that starts works with what it has loaded.       *)
LEMMA LoadedProcess ==
  ASSUME LoadedInv, Typed', UNCHANGED <<files, env>>,
         NEW a \in {Daemon} \cup User, agent' \in [User -> {"starting", "running", "failed"}],
         \/ inForce' = inForce /\ stale' = stale /\ ~IsRunning(a)'
         \/ inForce' = [inForce EXCEPT ![a] = Load(a)] /\ stale' = stale \ {a},
         \A b \in ({Daemon} \cup User) \ {a} : IsRunning(b)' <=> IsRunning(b)
  PROVE  LoadedInv'
<1>1. \A b \in {Daemon} \cup User : Load(b)' = Load(b)
  BY LoadUnchanged DEF Account
<1>2. Load(a) \in [Key -> Numbers \cup Words]
  BY LoadIsTyped DEF LoadedInv, Account
<1>3. inForce' \in [{Daemon} \cup User -> [Key -> Numbers \cup Words]]
  BY <1>2 DEF LoadedInv
<1>4. ASSUME NEW b \in {Daemon} \cup User, IsRunning(b)', b \notin stale'
      PROVE  inForce'[b] = Load(b)'
  <2>1. CASE b = a
    BY <1>1, <1>4, <2>1 DEF LoadedInv
  <2>2. CASE b # a
    BY <1>1, <1>4, <2>2 DEF LoadedInv
  <2> QED BY <2>1, <2>2
<1>5. env' \in [Account -> Layer] /\ files'[Daemon] = Nothing
  BY DEF LoadedInv
<1> QED BY <1>3, <1>4, <1>5 DEF LoadedInv

(* Every step keeps what runs in force, or makes it out of date.           *)
LEMMA LoadedNext == LoadedInv /\ Typed' /\ [Next]_vars => LoadedInv'
<1> SUFFICES ASSUME LoadedInv, Typed', [Next]_vars PROVE LoadedInv'
  OBVIOUS
<1> USE DEF processes, sessions, counts
<1>1. ASSUME NEW s \in Session, Launch(s) \/ ReadFile(s) \/ Kill(s) PROVE LoadedInv'
  BY <1>1, LoadedElsewhere DEF Launch, ReadFile, Kill
<1>2. ASSUME NEW s \in Session, Truncate(s) \/ WriteFile(s) \/ Reset(s) PROVE LoadedInv'
  <2>1. Target(s) \in File \ {Daemon} /\ AccountOf[s] \in File \ {Daemon}
    BY DEF Target, File, Account
  <2>2. CASE Truncate(s)
    BY <2>1, <2>2, LoadedPut DEF Truncate
  <2>3. CASE WriteFile(s)
    BY <2>1, <2>3, LoadedPut DEF WriteFile
  <2>4. CASE Reset(s)
    BY <2>1, <2>4, LoadedPut DEF Reset, Replace
  <2> QED BY <1>2, <2>2, <2>3, <2>4
<1>3. ASSUME NEW f \in File \ {Daemon}, Edit(f) PROVE LoadedInv'
  BY <1>3, LoadedPut DEF Edit, Replace
<1>4. CASE StartDaemon \/ StopDaemon
  <2>1. \A b \in ({Daemon} \cup User) \ {Daemon} : IsRunning(b)' <=> IsRunning(b)
    BY <1>4 DEF IsRunning, StartDaemon, StopDaemon
  <2>2. agent' \in [User -> {"starting", "running", "failed"}] /\ UNCHANGED <<files, env>>
    BY <1>4 DEF StartDaemon, StopDaemon, LoadedInv
  <2>3. \/ inForce' = inForce /\ stale' = stale /\ ~IsRunning(Daemon)'
        \/ inForce' = [inForce EXCEPT ![Daemon] = Load(Daemon)] /\ stale' = stale \ {Daemon}
    BY <1>4 DEF StartDaemon, StopDaemon, IsRunning
  <2> QED BY <2>1, <2>2, <2>3, LoadedProcess
<1>5. ASSUME NEW u \in User, Login(u) \/ StartAgent(u) PROVE LoadedInv'
  <2>1. \A b \in ({Daemon} \cup User) \ {u} : IsRunning(b)' <=> IsRunning(b)
    BY <1>5 DEF IsRunning, Login, StartAgent, LoadedInv
  <2>2. agent' \in [User -> {"starting", "running", "failed"}] /\ UNCHANGED <<files, env>>
    BY <1>5 DEF Login, StartAgent, LoadedInv
  <2>3. \/ inForce' = inForce /\ stale' = stale /\ ~IsRunning(u)'
        \/ inForce' = [inForce EXCEPT ![u] = Load(u)] /\ stale' = stale \ {u}
    BY <1>5 DEF Login, StartAgent, IsRunning, LoadedInv
  <2> QED BY <2>1, <2>2, <2>3, LoadedProcess
<1>6. CASE UNCHANGED vars
  BY <1>6, LoadedElsewhere DEF vars
<1> QED BY <1>1, <1>2, <1>3, <1>4, <1>5, <1>6 DEF Next, Set

(* What runs and is not out of date works with the documented order of the *)
(* layers, and agent and daemon differ about the budget by an override.    *)
LEMMA LoadedInTune == LoadedInv => OutOfTuneOnlyByOverride
<1> SUFFICES ASSUME LoadedInv PROVE OutOfTuneOnlyByOverride
  OBVIOUS
<1>1. \A a \in {Daemon} \cup User, k \in Key :
        IsRunning(a) /\ a \notin stale => inForce[a][k] = Documented(a, k)
  BY LoadIsDocumented DEF LoadedInv, Account
<1>2. ASSUME NEW u \in User, daemon = "running", agent[u] = "running", {u, Daemon} \cap stale = {},
             Overrides(u) \cup Overrides(Daemon) \cup DOMAIN Table(u) = {}
      PROVE  EffectiveBudget(inForce[u]) = EffectiveBudget(inForce[Daemon])
  <2>1. IsRunning(u) /\ IsRunning(Daemon) /\ u \notin stale /\ Daemon \notin stale
    BY <1>2 DEF IsRunning
  <2>2. DOMAIN Table(Daemon) = {}
    BY DEF LoadedInv, Table, Nothing
  <2>3. \A k \in Key : Documented(u, k) = Documented(Daemon, k)
    BY <1>2, <2>2 DEF Documented
  <2>4. \A k \in Key : inForce[u][k] = inForce[Daemon][k]
    BY <1>1, <2>1, <2>3
  <2> QED BY <2>4 DEF EffectiveBudget, Key
<1> QED BY <1>1, <1>2 DEF OutOfTuneOnlyByOverride

(* For any number of users and sessions, environments and edits.           *)
THEOREM ConfigOutOfTuneOnlyByOverride == Spec => []OutOfTuneOnlyByOverride
<1> DEFINE Inv == FilesInv /\ LoadedInv
<1>1. Init => Inv
  BY FilesInit, LoadedInit
<1>2. Inv /\ [Next]_vars => Inv'
  BY FilesNext, LoadedNext DEF FilesInv
<1>3. Inv => OutOfTuneOnlyByOverride
  BY LoadedInTune
<1> QED BY <1>1, <1>2, <1>3, PTL DEF Spec

-----------------------------------------------------------------------------
(* Part 3.  A jammed file is changed by an editor only.                    *)

(* Whoever could change the file with a command cannot load it.            *)
LEMMA JammedFails ==
  ASSUME Typed, NEW f \in File, Jammed(f)
  PROVE  /\ f \in Account => ~Loads(f)
         /\ f = System => ~Loads(Root)
<1>1. PICK k \in DOMAIN Table(f) :
        Table(f)[k] \notin Fits[k] /\ (f = System => k \notin DOMAIN Table(Root))
  BY DEF Jammed
<1>2. k \in Key
  BY <1>1, TableIsLayer, LayerIsFunction
<1>3. Merged(f)[k] = Table(f)[k]
  BY <1>1 DEF Merged, MergeValue
<1>4. f = System => Merged(Root)[k] = Table(f)[k]
  BY <1>1 DEF Merged, MergeValue
<1> QED BY <1>1, <1>2, <1>3, <1>4 DEF Loads

LEMMA JammedStays ==
  ASSUME Typed, [Next]_vars, NEW f \in File, Jammed(f), Unattended(f)
  PROVE  (files'[f] = files[f] /\ Unattended(f)') \/ edits' = edits + 1
<1> USE DEF processes, sessions, counts
<1>1. \A s \in Session : Target(s) = f => pc[s] = "idle" /\ ~Loads(AccountOf[s])
  BY JammedFails DEF Target, Unattended
<1>2. \A s \in Session : AccountOf[s] = f => ~Loads(AccountOf[s])
  BY JammedFails
<1>3. ASSUME NEW s \in Session, Set(s) \/ Kill(s)
      PROVE  files'[f] = files[f] /\ Unattended(f)'
  <2>1. Target(s) # f
    BY <1>1, <1>3 DEF Set, Launch, ReadFile, Truncate, WriteFile, Kill
  <2>2. files'[f] = files[f] /\ \A t \in Session \ {s} : pc'[t] = pc[t]
    BY <1>3, <2>1 DEF Set, Launch, ReadFile, Truncate, WriteFile, Kill, Put, Typed
  <2> QED BY <2>1, <2>2 DEF Unattended, Target
<1>4. ASSUME NEW s \in Session, Reset(s)
      PROVE  files'[f] = files[f] /\ Unattended(f)'
  <2>1. AccountOf[s] # f
    BY <1>2, <1>4 DEF Reset
  <2> QED BY <1>4, <2>1 DEF Reset, Replace, Put, Typed, Unattended, Target
<1>5. ASSUME NEW g \in File, Edit(g) PROVE edits' = edits + 1
  BY <1>5 DEF Edit
<1>6. CASE \/ StartDaemon \/ StopDaemon \/ UNCHANGED vars
           \/ \E u \in User : Login(u) \/ StartAgent(u)
  BY <1>6 DEF StartDaemon, StopDaemon, Login, StartAgent, vars, Unattended, Target
<1> QED BY <1>3, <1>4, <1>5, <1>6 DEF Next

(* A value of the wrong type, in whatever file, is there until somebody    *)
(* takes an editor.                                                        *)
THEOREM ConfigOnlyEditorsRepair == Spec => OnlyEditorsRepair
<1>1. Init => FilesInv
  BY FilesInit
<1>2. FilesInv /\ [Next]_vars => FilesInv'
  BY FilesNext
<1>3. FilesInv /\ [Next]_vars =>
        [\A f \in File :
           Jammed(f) /\ Unattended(f) =>
             \/ files'[f] = files[f] /\ Unattended(f)'
             \/ edits' = edits + 1]_vars
  BY JammedStays DEF FilesInv
<1> QED BY <1>1, <1>2, <1>3, PTL DEF Spec, OnlyEditorsRepair

=============================================================================
