------------------------------- MODULE Config -------------------------------
(***************************************************************************)
(* Configuration (src/config.rs, cmd_config of src/main.rs): the layers    *)
(* every command loads before it does anything, `config set` and `config   *)
(* reset`, which rewrite one of the files while others read it, and the    *)
(* two processes that load once and live on: the daemon and, for every     *)
(* desktop user, the agent (packaging/*.service).                          *)
(*                                                                         *)
(* Of the keys there are two here, a number and an enumeration: the two    *)
(* that decide which budget the daemon records and an agent listens to.    *)
(* The values are as written; a number written for a word, or the other    *)
(* way round, is what `config set` does not refuse and loading does.       *)
(***************************************************************************)
EXTENDS Integers

CONSTANTS
  Root, Daemon, User,   \* the accounts: root's, the daemon's, those of others
  System,               \* the system file; an account's overlay has its name
  Garbage,              \* a content that is not TOML
  Session,              \* who may run a `config` command at a time
  AccountOf,            \* the account of each session
  Settings,             \* bound: the <<key, value>> that are set
  Drafts,               \* bound: the contents that are written by hand
  Environments,         \* bound: the NETMETER_* variables of each account
  Burst,                \* starts a user's systemd allows an agent, 5 by default
  MaxSets, MaxResets, MaxEdits, MaxKills, MaxStops  \* bounds

Key == {"budget_gb", "budget_period"}

Numbers == {"0", "2"}
Words == {"day", "DAY", "month", "often"}

Account == {Root, Daemon} \cup User
File == {System} \cup Account

(* What a file or the variables of an account may say: some of the keys.   *)
Layer == UNION {[K -> Numbers \cup Words] : K \in SUBSET Key}

ASSUME ConfigAssumption ==
  /\ System \notin Account /\ Daemon # Root /\ Daemon \notin User
  /\ Garbage \notin Layer
  /\ Drafts \subseteq Layer \cup {Garbage}
  /\ Environments \subseteq [Account -> Layer]
  /\ AccountOf \in [Session -> Account \ {Daemon}]
  /\ Settings \subseteq Key \X (Numbers \cup Words)
  /\ Burst \in Nat \ {0}
  /\ {MaxSets, MaxResets, MaxEdits, MaxKills, MaxStops} \subseteq Nat

VARIABLES
  files,       \* what is in each file
  env,         \* the variables of each account's processes
  pc,          \* where each session is in its `config set`, "idle" without one
  job,         \* the <<key, value>> it sets
  copy,        \* the table it has read
  daemon,      \* "down" or "running"
  agent,       \* of each user: "starting", "running" or "failed"
  strikes,     \* starts of an agent that failed in a row
  inForce      \* what each daemon and agent loaded when it started

(* What only an observer knows.                                            *)
VARIABLES
  intended,    \* each file as the sets, resets and edits, in order, mean it
  spoiled,     \* the files of which two of these overlapped or one was cut off
  stale,       \* the accounts whose files have changed since inForce was loaded
  sets, resets, edits, kills, stops

processes == <<daemon, agent, strikes, inForce>>
sessions == <<pc, job, copy>>
counts == <<sets, resets, edits, kills, stops>>
vars == <<files, env, sessions, processes, intended, spoiled, stale, counts>>

-----------------------------------------------------------------------------
(* Loading.                                                                *)

Nothing == [k \in {} |-> "0"]

Default == [k \in Key |-> IF k = "budget_gb" THEN "0" ELSE "month"]

MergeValue(base, over) ==
  [k \in DOMAIN base \cup DOMAIN over |-> IF k \in DOMAIN over THEN over[k] ELSE base[k]]

(* A file that is absent, unreadable or not TOML is passed over.           *)
Table(f) == IF files[f] = Garbage THEN Nothing ELSE files[f]

(* Mutant: the system file wins.                                           *)
Merged_SystemLast(a) == MergeValue(MergeValue(Default, Table(a)), Table(System))

(* Layer upon layer.                                                       *)
Merged(a) == MergeValue(MergeValue(Default, Table(System)), Table(a))

Fits == [k \in Key |-> IF k = "budget_gb" THEN Numbers ELSE Words]

(* Mutant: a value of the wrong type counts only in the system file.       *)
Loads_Overlooks(a) ==
  \A k \in Key : MergeValue(Default, Table(System))[k] \in Fits[k]

(* try_into, on whose error every command ends, whatever it is about.      *)
Loads(a) == \A k \in Key : Merged(a)[k] \in Fits[k]

(* str_env takes any text, num_env a number only.                          *)
Overrides(a) ==
  {k \in DOMAIN env[a] : k = "budget_period" \/ env[a][k] \in Numbers}

Lower(word) == IF word = "DAY" THEN "day" ELSE word

(* Config::load.                                                           *)
Load(a) ==
  [k \in Key |-> Lower(IF k \in Overrides(a) THEN env[a][k] ELSE Merged(a)[k])]

(* effective_budget: the period the daemon evaluates and an agent polls.   *)
EffectiveBudget(cfg) ==
  IF cfg["budget_gb"] = "0" THEN "none"
  ELSE IF cfg["budget_period"] \in {"day", "week", "month"}
       THEN cfg["budget_period"] ELSE "month"

-----------------------------------------------------------------------------
Init ==
  /\ files = [f \in File |-> Nothing]
  /\ env \in Environments
  /\ pc = [s \in Session |-> "idle"]
  /\ job = [s \in Session |-> <<>>] /\ copy = [s \in Session |-> Nothing]
  /\ daemon = "down"
  /\ agent = [u \in User |-> "starting"] /\ strikes = [u \in User |-> 0]
  /\ inForce = [a \in {Daemon} \cup User |-> Default]
  /\ intended = files /\ spoiled = {} /\ stale = {}
  /\ sets = 0 /\ resets = 0 /\ edits = 0 /\ kills = 0 /\ stops = 0

(* root edits the system file, the others their overlay.                   *)
Target(s) == IF AccountOf[s] = Root THEN System ELSE AccountOf[s]

(* A `config set` has read f and not yet written it back.                  *)
UnderWay(f) == \E s \in Session : Target(s) = f /\ pc[s] \in {"truncate", "write"}

Readers(f) == IF f = System THEN {Daemon} \cup User ELSE {f} \cap User

(* File f has a new content, on purpose or not.                            *)
Put(f, content) ==
  /\ files' = [files EXCEPT ![f] = content]
  /\ stale' = IF content = files[f] THEN stale ELSE stale \cup Readers(f)

-----------------------------------------------------------------------------
(* config set.                                                             *)

(* It loads the configuration, as every command does.                      *)
Launch(s) ==
  /\ pc[s] = "idle" /\ sets < MaxSets
  /\ Loads(AccountOf[s])
  /\ \E setting \in Settings : job' = [job EXCEPT ![s] = setting]
  /\ pc' = [pc EXCEPT ![s] = "read"]
  /\ sets' = sets + 1
  /\ UNCHANGED <<files, env, copy, processes, intended, spoiled, stale, resets, edits, kills, stops>>

(* Mutant: the table to be written is the configuration that was loaded.   *)
ReadFile_Effective(s) ==
  /\ pc[s] = "read"
  /\ copy' = [copy EXCEPT ![s] = Merged(AccountOf[s])]
  /\ pc' = [pc EXCEPT ![s] = "truncate"]
  /\ spoiled' = IF UnderWay(Target(s)) THEN spoiled \cup {Target(s)} ELSE spoiled
  /\ UNCHANGED <<files, env, job, processes, intended, stale, counts>>

(* An absent file, or one that is not TOML, is an empty table.             *)
ReadFile(s) ==
  /\ pc[s] = "read"
  /\ copy' = [copy EXCEPT ![s] = Table(Target(s))]
  /\ pc' = [pc EXCEPT ![s] = "truncate"]
  /\ spoiled' = IF UnderWay(Target(s)) THEN spoiled \cup {Target(s)} ELSE spoiled
  /\ UNCHANGED <<files, env, job, processes, intended, stale, counts>>

(* fs::write opens the file, which is empty from then on ...               *)
Truncate(s) ==
  /\ pc[s] = "truncate"
  /\ Put(Target(s), Nothing)
  /\ pc' = [pc EXCEPT ![s] = "write"]
  /\ UNCHANGED <<env, job, copy, processes, intended, spoiled, counts>>

(* ... and writes from its start.  Of what somebody else has written since *)
(* lines may remain behind the new ones, or pieces of lines.               *)
Outcomes(f, table) ==
  IF files[f] = Nothing THEN {table}
  ELSE {Garbage} \cup
       {MergeValue([k \in rest |-> files[f][k]], table) : rest \in SUBSET (DOMAIN Table(f) \ DOMAIN table)}

Insert(table, setting) == MergeValue(table, [k \in {setting[1]} |-> setting[2]])

WriteFile(s) ==
  /\ pc[s] = "write"
  /\ LET f == Target(s)
     IN  /\ \E content \in Outcomes(f, Insert(copy[s], job[s])) : Put(f, content)
         /\ intended' = [intended EXCEPT ![f] = Insert(@, job[s])]
  /\ pc' = [pc EXCEPT ![s] = "idle"]
  /\ job' = [job EXCEPT ![s] = <<>>] /\ copy' = [copy EXCEPT ![s] = Nothing]
  /\ UNCHANGED <<env, processes, spoiled, counts>>

(* The command is killed, or a step of it fails.                           *)
Kill(s) ==
  /\ pc[s] # "idle" /\ kills < MaxKills
  /\ kills' = kills + 1
  /\ pc' = [pc EXCEPT ![s] = "idle"]
  /\ job' = [job EXCEPT ![s] = <<>>] /\ copy' = [copy EXCEPT ![s] = Nothing]
  /\ spoiled' = IF pc[s] = "write" THEN spoiled \cup {Target(s)} ELSE spoiled
  /\ UNCHANGED <<files, env, processes, intended, stale, sets, resets, edits, stops>>

(* File f is replaced as a whole, by somebody who knows what it says.      *)
Replace(f, content) ==
  /\ Put(f, content)
  /\ intended' = [intended EXCEPT ![f] = IF content = Garbage THEN Nothing ELSE content]
  /\ spoiled' = IF UnderWay(f) THEN spoiled \cup {f} ELSE spoiled \ {f}

(* config reset: the overlay of the account that runs it, root's own too.  *)
Reset(s) ==
  /\ pc[s] = "idle" /\ resets < MaxResets
  /\ Loads(AccountOf[s])
  /\ Replace(AccountOf[s], Nothing)
  /\ resets' = resets + 1
  /\ UNCHANGED <<env, sessions, processes, sets, edits, kills, stops>>

(* Somebody edits a file, which takes no command of netmeter.              *)
Edit(f) ==
  /\ edits < MaxEdits
  /\ \E content \in Drafts : Replace(f, content)
  /\ edits' = edits + 1
  /\ UNCHANGED <<env, sessions, processes, sets, resets, kills, stops>>

-----------------------------------------------------------------------------
(* The daemon and the agents.                                              *)

(* Mutant: systemd gives the daemon up as it does an agent.                *)
StartDaemon_Once ==
  /\ daemon = "down"
  /\ IF Loads(Daemon)
     THEN /\ daemon' = "running"
          /\ inForce' = [inForce EXCEPT ![Daemon] = Load(Daemon)]
          /\ stale' = stale \ {Daemon}
     ELSE /\ daemon' = "failed"
          /\ UNCHANGED <<inForce, stale>>
  /\ UNCHANGED <<files, env, sessions, agent, strikes, intended, spoiled, counts>>

(* A daemon that cannot load its configuration ends with an error, and is  *)
(* started again five seconds later, for ever.                             *)
StartDaemon ==
  /\ daemon = "down" /\ Loads(Daemon)
  /\ daemon' = "running"
  /\ inForce' = [inForce EXCEPT ![Daemon] = Load(Daemon)]
  /\ stale' = stale \ {Daemon}
  /\ UNCHANGED <<files, env, sessions, agent, strikes, intended, spoiled, counts>>

(* It crashes, or is restarted.                                            *)
StopDaemon ==
  /\ daemon = "running" /\ stops < MaxStops
  /\ daemon' = "down" /\ stops' = stops + 1
  /\ UNCHANGED <<files, env, sessions, agent, strikes, inForce, intended, spoiled, stale,
                 sets, resets, edits, kills>>

(* Its user logs in, or restarts the agent.                                *)
Login(u) ==
  /\ stops < MaxStops /\ stops' = stops + 1
  /\ agent' = [agent EXCEPT ![u] = "starting"]
  /\ strikes' = [strikes EXCEPT ![u] = 0]
  /\ UNCHANGED <<files, env, sessions, daemon, inForce, intended, spoiled, stale,
                 sets, resets, edits, kills>>

(* An agent that cannot load its configuration is started again after a    *)
(* tenth of a second, until systemd has had enough.                        *)
StartAgent(u) ==
  /\ agent[u] = "starting"
  /\ IF Loads(u)
     THEN /\ agent' = [agent EXCEPT ![u] = "running"]
          /\ strikes' = [strikes EXCEPT ![u] = 0]
          /\ inForce' = [inForce EXCEPT ![u] = Load(u)]
          /\ stale' = stale \ {u}
     ELSE /\ strikes' = [strikes EXCEPT ![u] = @ + 1]
          /\ agent' = [agent EXCEPT ![u] = IF strikes'[u] = Burst THEN "failed" ELSE @]
          /\ UNCHANGED <<inForce, stale>>
  /\ UNCHANGED <<files, env, sessions, daemon, intended, spoiled, counts>>

Set(s) == Launch(s) \/ ReadFile(s) \/ Truncate(s) \/ WriteFile(s)

Next ==
  \/ \E s \in Session : Set(s) \/ Kill(s) \/ Reset(s)
  \/ \E f \in File \ {Daemon} : Edit(f)
  \/ StartDaemon \/ StopDaemon
  \/ \E u \in User : Login(u) \/ StartAgent(u)

Spec == Init /\ [][Next]_vars

FairSpec ==
  Spec /\ WF_vars(StartDaemon) /\ \A u \in User : WF_vars(StartAgent(u))

-----------------------------------------------------------------------------
(* Correctness.                                                            *)

(* A file says what was last set of each key and nothing else, whoever     *)
(* sets, resets and edits, and whatever the layers above and below it say; *)
(* but for two who change it at a time, and a command cut off half way.    *)
FilesKeepWhatWasSet ==
  \A f \in File \ spoiled :
    (\E s \in Session : Target(s) = f /\ pc[s] = "write") \/ Table(f) = intended[f]

(* The value of key k for account a as README.md:159-164 has it.           *)
Documented(a, k) ==
  CASE k \in Overrides(a)                -> Lower(env[a][k])
    [] k \notin Overrides(a) /\ k \in DOMAIN Table(a) -> Lower(Table(a)[k])
    [] k \notin Overrides(a) \cup DOMAIN Table(a) /\ k \in DOMAIN Table(System)
                                         -> Lower(Table(System)[k])
    [] OTHER                             -> Default[k]

IsRunning(a) == IF a = Daemon THEN daemon = "running" ELSE agent[a] = "running"

(* What a daemon or an agent works with is what the layers say in their    *)
(* documented order, until one of its files changes, from when on it is    *)
(* out of date until it is started again.  So an agent listens to another  *)
(* budget than the daemon records only if one of them is out of date, or   *)
(* the overlay or the environment of its user says so.                     *)
OutOfTuneOnlyByOverride ==
  /\ \A a \in {Daemon} \cup User : IsRunning(a) /\ a \notin stale =>
       \A k \in Key : inForce[a][k] = Documented(a, k)
  /\ \A u \in User :
       /\ daemon = "running" /\ agent[u] = "running" /\ {u, Daemon} \cap stale = {}
       /\ EffectiveBudget(inForce[u]) # EffectiveBudget(inForce[Daemon])
       => Overrides(u) \cup Overrides(Daemon) \cup DOMAIN Table(u) # {}

(* File f has a value of the wrong type, which no layer hides from the     *)
(* account that could change f with `config set` or `config reset`.        *)
Jammed(f) ==
  \E k \in DOMAIN Table(f) :
    Table(f)[k] \notin Fits[k] /\ (f = System => k \notin DOMAIN Table(Root))

Unattended(f) == \A s \in Session : Target(s) = f => pc[s] = "idle"

(* A value of the wrong type locks its author out: every command loads the *)
(* configuration first, `config set` and `config reset` included           *)
(* (main.rs:289), so that none of them changes the file or gets as far as  *)
(* to read it, until somebody takes an editor.                             *)
OnlyEditorsRepair ==
  [][\A f \in File :
       Jammed(f) /\ Unattended(f) =>
         \/ files'[f] = files[f] /\ Unattended(f)'
         \/ edits' = edits + 1]_vars

(* However its file was spoiled, the daemon runs again once it can load    *)
(* it; and so does an agent, unless its user's systemd has given it up.    *)
ComesBack ==
  /\ <>[]Loads(Daemon) => <>[](daemon = "running")
  /\ \A u \in User :
       <>[]Loads(u) => <>[](agent[u] \in {"running", "failed"})
=============================================================================
