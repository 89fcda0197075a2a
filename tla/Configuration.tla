--------------------------- MODULE Configuration ---------------------------
(***************************************************************************)
(* ConfigurationService of libs-core: a process that loads its             *)
(* configuration when it starts and again when asked to, from YAML files,  *)
(* from the environment it was started in and from an .env file.  Files    *)
(* and environment name values by section and key, as the schema does.     *)
(***************************************************************************)
EXTENDS Integers, Sequences, FiniteSets

CONSTANTS
  Section, Key,
  Setting,        \* values of keys and variables
  Unset,          \* no value, no path
  Blank,          \* the value of a variable that is set to nothing
  Bad,            \* a value the schema refuses
  Required,       \* the paths without a default
  Variable,       \* names of environment variables
  PathOf,         \* the path a name stands for, by its __ or by the registry
  Documents,      \* contents of a YAML file
  Environments,   \* what a process may find in its environment
  EnvFiles        \* contents of the .env file

LOCAL Path == Section \X Key
EnvEntry == [name : Variable, value : Setting \cup {Blank}]

\* An environment, and what dotenv parses of a file, has one value of a name.
OneValue(entries) ==
  \A m, n \in DOMAIN entries : entries[m].name = entries[n].name => m = n

ASSUME PathAssumption == Required \subseteq Path /\ PathOf \in [Variable -> Path \cup {Unset}]
ASSUME UnsetAssumption == Unset \notin Path \cup Setting \cup {Blank}
ASSUME EnvironmentsAssumption ==
  \A entries \in Environments \cup EnvFiles : entries \in Seq(EnvEntry) /\ OneValue(entries)

VARIABLES
  running,    \* whether there is a process
  files,      \* the files of configDir, in their order
  envFile,    \* the entries of the .env file
  base,       \* the environment the process was started in
  env,        \* process.env
  served,     \* cache: the configuration callers read
  (* auxiliary *)
  fresh       \* the last load succeeded, and nothing was edited since

configurationVars == <<running, files, envFile, base, env, served, fresh>>

Nothing == [k \in Key |-> Unset]
AbsentSection == [shape |-> "absent", of |-> Nothing]
ScalarSection == [shape |-> "scalar", of |-> Nothing]   \* a section left empty, or a string
Object(of) == [shape |-> "object", of |-> of]
NoConfiguration == [x \in Section |-> AbsentSection]
Malformed == [x \in Section |-> [shape |-> "malformed", of |-> Nothing]]

-----------------------------------------------------------------------------
\* An object is not merged into a scalar: what is left is an object without its keys.
MergeSection(target, source) ==
  CASE source.shape = "absent" -> target
    [] source.shape = "scalar" \/ target.shape = "absent" -> source
    [] target.shape = "scalar" -> Object(Nothing)
    [] OTHER -> Object([k \in Key |-> IF source.of[k] = Unset THEN target.of[k] ELSE source.of[k]])

\* Mutant: the target wins.
DeepMergeUnder(target, source) == [x \in Section |-> MergeSection(source[x], target[x])]

DeepMerge(target, source) == [x \in Section |-> MergeSection(target[x], source[x])]

\* The files merged in order.
yamlConfig[docs \in Seq(Documents)] ==
  IF docs = <<>> THEN NoConfiguration
  ELSE DeepMerge(yamlConfig[SubSeq(docs, 1, Len(docs) - 1)], docs[Len(docs)])

\* The value of a path: the last entry that names it, blanks left out.
Named(entries, path) ==
  {n \in DOMAIN entries : PathOf[entries[n].name] = path /\ entries[n].value # Blank}

Last(entries, path) ==
  IF Named(entries, path) = {} THEN Unset
  ELSE entries[CHOOSE n \in Named(entries, path) : \A m \in Named(entries, path) : m <= n].value

ParseEnvVariables(entries) ==
  [x \in Section |->
     IF \E k \in Key : Named(entries, <<x, k>>) # {}
     THEN Object([k \in Key |-> Last(entries, <<x, k>>)]) ELSE AbsentSection]

Merged(docs, entries) == DeepMerge(yamlConfig[docs], ParseEnvVariables(entries))

\* Files that parse, every section there, and values the schema takes.
Loads(docs, entries) ==
  /\ \A n \in DOMAIN docs : docs[n] # Malformed
  /\ \A x \in Section :
       /\ Merged(docs, entries)[x].shape = "object"
       /\ \A k \in Key : /\ Merged(docs, entries)[x].of[k] # Bad
                         /\ <<x, k>> \in Required => Merged(docs, entries)[x].of[k] # Unset

\* get: the value at a path of what is served.
ResolvePath(path) == served[path[1]].of[path[2]]

Lookup(entries, name) ==
  IF \E n \in DOMAIN entries : entries[n].name = name
  THEN entries[CHOOSE n \in DOMAIN entries : entries[n].name = name].value ELSE Unset

\* The entries at some places of a file, in their order: there is one such sequence.
Picked(file, places) ==
  {[n \in DOMAIN f |-> file[f[n]]] :
     f \in {f \in [1..Cardinality(places) -> places] :
             /\ \A m, n \in DOMAIN f : m < n => f[m] < f[n]
             /\ \A place \in places : \E n \in DOMAIN f : f[n] = place}}

\* dotenv.config adds the file's variables to the environment, those it has
\* already only if they are to be overridden.
Dotenv(entries, file, override) ==
  LET value(e) == IF override /\ Lookup(file, e.name) # Unset THEN Lookup(file, e.name) ELSE e.value
      new == {n \in DOMAIN file : Lookup(entries, file[n].name) = Unset}
  IN  {[n \in DOMAIN entries |-> [entries[n] EXCEPT !.value = value(entries[n])]] \o added :
         added \in Picked(file, new)}

-----------------------------------------------------------------------------
ConfigurationInit ==
  /\ running = FALSE
  /\ files \in [1..2 -> Documents]
  /\ envFile \in EnvFiles
  /\ base = <<>> /\ env = <<>>
  /\ served = NoConfiguration
  /\ fresh = FALSE

\* The constructor; a process that cannot load its configuration exits.
Start ==
  /\ ~running
  /\ base' \in Environments
  /\ env' \in Dotenv(base', envFile, FALSE)
  /\ running' = Loads(files, env')
  /\ fresh' = running'
  /\ served' = IF running' THEN Merged(files, env') ELSE NoConfiguration
  /\ UNCHANGED <<files, envFile>>

Stop ==
  /\ running
  /\ running' = FALSE /\ fresh' = FALSE /\ served' = NoConfiguration
  /\ base' = <<>> /\ env' = <<>>
  /\ UNCHANGED <<files, envFile>>

EditFile(n, doc) ==
  /\ files' = [files EXCEPT ![n] = doc]
  /\ fresh' = FALSE
  /\ UNCHANGED <<running, envFile, base, env, served>>

EditEnvFile(entries) ==
  /\ envFile' = entries
  /\ fresh' = FALSE
  /\ UNCHANGED <<running, files, base, env, served>>

\* Mutant: the variables that are set already are left alone, as at the start.
ReloadWithoutOverride ==
  /\ running
  /\ env' \in Dotenv(env, envFile, FALSE)
  /\ fresh' = Loads(files, env')
  /\ served' = IF fresh' THEN Merged(files, env') ELSE served
  /\ UNCHANGED <<running, files, envFile, base>>

\* reload throws and keeps what is served if the new configuration is not valid;
\* the environment stays overridden.
Reload ==
  /\ running
  /\ env' \in Dotenv(env, envFile, TRUE)
  /\ fresh' = Loads(files, env')
  /\ served' = IF fresh' THEN Merged(files, env') ELSE served
  /\ UNCHANGED <<running, files, envFile, base>>

ConfigurationNext ==
  \/ Start \/ Stop \/ Reload
  \/ \E n \in DOMAIN files, doc \in Documents : EditFile(n, doc)
  \/ \E entries \in EnvFiles : EditEnvFile(entries)

ConfigurationSpec == ConfigurationInit /\ [][ConfigurationNext]_configurationVars

-----------------------------------------------------------------------------
\* After a reload the process serves what it would if it were started again, unless
\* the .env file contradicts the environment it was started in, a variable it set
\* earlier has left the file, or two names of the environment stand for one path
\* (configuration.service.ts, constructor and reload: dotenv overrides in one only).
ReloadLikeRestart ==
  \A again \in Dotenv(base, envFile, FALSE) :
    LET contradicts == \E v \in Variable : Unset \notin {Lookup(base, v), Lookup(envFile, v)}
                                            /\ Lookup(base, v) # Lookup(envFile, v)
        lingers == \E v \in Variable : Lookup(env, v) # Lookup(again, v) /\ Lookup(envFile, v) = Unset
        twoNames == \E v, w \in Variable : /\ v # w /\ PathOf[v] = PathOf[w]
                                           /\ Unset \notin {PathOf[v], Lookup(env, v), Lookup(env, w)}
    IN  running /\ fresh /\ ~contradicts /\ ~lingers /\ ~twoNames =>
          Loads(files, again) /\ served = Merged(files, again)

\* The environment overrides the files, whatever they hold, as long as the section it
\* names is not a scalar or empty in the files: then the variable is silently dropped
\* (configuration.loader.ts, loadAndValidateConfig; configuration.utils.ts, deepMerge).
EnvironmentWins ==
  running /\ fresh =>
    \A path \in Section \X Key :
      Last(env, path) # Unset /\ yamlConfig[files][path[1]].shape # "scalar"
        => ResolvePath(path) = Last(env, path)
=============================================================================
