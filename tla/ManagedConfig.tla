---------------------------- MODULE ManagedConfig ----------------------------
(***************************************************************************)
(* What the commands do to Claude's own files (core/src/platform/launcher) *)
(*  - ~/.claude/settings.json of Claude Code: the managed variables of its *)
(*    "env" and autoModeEnabled, with a record of what was there before;   *)
(*  - the mirror, the profile Claude-3p of Claude Desktop, which starts as *)
(*    a copy of the official one: claude_desktop_config.json (deployment   *)
(*    mode, the mode before it, MCP servers) and configLibrary with the    *)
(*    configuration of this program and _meta.json, which says what of     *)
(*    the library is applied.                                              *)
(* A command is a list of steps.  A step is one function that reads and    *)
(* rewrites one file, which AtomicFile makes atomic, or one operation on a *)
(* directory, which is not: any step may fail, for a file that cannot be   *)
(* parsed or written, and the process may end before it.                   *)
(*                                                                         *)
(* Left out: the values of what is managed, of which only the owner counts *)
(* (the port and the token are in SettingsStore); a settings.json that is  *)
(* absent is one with nothing in it; other files of the profile.  Commands *)
(* do not overlap here: SettingsStore lets them.                           *)
(***************************************************************************)
EXTENDS Naturals, FiniteSets, Sequences, SequencesExt

CONSTANTS
  Ops,        \* the commands there are, a subset of Op
  Keys,       \* the managed variables of env; the code's three
  Other,      \* a variable of env that is not managed
  Names,      \* MCP servers
  Retired,    \* those of older releases, which are removed
  CodeFiles,  \* what the user may have in settings.json: [auto, env]
  DeskFiles,  \* what claude_desktop_config.json of the mirror may hold before:
              \* [mode, servers]
  Officials,  \* that of the official profile: the same; Absent if there is no
              \* such profile, None if it has no such file
  Libraries,  \* what _meta.json may hold before: [entries, applied]
  Own,        \* CONFIG_ID, the entry of this program
  None,       \* no value
  Absent,     \* no file, no object, no record
  Broken      \* not an object, or a file that cannot be parsed

Op == {"install", "save", "resync", "reset", "launch", "restore", "purge",
       "uninstall"}

EnvVars == Keys \cup {Other}
Modes   == {None, "1p", "3p"}
Values  == {None, "user", "managed"}
Env     == [EnvVars -> Values] \cup {Absent, Broken}
Servers == [Names -> {None, "mirror", "official"}]

Records == [auto : Values, present : BOOLEAN, env : [Keys -> Values]]
Desks   == [mode : Modes, prev : Modes \cup {Absent}, servers : Servers, own : Modes]
Entries == {Own} \cup UNION {ToSet(l.entries) : l \in Libraries}
Metas   == [entries : Seq(Entries), applied : Entries \cup {None}]
Mirrors == [desk : Desks \cup {Absent, Broken}, config : BOOLEAN, meta : Metas \cup {Absent}]

ASSUME OpsAssumption == Ops \subseteq Op /\ Retired \subseteq Names /\ Other \notin Keys
ASSUME FilesAssumption ==
  /\ CodeFiles \subseteq [auto : {None, "user"}, env : Env]
  /\ DeskFiles \cup (Officials \ {Absent, None}) \subseteq [mode : Modes, servers : Servers]
ASSUME LibrariesAssumption ==
  /\ Libraries \subseteq Metas
  /\ \A l \in Libraries :
       /\ Own \notin ToSet(l.entries) /\ None \notin ToSet(l.entries)
       /\ l.applied \in ToSet(l.entries) \cup {None}
\* What stands for something that is not there is nothing else.
ASSUME SentinelsAssumption ==
  /\ None \notin {"1p", "3p", "user", "managed", "mirror", "official", Own}
  /\ Absent \notin Modes \cup {Broken}
  /\ Absent \notin [EnvVars -> Values] /\ Broken \notin [EnvVars -> Values]
  /\ Absent \notin Records /\ Absent \notin Metas /\ Absent \notin Mirrors
  /\ Absent \notin Desks /\ Broken \notin Desks

VARIABLES
  code,     \* Claude Code's settings.json
  official, \* claude_desktop_config.json of the official profile
  mirror,   \* the mirror profile
  backup,   \* the mirror that a reset of this process has set aside
  settings, \* this program's settings file is there
  op, todo, \* the command, and the steps it still has to take; with none left
            \* it has succeeded, and one that has not leaves "none"
  held,     \* what reset has read of the library
  \* History
  recorded, \* there was a record in settings.json when an uninstall began
  mine,     \* the entries of the library that are the user's
  stranded  \* a reset was cut short, or could not be undone

profile == <<mirror, backup, stranded>>
vars == <<code, official, mirror, backup, settings, op, todo, held,
          recorded, mine, stranded>>

-----------------------------------------------------------------------------
(* settings.json: prev is the record of what was there; own (history) what *)
(* the user wrote, and taken that a removal without a record has taken     *)
(* some of it.                                                             *)

Object(env) == IF env = Absent THEN [v \in EnvVars |-> None] ELSE env

WrittenByUser(f) == [auto |-> f.auto, env |-> f.env, prev |-> Absent, own |-> f, taken |-> FALSE]

Record(c) ==
  [auto    |-> c.auto,
   present |-> c.env # Absent,
   env     |-> [k \in Keys |-> IF c.env \in {Absent, Broken} THEN None ELSE c.env[k]]]

\* Mutant: what is there is recorded anew by every command.
ApplyEnv_Again(c) ==
  [c EXCEPT !.prev = Record(c),
            !.auto = IF @ = None THEN "managed" ELSE @,
            !.env  = IF @ = Broken THEN @
                     ELSE [v \in EnvVars |-> IF v \in Keys THEN "managed" ELSE Object(c.env)[v]]]

\* apply_anthropic_base_url_env: an autoModeEnabled of the user stays.
ApplyEnv(c) ==
  [c EXCEPT !.prev = IF @ = Absent THEN Record(c) ELSE @,
            !.auto = IF @ = None THEN "managed" ELSE @,
            !.env  = IF @ = Broken THEN @
                     ELSE [v \in EnvVars |-> IF v \in Keys THEN "managed" ELSE Object(c.env)[v]]]

\* restore_env_from_previous: an env that is empty and was not there goes.
RestoreEnv(c) ==
  LET env == IF c.env = Broken THEN Broken
             ELSE [v \in EnvVars |-> IF v \in Keys THEN c.prev.env[v] ELSE Object(c.env)[v]]
  IN  [c EXCEPT !.prev = Absent,
                !.auto = c.prev.auto,
                !.env  = IF env = Object(Absent) /\ ~c.prev.present THEN Absent ELSE env]

Stripped(env) ==
  IF env \in {Absent, Broken} THEN env
  ELSE [v \in EnvVars |-> IF v \in Keys THEN None ELSE env[v]]

\* Without a record the managed variables go, whoever has set them.
RemoveEnv(c) ==
  IF c.prev # Absent THEN RestoreEnv(c)
  ELSE [c EXCEPT !.env = Stripped(@), !.taken = @ \/ Stripped(c.env) # c.env]

-----------------------------------------------------------------------------
(* claude_desktop_config.json: prev is the mode recorded, own (history)    *)
(* the mode that was there before this program wrote the file.             *)

NoServers == [n \in Names |-> None]
EmptyDesk == [mode |-> None, prev |-> Absent, servers |-> NoServers, own |-> None]
FromFile(f) == [mode |-> f.mode, prev |-> Absent, servers |-> f.servers, own |-> f.mode]

HasFile == official \notin {Absent, None}

\* collect_all_mcp_servers_result and merge_mcp_servers: the mirror's come first.
Merged(servers) ==
  [n \in Names |-> IF servers[n] # None \/ ~HasFile THEN servers[n] ELSE official.servers[n]]

Without(servers, names) == [n \in Names |-> IF n \in names THEN None ELSE servers[n]]

\* Mutant: the servers of the official profile are left out.
Apply3p_Alone(d) ==
  [d EXCEPT !.prev = IF @ = Absent THEN d.mode ELSE @,
            !.mode = "3p",
            !.servers = Without(@, Retired)]

\* apply_managed_deployment_mode and strip_removed_computer_mcp.
Apply3p(d) ==
  [d EXCEPT !.prev = IF @ = Absent THEN d.mode ELSE @,
            !.mode = "3p",
            !.servers = Without(Merged(@), Retired)]

\* Mutant: the record stays.
Restore1p_Recorded(d) ==
  [d EXCEPT !.mode = IF d.prev # Absent THEN d.prev ELSE IF @ = "3p" THEN "1p" ELSE @,
            !.servers = Merged(@)]

\* restore_managed_deployment_mode.
Restore1p(d) ==
  [d EXCEPT !.mode = IF d.prev # Absent THEN d.prev ELSE IF @ = "3p" THEN "1p" ELSE @,
            !.prev = Absent,
            !.servers = Merged(@)]

-----------------------------------------------------------------------------
(* The library of the mirror.                                              *)

EmptyMirror == [desk |-> Absent, config |-> FALSE, meta |-> Absent]

\* The other entries, in their order.
Users(entries) ==
  LET kept   == {i \in DOMAIN entries : entries[i] # Own}
      Nth(k) == CHOOSE i \in kept : Cardinality({j \in kept : j =< i}) = k
  IN  [k \in 1 .. Cardinality(kept) |-> entries[Nth(k)]]

\* upsert_managed_meta_entry.
Upserted(meta) ==
  [entries |-> Append(IF meta = Absent THEN <<>> ELSE Users(meta.entries), Own),
   applied |-> Own]

\* remove_managed_meta_entry: what is applied next is the first that is left.
Removed(meta) ==
  LET rest == Users(meta.entries) IN
    [entries |-> rest,
     applied |-> IF meta.applied # Own THEN meta.applied
                 ELSE IF rest = <<>> THEN None ELSE Head(rest)]

-----------------------------------------------------------------------------

Init ==
  /\ code \in {WrittenByUser(f) : f \in CodeFiles}
  /\ official \in Officials
  /\ mirror \in {Absent} \cup
       {[desk |-> d, config |-> FALSE, meta |-> m] :
          d \in {Absent} \cup {FromFile(f) : f \in DeskFiles},
          m \in {Absent} \cup Libraries}
  /\ mine = IF mirror = Absent \/ mirror.meta = Absent THEN <<>> ELSE mirror.meta.entries
  /\ backup = Absent /\ settings = FALSE
  /\ op = "none" /\ todo = <<>> /\ held = EmptyMirror
  /\ recorded = FALSE /\ stranded = FALSE

RestoreSteps == <<"unmeta", "unconfig", "unenv", "1p", "unsettings">>

Steps(o) ==
  CASE o = "install"   -> <<"settings", "env", "port">>
    [] o = "save"      -> <<"settings", "ensure", "config", "unenv", "ensure", "3p", "meta">>
    [] o = "resync"    -> <<"copy", "load", "ensure", "3p", "env", "port">>
    [] o = "reset"     -> <<"read", "dropold", "aside", "ensure", "library", "ensure", "3p",
                            "commit">>
    [] o = "launch"    -> <<"ensure">>
    [] o = "restore"   -> RestoreSteps
    [] o = "purge"     -> RestoreSteps \o <<"data">>
    [] o = "uninstall" -> RestoreSteps \o RestoreSteps \o <<"data">>

Idle         == todo = <<>>
Succeeded(o) == Idle /\ op = o

\* The companion, by whom the profile is synchronised and reset, answers nothing
\* without settings.
Begin ==
  /\ Idle
  /\ op' \in Ops
  /\ op' \in {"resync", "reset"} => settings
  /\ todo' = Steps(op')
  /\ recorded' = (op' = "uninstall" /\ code.prev # Absent)
  /\ UNCHANGED <<code, official, profile, settings, held, mine>>

At(step) == todo # <<>> /\ Head(todo) = step

Held  == UNCHANGED <<official, recorded, mine>>
Done  == todo' = Tail(todo) /\ UNCHANGED op /\ Held
Ended == todo' = <<>> /\ op' = "none" /\ held' = EmptyMirror /\ Held

\* save_launcher_settings.
SaveSettings ==
  /\ At("settings") /\ settings' = TRUE /\ Done
  /\ UNCHANGED <<code, profile, held>>

\* Steps that read a file, or rewrite the port in one.
Look ==
  /\ At("load") \/ At("port")
  /\ Done
  /\ UNCHANGED <<code, profile, settings, held>>

ApplyBaseUrlEnv ==
  /\ At("env") /\ code' = ApplyEnv(code) /\ Done
  /\ UNCHANGED <<profile, settings, held>>

RemoveBaseUrlEnv ==
  /\ At("unenv") /\ code' = RemoveEnv(code) /\ Done
  /\ UNCHANGED <<profile, settings, held>>

OnMirror(new) ==
  /\ mirror' = new /\ Done
  /\ UNCHANGED <<code, backup, stranded, settings, held>>

-----------------------------------------------------------------------------
(* Copies of the official profile.                                         *)

Dir == IF mirror = Absent THEN EmptyMirror ELSE mirror

Copied == IF HasFile THEN [Dir EXCEPT !.desk = FromFile(official)] ELSE Dir

\* resync's copy_official_profile, which leaves configLibrary alone.
Copy == At("copy") /\ OnMirror(IF official = Absent THEN mirror ELSE Copied)

\* ensure_mirror_profile_initialized: a mirror that is there is taken as it is.
Ensure == At("ensure") /\ OnMirror(IF mirror = Absent THEN Copied ELSE mirror)

\* What a copy that fails, or is cut short, may leave: a directory with or
\* without the file, or with a part of the file.
PartCopies ==
  {mirror, Dir} \cup (IF HasFile THEN {Copied, [Dir EXCEPT !.desk = Broken]} ELSE {})

-----------------------------------------------------------------------------
(* The steps that write the mirror.                                        *)

\* write_config_to_all_paths, after its call of ensure.
WriteConfig == At("config") /\ OnMirror([Dir EXCEPT !.config = TRUE])

Readable == mirror # Absent => mirror.desk # Broken

ApplyDeploymentMode ==
  /\ At("3p") /\ Readable
  /\ OnMirror([Dir EXCEPT !.desk = Apply3p(IF @ = Absent THEN EmptyDesk ELSE @)])

RestoreDeploymentMode ==
  /\ At("1p") /\ Readable
  /\ OnMirror(IF mirror = Absent \/ mirror.desk = Absent THEN mirror
              ELSE [mirror EXCEPT !.desk = Restore1p(@)])

WriteMeta == At("meta") /\ OnMirror([Dir EXCEPT !.meta = Upserted(@)])

\* remove_managed_config_from_all_paths: _meta.json first, then the file.
RemoveMeta ==
  /\ At("unmeta")
  /\ OnMirror(IF mirror = Absent \/ mirror.meta = Absent THEN mirror
              ELSE [mirror EXCEPT !.meta = Removed(@)])

RemoveConfig ==
  /\ At("unconfig")
  /\ OnMirror(IF mirror = Absent THEN mirror ELSE [mirror EXCEPT !.config = FALSE])

\* restore_official_config removes the settings file, purge_application_data
\* the directory it was in.
RemoveSettings ==
  /\ At("unsettings") \/ At("data")
  /\ settings' = FALSE /\ Done
  /\ UNCHANGED <<code, profile, held>>

-----------------------------------------------------------------------------
(* reset_mirror_profile                                                    *)

ReadLibrary ==
  /\ At("read") /\ held' = [Dir EXCEPT !.desk = Absent] /\ Done
  /\ UNCHANGED <<code, profile, settings>>

\* A backup of an earlier reset of this process goes, if there is a mirror.
DropOld ==
  /\ At("dropold") /\ Done
  /\ backup' = IF mirror = Absent THEN backup ELSE Absent
  /\ UNCHANGED <<code, mirror, stranded, settings, held>>

SetAside ==
  /\ At("aside") /\ Done
  /\ IF mirror = Absent THEN UNCHANGED <<mirror, backup>>
     ELSE backup' = mirror /\ mirror' = Absent
  /\ UNCHANGED <<code, stranded, settings, held>>

WriteLibrary ==
  /\ At("library") /\ held' = EmptyMirror /\ Done
  /\ mirror' = [Dir EXCEPT !.config = @ \/ held.config,
                           !.meta = IF held.meta = Absent THEN @ ELSE held.meta]
  /\ UNCHANGED <<code, backup, stranded, settings>>

Commit ==
  /\ At("commit") /\ backup' = Absent /\ Done
  /\ UNCHANGED <<code, mirror, stranded, settings, held>>

\* The roll-back, whose errors are ignored.
Clear ==
  /\ At("clear") /\ mirror' = Absent /\ Done
  /\ UNCHANGED <<code, backup, stranded, settings, held>>

PutBack ==
  /\ At("putback")
  /\ Ended
  /\ IF mirror \in {Absent, EmptyMirror}
     THEN mirror' = backup /\ backup' = Absent /\ UNCHANGED stranded
     ELSE stranded' = TRUE /\ UNCHANGED <<mirror, backup>>
  /\ UNCHANGED <<code, settings>>

-----------------------------------------------------------------------------
(* Failures                                                                *)

\* The mirror after a step that fails, or is cut short: a transaction has done
\* nothing, unless it is cut short between its two files; a directory is copied
\* or removed in part.
PartMirrors(cut) ==
  CASE At("copy") /\ official # Absent  -> PartCopies
    [] At("ensure") /\ mirror = Absent  -> PartCopies
    [] At("library") /\ cut             -> {mirror, [Dir EXCEPT !.config = @ \/ held.config]}
    [] At("clear")                      -> {mirror, EmptyMirror}
    [] OTHER                            -> {mirror}

PartBackups ==
  IF backup # Absent /\ (At("commit") \/ (At("dropold") /\ mirror # Absent))
  THEN {backup, EmptyMirror} ELSE {backup}

\* The steps of reset whose error is caught.
Guarded == op = "reset" /\ (At("ensure") \/ At("library") \/ At("3p"))

\* Mutant: an error of the later steps ends the reset at once.
Fail_NoRollback ==
  /\ ~Idle /\ ~At("clear") /\ ~At("putback")
  /\ mirror' \in PartMirrors(FALSE) /\ backup' \in PartBackups
  /\ Ended
  /\ UNCHANGED <<code, settings, stranded>>

\* A step fails, and with it the command.
Fail ==
  /\ ~Idle /\ ~At("clear") /\ ~At("putback")
  /\ mirror' \in PartMirrors(FALSE) /\ backup' \in PartBackups
  /\ IF Guarded /\ backup # Absent
     THEN todo' = <<"clear", "putback">> /\ UNCHANGED <<op, held>> /\ Held
     ELSE Ended
  /\ UNCHANGED <<code, settings, stranded>>

ClearFails ==
  /\ At("clear")
  /\ mirror' \in PartMirrors(FALSE) /\ UNCHANGED backup
  /\ Done
  /\ UNCHANGED <<code, settings, held, stranded>>

PutBackFails ==
  /\ At("putback")
  /\ Ended /\ stranded' = TRUE
  /\ UNCHANGED <<code, mirror, backup, settings>>

\* The process ends: the next one gives a backup another name.
Crash ==
  /\ ~Idle \/ backup # Absent
  /\ mirror' \in PartMirrors(TRUE) /\ backup' = Absent
  /\ stranded' = (stranded \/ (backup # Absent /\ (Guarded \/ At("clear") \/ At("putback"))))
  /\ Ended
  /\ UNCHANGED <<code, settings>>

-----------------------------------------------------------------------------
(* The user                                                                *)

EditCode ==
  /\ Idle /\ code.prev = Absent
  /\ \E f \in CodeFiles : code' = WrittenByUser(f)
  /\ UNCHANGED <<official, profile, settings, op, todo, held, recorded, mine>>

\* A variable of another name is set, whatever is managed.
SetOther ==
  /\ Idle /\ code.env # Broken
  /\ code' = [code EXCEPT !.env = [Object(@) EXCEPT ![Other] = "user"],
                          !.own.env = [Object(@) EXCEPT ![Other] = "user"]]
  /\ UNCHANGED <<official, profile, settings, op, todo, held, recorded, mine>>

Next ==
  \/ Begin \/ EditCode \/ SetOther
  \/ SaveSettings \/ Look \/ ApplyBaseUrlEnv \/ RemoveBaseUrlEnv
  \/ Copy \/ Ensure \/ WriteConfig \/ ApplyDeploymentMode \/ RestoreDeploymentMode
  \/ WriteMeta \/ RemoveMeta \/ RemoveConfig \/ RemoveSettings
  \/ ReadLibrary \/ DropOld \/ SetAside \/ WriteLibrary \/ Commit \/ Clear \/ PutBack
  \/ Fail \/ ClearFails \/ PutBackFails \/ Crash

Spec == Init /\ [][Next]_vars
-----------------------------------------------------------------------------
(* Properties                                                              *)

\* What the user had in settings.json is there, or what a restoration would put
\* back, however many commands have run, failed or been cut short; except for
\* the variables that a removal without a record has taken.
EnvKept ==
  LET c == IF code.prev = Absent THEN code ELSE RestoreEnv(code) IN
    /\ c.auto = code.own.auto
    /\ \/ c.env = code.own.env
       \/ code.taken /\ c.env = Stripped(code.own.env)

\* So is the deployment mode; except that the restoration of a profile that is
\* not managed takes a 3p of the user for its own.
ModeKept ==
  \A m \in {mirror, backup} :
    (m # Absent /\ m.desk \notin {Absent, Broken}) =>
      LET mode == IF m.desk.prev = Absent THEN m.desk.mode ELSE m.desk.prev IN
        mode = m.desk.own \/ (m.desk.own = "3p" /\ mode = "1p")

\* Tests launcher/tests.rs:97 and :115 "restore keeps previous value(s)": both of
\* the above, whichever step of whichever command failed.
UsersValuesKept == EnvKept /\ ModeKept

\* docs/ARCHITECTURE.md:110: synchronisation and reset keep the library.  Its
\* entries of the user stay, in their order, through every command that ends,
\* and what _meta.json says is applied is there, at every step; unless a reset
\* was cut short or could not be undone.
LibraryKept ==
  ~stranded =>
    LET meta == IF mirror = Absent THEN Absent ELSE mirror.meta IN
      /\ Idle => mine = IF meta = Absent THEN <<>> ELSE Users(meta.entries)
      /\ (meta # Absent /\ meta.applied # None) =>
           /\ meta.applied \in ToSet(meta.entries)
           /\ meta.applied = Own => mirror.config

\* A restoration that reports success has left nothing of this program, no
\* matter what was left by commands that failed or were cut short before.
RestoreComplete ==
  (\E o \in {"restore", "purge", "uninstall"} : Succeeded(o)) =>
    /\ code.prev = Absent /\ ~settings
    /\ mirror # Absent =>
         /\ ~mirror.config
         /\ mirror.meta # Absent => Own \notin ToSet(mirror.meta.entries)
         /\ mirror.desk # Broken
         /\ mirror.desk # Absent =>
              /\ mirror.desk.prev = Absent
              /\ mirror.desk.mode = "3p" => mirror.desk.own = "3p"

\* A save, synchronisation or reset that reports success has put Claude Desktop
\* on the third-party mode with every MCP server of the official profile, even
\* on top of a copy that an earlier command left unfinished, and has kept a way
\* back.
InForce ==
  (\E o \in {"save", "resync", "reset"} : Succeeded(o)) =>
    LET desk == mirror.desk IN
      /\ desk.mode = "3p" /\ desk.prev # Absent
      /\ \A n \in Names :
           /\ n \in Retired => desk.servers[n] = None
           /\ (n \notin Retired /\ HasFile) =>
                (official.servers[n] # None => desk.servers[n] # None)
      /\ op = "save" => (mirror.config /\ mirror.meta.applied = Own)

\* README.md:323 "`uninstall` ... restores the official Claude config".
UninstallPutsBack ==
  (Succeeded("uninstall") /\ recorded) => code.env = code.own.env
=============================================================================
