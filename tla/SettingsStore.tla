---------------------------- MODULE SettingsStore ----------------------------
(***************************************************************************)
(* The operations that change the settings: the dashboard's save, the      *)
(* models endpoint (which rewrites the settings with what it fetched), the *)
(* companion's ApplySettings, the start command's initialisation, the      *)
(* rewriting of the port and the restoration.  They read the settings      *)
(* file, wait for the gateway, and write the keyring, the file, Claude's   *)
(* configuration and the cache one after the other, with no lock.          *)
(*                                                                         *)
(* The settings are reduced to what decides where requests go: the gateway *)
(* (base URL and authentication scheme), the model overrides, the          *)
(* reference to the key, the models last fetched and the proxy's token.    *)
(***************************************************************************)
EXTENDS Naturals

CONSTANTS
  Ops,       \* the requests and commands
  Kinds,     \* what they may be, a subset of Kind
  Gateways,  \* gateways: <<base URL, scheme>>
  Prefs,     \* model overrides
  Keys,      \* API keys
  NoKey, NoModels, Absent, Keep,
  Unreadable \* a settings file of no known format

Kind == {"save", "models", "refresh", "apply", "start", "port", "restore"}

ASSUME KindsAssumption == Kinds \subseteq Kind
ASSUME SentinelAssumption ==
  /\ NoKey \notin Keys /\ Keep \notin Gateways \cup Prefs \cup Keys
  /\ {"installed", "default"} \cap Ops = {}
  /\ Keep \notin {"installed", "default"} /\ NoModels \notin [gw : Gateways, key : Keys \cup {NoKey}]

Token    == {"installed", "default"} \cup Ops
Origin   == [gw : Gateways, key : Keys \cup {NoKey}]
Models   == Origin \cup {NoModels}
Settings == [gw : Gateways, prefs : Prefs, ref : BOOLEAN, models : Models,
             token : Token]
Input    == [gw : Gateways, prefs : Prefs \cup {Keep}, key : Keys \cup {Keep}]

\* Settings of the flat format of old, or with a key that is no reference to the
\* keyring (none, or one in plain text): each value is given, or Keep.
Relic == [gw : Gateways \cup {Keep}, prefs : Prefs \cup {Keep},
          key : {"ref", "plain"}, token : {"installed", Keep}]

ASSUME AbsentAssumption ==
  /\ Absent \notin Settings \cup Relic \cup Input \cup {Unreadable}
  /\ Unreadable \notin Relic

VARIABLES
  file,     \* the settings file; Absent if there is none, or a relic
  relic,    \* what the file holds that is not of this format: Absent, Unreadable
  keyring,  \* the one entry of the OS keyring
  cache,    \* core's models cache: its key and what it holds
  claude,   \* the managed configuration file: token and inferenceModels
  adopted,  \* deploymentMode is 3p and _meta.json names the configuration
  kind, pc, \* what each operation is, and where
  input,    \* what the dashboard asked for
  own,      \* the settings it holds in memory, or Claude's configuration
  key,      \* the key it holds
  \* History
  past,     \* the operations that had ended when this one began
  was,      \* the relic or the settings it found, if they could be read
  lost      \* a start went on without a token: the file had none, or was not read

stores == <<file, relic, keyring, cache, claude, adopted>>
vars   == <<stores, kind, pc, input, own, key, past, was, lost>>

Cached == [gw : Gateways, prefs : Prefs, from : Origin]
Claude == [token : Token, models : Models]
Label  == {"idle", "load", "key", "existing", "fetch", "clear", "lookup", "check",
           "ensure", "migrate", "protect", "protect-fetched", "drop", "drop-fetched",
           "file", "file-fetched", "claude", "claude-fetched", "adopt", "adopt-fetched",
           "store", "read", "port", "unmanage", "remove", "ok", "err"}

ASSUME CacheAssumption == Absent \notin Cached \cup Claude

Ended(p)  == pc[p] \in {"ok", "err"}

Init ==
  /\ \/ file \in {s \in Settings : s.models = NoModels /\ s.token = "installed"}
        /\ relic = Absent
     \/ file = Absent /\ relic \in Relic \cup {Unreadable}
  /\ keyring \in IF (file # Absent /\ file.ref) \/ (relic \in Relic /\ relic.key = "ref")
                 THEN Keys ELSE {NoKey}
  /\ cache = Absent
  /\ \/ claude = Absent /\ adopted = FALSE
     \/ claude = [token |-> "installed", models |-> NoModels] /\ adopted = TRUE
  /\ lost = (relic = Unreadable \/ (relic \in Relic /\ relic.token = Keep))
  /\ kind = [p \in Ops |-> "none"]
  /\ pc = [p \in Ops |-> "idle"]
  /\ input = [p \in Ops |-> Absent]
  /\ own = [p \in Ops |-> Absent]
  /\ key = [p \in Ops |-> NoKey]
  /\ past = [p \in Ops |-> {}]
  /\ was = [p \in Ops |-> Absent]

Go(p, label) == pc' = [pc EXCEPT ![p] = label]
Fail(p)      == Go(p, "err") /\ UNCHANGED <<stores, own, key>>
History      == UNCHANGED <<was, lost>>
Held         == UNCHANGED <<kind, input, past>> /\ History

First(k) == CASE k = "save"    -> "load"
              [] k = "models"  -> "load"
              [] k = "refresh" -> "clear"
              [] k = "apply"   -> "check"
              [] k = "start"   -> "ensure"
              [] k = "port"    -> "read"
              [] k = "restore" -> "unmanage"

\* require_proxy_authorization lets a request in only while there is a
\* settings file with a token; start, install and restore are commands of the CLI.
Begin(p) ==
  /\ pc[p] = "idle"
  /\ \E k \in Kinds :
       /\ file # Absent \/ k \in {"start", "port", "restore"}
       /\ kind' = [kind EXCEPT ![p] = k]
       /\ Go(p, First(k))
       /\ IF k \in {"save", "apply"}
          THEN \E i \in Input :
                 /\ k = "apply" => i.prefs = Keep
                 /\ input' = [input EXCEPT ![p] = i]
          ELSE UNCHANGED input
  /\ past' = [past EXCEPT ![p] = {q \in Ops : Ended(q)}]
  /\ UNCHANGED <<stores, own, key>> /\ History

\* apply_optional: what the dashboard leaves out stays as it is.
Given(asked, there) == IF asked = Keep THEN there ELSE asked

-----------------------------------------------------------------------------
(* update_dashboard_settings and save_or_refresh, up to the gateway        *)

\* Without a file the defaults are updated: no key, the default token.
SaveLoad(p) ==
  /\ kind[p] = "save" /\ pc[p] = "load"
  /\ \E prefs \in IF file = Absent THEN Prefs ELSE {file.prefs} :
       own' = [own EXCEPT ![p] =
         [gw     |-> input[p].gw,
          prefs  |-> Given(input[p].prefs, prefs),
          ref    |-> file # Absent /\ file.ref,
          models |-> NoModels,
          token  |-> IF file = Absent THEN "default" ELSE file.token]]
  /\ Go(p, "key")
  /\ UNCHANGED <<stores, key>> /\ Held

\* A blank key means the one in the keyring, if the settings refer to it.
SaveKey(p) ==
  /\ kind[p] = "save" /\ pc[p] = "key"
  /\ IF input[p].key = Keep /\ own[p].ref /\ keyring = NoKey
     THEN Fail(p)
     ELSE /\ key' = [key EXCEPT ![p] =
               CASE input[p].key # Keep -> input[p].key
                 [] input[p].key = Keep /\ own[p].ref -> keyring
                 [] OTHER -> NoKey]
          /\ Go(p, "existing")
          /\ UNCHANGED <<stores, own>>
  /\ Held

\* Mutant: every save generates a token.
TokenAfter_Fresh(p) == p

\* The token of the settings there are, or a new one.
TokenAfter(p) ==
  IF file # Absent /\ file.token # "default" THEN file.token ELSE p

\* save_or_refresh loads the settings a second time: from these come the
\* token, the models to fall back on, and a key if the first had none.
SaveExisting(p) ==
  /\ kind[p] = "save" /\ pc[p] = "existing"
  /\ IF key[p] = NoKey /\ file # Absent /\ file.ref /\ keyring = NoKey
     THEN Fail(p)
     ELSE /\ key' = [key EXCEPT ![p] =
               IF key[p] = NoKey /\ file # Absent /\ file.ref THEN keyring ELSE @]
          /\ own' = [own EXCEPT ![p].token = TokenAfter(p),
                                ![p].models = IF file = Absent THEN NoModels
                                                               ELSE file.models]
          /\ Go(p, "fetch")
          /\ UNCHANGED stores
  /\ Held

-----------------------------------------------------------------------------
(* handle_models, up to the gateway                                        *)

\* handle_dashboard_rpc, FetchModels.
RefreshClear(p) ==
  /\ kind[p] = "refresh" /\ pc[p] = "clear"
  /\ cache' = Absent
  /\ Go(p, "load")
  /\ UNCHANGED <<file, relic, keyring, claude, adopted, own, key>> /\ Held

Reads(p) == kind[p] \in {"models", "refresh"}

ModelsLoad(p) ==
  /\ Reads(p) /\ pc[p] = "load"
  /\ IF file = Absent
     THEN Fail(p)
     ELSE /\ own' = [own EXCEPT ![p] = file]
          /\ Go(p, "lookup")
          /\ UNCHANGED <<stores, key>>
  /\ Held

Hit(p) == cache # Absent /\ cache.gw = own[p].gw /\ cache.prefs = own[p].prefs

ModelsLookup(p) ==
  /\ Reads(p) /\ pc[p] = "lookup"
  /\ Go(p, IF Hit(p) THEN "ok" ELSE "key")
  /\ UNCHANGED <<stores, own, key>> /\ Held

ModelsKey(p) ==
  /\ Reads(p) /\ pc[p] = "key"
  /\ IF own[p].ref /\ keyring = NoKey
     THEN Fail(p)
     ELSE /\ key' = [key EXCEPT ![p] = IF own[p].ref THEN keyring ELSE NoKey]
          /\ Go(p, "fetch")
          /\ UNCHANGED <<stores, own>>
  /\ Held

-----------------------------------------------------------------------------
(* The gateway                                                             *)

Fetched(p) == [gw |-> own[p].gw, key |-> key[p]]

FetchSucceeds(p) ==
  /\ pc[p] = "fetch"
  /\ own' = [own EXCEPT ![p].models = Fetched(p)]
  /\ Go(p, IF kind[p] = "save" THEN "protect-fetched" ELSE "file")
  /\ UNCHANGED <<stores, key>> /\ Held

\* A save goes on without models, keeping the ones of the settings it found;
\* it fails if OpenRouter rejects the key.
FetchFails(p) ==
  /\ pc[p] = "fetch"
  /\ \/ Fail(p)
     \/ /\ kind[p] = "save"
        /\ Go(p, "protect")
        /\ UNCHANGED <<stores, own, key>>
  /\ Held

-----------------------------------------------------------------------------
(* companion_daemon::handle_rpc_logic, ApplySettings                       *)

ApplyCheck(p) ==
  /\ kind[p] = "apply" /\ pc[p] = "check"
  /\ IF file = Absent
     THEN Fail(p)
     ELSE Go(p, "load") /\ UNCHANGED <<stores, own, key>>
  /\ Held

\* get_launcher_settings().unwrap_or_default(), a second read.
ApplyLoad(p) ==
  /\ kind[p] = "apply" /\ pc[p] = "load"
  /\ \E prefs \in Prefs :
       own' = [own EXCEPT ![p] =
         IF file # Absent
         THEN [file EXCEPT !.gw = input[p].gw]
         ELSE [gw |-> input[p].gw, prefs |-> prefs, ref |-> FALSE,
               models |-> NoModels, token |-> "default"]]
  /\ key' = [key EXCEPT ![p] = Given(input[p].key, NoKey)]
  /\ Go(p, IF input[p].key = Keep THEN "file" ELSE "protect")
  /\ UNCHANGED stores /\ Held

-----------------------------------------------------------------------------
(* ensure_launcher_settings                                                *)

Defaults(p) ==
  {s \in Settings : ~s.ref /\ s.models = NoModels /\ s.token = p}

\* into_settings: what is given is taken, a key in plain text is dropped, and the
\* rest is a default.
Migrations(old) ==
  {s \in Settings :
     /\ s.gw = Given(old.gw, s.gw) /\ s.prefs = Given(old.prefs, s.prefs)
     /\ s.ref = (old.key = "ref") /\ s.models = NoModels
     /\ s.token = Given(old.token, "default")}

\* The defaults, or the settings there are, with a token of their own.
StartLoad(p) ==
  /\ kind[p] = "start" /\ pc[p] = "ensure"
  /\ CASE relic \in Relic      -> /\ \E s \in Migrations(relic) : own' = [own EXCEPT ![p] = s]
                                  /\ Go(p, "migrate")
       [] relic = Unreadable \/ (relic = Absent /\ file = Absent) ->
                                  /\ \E s \in Defaults(p) : own' = [own EXCEPT ![p] = s]
                                  /\ Go(p, "file")
       [] OTHER                -> /\ own' = [own EXCEPT ![p] = [file EXCEPT !.token = TokenAfter(p)]]
                                  /\ Go(p, "file")
  /\ was' = [was EXCEPT ![p] = CASE relic \in Relic -> relic
                                 [] relic = Absent -> file
                                 [] OTHER -> Absent]
  /\ UNCHANGED <<stores, key, kind, input, past, lost>>

\* load_launcher_settings writes what it has migrated; if that fails, start has
\* no settings and goes on with the defaults.
Migrate(p) ==
  /\ pc[p] = "migrate"
  /\ \/ /\ file' = own[p] /\ relic' = Absent
        /\ own' = [own EXCEPT ![p].token = IF @ = "default" THEN p ELSE @]
        /\ History
     \/ /\ \E s \in Defaults(p) : own' = [own EXCEPT ![p] = s]
        /\ was' = [was EXCEPT ![p] = Absent] /\ lost' = TRUE
        /\ UNCHANGED <<file, relic>>
  /\ Go(p, "file")
  /\ UNCHANGED <<keyring, cache, claude, adopted, key, kind, input, past>>

-----------------------------------------------------------------------------
(* The stores                                                              *)

\* protect_secret, which leaves the keyring alone when there is no key.
Protect(p) ==
  /\ pc[p] \in {"protect", "protect-fetched"}
  /\ \/ key[p] # NoKey /\ Fail(p)
     \/ /\ keyring' = IF key[p] = NoKey THEN keyring ELSE key[p]
        /\ own' = [own EXCEPT ![p].ref = key[p] # NoKey]
        /\ Go(p, CASE kind[p] = "apply" -> "file"
                   [] kind[p] # "apply" /\ pc[p] = "protect" -> "drop"
                   [] OTHER -> "drop-fetched")
        /\ UNCHANGED <<file, relic, cache, claude, adopted, key>>
  /\ Held

\* clear_models_cache of a save.
DropCache(p) ==
  /\ pc[p] \in {"drop", "drop-fetched"}
  /\ cache' = Absent
  /\ Go(p, IF pc[p] = "drop" THEN "file" ELSE "file-fetched")
  /\ UNCHANGED <<file, relic, keyring, claude, adopted, own, key>> /\ Held

\* save_launcher_settings: the whole file, from what the operation holds.
WriteFile(p) ==
  /\ pc[p] \in {"file", "file-fetched"}
  /\ \/ Fail(p)
     \/ /\ file' = own[p] /\ relic' = Absent
        /\ Go(p, CASE kind[p] \in {"apply", "start"} -> "ok"
                   [] Reads(p) \/ pc[p] = "file-fetched" -> "claude-fetched"
                   [] OTHER -> "claude")
        /\ UNCHANGED <<keyring, cache, claude, adopted, own, key>>
  /\ Held

\* Mutant: the models on record stand in for a list that was not fetched.
Inference_OnRecord(p) == own[p].models

\* inference_models is empty when a save did not fetch any.
Inference(p) == IF pc[p] = "claude-fetched" THEN own[p].models ELSE NoModels

\* write_config_to_all_paths.
WriteClaude(p) ==
  /\ pc[p] \in {"claude", "claude-fetched"}
  /\ \/ Fail(p)
     \/ /\ claude' = [token |-> own[p].token, models |-> Inference(p)]
        /\ Go(p, CASE Reads(p) -> "store"
                   [] pc[p] = "claude" -> "adopt"
                   [] OTHER -> "adopt-fetched")
        /\ UNCHANGED <<file, relic, keyring, cache, adopted, own, key>>
  /\ Held

\* remove_anthropic_base_url_env, apply_3p_deployment_mode and
\* write_managed_meta_to_all_paths.
Adopt(p) ==
  /\ pc[p] \in {"adopt", "adopt-fetched"}
  /\ \/ Fail(p)
     \/ /\ adopted' = TRUE
        /\ Go(p, IF pc[p] = "adopt" THEN "ok" ELSE "store")
        /\ UNCHANGED <<file, relic, keyring, cache, claude, own, key>>
  /\ Held

\* Mutant: the entry is filed under the settings of the moment.
Entry_OfTheMoment(p) ==
  IF file = Absent THEN Absent
  ELSE [gw |-> file.gw, prefs |-> file.prefs, from |-> own[p].models]

Entry(p) == [gw |-> own[p].gw, prefs |-> own[p].prefs, from |-> own[p].models]

\* store_models_cache.
StoreCache(p) ==
  /\ pc[p] = "store"
  /\ cache' = Entry(p)
  /\ Go(p, "ok")
  /\ UNCHANGED <<file, relic, keyring, claude, adopted, own, key>> /\ Held

-----------------------------------------------------------------------------
(* update_config_port, with which install ends, and resync_from_official.  *)

\* There may be no configuration yet.
PortRead(p) ==
  /\ pc[p] = "read"
  /\ \/ Fail(p)
     \/ /\ own' = [own EXCEPT ![p] = claude]
        /\ Go(p, IF claude = Absent THEN "ok" ELSE "port")
        /\ UNCHANGED <<stores, key>>
  /\ Held

\* The configuration as it was read, but for the port.
PortWrite(p) ==
  /\ pc[p] = "port"
  /\ \/ Fail(p)
     \/ /\ claude' = own[p]
        /\ Go(p, "ok")
        /\ UNCHANGED <<file, relic, keyring, cache, adopted, own, key>>
  /\ Held

-----------------------------------------------------------------------------
(* restore_official_config                                                 *)

\* remove_managed_config_from_all_paths, the environment, the 1p mode.
Unmanage(p) ==
  /\ pc[p] = "unmanage"
  /\ \/ Fail(p)
     \/ /\ claude' = Absent /\ adopted' = FALSE
        /\ Go(p, "remove")
        /\ UNCHANGED <<file, relic, keyring, cache, own, key>>
  /\ Held

RemoveFile(p) ==
  /\ pc[p] = "remove"
  /\ \/ Fail(p)
     \/ /\ file' = Absent /\ relic' = Absent
        /\ Go(p, "ok")
        /\ UNCHANGED <<keyring, cache, claude, adopted, own, key>>
  /\ Held

Finished ==
  /\ \A p \in Ops : Ended(p) \/ (pc[p] = "idle" /\ file = Absent)
  /\ UNCHANGED vars

-----------------------------------------------------------------------------

Step(p) ==
  \/ Begin(p)
  \/ SaveLoad(p) \/ SaveKey(p) \/ SaveExisting(p)
  \/ RefreshClear(p) \/ ModelsLoad(p) \/ ModelsLookup(p) \/ ModelsKey(p)
  \/ FetchSucceeds(p) \/ FetchFails(p)
  \/ ApplyCheck(p) \/ ApplyLoad(p) \/ StartLoad(p) \/ Migrate(p)
  \/ Protect(p) \/ DropCache(p) \/ WriteFile(p) \/ WriteClaude(p) \/ Adopt(p)
  \/ StoreCache(p) \/ PortRead(p) \/ PortWrite(p)
  \/ Unmanage(p) \/ RemoveFile(p)

Next == (\E p \in Ops : Step(p)) \/ Finished

Spec == Init /\ [][Next]_vars
-----------------------------------------------------------------------------
(* Properties                                                              *)

\* Every variable keeps its type.
TypeOK ==
  /\ file \in Settings \cup {Absent} /\ relic \in Relic \cup {Absent, Unreadable}
  /\ keyring \in Keys \cup {NoKey}
  /\ cache \in Cached \cup {Absent}
  /\ claude \in Claude \cup {Absent}
  /\ adopted \in BOOLEAN
  /\ own \in [Ops -> Settings \cup Claude \cup {Absent}]
  /\ key \in [Ops -> Keys \cup {NoKey}]
  /\ kind \in [Ops -> Kind \cup {"none"}] /\ pc \in [Ops -> Label]
  /\ input \in [Ops -> Input \cup {Absent}]
  /\ past \in [Ops -> SUBSET Ops]
  /\ was \in [Ops -> Settings \cup Relic \cup {Absent}] /\ lost \in BOOLEAN

Restored == \E p \in Ops : kind[p] = "restore"

\* As long as nobody restores the official configuration, Claude is never
\* given a token the proxy would refuse: whatever operations overlap and
\* wherever they fail, the configuration written for it and the settings file
\* carry the same one. Not if the file found had no token or could not be
\* read or migrated: start then makes one up, whatever Claude was given.
TokenAgrees ==
  (~Restored /\ ~lost /\ claude # Absent) =>
    claude.token = IF relic = Absent THEN file.token ELSE relic.token

\* A cache hit never serves the models of another gateway than the one of the
\* settings it was looked up for, however late an entry is stored.
CacheServesItsGateway == cache # Absent => cache.from.gw = cache.gw

\* It has run alone, and nothing began after it: whatever else has ever begun
\* had ended when it began.
Last(p) == \A q \in Ops : q # p /\ pc[q] # "idle" => q \in past[p]

\* The stores hold what the save p was given: the file and the keyring its
\* gateway and key, Claude's configuration the file's token and no models but
\* the file's, and the cache nothing older than the save.
Saved(p) ==
  /\ file = own[p] /\ file.gw = input[p].gw
  /\ input[p].key # Keep => (file.ref /\ keyring = input[p].key)
  /\ adopted /\ claude # Absent /\ claude.token = file.token
  /\ claude.models \in {NoModels, file.models}
  /\ claude.models # NoModels => claude.models.gw = file.gw
  /\ cache # Absent => (cache.from = file.models /\ cache.prefs = file.prefs)

\* The settings are what the start p has found, a relic's too, in the format of
\* today, with no key in it and a token that is not the default.
Kept(p) ==
  LET old == was[p] IN
    /\ relic = Absent /\ file # Absent /\ file.token # "default"
    /\ old # Absent =>
         /\ file.gw = Given(old.gw, file.gw) /\ file.prefs = Given(old.prefs, file.prefs)
         /\ file.ref = IF old \in Relic THEN old.key = "ref" ELSE old.ref

\* An edit that runs alone and returns 200 is in force in all five stores: the
\* save everywhere, and after a restoration neither settings nor configuration.
\* A start that runs alone keeps the settings it can read.
EditInForce ==
  \A p \in Ops : pc[p] = "ok" /\ Last(p) =>
    /\ kind[p] = "save" => Saved(p)
    /\ kind[p] = "restore" => (file = Absent /\ relic = Absent /\ claude = Absent /\ ~adopted)
    /\ kind[p] = "start"   => Kept(p)

-----------------------------------------------------------------------------
(* The inductive invariant                                                 *)

\* Where an operation holds settings in memory, and where these carry the
\* models it has fetched from their own gateway.
Holding ==
  {"key", "existing", "fetch", "lookup", "migrate", "protect", "protect-fetched", "drop",
   "drop-fetched", "file", "file-fetched", "claude", "claude-fetched", "adopt",
   "adopt-fetched", "store"}
Fresh ==
  {"protect-fetched", "drop-fetched", "file-fetched", "claude-fetched", "adopt-fetched", "store"}

\* Which operations come by a label, and what they hold there.
Placed(p) ==
  /\ IF pc[p] = "idle" THEN kind[p] = "none" ELSE kind[p] \in Kind
  /\ pc[p] \in {"existing", "protect-fetched", "drop", "drop-fetched", "file-fetched",
                "claude", "adopt", "adopt-fetched"} => kind[p] = "save"
  /\ pc[p] = "protect" => kind[p] \in {"save", "apply"}
  /\ pc[p] \in {"key", "fetch", "claude-fetched", "store"} => kind[p] = "save" \/ Reads(p)
  /\ pc[p] = "lookup" => Reads(p)
  /\ pc[p] = "file" => kind[p] \in {"save", "apply", "start"} \/ Reads(p)
  /\ pc[p] = "load" => kind[p] \in {"save", "apply"} \/ Reads(p)
  /\ pc[p] \in {"ensure", "migrate"} => kind[p] = "start"
  /\ pc[p] \in {"unmanage", "remove"} => kind[p] = "restore"
  /\ pc[p] \in {"read", "port"} => kind[p] = "port"
  /\ kind[p] \in {"save", "apply"} => input[p] \in Input
  /\ pc[p] \in Holding \/ (pc[p] = "ok" /\ kind[p] \in {"save", "start"}) => own[p] \in Settings
  /\ pc[p] = "port" => own[p] \in Claude
  /\ pc[p] \in Fresh \/ (pc[p] = "file" /\ Reads(p)) =>
       own[p].models \in Origin /\ own[p].models.gw = own[p].gw

\* A file of today's format replaces the relic, and only a restoration takes it
\* away from the operations that were let in because of it.
FileKept ==
  /\ relic = Absent \/ file = Absent
  /\ ~Restored => \A p \in Ops : kind[p] \in {"save", "models", "refresh", "apply"} => file # Absent

\* Nothing there is carries another token than the one of the installation.
OneToken ==
  ~Restored /\ ~lost =>
    /\ IF relic = Absent THEN file # Absent /\ file.token = "installed"
                         ELSE relic \in Relic /\ relic.token = "installed"
    /\ claude # Absent => claude.token = "installed"
    /\ \A p \in Ops : pc[p] \in Holding \cup {"port"} => own[p].token = "installed"

PastEnded == \A p \in Ops : \A q \in past[p] : Ended(q)

\* What a save has put in place by the time it is at a label.
SaveStage(p) ==
  /\ pc[p] \in Holding \cup {"ok"} => own[p].gw = input[p].gw
  /\ (pc[p] \in (Holding \ {"key"}) \cup {"ok"} /\ input[p].key # Keep) => key[p] = input[p].key
  /\ (pc[p] \in {"drop", "drop-fetched", "file", "file-fetched", "claude", "claude-fetched",
                 "adopt", "adopt-fetched", "store", "ok"} /\ input[p].key # Keep)
       => own[p].ref /\ keyring = input[p].key
  /\ pc[p] \in {"file", "file-fetched", "claude", "claude-fetched", "adopt", "adopt-fetched", "store"}
       => cache = Absent
  /\ pc[p] \in {"claude", "claude-fetched", "adopt", "adopt-fetched", "store", "ok"} => file = own[p]
  /\ pc[p] \in {"adopt", "adopt-fetched", "store", "ok"} =>
       /\ claude # Absent /\ claude.token = own[p].token
       /\ claude.models = NoModels \/
            (claude.models = own[p].models /\ own[p].models.gw = own[p].gw)
  /\ pc[p] \in {"store", "ok"} => adopted
  /\ pc[p] = "ok" => cache = Absent \/ cache = Entry(p)

Carries(old, s) ==
  old # Absent =>
    /\ s.gw = Given(old.gw, s.gw) /\ s.prefs = Given(old.prefs, s.prefs)
    /\ s.ref = IF old \in Relic THEN old.key = "ref" ELSE old.ref

StartStage(p) ==
  /\ pc[p] \in {"migrate", "file", "ok"} => Carries(was[p], own[p])
  /\ pc[p] \in {"file", "ok"} => own[p].token # "default"
  /\ pc[p] = "ok" => file = own[p] /\ relic = Absent

RestoreStage(p) ==
  /\ pc[p] \in {"remove", "ok"} => claude = Absent /\ ~adopted
  /\ pc[p] = "ok" => file = Absent /\ relic = Absent

Stage(p) ==
  /\ kind[p] = "save" => SaveStage(p)
  /\ kind[p] = "start" => StartStage(p)
  /\ kind[p] = "restore" => RestoreStage(p)

IInv ==
  /\ TypeOK /\ \A p \in Ops : Placed(p)
  /\ FileKept /\ OneToken /\ CacheServesItsGateway /\ PastEnded
  /\ \A p \in Ops : Last(p) => Stage(p)
=============================================================================
