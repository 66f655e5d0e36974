------------------------ MODULE SettingsStoreProofs --------------------------
(***************************************************************************)
(* What the operations on the settings guarantee for every number of them, *)
(* whatever they are given and however their steps interleave.             *)
(***************************************************************************)
EXTENDS SettingsStore, TLAPS

\* The token of the settings there are, or a new one, is a token.
LEMMA TokenAfterFacts ==
  ASSUME TypeOK, NEW p \in Ops
  PROVE  /\ TokenAfter(p) \in Token
         /\ TokenAfter(p) # "default"
         /\ file # Absent /\ file.token = "installed" => TokenAfter(p) = "installed"
BY SentinelAssumption DEF TypeOK, TokenAfter, Token, Settings

\* Settings with a field replaced are settings.
LEMMA SettingsExcept ==
  ASSUME NEW s \in Settings, NEW g \in Gateways, NEW t \in Token, NEW m \in Models, NEW r \in BOOLEAN
  PROVE  /\ [s EXCEPT !.gw = g] \in Settings /\ [s EXCEPT !.token = t] \in Settings
         /\ [s EXCEPT !.models = m] \in Settings /\ [s EXCEPT !.ref = r] \in Settings
         /\ [s EXCEPT !.token = t, !.models = m] \in Settings
BY DEF Settings

\* A step of one operation: it had not ended, and it leaves the others alone.
LEMMA Frame ==
  ASSUME TypeOK, NEW p \in Ops, Step(p)
  PROVE  /\ ~Ended(p)
         /\ \E l \in Label \ {"idle"} : pc' = [pc EXCEPT ![p] = l]
         /\ \A q \in Ops \ {p} :
              /\ pc'[q] = pc[q] /\ own'[q] = own[q] /\ key'[q] = key[q]
              /\ kind'[q] = kind[q] /\ input'[q] = input[q]
              /\ past'[q] = past[q] /\ was'[q] = was[q]
         /\ pc[p] # "idle" => UNCHANGED <<kind, input, past>>
<1>0. /\ pc \in [Ops -> Label] /\ own \in [Ops -> Settings \cup Claude \cup {Absent}]
      /\ key \in [Ops -> Keys \cup {NoKey}] /\ kind \in [Ops -> Kind \cup {"none"}]
      /\ input \in [Ops -> Input \cup {Absent}] /\ past \in [Ops -> SUBSET Ops]
      /\ was \in [Ops -> Settings \cup Relic \cup {Absent}]
  BY DEF TypeOK
<1> USE DEF Go, Fail, Held, History
<1>1. CASE Begin(p)
  <2>1. PICK k \in Kinds : kind' = [kind EXCEPT ![p] = k] /\ Go(p, First(k)) /\
               (UNCHANGED input \/ \E i \in Input : input' = [input EXCEPT ![p] = i])
    BY <1>1 DEF Begin
  <2>2. First(k) \in Label \ {"idle"}
    BY KindsAssumption DEF First, Kind, Label
  <2>3. pc[p] = "idle" /\ UNCHANGED <<own, key, was>> /\ past' = [past EXCEPT ![p] = {q \in Ops : Ended(q)}]
    BY <1>1 DEF Begin
  <2> QED
    BY <1>0, <2>1, <2>2, <2>3 DEF Ended
<1>2. ASSUME ~Ended(p), pc[p] # "idle", \E l \in Label \ {"idle"} : pc' = [pc EXCEPT ![p] = l],
             UNCHANGED <<kind, input, past>>, UNCHANGED own \/ \E x : own' = [own EXCEPT ![p] = x],
             UNCHANGED key \/ \E x : key' = [key EXCEPT ![p] = x],
             UNCHANGED was \/ \E x : was' = [was EXCEPT ![p] = x]
      PROVE  /\ ~Ended(p)
             /\ \E l \in Label \ {"idle"} : pc' = [pc EXCEPT ![p] = l]
             /\ \A q \in Ops \ {p} :
                  /\ pc'[q] = pc[q] /\ own'[q] = own[q] /\ key'[q] = key[q]
                  /\ kind'[q] = kind[q] /\ input'[q] = input[q]
                  /\ past'[q] = past[q] /\ was'[q] = was[q]
             /\ pc[p] # "idle" => UNCHANGED <<kind, input, past>>
  BY <1>0, <1>2
<1>3. CASE SaveLoad(p) \/ SaveKey(p) \/ RefreshClear(p) \/ ModelsLoad(p)
  BY <1>2, <1>3 DEF SaveLoad, SaveKey, RefreshClear, ModelsLoad, Ended, Label
<1>4. CASE SaveExisting(p)
  <2>1. UNCHANGED own \/ \E x : own' = [own EXCEPT ![p] = x]
    BY <1>4 DEF SaveExisting
  <2> QED
    BY <1>2, <1>4, <2>1 DEF SaveExisting, Ended, Label
<1>5. CASE ModelsLookup(p) \/ ModelsKey(p)
  BY <1>2, <1>5 DEF ModelsLookup, ModelsKey, Ended, Label
<1>6. CASE FetchSucceeds(p) \/ FetchFails(p) \/ ApplyCheck(p)
  BY <1>2, <1>6 DEF FetchSucceeds, FetchFails, ApplyCheck, Ended, Label
<1>7. CASE ApplyLoad(p) \/ StartLoad(p)
  BY <1>2, <1>7 DEF ApplyLoad, StartLoad, Ended, Label
<1>8. CASE Migrate(p)
  <2>1. /\ \E x : own' = [own EXCEPT ![p] = x]
        /\ UNCHANGED was \/ \E x : was' = [was EXCEPT ![p] = x]
    BY <1>8 DEF Migrate
  <2> QED
    BY <1>2, <1>8, <2>1 DEF Migrate, Ended, Label
<1>9. CASE Protect(p)
  <2>1. UNCHANGED own \/ \E x : own' = [own EXCEPT ![p] = x]
    BY <1>9 DEF Protect
  <2> QED
    BY <1>2, <1>9, <2>1 DEF Protect, Ended, Label
<1>10. CASE DropCache(p) \/ WriteFile(p) \/ WriteClaude(p) \/ Adopt(p)
  BY <1>2, <1>10 DEF DropCache, WriteFile, WriteClaude, Adopt, Ended, Label
<1>11. CASE StoreCache(p) \/ PortRead(p) \/ PortWrite(p) \/ Unmanage(p) \/ RemoveFile(p)
  BY <1>2, <1>11 DEF StoreCache, PortRead, PortWrite, Unmanage, RemoveFile, Ended, Label
<1> QED
  BY <1>1, <1>3, <1>4, <1>5, <1>6, <1>7, <1>8, <1>9, <1>10, <1>11 DEF Step
-----------------------------------------------------------------------------
(* Types, and which operation comes by a label                             *)

\* What an operation holds after its step is settings, or the configuration of
\* Claude where it is about to be written back.
LEMMA OwnStep ==
  ASSUME TypeOK, NEW p \in Ops, Placed(p), Step(p)
  PROVE  /\ own' \in [Ops -> Settings \cup Claude \cup {Absent}]
         /\ key' \in [Ops -> Keys \cup {NoKey}]
         /\ (pc[p] \in Holding \/ pc'[p] \in Holding) /\ pc'[p] # "err" => own'[p] \in Settings
<1>0. /\ own \in [Ops -> Settings \cup Claude \cup {Absent}] /\ key \in [Ops -> Keys \cup {NoKey}]
      /\ file \in Settings \cup {Absent} /\ keyring \in Keys \cup {NoKey} /\ claude \in Claude \cup {Absent}
      /\ pc[p] \in Holding => own[p] \in Settings
      /\ kind[p] \in {"save", "apply"} => input[p] \in Input
      /\ pc \in [Ops -> Label] /\ p \in Token
  BY DEF TypeOK, Placed, Token
<1>d. /\ "default" \in Token /\ NoModels \in Models /\ NoKey \in Keys \cup {NoKey}
  BY DEF Token, Models
<1> USE DEF Go, Fail, Held, History
<1>1. ASSUME UNCHANGED <<own, key>>, pc'[p] \in Holding => pc[p] \in Holding \/ pc'[p] = "err"
      PROVE  /\ own' \in [Ops -> Settings \cup Claude \cup {Absent}]
             /\ key' \in [Ops -> Keys \cup {NoKey}]
             /\ (pc[p] \in Holding \/ pc'[p] \in Holding) /\ pc'[p] # "err" => own'[p] \in Settings
  BY <1>0, <1>1 DEF Holding
<1>2. ASSUME NEW s \in Settings, own' = [own EXCEPT ![p] = s], NEW k \in Keys \cup {NoKey}, key' = [key EXCEPT ![p] = k]
      PROVE  /\ own' \in [Ops -> Settings \cup Claude \cup {Absent}]
             /\ key' \in [Ops -> Keys \cup {NoKey}]
             /\ (pc[p] \in Holding \/ pc'[p] \in Holding) /\ pc'[p] # "err" => own'[p] \in Settings
  BY <1>0, <1>2
<1>3. key[p] \in Keys \cup {NoKey} /\ key = [key EXCEPT ![p] = key[p]]
  BY <1>0
<1>4. CASE SaveLoad(p)
  <2>1. input[p] \in Input
    BY <1>0, <1>4 DEF SaveLoad
  <2>2. PICK prefs \in IF file = Absent THEN Prefs ELSE {file.prefs} :
          own' = [own EXCEPT ![p] =
            [gw     |-> input[p].gw,
             prefs  |-> Given(input[p].prefs, prefs),
             ref    |-> file # Absent /\ file.ref,
             models |-> NoModels,
             token  |-> IF file = Absent THEN "default" ELSE file.token]]
    BY <1>4 DEF SaveLoad
  <2>3. prefs \in Prefs
    BY <1>0, <2>2 DEF Settings
  <2>4. Given(input[p].prefs, prefs) \in Prefs /\ input[p].gw \in Gateways
    BY <2>1, <2>3 DEF Given, Input
  <2>5. (file # Absent /\ file.ref) \in BOOLEAN /\ (IF file = Absent THEN "default" ELSE file.token) \in Token
    BY <1>0, <1>d DEF Settings
  <2>6. [gw     |-> input[p].gw,
             prefs  |-> Given(input[p].prefs, prefs),
             ref    |-> file # Absent /\ file.ref,
             models |-> NoModels,
             token  |-> IF file = Absent THEN "default" ELSE file.token] \in Settings
    BY <1>d, <2>4, <2>5 DEF Settings
  <2>7. key' = key
    BY <1>4 DEF SaveLoad
  <2> QED
    BY <1>2, <1>3, <2>2, <2>6, <2>7
<1>5. CASE SaveKey(p)
  <2>1. input[p] \in Input /\ pc[p] \in Holding
    BY <1>0, <1>5 DEF SaveKey, Holding
  <2>2. CASE UNCHANGED <<own, key>> /\ pc' = [pc EXCEPT ![p] = "err"]
    BY <1>0, <1>1, <2>2
  <2>3. CASE UNCHANGED own /\ \E k \in Keys \cup {NoKey} : key' = [key EXCEPT ![p] = k]
    BY <1>0, <2>1, <2>3
  <2> QED
    BY <1>0, <1>5, <2>1, <2>2, <2>3 DEF SaveKey, Input
<1>6. CASE SaveExisting(p)
  <2>1. own[p] \in Settings
    BY <1>0, <1>6 DEF SaveExisting, Holding
  <2>2. CASE UNCHANGED <<own, key>> /\ pc' = [pc EXCEPT ![p] = "err"]
    BY <1>0, <1>1, <2>2
  <2>3. CASE /\ key' = [key EXCEPT ![p] = IF key[p] = NoKey /\ file # Absent /\ file.ref THEN keyring ELSE @]
             /\ own' = [own EXCEPT ![p].token = TokenAfter(p),
                                   ![p].models = IF file = Absent THEN NoModels ELSE file.models]
    <3>1. /\ TokenAfter(p) \in Token
          /\ (IF file = Absent THEN NoModels ELSE file.models) \in Models
      BY <1>0, <1>d, TokenAfterFacts DEF Settings
    <3>2. own' = [own EXCEPT ![p] = [own[p] EXCEPT !.token = TokenAfter(p),
                                                  !.models = IF file = Absent THEN NoModels ELSE file.models]]
      BY <1>0, <2>1, <2>3
    <3>3. [own[p] EXCEPT !.token = TokenAfter(p),
                        !.models = IF file = Absent THEN NoModels ELSE file.models] \in Settings
      BY <2>1, <3>1 DEF Settings
    <3>4. \E k \in Keys \cup {NoKey} : key' = [key EXCEPT ![p] = k]
      BY <1>0, <2>3
    <3> QED
      BY <1>2, <3>2, <3>3, <3>4
  <2> QED
    BY <1>6, <2>2, <2>3 DEF SaveExisting
<1>7. CASE RefreshClear(p) \/ ModelsLookup(p)
  BY <1>0, <1>1, <1>7 DEF RefreshClear, ModelsLookup, Holding
<1>8. CASE ModelsLoad(p)
  <2>1. CASE UNCHANGED <<own, key>> /\ pc' = [pc EXCEPT ![p] = "err"]
    BY <1>0, <1>1, <2>1
  <2>2. CASE file # Absent /\ own' = [own EXCEPT ![p] = file] /\ UNCHANGED key
    BY <1>0, <1>2, <1>3, <2>2
  <2> QED
    BY <1>8, <2>1, <2>2 DEF ModelsLoad
<1>9. CASE ModelsKey(p)
  <2>1. pc[p] \in Holding
    BY <1>9 DEF ModelsKey, Holding
  <2>2. CASE UNCHANGED <<own, key>> /\ pc' = [pc EXCEPT ![p] = "err"]
    BY <1>0, <1>1, <2>2
  <2>3. CASE UNCHANGED own /\ \E k \in Keys \cup {NoKey} : key' = [key EXCEPT ![p] = k]
    BY <1>0, <2>1, <2>3
  <2> QED
    BY <1>0, <1>9, <2>2, <2>3 DEF ModelsKey
<1>10. CASE FetchSucceeds(p)
  <2>1. own[p] \in Settings
    BY <1>0, <1>10 DEF FetchSucceeds, Holding
  <2>2. Fetched(p) \in Models
    BY <1>0, <2>1 DEF Fetched, Models, Origin, Settings
  <2>3. own' = [own EXCEPT ![p] = [own[p] EXCEPT !.models = Fetched(p)]] /\ UNCHANGED key
    BY <1>10 DEF FetchSucceeds
  <2>4. [own[p] EXCEPT !.models = Fetched(p)] \in Settings
    BY <2>1, <2>2 DEF Settings
  <2> QED
    BY <1>2, <1>3, <2>3, <2>4
<1>11. CASE FetchFails(p) \/ ApplyCheck(p)
  BY <1>0, <1>1, <1>11 DEF FetchFails, ApplyCheck, Holding
<1>12. CASE ApplyLoad(p)
  <2>1. input[p] \in Input
    BY <1>0, <1>12 DEF ApplyLoad
  <2>2. \E s \in Settings : own' = [own EXCEPT ![p] = s]
    <3>1. PICK prefs \in Prefs : own' = [own EXCEPT ![p] =
         IF file # Absent
         THEN [file EXCEPT !.gw = input[p].gw]
         ELSE [gw |-> input[p].gw, prefs |-> prefs, ref |-> FALSE,
               models |-> NoModels, token |-> "default"]]
      BY <1>12 DEF ApplyLoad
    <3>2. input[p].gw \in Gateways
      BY <2>1 DEF Input
    <3>3. [gw |-> input[p].gw, prefs |-> prefs, ref |-> FALSE, models |-> NoModels, token |-> "default"] \in Settings
      BY <1>d, <3>2 DEF Settings
    <3>4. file # Absent => [file EXCEPT !.gw = input[p].gw] \in Settings
      BY <1>0, <3>2 DEF Settings
    <3> QED
      BY <3>1, <3>3, <3>4
  <2>3. \E k \in Keys \cup {NoKey} : key' = [key EXCEPT ![p] = k]
    BY <1>12, <2>1 DEF ApplyLoad, Given, Input
  <2> QED
    BY <1>2, <2>2, <2>3
<1>13. CASE StartLoad(p)
  <2>1. UNCHANGED key
    BY <1>13 DEF StartLoad
  <2>2. \E s \in Settings : own' = [own EXCEPT ![p] = s]
    <3>0. relic \in Relic \/ relic = Unreadable \/ relic = Absent
      BY DEF TypeOK
    <3>1. CASE relic \in Relic
      BY <1>13, <3>1, AbsentAssumption DEF StartLoad, Migrations
    <3>3. CASE relic = Unreadable \/ (relic = Absent /\ file = Absent)
      BY <1>13, <3>3, AbsentAssumption DEF StartLoad, Defaults
    <3>2. CASE relic = Absent /\ file # Absent
      <4>1. own' = [own EXCEPT ![p] = [file EXCEPT !.token = TokenAfter(p)]]
        BY <1>13, <3>2, AbsentAssumption DEF StartLoad
      <4>2. [file EXCEPT !.token = TokenAfter(p)] \in Settings
        BY <1>0, <3>2, TokenAfterFacts DEF Settings
      <4> QED
        BY <4>1, <4>2
    <3> QED
      BY <3>0, <3>1, <3>2, <3>3
  <2> QED
    BY <1>2, <1>3, <2>1, <2>2
<1>14. CASE Migrate(p)
  <2>1. UNCHANGED key /\ own[p] \in Settings
    BY <1>0, <1>14 DEF Migrate, Holding
  <2>2. \E s \in Settings : own' = [own EXCEPT ![p] = s]
    <3>1. CASE \E s \in Defaults(p) : own' = [own EXCEPT ![p] = s]
      BY <3>1 DEF Defaults
    <3>2. CASE own' = [own EXCEPT ![p].token = IF @ = "default" THEN p ELSE @]
      <4>1. PICK t : t = IF own[p].token = "default" THEN p ELSE own[p].token
        OBVIOUS
      <4>2. own' = [own EXCEPT ![p] = [own[p] EXCEPT !.token = t]]
        BY <3>2, <4>1
      <4>3. [own[p] EXCEPT !.token = t] \in Settings
        BY <1>0, <2>1, <4>1 DEF Settings
      <4> QED
        BY <4>2, <4>3
    <3> QED
      BY <1>14, <3>1, <3>2 DEF Migrate
  <2> QED
    BY <1>2, <1>3, <2>1, <2>2
<1>15. CASE Protect(p)
  <2>1. own[p] \in Settings
    BY <1>0, <1>15 DEF Protect, Holding
  <2>2. CASE UNCHANGED <<own, key>> /\ pc' = [pc EXCEPT ![p] = "err"]
    BY <1>0, <1>1, <2>2
  <2>3. CASE own' = [own EXCEPT ![p].ref = key[p] # NoKey] /\ UNCHANGED key
    <3>1. own' = [own EXCEPT ![p] = [own[p] EXCEPT !.ref = (key[p] # NoKey)]]
      BY <2>3
    <3>2. [own[p] EXCEPT !.ref = (key[p] # NoKey)] \in Settings
      BY <2>1 DEF Settings
    <3> QED
      BY <1>2, <1>3, <2>3, <3>1, <3>2
  <2> QED
    BY <1>15, <2>2, <2>3 DEF Protect
<1>16. CASE DropCache(p) \/ WriteFile(p) \/ WriteClaude(p) \/ Adopt(p)
  BY <1>0, <1>1, <1>16 DEF DropCache, WriteFile, WriteClaude, Adopt, Holding
<1>17. CASE StoreCache(p) \/ PortWrite(p) \/ Unmanage(p) \/ RemoveFile(p)
  BY <1>0, <1>1, <1>17 DEF StoreCache, PortWrite, Unmanage, RemoveFile, Holding
<1>18. CASE PortRead(p)
  <2>1. pc[p] \notin Holding /\ pc'[p] \notin Holding /\ UNCHANGED key
    BY <1>0, <1>18 DEF PortRead, Holding
  <2>2. UNCHANGED own \/ own' = [own EXCEPT ![p] = claude]
    BY <1>18 DEF PortRead
  <2> QED
    BY <1>0, <2>1, <2>2
<1>19. CASE Begin(p)
  <2>1. PICK k \in Kinds : Go(p, First(k))
    BY <1>19 DEF Begin
  <2>2. pc'[p] \notin Holding
    BY <1>0, <2>1, KindsAssumption DEF First, Kind, Holding
  <2> QED
    BY <1>1, <1>19, <2>2 DEF Begin
<1> QED
  BY <1>4, <1>5, <1>6, <1>7, <1>8, <1>9, <1>10, <1>11, <1>12, <1>13, <1>14, <1>15, <1>16, <1>17, <1>18, <1>19 DEF Step

LEMMA StoresStep ==
  ASSUME TypeOK, NEW p \in Ops, Placed(p), Step(p)
  PROVE  /\ file' \in Settings \cup {Absent} /\ relic' \in Relic \cup {Absent, Unreadable}
         /\ keyring' \in Keys \cup {NoKey} /\ cache' \in Cached \cup {Absent}
         /\ claude' \in Claude \cup {Absent} /\ adopted' \in BOOLEAN
<1>0. /\ file \in Settings \cup {Absent} /\ relic \in Relic \cup {Absent, Unreadable}
      /\ keyring \in Keys \cup {NoKey} /\ cache \in Cached \cup {Absent}
      /\ claude \in Claude \cup {Absent} /\ adopted \in BOOLEAN
      /\ key[p] \in Keys \cup {NoKey}
      /\ pc[p] \in Holding => own[p] \in Settings
  BY DEF TypeOK, Placed
<1>1. CASE UNCHANGED stores
  BY <1>0, <1>1 DEF stores
<1>2. CASE RefreshClear(p) \/ DropCache(p)
  BY <1>0, <1>2 DEF RefreshClear, DropCache
<1>3. CASE Migrate(p) \/ WriteFile(p)
  <2>1. own[p] \in Settings
    BY <1>0, <1>3 DEF Migrate, WriteFile, Holding
  <2> QED
    BY <1>0, <1>1, <1>3, <2>1 DEF Migrate, WriteFile, Fail
<1>4. CASE Protect(p) \/ Adopt(p)
  BY <1>0, <1>1, <1>4 DEF Protect, Adopt, Fail
<1>5. CASE WriteClaude(p)
  <2>1. own[p] \in Settings
    BY <1>0, <1>5 DEF WriteClaude, Holding
  <2>2. Inference(p) \in Models
    BY <2>1 DEF Inference, Models, Settings
  <2>3. [token |-> own[p].token, models |-> Inference(p)] \in Claude
    BY <2>1, <2>2 DEF Claude, Settings
  <2> QED
    BY <1>0, <1>1, <1>5, <2>3 DEF WriteClaude, Fail
<1>6. CASE StoreCache(p)
  <2>1. own[p] \in Settings /\ own[p].models \in Origin
    BY <1>0, <1>6 DEF StoreCache, Holding, Placed, Fresh
  <2>2. Entry(p) \in Cached
    BY <2>1 DEF Entry, Cached, Settings
  <2> QED
    BY <1>0, <1>6, <2>2 DEF StoreCache
<1>7. CASE PortWrite(p)
  <2>1. own[p] \in Claude
    BY <1>7 DEF PortWrite, Placed
  <2> QED
    BY <1>0, <1>1, <1>7, <2>1 DEF PortWrite, Fail
<1>8. CASE Unmanage(p) \/ RemoveFile(p)
  BY <1>0, <1>1, <1>8 DEF Unmanage, RemoveFile, Fail
<1>9. CASE Begin(p) \/ SaveLoad(p) \/ SaveKey(p) \/ SaveExisting(p) \/ ModelsLoad(p) \/ ModelsLookup(p)
  BY <1>1, <1>9 DEF Begin, SaveLoad, SaveKey, SaveExisting, ModelsLoad, ModelsLookup, Fail
<1>10. CASE ModelsKey(p) \/ FetchSucceeds(p) \/ FetchFails(p) \/ ApplyCheck(p) \/ ApplyLoad(p)
  BY <1>1, <1>10 DEF ModelsKey, FetchSucceeds, FetchFails, ApplyCheck, ApplyLoad, Fail
<1>11. CASE StartLoad(p) \/ PortRead(p)
  BY <1>1, <1>11 DEF StartLoad, PortRead, Fail
<1> QED
  BY <1>2, <1>3, <1>4, <1>5, <1>6, <1>7, <1>8, <1>9, <1>10, <1>11 DEF Step

LEMMA TypeStep ==
  ASSUME TypeOK, NEW p \in Ops, Placed(p), Step(p)
  PROVE  TypeOK'
<1>0. /\ pc \in [Ops -> Label] /\ kind \in [Ops -> Kind \cup {"none"}]
      /\ input \in [Ops -> Input \cup {Absent}] /\ past \in [Ops -> SUBSET Ops]
      /\ was \in [Ops -> Settings \cup Relic \cup {Absent}] /\ lost \in BOOLEAN
      /\ file \in Settings \cup {Absent}
  BY DEF TypeOK
<1>1. pc' \in [Ops -> Label]
  BY <1>0, Frame
<1>2. /\ kind' \in [Ops -> Kind \cup {"none"}] /\ input' \in [Ops -> Input \cup {Absent}]
      /\ past' \in [Ops -> SUBSET Ops]
  <2>1. CASE Begin(p)
    BY <1>0, <2>1, KindsAssumption DEF Begin
  <2>2. CASE UNCHANGED <<kind, input, past>>
    BY <1>0, <2>2
  <2>3. CASE SaveLoad(p) \/ SaveKey(p) \/ SaveExisting(p) \/ RefreshClear(p) \/ ModelsLoad(p)
    BY <2>2, <2>3 DEF SaveLoad, SaveKey, SaveExisting, RefreshClear, ModelsLoad, Held
  <2>4. CASE ModelsLookup(p) \/ ModelsKey(p) \/ FetchSucceeds(p) \/ FetchFails(p) \/ ApplyCheck(p)
    BY <2>2, <2>4 DEF ModelsLookup, ModelsKey, FetchSucceeds, FetchFails, ApplyCheck, Held
  <2>5. CASE ApplyLoad(p) \/ StartLoad(p) \/ Migrate(p) \/ Protect(p) \/ DropCache(p)
    BY <2>2, <2>5 DEF ApplyLoad, StartLoad, Migrate, Protect, DropCache, Held
  <2>6. CASE WriteFile(p) \/ WriteClaude(p) \/ Adopt(p) \/ StoreCache(p)
    BY <2>2, <2>6 DEF WriteFile, WriteClaude, Adopt, StoreCache, Held
  <2>7. CASE PortRead(p) \/ PortWrite(p) \/ Unmanage(p) \/ RemoveFile(p)
    BY <2>2, <2>7 DEF PortRead, PortWrite, Unmanage, RemoveFile, Held
  <2> QED
    BY <2>1, <2>3, <2>4, <2>5, <2>6, <2>7 DEF Step
<1>3. was' \in [Ops -> Settings \cup Relic \cup {Absent}] /\ lost' \in BOOLEAN
  <2>1. CASE UNCHANGED <<was, lost>>
    BY <1>0, <2>1
  <2>2. CASE StartLoad(p)
    BY <1>0, <2>2 DEF StartLoad
  <2>3. CASE Migrate(p)
    BY <1>0, <2>3 DEF Migrate, History
  <2>4. CASE Begin(p) \/ SaveLoad(p) \/ SaveKey(p) \/ SaveExisting(p) \/ RefreshClear(p) \/ ModelsLoad(p)
    BY <2>1, <2>4 DEF Begin, SaveLoad, SaveKey, SaveExisting, RefreshClear, ModelsLoad, Held, History
  <2>5. CASE ModelsLookup(p) \/ ModelsKey(p) \/ FetchSucceeds(p) \/ FetchFails(p) \/ ApplyCheck(p)
    BY <2>1, <2>5 DEF ModelsLookup, ModelsKey, FetchSucceeds, FetchFails, ApplyCheck, Held, History
  <2>6. CASE ApplyLoad(p) \/ Protect(p) \/ DropCache(p) \/ WriteFile(p) \/ WriteClaude(p) \/ Adopt(p)
    BY <2>1, <2>6 DEF ApplyLoad, Protect, DropCache, WriteFile, WriteClaude, Adopt, Held, History
  <2>7. CASE StoreCache(p) \/ PortRead(p) \/ PortWrite(p) \/ Unmanage(p) \/ RemoveFile(p)
    BY <2>1, <2>7 DEF StoreCache, PortRead, PortWrite, Unmanage, RemoveFile, Held, History
  <2> QED
    BY <2>2, <2>3, <2>4, <2>5, <2>6, <2>7 DEF Step
<1> QED
  BY <1>1, <1>2, <1>3, OwnStep, StoresStep DEF TypeOK

\* Every label is entered only by the operations that may come by it.
LEMMA PlacedStep ==
  ASSUME TypeOK, \A q \in Ops : Placed(q), NEW p \in Ops, Step(p)
  PROVE  \A q \in Ops : Placed(q)'
<1>1. ASSUME NEW q \in Ops, q # p
      PROVE  Placed(q)'
  <2>1. /\ pc'[q] = pc[q] /\ kind'[q] = kind[q] /\ input'[q] = input[q] /\ own'[q] = own[q]
    BY <1>1, Frame
  <2> QED
    BY <2>1 DEF Placed, Reads
<1>2. Placed(p)'
  <2>0. /\ pc \in [Ops -> Label] /\ kind \in [Ops -> Kind \cup {"none"}] /\ Placed(p)
        /\ input \in [Ops -> Input \cup {Absent}]
        /\ own \in [Ops -> Settings \cup Claude \cup {Absent}]
        /\ key \in [Ops -> Keys \cup {NoKey}]
        /\ (pc[p] \in Holding \/ pc'[p] \in Holding) /\ pc'[p] # "err" => own'[p] \in Settings
    BY OwnStep DEF TypeOK
  <2> USE DEF Go, Fail, Held, History
  <2>1. CASE Begin(p)
    <3>1. PICK k \in Kinds : kind' = [kind EXCEPT ![p] = k] /\ Go(p, First(k)) /\
               (k \in {"save", "apply"} => \E i \in Input : input' = [input EXCEPT ![p] = i])
      BY <2>1 DEF Begin
    <3>2. k \in Kind /\ kind'[p] = k /\ pc'[p] = First(k)
      BY <2>0, <3>1, KindsAssumption
    <3>3. k \in {"save", "apply"} => input'[p] \in Input
      BY <2>0, <3>1
    <3> QED
      BY <3>2, <3>3 DEF Placed, First, Kind, Holding, Fresh, Reads
  <2>2. CASE SaveLoad(p) \/ SaveExisting(p) \/ ModelsLoad(p)
    BY <2>0, <2>2 DEF SaveLoad, SaveExisting, ModelsLoad, Placed, Kind, Holding, Fresh, Reads
  <2>3. CASE SaveKey(p) \/ ModelsLookup(p) \/ ModelsKey(p)
    BY <2>0, <2>3 DEF SaveKey, ModelsLookup, ModelsKey, Placed, Kind, Holding, Fresh, Reads
  <2>4. CASE RefreshClear(p) \/ ApplyCheck(p) \/ ApplyLoad(p) \/ StartLoad(p) \/ Migrate(p)
    BY <2>0, <2>4 DEF RefreshClear, ApplyCheck, ApplyLoad, StartLoad, Migrate, Placed, Kind, Holding, Fresh, Reads
  <2>5. CASE FetchSucceeds(p)
    <3>1. own[p] \in Settings /\ own'[p] = [own[p] EXCEPT !.models = Fetched(p)]
      BY <2>0, <2>5 DEF FetchSucceeds, Placed, Holding
    <3>2. Fetched(p) \in Origin /\ Fetched(p).gw = own[p].gw
      BY <2>0, <3>1 DEF Fetched, Origin, Settings
    <3>3. own'[p].models \in Origin /\ own'[p].models.gw = own'[p].gw
      BY <3>1, <3>2 DEF Settings
    <3> QED
      BY <2>0, <2>5, <3>3 DEF FetchSucceeds, Placed, Kind, Holding, Fresh, Reads
  <2>6. CASE FetchFails(p)
    BY <2>0, <2>6 DEF FetchFails, Placed, Kind, Holding, Fresh, Reads
  <2>7. CASE Protect(p)
    <3>1. own[p] \in Settings
      BY <2>0, <2>7 DEF Protect, Placed, Holding
    <3>2. CASE Fail(p)
      BY <2>0, <2>7, <3>2 DEF Protect, Placed, Kind, Holding, Fresh
    <3>3. CASE /\ own' = [own EXCEPT ![p].ref = key[p] # NoKey]
               /\ Go(p, CASE kind[p] = "apply" -> "file"
                          [] kind[p] # "apply" /\ pc[p] = "protect" -> "drop"
                          [] OTHER -> "drop-fetched")
      <4>1. own'[p] = [own[p] EXCEPT !.ref = (key[p] # NoKey)]
        BY <2>0, <3>3
      <4>2. own'[p].models = own[p].models /\ own'[p].gw = own[p].gw
        BY <3>1, <4>1 DEF Settings
      <4>3. /\ kind' = kind /\ input' = input
            /\ pc[p] \in {"protect", "protect-fetched"}
            /\ pc'[p] = CASE kind[p] = "apply" -> "file"
                          [] kind[p] # "apply" /\ pc[p] = "protect" -> "drop"
                          [] OTHER -> "drop-fetched"
        BY <2>0, <2>7, <3>3 DEF Protect
      <4>4. \/ pc[p] = "protect" /\ kind[p] = "save" /\ pc'[p] = "drop"
            \/ pc[p] = "protect" /\ kind[p] = "apply" /\ pc'[p] = "file"
            \/ pc[p] = "protect-fetched" /\ kind[p] = "save" /\ pc'[p] = "drop-fetched"
        <5>1. /\ pc[p] = "protect" => kind[p] \in {"save", "apply"}
              /\ pc[p] = "protect-fetched" => kind[p] = "save"
          BY ONLY <2>0 DEF Placed
        <5>2. /\ kind[p] = "apply" => pc'[p] = "file"
              /\ kind[p] # "apply" /\ pc[p] = "protect" => pc'[p] = "drop"
              /\ kind[p] # "apply" /\ pc[p] # "protect" => pc'[p] = "drop-fetched"
          BY ONLY <4>3
        <5> QED
          BY ONLY <4>3, <5>1, <5>2
      <4> QED
        BY ONLY <2>0, <4>2, <4>3, <4>4 DEF Placed, Kind, Holding, Fresh, Reads
    <3> QED
      BY <2>7, <3>2, <3>3 DEF Protect
  <2>8. CASE DropCache(p) \/ WriteFile(p)
    BY <2>0, <2>8 DEF DropCache, WriteFile, Placed, Kind, Holding, Fresh, Reads
  <2>9. CASE WriteClaude(p) \/ Adopt(p) \/ StoreCache(p)
    BY <2>0, <2>9 DEF WriteClaude, Adopt, StoreCache, Placed, Kind, Holding, Fresh, Reads
  <2>10. CASE PortRead(p) \/ PortWrite(p)
    <3>1. pc'[p] \in {"ok", "err", "port"} /\ kind'[p] = kind[p] /\ kind[p] \in Kind /\ kind[p] \notin {"save", "start"}
      BY <2>0, <2>10 DEF PortRead, PortWrite, Placed
    <3> QED
      BY <2>0, <2>10, <3>1 DEF PortRead, PortWrite, Placed, Kind, Holding, Fresh, Reads, TypeOK
  <2>11. CASE Unmanage(p) \/ RemoveFile(p)
    BY <2>0, <2>11 DEF Unmanage, RemoveFile, Placed, Kind, Holding, Fresh, Reads
  <2> QED
    BY <2>1, <2>2, <2>3, <2>4, <2>5, <2>6, <2>7, <2>8, <2>9, <2>10, <2>11 DEF Step
<1> QED
  BY <1>1, <1>2
-----------------------------------------------------------------------------
(* The file and the token                                                  *)

LEMMA RestoredStays ==
  ASSUME TypeOK, \A q \in Ops : Placed(q), NEW p \in Ops, Step(p), Restored
  PROVE  Restored'
<1>1. PICK q \in Ops : kind[q] = "restore"
  BY DEF Restored
<1>2. pc[q] # "idle"
  BY <1>1 DEF Placed
<1>3. kind'[q] = kind[q]
  BY <1>2, Frame
<1> QED
  BY <1>1, <1>3 DEF Restored

\* Only a restoration takes the file away.
LEMMA FileStep ==
  ASSUME TypeOK, \A q \in Ops : Placed(q), NEW p \in Ops, Step(p), file # Absent
  PROVE  file' # Absent \/ Restored
<1>1. CASE UNCHANGED file
  BY <1>1
<1>2. CASE Migrate(p) \/ WriteFile(p)
  <2>1. own[p] \in Settings
    BY <1>2 DEF Migrate, WriteFile, Placed, Holding
  <2>2. UNCHANGED file \/ file' = own[p]
    BY <1>2 DEF Migrate, WriteFile, Fail, stores
  <2> QED
    BY <2>1, <2>2, AbsentAssumption
<1>3. CASE RemoveFile(p)
  BY <1>3 DEF RemoveFile, Placed, Restored
<1>4. CASE \/ Begin(p) \/ SaveLoad(p) \/ SaveKey(p) \/ SaveExisting(p) \/ ModelsLoad(p) \/ ModelsLookup(p)
           \/ ModelsKey(p) \/ FetchSucceeds(p) \/ FetchFails(p) \/ ApplyCheck(p) \/ ApplyLoad(p)
           \/ StartLoad(p) \/ PortRead(p)
  BY <1>1, <1>4 DEF Begin, SaveLoad, SaveKey, SaveExisting, ModelsLoad, ModelsLookup, ModelsKey,
                    FetchSucceeds, FetchFails, ApplyCheck, ApplyLoad, StartLoad, PortRead, Fail, stores
<1>5. CASE RefreshClear(p) \/ Protect(p) \/ DropCache(p) \/ WriteClaude(p) \/ Adopt(p)
  BY <1>1, <1>5 DEF RefreshClear, Protect, DropCache, WriteClaude, Adopt, Fail, stores
<1>6. CASE StoreCache(p) \/ PortWrite(p) \/ Unmanage(p)
  BY <1>1, <1>6 DEF StoreCache, PortWrite, Unmanage, Fail, stores
<1> QED
  BY <1>2, <1>3, <1>4, <1>5, <1>6 DEF Step

LEMMA FileKeptStep ==
  ASSUME TypeOK, \A q \in Ops : Placed(q), FileKept, NEW p \in Ops, Step(p)
  PROVE  FileKept'
<1>1. relic' = Absent \/ file' = Absent
  <2>1. CASE UNCHANGED <<file, relic>>
    BY <2>1 DEF FileKept
  <2>2. CASE Migrate(p) \/ WriteFile(p) \/ RemoveFile(p)
    BY <2>1, <2>2 DEF Migrate, WriteFile, RemoveFile, Fail, stores
  <2>3. CASE \/ Begin(p) \/ SaveLoad(p) \/ SaveKey(p) \/ SaveExisting(p) \/ ModelsLoad(p) \/ ModelsLookup(p)
             \/ ModelsKey(p) \/ FetchSucceeds(p) \/ FetchFails(p) \/ ApplyCheck(p) \/ ApplyLoad(p)
             \/ StartLoad(p) \/ PortRead(p)
    BY <2>1, <2>3 DEF Begin, SaveLoad, SaveKey, SaveExisting, ModelsLoad, ModelsLookup, ModelsKey,
                      FetchSucceeds, FetchFails, ApplyCheck, ApplyLoad, StartLoad, PortRead, Fail, stores
  <2>4. CASE RefreshClear(p) \/ Protect(p) \/ DropCache(p) \/ WriteClaude(p) \/ Adopt(p)
    BY <2>1, <2>4 DEF RefreshClear, Protect, DropCache, WriteClaude, Adopt, Fail, stores
  <2>5. CASE StoreCache(p) \/ PortWrite(p) \/ Unmanage(p)
    BY <2>1, <2>5 DEF StoreCache, PortWrite, Unmanage, Fail, stores
  <2> QED
    BY <2>2, <2>3, <2>4, <2>5 DEF Step
<1>2. ASSUME ~Restored', NEW q \in Ops, kind'[q] \in {"save", "models", "refresh", "apply"}
      PROVE  file' # Absent
  <2>1. ~Restored
    BY <1>2, RestoredStays
  <2>2. file # Absent
    <3>1. CASE kind'[q] = kind[q]
      BY <1>2, <2>1, <3>1 DEF FileKept
    <3>2. CASE kind'[q] # kind[q]
      <4>1. q = p /\ pc[p] = "idle"
        BY <3>2, Frame
      <4>2. Begin(p)
        BY <4>1, <1>2, Frame DEF Step, SaveLoad, SaveKey, SaveExisting, RefreshClear, ModelsLoad, ModelsLookup, ModelsKey,
           FetchSucceeds, FetchFails, ApplyCheck, ApplyLoad, StartLoad, Migrate, Protect, DropCache,
           WriteFile, WriteClaude, Adopt, StoreCache, PortRead, PortWrite, Unmanage, RemoveFile
      <4>3. PICK k \in Kinds : (file # Absent \/ k \in {"start", "port", "restore"}) /\ kind' = [kind EXCEPT ![p] = k]
        BY <4>2 DEF Begin
      <4>4. kind'[p] = k
        BY <4>3 DEF TypeOK
      <4> QED
        BY <1>2, <4>1, <4>3, <4>4
    <3> QED
      BY <3>1, <3>2
  <2> QED
    BY <2>1, <2>2, FileStep
<1> QED
  BY <1>1, <1>2 DEF FileKept
\* A start that goes on without a token stays on record.
LEMMA LostStays ==
  ASSUME TypeOK, NEW p \in Ops, Step(p), lost
  PROVE  lost'
<1>1. CASE UNCHANGED lost
  BY <1>1
<1>2. CASE Migrate(p)
  BY <1>2 DEF Migrate, History
<1>3. CASE StartLoad(p)
  BY <1>1, <1>3 DEF StartLoad
<1>4. CASE \/ Begin(p) \/ SaveLoad(p) \/ SaveKey(p) \/ SaveExisting(p) \/ ModelsLoad(p) \/ ModelsLookup(p)
           \/ ModelsKey(p) \/ FetchSucceeds(p) \/ FetchFails(p) \/ ApplyCheck(p) \/ ApplyLoad(p) \/ PortRead(p)
  BY <1>1, <1>4 DEF Begin, SaveLoad, SaveKey, SaveExisting, ModelsLoad, ModelsLookup, ModelsKey,
                    FetchSucceeds, FetchFails, ApplyCheck, ApplyLoad, PortRead, Held, History
<1>5. CASE RefreshClear(p) \/ Protect(p) \/ DropCache(p) \/ WriteFile(p) \/ WriteClaude(p) \/ Adopt(p)
  BY <1>1, <1>5 DEF RefreshClear, Protect, DropCache, WriteFile, WriteClaude, Adopt, Held, History
<1>6. CASE StoreCache(p) \/ PortWrite(p) \/ Unmanage(p) \/ RemoveFile(p)
  BY <1>1, <1>6 DEF StoreCache, PortWrite, Unmanage, RemoveFile, Held, History
<1> QED
  BY <1>2, <1>3, <1>4, <1>5, <1>6 DEF Step

\* Whatever a step reads its token from carries the installation's.
LEMMA TokenHeld ==
  ASSUME TypeOK, \A q \in Ops : Placed(q), FileKept, OneToken, ~Restored, ~lost,
         NEW p \in Ops, Step(p), ~lost', pc'[p] \in Holding \cup {"port"}
  PROVE  own'[p].token = "installed"
<1>0. /\ pc \in [Ops -> Label] /\ own \in [Ops -> Settings \cup Claude \cup {Absent}]
      /\ file \in Settings \cup {Absent} /\ claude \in Claude \cup {Absent}
      /\ pc[p] \in Holding => own[p] \in Settings
      /\ pc[p] \in Holding \cup {"port"} => own[p].token = "installed"
      /\ claude # Absent => claude.token = "installed"
      /\ IF relic = Absent THEN file # Absent /\ file.token = "installed"
                           ELSE relic \in Relic /\ relic.token = "installed"
      /\ relic = Absent \/ file = Absent
      /\ kind[p] \in {"save", "models", "refresh", "apply"} => file # Absent
  BY DEF TypeOK, Placed, OneToken, FileKept
<1>1. ASSUME pc[p] \in Holding, UNCHANGED own
      PROVE  own'[p].token = "installed"
  BY <1>0, <1>1
<1>2. ASSUME NEW s, own' = [own EXCEPT ![p] = s], s.token = "installed"
      PROVE  own'[p].token = "installed"
  BY <1>0, <1>2
<1> USE DEF Go, Fail
<1>3. CASE SaveLoad(p)
  <2>1. file # Absent /\ file.token = "installed"
    BY <1>0, <1>3 DEF SaveLoad
  <2>2. PICK prefs : own' = [own EXCEPT ![p] =
          [gw     |-> input[p].gw,
           prefs  |-> Given(input[p].prefs, prefs),
           ref    |-> file # Absent /\ file.ref,
           models |-> NoModels,
           token  |-> IF file = Absent THEN "default" ELSE file.token]]
    BY <1>3 DEF SaveLoad
  <2>3. own'[p].token = IF file = Absent THEN "default" ELSE file.token
    BY ONLY <1>0, <2>2
  <2> QED
    BY <2>1, <2>3
<1>4. CASE SaveExisting(p)
  <2>1. own[p] \in Settings /\ file # Absent /\ TokenAfter(p) = "installed" /\ pc[p] \in Holding
    BY <1>0, <1>4, TokenAfterFacts DEF SaveExisting, Holding
  <2>2. CASE UNCHANGED own
    BY <1>1, <2>1, <2>2
  <2>3. CASE own' = [own EXCEPT ![p].token = TokenAfter(p),
                                ![p].models = IF file = Absent THEN NoModels ELSE file.models]
    <3>1. own'[p] = [own[p] EXCEPT !.token = TokenAfter(p),
                                   !.models = IF file = Absent THEN NoModels ELSE file.models]
      BY <1>0, <2>3
    <3> QED
      BY <2>1, <3>1 DEF Settings
  <2> QED
    BY <1>4, <2>2, <2>3 DEF SaveExisting
<1>5. CASE ModelsLoad(p)
  BY <1>0, <1>5 DEF ModelsLoad, Reads, Holding
<1>6. CASE FetchSucceeds(p)
  <2>1. own[p] \in Settings /\ own[p].token = "installed" /\ own'[p] = [own[p] EXCEPT !.models = Fetched(p)]
    BY <1>0, <1>6 DEF FetchSucceeds, Holding
  <2> QED
    BY <2>1 DEF Settings
<1>7. CASE ApplyLoad(p)
  <2>1. file \in Settings /\ file.token = "installed" /\ own'[p] = [file EXCEPT !.gw = input[p].gw]
    BY <1>0, <1>7 DEF ApplyLoad
  <2> QED
    BY <2>1 DEF Settings
<1>8. CASE StartLoad(p)
  <2>1. CASE relic \in Relic
    <3>1. relic.token = "installed"
      BY <1>0, <2>1, AbsentAssumption
    <3>2. PICK s \in Migrations(relic) : own' = [own EXCEPT ![p] = s]
      BY <1>8, <2>1, AbsentAssumption DEF StartLoad
    <3>3. s.token = "installed"
      BY <3>1, <3>2, SentinelAssumption DEF Migrations, Given
    <3> QED
      BY <1>2, <3>2, <3>3
  <2>2. CASE relic = Absent
    <3>1. file \in Settings /\ TokenAfter(p) = "installed"
      BY <1>0, <2>2, TokenAfterFacts
    <3>2. own'[p] = [file EXCEPT !.token = TokenAfter(p)]
      BY <1>0, <1>8, <2>2, AbsentAssumption DEF StartLoad
    <3> QED
      BY <3>1, <3>2 DEF Settings
  <2> QED
    BY <1>0, <2>1, <2>2
<1>9. CASE Migrate(p)
  <2>1. own[p] \in Settings /\ own[p].token = "installed"
    BY <1>0, <1>9 DEF Migrate, Holding
  <2>2. own' = [own EXCEPT ![p].token = IF @ = "default" THEN p ELSE @]
    BY <1>9 DEF Migrate
  <2>3. own'[p] = [own[p] EXCEPT !.token = "installed"]
    BY <1>0, <2>1, <2>2
  <2> QED
    BY <2>1, <2>3 DEF Settings
<1>10. CASE Protect(p)
  <2>1. own[p] \in Settings /\ own[p].token = "installed" /\ pc[p] \in Holding
    BY <1>0, <1>10 DEF Protect, Holding
  <2>2. CASE UNCHANGED own
    BY <1>1, <2>1, <2>2
  <2>3. CASE own' = [own EXCEPT ![p].ref = key[p] # NoKey]
    <3>1. own'[p] = [own[p] EXCEPT !.ref = (key[p] # NoKey)]
      BY <1>0, <2>3
    <3> QED
      BY <2>1, <3>1 DEF Settings
  <2> QED
    BY <1>10, <2>2, <2>3 DEF Protect, stores
<1>11. CASE PortRead(p)
  BY <1>0, <1>11 DEF PortRead, Holding
<1>12. CASE SaveKey(p) \/ ModelsLookup(p) \/ ModelsKey(p)
  BY <1>0, <1>1, <1>12 DEF SaveKey, ModelsLookup, ModelsKey, Holding
<1>13. CASE RefreshClear(p) \/ FetchFails(p) \/ ApplyCheck(p)
  BY <1>0, <1>1, <1>13 DEF RefreshClear, FetchFails, ApplyCheck, Holding
<1>14. CASE DropCache(p) \/ WriteFile(p) \/ WriteClaude(p) \/ Adopt(p)
  BY <1>0, <1>1, <1>14 DEF DropCache, WriteFile, WriteClaude, Adopt, Holding
<1>15. CASE StoreCache(p) \/ PortWrite(p) \/ Unmanage(p) \/ RemoveFile(p)
  BY <1>0, <1>15 DEF StoreCache, PortWrite, Unmanage, RemoveFile, Holding
<1>16. CASE Begin(p)
  <2>1. PICK k \in Kinds : Go(p, First(k))
    BY <1>16 DEF Begin
  <2>2. pc'[p] \notin Holding \cup {"port"}
    BY <1>0, <2>1, KindsAssumption DEF First, Kind, Holding
  <2> QED
    BY <2>2
<1> QED
  BY <1>3, <1>4, <1>5, <1>6, <1>7, <1>8, <1>9, <1>10, <1>11, <1>12, <1>13, <1>14, <1>15, <1>16 DEF Step
LEMMA OneTokenStep ==
  ASSUME TypeOK, \A q \in Ops : Placed(q), FileKept, OneToken, NEW p \in Ops, Step(p)
  PROVE  OneToken'
<1> SUFFICES ASSUME ~Restored', ~lost'
             PROVE  /\ IF relic' = Absent THEN file' # Absent /\ file'.token = "installed"
                                          ELSE relic' \in Relic /\ relic'.token = "installed"
                    /\ claude' # Absent => claude'.token = "installed"
                    /\ \A q \in Ops : pc'[q] \in Holding \cup {"port"} => own'[q].token = "installed"
  BY DEF OneToken
<1>0. ~Restored /\ ~lost
  BY RestoredStays, LostStays
<1>1. /\ IF relic = Absent THEN file # Absent /\ file.token = "installed"
                           ELSE relic \in Relic /\ relic.token = "installed"
      /\ claude # Absent => claude.token = "installed"
      /\ \A q \in Ops : pc[q] \in Holding \cup {"port"} => own[q].token = "installed"
  BY <1>0 DEF OneToken
<1>2. \A q \in Ops : pc'[q] \in Holding \cup {"port"} => own'[q].token = "installed"
  <2>1. ASSUME NEW q \in Ops, q # p, pc'[q] \in Holding \cup {"port"}
        PROVE  own'[q].token = "installed"
    BY <1>1, <2>1, Frame
  <2> QED
    BY <1>0, <2>1, TokenHeld
<1>3. kind[p] # "restore"
  BY <1>0 DEF Restored
<1>4. /\ IF relic' = Absent THEN file' # Absent /\ file'.token = "installed"
                            ELSE relic' \in Relic /\ relic'.token = "installed"
      /\ claude' # Absent => claude'.token = "installed"
  <2>1. CASE UNCHANGED <<file, relic, claude>>
    BY <1>1, <2>1
  <2>2. CASE Migrate(p) \/ WriteFile(p)
    <3>1. own[p] \in Settings /\ own[p].token = "installed"
      BY <1>1, <2>2 DEF Migrate, WriteFile, Holding, Placed
    <3>2. \/ file' = own[p] /\ relic' = Absent /\ UNCHANGED claude
          \/ UNCHANGED <<file, relic, claude>>
      BY <2>2 DEF Migrate, WriteFile, Fail, stores
    <3> QED
      BY <1>1, <3>1, <3>2, AbsentAssumption
  <2>3. CASE WriteClaude(p)
    <3>1. own[p].token = "installed"
      BY <1>1, <2>3 DEF WriteClaude, Holding
    <3>2. UNCHANGED <<file, relic>> /\ (UNCHANGED claude \/ claude' = [token |-> own[p].token, models |-> Inference(p)])
      BY <2>3 DEF WriteClaude, Fail, stores
    <3> QED
      BY <1>1, <3>1, <3>2
  <2>4. CASE PortWrite(p)
    <3>1. own[p].token = "installed"
      BY <1>1, <2>4 DEF PortWrite
    <3>2. UNCHANGED <<file, relic>> /\ (UNCHANGED claude \/ claude' = own[p])
      BY <2>4 DEF PortWrite, Fail, stores
    <3> QED
      BY <1>1, <3>1, <3>2
  <2>5. CASE \/ Begin(p) \/ SaveLoad(p) \/ SaveKey(p) \/ SaveExisting(p) \/ ModelsLoad(p) \/ ModelsLookup(p)
             \/ ModelsKey(p) \/ FetchSucceeds(p) \/ FetchFails(p) \/ ApplyCheck(p) \/ ApplyLoad(p)
             \/ StartLoad(p) \/ PortRead(p)
    BY <2>1, <2>5 DEF Begin, SaveLoad, SaveKey, SaveExisting, ModelsLoad, ModelsLookup, ModelsKey,
                      FetchSucceeds, FetchFails, ApplyCheck, ApplyLoad, StartLoad, PortRead, Fail, stores
  <2>6. CASE RefreshClear(p) \/ Protect(p) \/ DropCache(p) \/ Adopt(p) \/ StoreCache(p)
    BY <2>1, <2>6 DEF RefreshClear, Protect, DropCache, Adopt, StoreCache, Fail, stores
  <2>7. CASE Unmanage(p) \/ RemoveFile(p)
    BY <1>3, <2>7 DEF Unmanage, RemoveFile, Placed
  <2> QED
    BY <2>2, <2>3, <2>4, <2>5, <2>6, <2>7 DEF Step
<1> QED
  BY <1>2, <1>4

-----------------------------------------------------------------------------
(* The cache                                                               *)

\* An entry carries the gateway its models were fetched from: it is made of one
\* copy of the settings, and what was fetched with that copy.
LEMMA CacheStep ==
  ASSUME TypeOK, CacheServesItsGateway, NEW p \in Ops, Placed(p), Step(p)
  PROVE  CacheServesItsGateway'
<1>1. CASE UNCHANGED cache \/ cache' = Absent
  BY <1>1 DEF CacheServesItsGateway
<1>2. CASE StoreCache(p)
  <2>1. own[p].models.gw = own[p].gw
    BY <1>2 DEF StoreCache, Placed, Fresh
  <2>2. cache' = Entry(p)
    BY <1>2 DEF StoreCache
  <2> QED
    BY <2>1, <2>2 DEF CacheServesItsGateway, Entry
<1>3. CASE \/ Begin(p) \/ SaveLoad(p) \/ SaveKey(p) \/ SaveExisting(p) \/ ModelsLoad(p) \/ ModelsLookup(p)
           \/ ModelsKey(p) \/ FetchSucceeds(p) \/ FetchFails(p) \/ ApplyCheck(p) \/ ApplyLoad(p)
           \/ StartLoad(p) \/ PortRead(p)
  BY <1>1, <1>3 DEF Begin, SaveLoad, SaveKey, SaveExisting, ModelsLoad, ModelsLookup, ModelsKey,
                    FetchSucceeds, FetchFails, ApplyCheck, ApplyLoad, StartLoad, PortRead, Fail, stores
<1>4. CASE RefreshClear(p) \/ Migrate(p) \/ Protect(p) \/ DropCache(p) \/ WriteFile(p)
  BY <1>1, <1>4 DEF RefreshClear, Migrate, Protect, DropCache, WriteFile, Fail, stores
<1>5. CASE WriteClaude(p) \/ Adopt(p) \/ PortWrite(p) \/ Unmanage(p) \/ RemoveFile(p)
  BY <1>1, <1>5 DEF WriteClaude, Adopt, PortWrite, Unmanage, RemoveFile, Fail, stores
<1> QED
  BY <1>2, <1>3, <1>4, <1>5 DEF Step

-----------------------------------------------------------------------------
(* Operations that run alone                                               *)

LEMMA BeginFacts ==
  ASSUME TypeOK, NEW p \in Ops, Step(p)
  PROVE  /\ pc[p] = "idle" => Begin(p)
         /\ past'[p] = past[p] \/ past'[p] = {q \in Ops : Ended(q)}
<1>1. pc[p] = "idle" => Begin(p)
  BY DEF Step, SaveLoad, SaveKey, SaveExisting, RefreshClear, ModelsLoad, ModelsLookup, ModelsKey,
         FetchSucceeds, FetchFails, ApplyCheck, ApplyLoad, StartLoad, Migrate, Protect, DropCache,
         WriteFile, WriteClaude, Adopt, StoreCache, PortRead, PortWrite, Unmanage, RemoveFile
<1>2. pc[p] # "idle" => past'[p] = past[p]
  BY Frame
<1>3. Begin(p) => past'[p] = {q \in Ops : Ended(q)}
  BY DEF Begin, TypeOK
<1> QED
  BY <1>1, <1>2, <1>3

LEMMA PastEndedStep ==
  ASSUME TypeOK, PastEnded, NEW p \in Ops, Step(p)
  PROVE  PastEnded'
<1>1. ASSUME NEW q \in Ops, Ended(q)
      PROVE  Ended(q)'
  BY <1>1, Frame DEF Ended
<1>2. ASSUME NEW o \in Ops
      PROVE  \A q \in past'[o] : Ended(q)'
  <2>1. past[o] \subseteq Ops /\ \A q \in past[o] : Ended(q)
    BY DEF TypeOK, PastEnded
  <2>2. past'[o] = past[o] \/ past'[o] = {q \in Ops : Ended(q)}
    BY Frame, BeginFacts
  <2> QED
    BY <1>1, <2>1, <2>2
<1> QED
  BY <1>2 DEF PastEnded
\* A save that nobody disturbs puts the stores in place one after the other.
LEMMA SaveStep ==
  ASSUME TypeOK, NEW p \in Ops, Placed(p), Step(p), kind[p] = "save", pc[p] # "idle", SaveStage(p)
  PROVE  SaveStage(p)'
<1>0. /\ pc \in [Ops -> Label] /\ own \in [Ops -> Settings \cup Claude \cup {Absent}]
      /\ key \in [Ops -> Keys \cup {NoKey}] /\ claude \in Claude \cup {Absent}
      /\ input[p] \in Input /\ input' = input
      /\ pc[p] \in Holding => own[p] \in Settings
  BY Frame DEF TypeOK, Placed
<1> USE DEF Go, Fail
<1>1. ASSUME pc' = [pc EXCEPT ![p] = "err"]
      PROVE  SaveStage(p)'
  BY <1>0, <1>1 DEF SaveStage, Holding
<1>2. CASE SaveLoad(p)
  <2>1. PICK prefs : own' = [own EXCEPT ![p] =
          [gw     |-> input[p].gw,
           prefs  |-> Given(input[p].prefs, prefs),
           ref    |-> file # Absent /\ file.ref,
           models |-> NoModels,
           token  |-> IF file = Absent THEN "default" ELSE file.token]]
    BY <1>2 DEF SaveLoad
  <2>2. own'[p].gw = input[p].gw /\ pc'[p] = "key"
    BY <1>0, <1>2, <2>1 DEF SaveLoad
  <2> QED
    BY <1>0, <2>2 DEF SaveStage, Holding
<1>3. CASE SaveKey(p)
  <2>1. own[p].gw = input[p].gw
    BY <1>3 DEF SaveKey, SaveStage, Holding
  <2>2. CASE own' = own /\ pc'[p] = "existing" /\ (input[p].key # Keep => key'[p] = input[p].key)
    BY <1>0, <2>1, <2>2 DEF SaveStage, Holding
  <2> QED
    BY <1>0, <1>1, <1>3, <2>2 DEF SaveKey
<1>4. CASE SaveExisting(p)
  <2>1. own[p] \in Settings /\ own[p].gw = input[p].gw /\ (input[p].key # Keep => key[p] = input[p].key)
    BY <1>0, <1>4 DEF SaveExisting, SaveStage, Holding
  <2>2. CASE /\ key' = [key EXCEPT ![p] = IF key[p] = NoKey /\ file # Absent /\ file.ref THEN keyring ELSE @]
             /\ own' = [own EXCEPT ![p].token = TokenAfter(p),
                                   ![p].models = IF file = Absent THEN NoModels ELSE file.models]
             /\ pc' = [pc EXCEPT ![p] = "fetch"]
    <3>1. own'[p] = [own[p] EXCEPT !.token = TokenAfter(p),
                                   !.models = IF file = Absent THEN NoModels ELSE file.models]
      BY <1>0, <2>2
    <3>2. own'[p].gw = input[p].gw
      BY <2>1, <3>1 DEF Settings
    <3>3. input[p].key # Keep => key'[p] = input[p].key
      BY <1>0, <2>1, <2>2, SentinelAssumption DEF Input
    <3>4. pc'[p] = "fetch"
      BY <1>0, <2>2
    <3> QED
      BY <1>0, <3>2, <3>3, <3>4 DEF SaveStage, Holding
  <2> QED
    BY <1>1, <1>4, <2>2 DEF SaveExisting
<1>5. CASE FetchSucceeds(p)
  <2>1. /\ own[p] \in Settings /\ own[p].gw = input[p].gw /\ (input[p].key # Keep => key[p] = input[p].key)
        /\ own'[p] = [own[p] EXCEPT !.models = Fetched(p)] /\ key' = key /\ pc'[p] = "protect-fetched"
    BY <1>0, <1>5 DEF FetchSucceeds, SaveStage, Holding
  <2>2. own'[p].gw = input[p].gw
    BY <2>1 DEF Settings
  <2> QED
    BY <1>0, <2>1, <2>2 DEF SaveStage, Holding
<1>6. CASE FetchFails(p)
  <2>1. CASE pc' = [pc EXCEPT ![p] = "protect"] /\ UNCHANGED <<own, key>>
    <3>1. own[p].gw = input[p].gw /\ (input[p].key # Keep => key[p] = input[p].key) /\ pc'[p] = "protect"
      BY <1>0, <1>6, <2>1 DEF FetchFails, SaveStage, Holding
    <3> QED
      BY <1>0, <2>1, <3>1 DEF SaveStage, Holding
  <2> QED
    BY <1>1, <1>6, <2>1 DEF FetchFails
<1>7. CASE Protect(p)
  <2>1. own[p] \in Settings /\ own[p].gw = input[p].gw /\ (input[p].key # Keep => key[p] = input[p].key)
    BY <1>0, <1>7 DEF Protect, SaveStage, Holding
  <2>2. CASE /\ keyring' = IF key[p] = NoKey THEN keyring ELSE key[p]
             /\ own' = [own EXCEPT ![p].ref = key[p] # NoKey]
             /\ key' = key
             /\ Go(p, CASE kind[p] = "apply" -> "file"
                        [] kind[p] # "apply" /\ pc[p] = "protect" -> "drop"
                        [] OTHER -> "drop-fetched")
    <3>1. own'[p] = [own[p] EXCEPT !.ref = (key[p] # NoKey)]
      BY <1>0, <2>2
    <3>2. own'[p].gw = input[p].gw /\ (key[p] # NoKey => own'[p].ref)
      BY <2>1, <3>1 DEF Settings
    <3>3. input[p].key # Keep => key[p] # NoKey /\ keyring' = input[p].key
      BY <1>0, <2>1, <2>2, SentinelAssumption DEF Input
    <3>4. pc'[p] \in {"drop", "drop-fetched"}
      BY <1>0, <2>2
    <3>5. key'[p] = key[p] /\ input'[p] = input[p]
      BY <1>0, <2>2
    <3> QED
      BY ONLY <2>1, <3>2, <3>3, <3>4, <3>5 DEF SaveStage, Holding
  <2> QED
    BY <1>1, <1>7, <2>2 DEF Protect
<1>8. CASE DropCache(p)
  BY <1>0, <1>8 DEF DropCache, SaveStage, Holding
<1>9. CASE WriteFile(p)
  <2>1. CASE /\ file' = own[p] /\ UNCHANGED <<keyring, cache, own, key>>
             /\ Go(p, CASE kind[p] \in {"apply", "start"} -> "ok"
                        [] Reads(p) \/ pc[p] = "file-fetched" -> "claude-fetched"
                        [] OTHER -> "claude")
    <3>1. pc'[p] \in {"claude", "claude-fetched"}
      BY <1>0, <2>1 DEF Reads
    <3> QED
      BY <1>0, <1>9, <2>1, <3>1 DEF WriteFile, SaveStage, Holding
  <2> QED
    BY <1>1, <1>9, <2>1 DEF WriteFile
<1>10. CASE WriteClaude(p)
  <2>1. CASE /\ claude' = [token |-> own[p].token, models |-> Inference(p)]
             /\ Go(p, CASE Reads(p) -> "store"
                        [] pc[p] = "claude" -> "adopt"
                        [] OTHER -> "adopt-fetched")
             /\ UNCHANGED <<file, keyring, cache, own, key>>
    <3>1. /\ pc[p] \in {"claude", "claude-fetched"} /\ own[p] \in Settings
          /\ pc'[p] \in {"adopt", "adopt-fetched"}
      BY <1>0, <1>10, <2>1 DEF WriteClaude, Reads, Holding
    <3>2. claude'.token = own[p].token /\ claude'.models = Inference(p)
      BY <2>1
    <3>3. \/ Inference(p) = NoModels
          \/ Inference(p) = own[p].models /\ own[p].models.gw = own[p].gw
      BY <3>1 DEF Inference, Placed, Fresh
    <3>4. claude' \in Claude
      BY <2>1, <3>1 DEF Claude, Settings, Inference, Models
    <3>5. claude' # Absent
      BY <3>4, CacheAssumption
    <3> QED
      BY <1>0, <2>1, <3>1, <3>2, <3>3, <3>5 DEF SaveStage, Holding
  <2> QED
    BY <1>1, <1>10, <2>1 DEF WriteClaude
<1>11. CASE Adopt(p)
  BY <1>0, <1>1, <1>11 DEF Adopt, SaveStage, Holding
<1>12. CASE StoreCache(p)
  <2>1. Entry(p)' = Entry(p)
    BY <1>12 DEF StoreCache, Entry
  <2> QED
    BY <1>0, <1>12, <2>1 DEF StoreCache, SaveStage, Holding
<1>13. CASE RefreshClear(p) \/ ModelsLoad(p) \/ ModelsLookup(p) \/ ModelsKey(p) \/ ApplyCheck(p) \/ ApplyLoad(p)
  BY <1>13 DEF RefreshClear, ModelsLoad, ModelsLookup, ModelsKey, ApplyCheck, ApplyLoad, Reads
<1>14. CASE Begin(p) \/ StartLoad(p) \/ Migrate(p)
  BY <1>14 DEF Begin, StartLoad, Migrate, Placed
<1>15. CASE PortRead(p) \/ PortWrite(p) \/ Unmanage(p) \/ RemoveFile(p)
  BY <1>15 DEF PortRead, PortWrite, Unmanage, RemoveFile, Placed
<1> QED
  BY <1>2, <1>3, <1>4, <1>5, <1>6, <1>7, <1>8, <1>9, <1>10, <1>11, <1>12, <1>13, <1>14, <1>15 DEF Step
\* Settings of today's format are no relic.
LEMMA NoRelic ==
  ASSUME NEW s \in Settings
  PROVE  s \notin Relic
<1>1. DOMAIN s = {"gw", "prefs", "ref", "models", "token"}
  BY DEF Settings
<1>2. \A r \in Relic : DOMAIN r = {"gw", "prefs", "key", "token"}
  BY DEF Relic
<1> QED
  BY <1>1, <1>2

\* A start that nobody disturbs carries over what it has found.
LEMMA StartStep ==
  ASSUME TypeOK, NEW p \in Ops, Placed(p), Step(p), kind[p] = "start", pc[p] # "idle", StartStage(p)
  PROVE  StartStage(p)'
<1>0. /\ pc \in [Ops -> Label] /\ own \in [Ops -> Settings \cup Claude \cup {Absent}]
      /\ was \in [Ops -> Settings \cup Relic \cup {Absent}] /\ file \in Settings \cup {Absent}
      /\ relic \in Relic \cup {Absent, Unreadable}
      /\ pc[p] \in Holding => own[p] \in Settings
      /\ p # "default" /\ Absent \notin Relic /\ Unreadable \notin Relic /\ Absent # Unreadable
  BY AbsentAssumption, SentinelAssumption DEF TypeOK, Placed
<1> USE DEF Go, Fail, Held, History
<1>1. ASSUME pc'[p] = "err"
      PROVE  StartStage(p)'
  BY <1>1 DEF StartStage
<1>2. CASE StartLoad(p)
  <2>1. CASE relic \in Relic
    <3>1. PICK s \in Migrations(relic) : own' = [own EXCEPT ![p] = s]
      BY <1>0, <1>2, <2>1 DEF StartLoad
    <3>2. own'[p] = s /\ was'[p] = relic /\ pc'[p] = "migrate"
      BY <1>0, <1>2, <2>1, <3>1 DEF StartLoad
    <3>3. Carries(relic, s)
      BY <2>1, <3>1 DEF Carries, Migrations
    <3> QED
      BY <3>2, <3>3 DEF StartStage
  <2>2. CASE relic = Unreadable \/ (relic = Absent /\ file = Absent)
    <3>1. PICK s \in Defaults(p) : own' = [own EXCEPT ![p] = s]
      BY <1>0, <1>2, <2>2 DEF StartLoad
    <3>2. own'[p] = s /\ was'[p] = Absent /\ pc'[p] = "file"
      BY <1>0, <1>2, <2>2, <3>1 DEF StartLoad
    <3>3. Carries(Absent, s) /\ s.token # "default"
      BY <1>0 DEF Carries, Defaults
    <3> QED
      BY <3>2, <3>3 DEF StartStage
  <2>3. CASE relic = Absent /\ file # Absent
    <3>1. own'[p] = [file EXCEPT !.token = TokenAfter(p)] /\ was'[p] = file /\ pc'[p] = "file"
      BY <1>0, <1>2, <2>3 DEF StartLoad
    <3>2. file \in Settings /\ file \notin Relic
      BY <1>0, <2>3, NoRelic
    <3>3. own'[p].gw = file.gw /\ own'[p].prefs = file.prefs /\ own'[p].ref = file.ref /\ own'[p].token = TokenAfter(p)
      BY <3>1, <3>2 DEF Settings
    <3>4. Carries(file, own'[p]) /\ own'[p].token # "default"
      BY <3>2, <3>3, TokenAfterFacts DEF Carries, Given
    <3> QED
      BY <3>1, <3>4 DEF StartStage
  <2> QED
    BY <1>0, <2>1, <2>2, <2>3
<1>3. CASE Migrate(p)
  <2>0. pc'[p] = "file" /\ own[p] \in Settings /\ Carries(was[p], own[p])
    BY <1>0, <1>3 DEF Migrate, Holding, StartStage
  <2>1. CASE own' = [own EXCEPT ![p].token = IF @ = "default" THEN p ELSE @] /\ UNCHANGED was
    <3>1. PICK t : t = IF own[p].token = "default" THEN p ELSE own[p].token
      OBVIOUS
    <3>2. own'[p] = [own[p] EXCEPT !.token = t]
      BY <1>0, <2>1, <3>1
    <3>3. /\ own'[p].gw = own[p].gw /\ own'[p].prefs = own[p].prefs /\ own'[p].ref = own[p].ref
          /\ own'[p].token = t
      BY <2>0, <3>2 DEF Settings
    <3>4. Carries(was'[p], own'[p]) /\ t # "default"
      BY <1>0, <2>0, <2>1, <3>1, <3>3 DEF Carries
    <3> QED
      BY <2>0, <3>3, <3>4 DEF StartStage
  <2>2. CASE (\E s \in Defaults(p) : own' = [own EXCEPT ![p] = s]) /\ was' = [was EXCEPT ![p] = Absent]
    <3>1. PICK s \in Defaults(p) : own' = [own EXCEPT ![p] = s]
      BY <2>2
    <3>2. own'[p] = s /\ was'[p] = Absent
      BY <1>0, <2>2, <3>1
    <3>3. Carries(Absent, s) /\ s.token # "default"
      BY <1>0 DEF Carries, Defaults
    <3> QED
      BY <2>0, <3>2, <3>3 DEF StartStage
  <2> QED
    BY <1>3, <2>1, <2>2 DEF Migrate
<1>4. CASE WriteFile(p)
  <2>1. CASE /\ file' = own[p] /\ relic' = Absent /\ UNCHANGED own
             /\ Go(p, CASE kind[p] \in {"apply", "start"} -> "ok"
                        [] Reads(p) \/ pc[p] = "file-fetched" -> "claude-fetched"
                        [] OTHER -> "claude")
    <3>1. pc[p] = "file" /\ pc'[p] = "ok"
      BY <1>0, <1>4, <2>1 DEF WriteFile, Placed, Reads
    <3> QED
      BY <1>4, <2>1, <3>1 DEF WriteFile, StartStage
  <2> QED
    BY <1>0, <1>1, <1>4, <2>1 DEF WriteFile
<1>5. CASE \/ Begin(p) \/ SaveLoad(p) \/ SaveKey(p) \/ SaveExisting(p) \/ RefreshClear(p) \/ ModelsLoad(p)
           \/ ModelsLookup(p) \/ ModelsKey(p) \/ ApplyCheck(p) \/ ApplyLoad(p)
  BY <1>5 DEF Begin, SaveLoad, SaveKey, SaveExisting, RefreshClear, ModelsLoad, ModelsLookup, ModelsKey,
              ApplyCheck, ApplyLoad, Reads
<1>6. CASE FetchSucceeds(p) \/ FetchFails(p) \/ Protect(p) \/ DropCache(p)
  BY <1>6 DEF FetchSucceeds, FetchFails, Protect, DropCache, Placed, Reads
<1>7. CASE WriteClaude(p) \/ Adopt(p) \/ StoreCache(p)
  BY <1>7 DEF WriteClaude, Adopt, StoreCache, Placed, Reads
<1>8. CASE PortRead(p) \/ PortWrite(p) \/ Unmanage(p) \/ RemoveFile(p)
  BY <1>8 DEF PortRead, PortWrite, Unmanage, RemoveFile, Placed
<1> QED
  BY <1>2, <1>3, <1>4, <1>5, <1>6, <1>7, <1>8 DEF Step

\* A restoration that nobody disturbs leaves neither settings nor configuration.
LEMMA RestoreStep ==
  ASSUME TypeOK, NEW p \in Ops, Placed(p), Step(p), kind[p] = "restore", pc[p] # "idle", RestoreStage(p)
  PROVE  RestoreStage(p)'
<1>0. pc \in [Ops -> Label]
  BY DEF TypeOK
<1>1. CASE Unmanage(p)
  BY <1>0, <1>1 DEF Unmanage, RestoreStage, Go, Fail
<1>2. CASE RemoveFile(p)
  BY <1>0, <1>2 DEF RemoveFile, RestoreStage, Go, Fail
<1>3. CASE \/ Begin(p) \/ SaveLoad(p) \/ SaveKey(p) \/ SaveExisting(p) \/ RefreshClear(p) \/ ModelsLoad(p)
           \/ ModelsLookup(p) \/ ModelsKey(p) \/ ApplyCheck(p) \/ ApplyLoad(p)
  BY <1>3 DEF Begin, SaveLoad, SaveKey, SaveExisting, RefreshClear, ModelsLoad, ModelsLookup, ModelsKey,
              ApplyCheck, ApplyLoad, Reads
<1>4. CASE FetchSucceeds(p) \/ FetchFails(p) \/ Protect(p) \/ DropCache(p) \/ WriteFile(p)
  BY <1>4 DEF FetchSucceeds, FetchFails, Protect, DropCache, WriteFile, Placed, Reads
<1>5. CASE WriteClaude(p) \/ Adopt(p) \/ StoreCache(p) \/ StartLoad(p) \/ Migrate(p) \/ PortRead(p) \/ PortWrite(p)
  BY <1>5 DEF WriteClaude, Adopt, StoreCache, StartLoad, Migrate, PortRead, PortWrite, Placed, Reads
<1> QED
  BY <1>1, <1>2, <1>3, <1>4, <1>5 DEF Step

\* A step disturbs all the others, and carries its own operation on.
LEMMA StageStep ==
  ASSUME TypeOK, \A q \in Ops : Placed(q), PastEnded, \A q \in Ops : Last(q) => Stage(q),
         NEW p \in Ops, Step(p)
  PROVE  \A q \in Ops : Last(q)' => Stage(q)'
<1>0. pc'[p] # "idle"
  BY Frame DEF TypeOK
<1>1. ASSUME NEW q \in Ops, q # p, Last(q)'
      PROVE  FALSE
  <2>1. p \in past[q]
    BY <1>0, <1>1, Frame DEF Last
  <2> QED
    BY <2>1, Frame DEF PastEnded
<1>2. ASSUME Last(p)', pc[p] # "idle"
      PROVE  Stage(p)'
  <2>1. past'[p] = past[p] /\ kind'[p] = kind[p] /\ \A q \in Ops \ {p} : pc'[q] = pc[q]
    BY <1>2, Frame
  <2>2. Last(p)
    BY <1>2, <2>1 DEF Last
  <2>3. Stage(p)
    BY <2>2
  <2> QED
    BY <1>2, <2>1, <2>3, SaveStep, StartStep, RestoreStep DEF Stage
<1>3. ASSUME pc[p] = "idle"
      PROVE  Stage(p)'
  <2>1. Begin(p)
    BY <1>3, BeginFacts
  <2>2. PICK k \in Kinds : kind' = [kind EXCEPT ![p] = k] /\ pc' = [pc EXCEPT ![p] = First(k)]
    BY <2>1 DEF Begin, Go
  <2>3. k \in Kind /\ kind'[p] = k /\ pc'[p] = First(k)
    BY <2>2, KindsAssumption DEF TypeOK
  <2> QED
    BY <2>3 DEF Stage, SaveStage, StartStage, RestoreStage, First, Kind, Holding
<1> QED
  BY <1>1, <1>2, <1>3

-----------------------------------------------------------------------------
(* The theorems                                                            *)

LEMMA InvInit ==
  ASSUME Init
  PROVE  IInv
<1>1. TypeOK
  <2>1. keyring \in Keys \cup {NoKey}
    BY DEF Init
  <2>2. file \in Settings \cup {Absent} /\ relic \in Relic \cup {Absent, Unreadable}
    BY DEF Init
  <2>3. claude \in Claude \cup {Absent} /\ adopted \in BOOLEAN
    <3>1. [token |-> "installed", models |-> NoModels] \in Claude
      BY DEF Claude, Token, Models
    <3>2. \/ claude = Absent /\ adopted = FALSE
          \/ claude = [token |-> "installed", models |-> NoModels] /\ adopted = TRUE
      BY DEF Init
    <3> QED
      BY <3>1, <3>2
  <2>4. lost \in BOOLEAN /\ cache = Absent
    BY DEF Init
  <2> QED
    BY <2>1, <2>2, <2>3, <2>4 DEF Init, TypeOK, Label
<1>2. \A p \in Ops : Placed(p)
  BY DEF Init, Placed, Holding, Fresh
<1>3. FileKept /\ CacheServesItsGateway /\ PastEnded
  BY DEF Init, FileKept, CacheServesItsGateway, PastEnded
<1>4. OneToken
  <2>1. /\ claude # Absent => claude.token = "installed"
        /\ \A p \in Ops : pc[p] \notin Holding \cup {"port"}
    BY DEF Init, Holding
  <2>2. ~lost => IF relic = Absent THEN file # Absent /\ file.token = "installed"
                                   ELSE relic \in Relic /\ relic.token = "installed"
    <3>1. CASE file \in Settings /\ file.token = "installed" /\ relic = Absent
      BY <3>1, AbsentAssumption
    <3>2. CASE relic \in Relic \cup {Unreadable} /\ lost = (relic = Unreadable \/ (relic \in Relic /\ relic.token = Keep))
      BY <3>2, AbsentAssumption DEF Relic
    <3> QED
      BY <3>1, <3>2 DEF Init
  <2> QED
    BY <2>1, <2>2 DEF OneToken
<1>5. \A p \in Ops : Stage(p)
  BY DEF Init, Stage
<1> QED
  BY <1>1, <1>2, <1>3, <1>4, <1>5 DEF IInv

LEMMA InvStep ==
  ASSUME IInv, [Next]_vars
  PROVE  IInv'
<1>0. /\ TypeOK /\ FileKept /\ OneToken /\ CacheServesItsGateway /\ PastEnded
      /\ \A p \in Ops : Placed(p)
      /\ \A p \in Ops : Last(p) => Stage(p)
  BY DEF IInv
<1>1. ASSUME NEW p \in Ops, Step(p)
      PROVE  IInv'
  <2>1. TypeOK' /\ CacheServesItsGateway'
    BY <1>0, <1>1, TypeStep, CacheStep
  <2>2. FileKept' /\ OneToken' /\ PastEnded'
    BY <1>0, <1>1, FileKeptStep, OneTokenStep, PastEndedStep
  <2>3. \A q \in Ops : Placed(q)'
    BY <1>0, <1>1, PlacedStep
  <2>4. \A q \in Ops : Last(q)' => Stage(q)'
    BY <1>0, <1>1, StageStep
  <2> QED
    BY <2>1, <2>2, <2>3, <2>4 DEF IInv
<1>2. CASE UNCHANGED vars
  <2>1. /\ UNCHANGED <<file, relic, keyring, cache, claude, adopted, kind, pc>>
        /\ UNCHANGED <<input, own, key, past, was, lost>>
    BY <1>2 DEF vars, stores
  <2>2. TypeOK' /\ CacheServesItsGateway'
    BY ONLY <1>0, <2>1 DEF TypeOK, CacheServesItsGateway
  <2>3. FileKept' /\ PastEnded'
    BY ONLY <1>0, <2>1 DEF FileKept, PastEnded, Restored, Ended
  <2>4. OneToken'
    BY ONLY <1>0, <2>1 DEF OneToken, Restored
  <2>5. \A q \in Ops : Placed(q)'
    BY ONLY <1>0, <2>1 DEF Placed, Reads
  <2>6. ASSUME NEW q \in Ops, Last(q)'
        PROVE  Stage(q)'
    <3>1. Last(q)
      BY ONLY <2>1, <2>6 DEF Last
    <3>2. Stage(q)
      BY <1>0, <3>1
    <3> QED
      BY ONLY <2>1, <3>2 DEF Stage, SaveStage, StartStage, RestoreStage, Entry
  <2> QED
    BY <2>2, <2>3, <2>4, <2>5, <2>6 DEF IInv
<1> QED
  BY <1>1, <1>2 DEF Next, Finished

\* Whatever operations overlap and wherever they fail: each knows what it holds
\* and how it got there, nothing carries another token, the cache keeps to its
\* gateway, and an undisturbed operation has put in place what its place says.
THEOREM InvCorrect == Spec => []IInv
<1>1. Init => IInv
  BY InvInit
<1>2. IInv /\ [Next]_vars => IInv'
  BY InvStep
<1> QED
  BY <1>1, <1>2, PTL DEF Spec

\* Every variable keeps its type: the stores only ever hold whole settings,
\* and an operation settings or Claude's configuration.
THEOREM TypeCorrect == Spec => []TypeOK
<1>1. IInv => TypeOK
  BY DEF IInv
<1> QED
  BY <1>1, InvCorrect, PTL

\* Claude is never given a token the proxy would refuse, as long as nobody
\* restores and no start had to make one up: saves, fetches, ApplySettings,
\* starts and the rewriting of the port, in any number and any order of steps.
THEOREM TokenAgreesSafe == Spec => []TokenAgrees
<1>1. IInv => TokenAgrees
  BY DEF IInv, OneToken, TokenAgrees
<1> QED
  BY <1>1, InvCorrect, PTL

\* However late an entry of the models cache is stored, its models are those of
\* the gateway it is looked up for.
THEOREM CacheServesItsGatewaySafe == Spec => []CacheServesItsGateway
<1>1. IInv => CacheServesItsGateway
  BY DEF IInv
<1> QED
  BY <1>1, InvCorrect, PTL

\* What an operation that ran alone has acknowledged is in force: a save in all
\* five stores, a restoration in all that it clears, and a start keeps the
\* settings it found, an old format's too.
THEOREM EditInForceSafe == Spec => []EditInForce
<1>1. ASSUME IInv, NEW p \in Ops, pc[p] = "ok", Last(p)
      PROVE  /\ kind[p] = "save" => Saved(p)
             /\ kind[p] = "restore" => (file = Absent /\ relic = Absent /\ claude = Absent /\ ~adopted)
             /\ kind[p] = "start" => Kept(p)
  <2>1. Placed(p) /\ Stage(p)
    BY <1>1 DEF IInv
  <2>2. ASSUME kind[p] = "save"
        PROVE  Saved(p)
    <3>1. SaveStage(p)
      BY <2>1, <2>2 DEF Stage
    <3>2. cache = Absent \/ (cache.from = own[p].models /\ cache.prefs = own[p].prefs)
      BY <1>1, <3>1 DEF SaveStage, Entry
    <3>3. /\ file = own[p] /\ own[p].gw = input[p].gw /\ adopted
          /\ claude # Absent /\ claude.token = own[p].token
          /\ input[p].key # Keep => (own[p].ref /\ keyring = input[p].key)
      BY <1>1, <3>1 DEF SaveStage, Holding
    <3>4. claude.models = NoModels \/ (claude.models = own[p].models /\ own[p].models.gw = own[p].gw)
      BY <1>1, <3>1 DEF SaveStage
    <3> QED
      BY <3>2, <3>3, <3>4 DEF Saved
  <2>3. kind[p] = "restore" => (file = Absent /\ relic = Absent /\ claude = Absent /\ ~adopted)
    BY <1>1, <2>1 DEF Stage, RestoreStage
  <2>4. ASSUME kind[p] = "start"
        PROVE  Kept(p)
    <3>1. /\ file = own[p] /\ relic = Absent /\ own[p].token # "default" /\ Carries(was[p], own[p])
      BY <1>1, <2>1, <2>4 DEF Stage, StartStage
    <3>2. file # Absent
      BY <1>1, <2>1, <2>4, <3>1, AbsentAssumption DEF Placed
    <3> QED
      BY <3>1, <3>2 DEF Kept, Carries
  <2> QED
    BY <2>2, <2>3, <2>4
<1>2. IInv => EditInForce
  BY <1>1 DEF EditInForce
<1> QED
  BY <1>2, InvCorrect, PTL
=============================================================================
