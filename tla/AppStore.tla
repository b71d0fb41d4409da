------------------------------ MODULE AppStore ------------------------------
(***************************************************************************)
(* What the main process stores for the engine: the settings blob, the      *)
(* provider configs with their verification stamp, and the api keys, with   *)
(* the handlers that write them and the two judgements made of them: the    *)
(* readiness shown to the user and the resolution of a session.  A handler  *)
(* is one synchronous transaction of SQLite.                               *)
(***************************************************************************)
EXTENDS Naturals, FiniteSets

CONSTANTS
  Configs,   \* the config ids newId("config") may mint
  Keys,      \* api keys
  Themes,
  None       \* null

ASSUME NoneAssumption == None \notin Configs \cup Keys

VARIABLES
  settings,  \* the JSON blob of app_meta
  config,    \* provider_configs: an id to its row, or None
  secret,    \* provider_secrets: an id to its key, or None
  minted     \* the ids handed out

storeVars == <<settings, config, secret, minted>>

Capabilities == {"omni", "asr", "llm"}
EngineModes == {"omni", "asr_llm"}
Statuses == {"unspecified", "ok", "err"}

(* The slot of a capability is the settings field of its name:              *)
(* active_provider_config_id, active_asr_config_id, active_llm_config_id.   *)
Settings ==
  [theme : Themes, engine_mode : EngineModes,
   omni : Configs \cup {None}, asr : Configs \cup {None}, llm : Configs \cup {None}]

Rows == [capability : Capabilities, is_default : BOOLEAN, status : Statuses]

ASSUME RowsAssumption == None \notin Rows

(* A save_provider_config request without its id; no key keeps the old one. *)
Requests ==
  [capability : Capabilities, is_default : BOOLEAN, key : Keys \cup {None}]

StoreTypeOK ==
  /\ settings \in Settings
  /\ config \in [Configs -> Rows \cup {None}]
  /\ secret \in [Configs -> Keys \cup {None}]
  /\ minted \subseteq Configs

Existing(rs) == {c \in Configs : rs[c] # None}

(* What an earlier run left: nothing, an omni config, or an asr and an llm  *)
(* config in their slots; all verified.                                     *)
Earlier(capabilities) ==
  \E pick \in [capabilities -> Configs] :
    /\ \A a, b \in capabilities : pick[a] = pick[b] => a = b
    /\ config = [c \in Configs |->
         IF \E cap \in capabilities : pick[cap] = c
           THEN LET cap == CHOOSE cap \in capabilities : pick[cap] = c
                IN [capability |-> cap, is_default |-> cap = "omni", status |-> "ok"]
           ELSE None]
    /\ \E key \in Keys :
         secret = [c \in Configs |-> IF config[c] = None THEN None ELSE key]
    /\ \E t \in Themes :
         settings = [theme |-> t, omni |-> None,
                     engine_mode |-> IF "asr" \in capabilities THEN "asr_llm" ELSE "omni",
                     asr |-> IF "asr" \in capabilities THEN pick["asr"] ELSE None,
                     llm |-> IF "llm" \in capabilities THEN pick["llm"] ELSE None]

StoreInit ==
  /\ \/ Earlier({}) \/ Earlier({"omni"}) \/ Earlier({"asr", "llm"})
  /\ minted = Existing(config)

-----------------------------------------------------------------------------
(* Readings, of a settings blob s and of config rows rs.                    *)

OmniConfigs(rs) == {c \in Existing(rs) : rs[c].capability = "omni"}
TheOne(S) == IF S = {} THEN None ELSE CHOOSE c \in S : TRUE

(* An explicit selection wins while it exists, else the default-flagged one.*)
ResolveActiveProvider(s, rs) ==
  IF s.omni # None
    THEN IF s.omni \in OmniConfigs(rs) THEN s.omni ELSE None
    ELSE TheOne({c \in OmniConfigs(rs) : rs[c].is_default})

(* A slot has no fallback: its config exists and has the capability.        *)
ResolveSlot(s, rs, cap) ==
  IF s[cap] \in Existing(rs) /\ rs[s[cap]].capability = cap THEN s[cap] ELSE None

(* What the engine mode needs; None among them is a missing provider.       *)
Needed(s, rs) ==
  IF s.engine_mode = "asr_llm"
    THEN {ResolveSlot(s, rs, "asr"), ResolveSlot(s, rs, "llm")}
    ELSE {ResolveActiveProvider(s, rs)}

(* deriveReadiness, as far as it is about the engine.                       *)
Ready(s, rs) ==
  \A c \in Needed(s, rs) : c # None /\ rs[c].status = "ok"

(* makeResolveSession: no missing_provider.                                 *)
SessionResolves ==
  \A c \in Needed(settings, config) : c # None /\ secret[c] # None

-----------------------------------------------------------------------------
(* Handlers.                                                                *)

SaveSettings(s) ==
  /\ settings' = s
  /\ UNCHANGED <<config, secret, minted>>

(* upsertProviderConfig: an existing row keeps its stamp.                   *)
Upserted(c, req) ==
  [capability |-> req.capability, is_default |-> req.is_default,
   status |-> IF config[c] = None THEN "unspecified" ELSE config[c].status]
NotDefault(row) == IF row = None THEN None ELSE [row EXCEPT !.is_default = FALSE]

(* Mutant of PersistConfig: the other rows keep their flag.                 *)
PersistWithoutFlip(c, req) ==
  /\ config' = [config EXCEPT ![c] = Upserted(c, req)]
  /\ secret' = [secret EXCEPT ![c] = IF req.key = None THEN @ ELSE req.key]
  /\ minted' = minted \cup {c}
  /\ UNCHANGED settings
(* Mutant of PersistConfig: a blank key replaces the stored one.            *)
PersistBlankKey(c, req) ==
  /\ config' = [d \in Configs |->
                  IF d = c THEN Upserted(c, req)
                  ELSE IF req.is_default THEN NotDefault(config[d]) ELSE config[d]]
  /\ secret' = [secret EXCEPT ![c] = req.key]
  /\ minted' = minted \cup {c}
  /\ UNCHANGED settings
(* putProviderSecrets, when the request has a key.                          *)
KeyStored(c, req) == [secret EXCEPT ![c] = IF req.key = None THEN @ ELSE req.key]
(* persistConfig: the row, the flag of the others, and the key if given.    *)
PersistConfig(c, req) ==
  /\ config' = [d \in Configs |->
                  IF d = c THEN Upserted(c, req)
                  ELSE IF req.is_default THEN NotDefault(config[d]) ELSE config[d]]
  /\ secret' = KeyStored(c, req)
  /\ minted' = minted \cup {c}
  /\ UNCHANGED settings

(* delete_provider_config: the key goes with the row; slots stay dangling.  *)
DeleteConfig(c) ==
  /\ config' = [config EXCEPT ![c] = None]
  /\ secret' = [secret EXCEPT ![c] = None]
  /\ UNCHANGED <<settings, minted>>

(* updateProviderValidation: nothing to stamp once the row is gone.         *)
StampConfig(c, status) ==
  /\ config' = [config EXCEPT ![c] = IF @ = None THEN None ELSE [@ EXCEPT !.status = status]]
  /\ UNCHANGED <<settings, secret, minted>>

(* validateProviderConfig: what it may report of the row and key it read.   *)
TestOutcomes(row, key) ==
  IF row = None \/ key = None THEN {"err"} ELSE {"ok", "err"}
=============================================================================
