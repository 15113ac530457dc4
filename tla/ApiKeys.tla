------------------------------ MODULE ApiKeys ------------------------------
(***************************************************************************)
(* The API keys of one MFI: minted by its manager or by the provisioning   *)
(* script, presented by the MFI's software, revoked.  Authentication       *)
(* stamps last_used_at, so requests write a row that the manager may be    *)
(* revoking.  Only digests are stored; a key is its own digest here.       *)
(***************************************************************************)
EXTENDS OrmSession, Naturals

CONSTANTS
  Keys,       \* keys that can be generated
  Callers,    \* requests served at once
  NoKey

VARIABLES
  apiAccess,    \* the plan of the account includes API access
  suspended,    \* the account is suspended
  key,          \* key[k]: a row of api_keys, or NoKey
  call          \* call[c]: what c does with a key it has loaded, or NoKey

keyVars == <<apiAccess, suspended, key, call>>

KeyRow == [is_active: BOOLEAN, last_used_at: 0..1]

ASSUME KeysAssumption == NoKey \notin KeyRow

Call == [does: {"use", "revoke"}, key: Keys, loaded: KeyRow]

KeysTypeOK ==
  /\ apiAccess \in BOOLEAN /\ suspended \in BOOLEAN
  /\ key \in [Keys -> KeyRow \cup {NoKey}]
  /\ call \in [Callers -> Call \cup {NoKey}]

KeysInit ==
  /\ apiAccess \in BOOLEAN /\ suspended = FALSE
  /\ key = [k \in Keys |-> NoKey]
  /\ call = [c \in Callers |-> NoKey]

\* Keys are drawn at random and never drawn again.
GenerateApiKey(k) ==
  /\ key[k] = NoKey
  /\ key' = [key EXCEPT ![k] = [is_active |-> TRUE, last_used_at |-> 0]]

CreateApiKey ==
  /\ apiAccess
  /\ \E k \in Keys : GenerateApiKey(k)
  /\ UNCHANGED <<apiAccess, suspended, call>>

\* The script asks no plan.
ProvisionKey ==
  /\ \E k \in Keys : GenerateApiKey(k)
  /\ UNCHANGED <<apiAccess, suspended, call>>

Load(c, does, k) ==
  /\ call[c] = NoKey /\ key[k] # NoKey
  /\ call' = [call EXCEPT ![c] = [does |-> does, key |-> k, loaded |-> key[k]]]

Store(c, mine) ==
  /\ key' = [key EXCEPT ![call[c].key] = Flush(@, call[c].loaded, mine)]
  /\ call' = [call EXCEPT ![c] = NoKey]

\* The row is found by the digest among the active ones; the account must not
\* be suspended.
Authenticate(c) ==
  /\ \E k \in Keys :
       /\ key[k] # NoKey /\ key[k].is_active
       /\ ~suspended
       /\ Load(c, "use", k)
  /\ UNCHANGED <<apiAccess, suspended, key>>

\* (Mutant: the whole row is written back.)
StampWholeRow(c) ==
  /\ call[c] # NoKey /\ call[c].does = "use"
  /\ key' = [key EXCEPT ![call[c].key] = [call[c].loaded EXCEPT !.last_used_at = 1 - @]]
  /\ call' = [call EXCEPT ![c] = NoKey]
  /\ UNCHANGED <<apiAccess, suspended>>

Stamp(c) ==
  /\ call[c] # NoKey /\ call[c].does = "use"
  /\ Store(c, [call[c].loaded EXCEPT !.last_used_at = 1 - @])
  /\ UNCHANGED <<apiAccess, suspended>>

BeginRevoke(c) ==
  /\ \E k \in Keys : Load(c, "revoke", k)
  /\ UNCHANGED <<apiAccess, suspended, key>>

CommitRevoke(c) ==
  /\ call[c] # NoKey /\ call[c].does = "revoke"
  /\ Store(c, [call[c].loaded EXCEPT !.is_active = FALSE])
  /\ UNCHANGED <<apiAccess, suspended>>

LoseCall(c) ==
  /\ call[c] # NoKey
  /\ call' = [call EXCEPT ![c] = NoKey]
  /\ UNCHANGED <<apiAccess, suspended, key>>

\* A payment changes the plan, an admin the status.
ChangeAccount ==
  /\ apiAccess' \in BOOLEAN /\ suspended' \in BOOLEAN
  /\ UNCHANGED <<key, call>>

KeysNext ==
  \/ CreateApiKey
  \/ ProvisionKey
  \/ \E c \in Callers :
       Authenticate(c) \/ Stamp(c) \/ BeginRevoke(c) \/ CommitRevoke(c) \/ LoseCall(c)
  \/ ChangeAccount

KeysSpec == KeysInit /\ [][KeysNext]_keyVars

\* A revoked key stays revoked, although requests that authenticated with it
\* before write its row afterwards.
RevokedStaysRevoked ==
  [][\A k \in Keys :
       key[k] # NoKey /\ ~key[k].is_active => key'[k] # NoKey /\ ~key'[k].is_active]_keyVars

=============================================================================
