--------------------------- MODULE ProviderGateway ---------------------------
(***************************************************************************)
(* One provider client under concurrent use (providers/bitbrowser and      *)
(* providers/nstbrowser: _post or _request, _client_for_config), while     *)
(* its configuration is edited and its health checked                      *)
(* (services/provider_service: save_config, _refresh_health).              *)
(*                                                                         *)
(* A request reads the configuration, waits for one of ApiGate places, and *)
(* gets the shared HTTP client, which is built anew when the address it is *)
(* for differs from the one read; the requests under way on the old client *)
(* fail.  The lock of the client is held while the old one is closed.      *)
(***************************************************************************)
EXTENDS Integers, FiniteSets

CONSTANTS
  Requests,   \* requests to the provider
  Check,      \* the one that is a health check
  Savers,     \* requests that save the configuration
  Addresses,  \* values of api_base
  Keys,       \* values of a secret field
  Mask,       \* what the editor shows, and sends back, for a secret
  ApiGate,    \* requests that are served at a time (3)
  NoOne       \* no holder of the lock

ASSUME GatewayAssumption ==
  /\ ApiGate \in Nat \ {0}
  /\ Check \in Requests /\ NoOne \notin Requests
  /\ Addresses # {} /\ Keys # {} /\ Mask \notin Keys

VARIABLES
  config,   \* stored configuration: [base, key]
  edit,     \* per saver: where it is, what it read and what it changes
  req,      \* where a request is
  using,    \* configuration the request read
  client,   \* the shared client: [base, open]
  lock,     \* holder of _client_lock while it closes the old client
  cut,      \* requests whose client was closed under them
  health    \* cached health: "none", or whether healthy and of which configuration

gatewayVars == <<config, edit, req, using, client, lock, cut, health>>

Configs == [base : Addresses, key : Keys]
NoHealth == [known |-> FALSE, ok |-> FALSE, base |-> NoOne]

GatewayInit ==
  /\ config = [base |-> CHOOSE a \in Addresses : TRUE, key |-> CHOOSE k \in Keys : TRUE]
  /\ edit = [s \in Savers |-> [step |-> "idle", values |-> config]]
  /\ req = [r \in Requests |-> "idle"] /\ using = [r \in Requests |-> config]
  /\ client = [base |-> config.base, open |-> FALSE]
  /\ lock = NoOne /\ cut = {} /\ health = NoHealth
----------------------------------------------------------------------------
Served == {r \in Requests : req[r] \in {"lock", "closing", "sent"}}
Step(r, p) == req' = [req EXCEPT ![r] = p]

\* What a check says is cached when it returns, whatever was saved meanwhile.
Remember(r, ok) ==
  health' = IF r = Check THEN [known |-> TRUE, ok |-> ok, base |-> using[r].base] ELSE health

\* _runtime_config: read before the request waits.
ReadConfig(r) ==
  /\ req[r] = "idle" /\ Step(r, "gate")
  /\ using' = [using EXCEPT ![r] = config]
  /\ UNCHANGED <<config, edit, client, lock, cut, health>>

EnterGate(r) ==
  /\ req[r] = "gate" /\ Cardinality(Served) < ApiGate /\ Step(r, "lock")
  /\ UNCHANGED <<config, edit, using, client, lock, cut, health>>

HasLock(r) == req[r] = "lock" /\ lock = NoOne

\* Mutant of UseClient: any open client will do.
UseAnyClient(r) ==
  /\ HasLock(r) /\ client.open /\ Step(r, "sent")
  /\ UNCHANGED <<config, edit, using, client, lock, cut, health>>

UseClient(r) ==
  /\ HasLock(r) /\ client.open /\ client.base = using[r].base /\ Step(r, "sent")
  /\ UNCHANGED <<config, edit, using, client, lock, cut, health>>

\* aclose marks the client closed and waits for its connections, with the lock held.
CloseClient(r) ==
  /\ HasLock(r) /\ client.open /\ client.base # using[r].base /\ Step(r, "closing")
  /\ lock' = r
  /\ client' = [client EXCEPT !.open = FALSE]
  /\ cut' = cut \cup {q \in Requests : req[q] = "sent"}
  /\ UNCHANGED <<config, edit, using, health>>

NewClient(r) ==
  /\ (HasLock(r) /\ ~client.open) \/ (req[r] = "closing" /\ lock = r)
  /\ Step(r, "sent") /\ lock' = NoOne
  /\ client' = [base |-> using[r].base, open |-> TRUE]
  /\ UNCHANGED <<config, edit, using, cut, health>>

Succeeds(r) ==
  /\ req[r] = "sent" /\ r \notin cut /\ Step(r, "done")
  /\ Remember(r, TRUE)
  /\ UNCHANGED <<config, edit, using, client, lock, cut>>

\* The client was closed, the provider does not answer, or answers with an error.
Fails(r) ==
  /\ req[r] = "sent" /\ Step(r, "done")
  /\ Remember(r, FALSE)
  /\ UNCHANGED <<config, edit, using, client, lock, cut>>

\* Mutant of CheckTimesOut: a check that is cancelled keeps the lock.
CheckKeepsLock ==
  /\ req[Check] \in {"gate", "lock", "closing", "sent"} /\ Step(Check, "done")
  /\ Remember(Check, FALSE)
  /\ UNCHANGED <<config, edit, using, client, lock, cut>>

\* wait_for cancels the check wherever it is; the lock is released.
CheckTimesOut ==
  /\ req[Check] \in {"gate", "lock", "closing", "sent"} /\ Step(Check, "done")
  /\ lock' = IF lock = Check THEN NoOne ELSE lock
  /\ Remember(Check, FALSE)
  /\ UNCHANGED <<config, edit, using, client, cut>>
----------------------------------------------------------------------------
(***************************************************************************)
(* save_config: the stored values are read, merged with the editor's and   *)
(* written back; another save in between is lost.                          *)
(***************************************************************************)
Edited(s, base, key, values) ==
  edit' = [edit EXCEPT ![s] = [step |-> "read",
             values |-> [base |-> base, key |-> IF key = Mask THEN values.key ELSE key]]]

SaveReads(s) ==
  /\ edit[s].step = "idle"
  /\ \E base \in Addresses, key \in Keys \cup {Mask} : Edited(s, base, key, config)
  /\ UNCHANGED <<config, req, using, client, lock, cut, health>>

SaveWrites(s) ==
  /\ edit[s].step = "read"
  /\ config' = edit[s].values
  /\ edit' = [edit EXCEPT ![s].step = "written"]
  /\ UNCHANGED <<req, using, client, lock, cut, health>>

\* invalidate_health, after the values were read once more.
SaveInvalidates(s) ==
  /\ edit[s].step = "written"
  /\ edit' = [edit EXCEPT ![s].step = "done"]
  /\ health' = NoHealth
  /\ UNCHANGED <<config, req, using, client, lock, cut>>
----------------------------------------------------------------------------
RequestStep(r) ==
  \/ EnterGate(r) \/ UseClient(r) \/ CloseClient(r) \/ NewClient(r) \/ Succeeds(r)
  \/ Fails(r)

GatewayNext ==
  \/ \E r \in Requests : ReadConfig(r) \/ RequestStep(r)
  \/ CheckTimesOut
  \/ \E s \in Savers : SaveReads(s) \/ SaveWrites(s) \/ SaveInvalidates(s)

\* The gate and the lock are handed on in turn, and requests have a timeout.
GatewayFairness == \A r \in Requests : WF_gatewayVars(RequestStep(r))

GatewaySpec == GatewayInit /\ [][GatewayNext]_gatewayVars /\ GatewayFairness
----------------------------------------------------------------------------
GatewayTypeOK ==
  /\ config \in Configs
  /\ edit \in [Savers -> [step : {"idle", "read", "written", "done"}, values : Configs]]
  /\ req \in [Requests -> {"idle", "gate", "lock", "closing", "sent", "done"}]
  /\ using \in [Requests -> Configs]
  /\ client \in [base : Addresses, open : BOOLEAN]
  /\ lock \in Requests \cup {NoOne}
  /\ cut \subseteq Requests
  /\ health \in [known : BOOLEAN, ok : BOOLEAN, base : Addresses \cup {NoOne}]

(***************************************************************************)
(* A request goes to the address it read, whatever was saved and whatever  *)
(* client was built meanwhile: unless its client was closed under it, the  *)
(* shared client is open and is the one for that address                   *)
(* (_client_for_config).                                                   *)
(***************************************************************************)
RightServer ==
  \A r \in Requests :
    req[r] = "sent" /\ r \notin cut => client.open /\ client.base = using[r].base

\* No request is under way.
NoRequestOpen == \A r \in Requests : req[r] \in {"idle", "done"}
=============================================================================
