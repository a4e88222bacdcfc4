----------------------------- MODULE ConfigStore -----------------------------
(* What the portal's requests leave in NVS: storage/config_store.c and          *)
(* storage/nvs_manager.c under the handlers of ui/web_portal.c that write, with *)
(* wifi_manager.c's credentials. A request is a sequence of writes, each with a *)
(* commit of its own; the power may be lost between any two, and a write may    *)
(* fail. A stored value is the number of the request it came with, and its type.*)
EXTENDS Integers, Sequences

CONSTANTS
  MaxRequests,  \* bound: requests in a behaviour
  MaxFields     \* bound: fields in a form; FORM_MAX_FIELDS, 32 in the code

ASSUME StoreAssumption == MaxRequests \in Nat /\ MaxFields \in Nat

VARIABLES
  nvsFails, \* the device, which never changes: whether its NVS operations may fail
  nvs,      \* the namespaces device_cfg and wifi_creds: key -> value
  job,      \* the writes the request in progress still has to do
  request,  \* how many requests were made
  written,  \* history: the keys that this request is to set
  told,     \* the client was told that the request succeeded
  cleared,  \* history: /reset-node erased something, and no node_id was sent since
  lone      \* history: a node_secret was once sent without a node_id

vars == <<nvsFails, nvs, job, request, written, told, cleared, lone>>

\* dlm_config_schema: the fields that differ in what happens to them, by type. The
\* other five are like backend_url or auto_update.
Schema == [backend_url |-> "string", hardware_version |-> "string", node_id |-> "string",
           node_secret |-> "string", claim_token |-> "string",
           update_interval_min |-> "number", auto_update |-> "boolean"]

\* External: NVS takes keys of up to 15 characters.
TooLong == {"hardware_version", "update_interval_min"}

\* A key of a custom field, and the credentials.
Keys == DOMAIN Schema \cup {"custom", "ssid", "password"}

Absent == [type |-> "absent", request |-> 0]
Value(type) == [type |-> type, request |-> request]

\* What a client may send for a field.
Texts == {"text", "true", "number"}

\* Every field of the schema is stored as what the schema says, whatever clients
\* send for it: settings_handler's guesses at the type of a text never get a
\* value past the checks of config_store.c, so no getter meets a foreign type.
TypedFields ==
  \A k \in DOMAIN Schema : nvs[k] # Absent => nvs[k].type = Schema[k]

TypeOK ==
  /\ nvsFails \in BOOLEAN
  /\ nvs \in [Keys -> [type : {"absent", "string", "boolean", "number"},
                       request : 0..MaxRequests]]
  /\ TypedFields
  /\ job \in Seq([key : Keys, text : Texts \cup {"erase"}])
  /\ request \in 0..MaxRequests
  /\ written \subseteq Keys
  /\ told \in BOOLEAN /\ cleared \in BOOLEAN /\ lone \in BOOLEAN

Init ==
  /\ nvsFails \in BOOLEAN
  /\ nvs = [k \in Keys |-> Absent]
  /\ job = <<>> /\ request = 0 /\ written = {}
  /\ told = FALSE /\ cleared = FALSE /\ lone = FALSE

-----------------------------------------------------------------------------
\* The setters of config_store.c

\* Fault: every text stored as it came.
FaultyAccepts(key, type) == type = "string"

\* The schema's type check; a field that it does not know may have any type.
Accepts(key, type) == key \in DOMAIN Schema => Schema[key] = type

\* Which types a text can be stored as.
Reads(text, type) ==
  CASE type = "boolean" -> text = "true"
    [] type = "string" -> TRUE
    [] type = "number" -> text = "number"

\* settings_handler tries the setters in this order until one succeeds.
Rank(type) == CASE type = "boolean" -> 1 [] type = "string" -> 2 [] type = "number" -> 3

Tried(key, text) ==
  {t \in {"boolean", "string", "number"} : Accepts(key, t) /\ Reads(text, t)}

\* One field: stored by the first setter that succeeds, or dropped.
SetField(key, text) ==
  \/ \E t \in Tried(key, text) :
       /\ key \notin TooLong
       /\ nvsFails \/ \A u \in Tried(key, text) : Rank(t) <= Rank(u)
       /\ nvs' = [nvs EXCEPT ![key] = Value(t)]
  \/ /\ key \in TooLong \/ Tried(key, text) = {} \/ nvsFails
     /\ UNCHANGED nvs

EraseKey(key) ==
  \/ nvs' = [nvs EXCEPT ![key] = Absent]
  \/ nvsFails /\ UNCHANGED nvs

-----------------------------------------------------------------------------
\* The requests: what each is going to write.

Set(key, text) == [key |-> key, text |-> text]
Erase(key) == [key |-> key, text |-> "erase"]

\* Fault: the password first.
FaultySaveCredentials == <<Set("password", "text"), Set("ssid", "text")>>

\* wifi_manager_save_credentials
SaveCredentials == <<Set("ssid", "text"), Set("password", "text")>>

\* A form of /settings: custom fields, then a network or none.
Fields == {Set(k, t) : k \in {"backend_url", "hardware_version", "update_interval_min",
                             "auto_update", "custom"}, t \in Texts}
Forms == UNION {[1..n -> Fields] : n \in 0..MaxFields}
Networks == {<<>>, SaveCredentials}

\* Fault: the secret first.
FaultyNode(text) == <<Set("node_secret", text), Set("node_id", text)>>

\* A node's credentials, as settings_handler and claim_handler write them.
Node(text) == <<Set("node_id", text), Set("node_secret", text)>>

\* Fault: the secret erased before the name that tells of it.
FaultyResetNode == <<Erase("node_secret"), Erase("node_id"), Erase("claim_token")>>

ResetNode == <<Erase("node_id"), Erase("node_secret"), Erase("claim_token")>>

KeysOf(writes) == {writes[i].key : i \in 1..Len(writes)}

\* The HTTP task takes a request; success is told before the credentials are saved.
Request(writes, sentFirst) ==
  /\ job = <<>>
  /\ request < MaxRequests
  /\ job' = writes
  /\ request' = request + 1
  /\ written' = {writes[i].key : i \in {j \in 1..Len(writes) : writes[j].text # "erase"}}
  /\ told' = (sentFirst \/ writes = <<>>)
  /\ cleared' = (cleared /\ "node_id" \notin written')
  /\ lone' = (lone \/ ("node_secret" \in written' /\ "node_id" \notin written'))
  /\ UNCHANGED nvs

\* POST /settings with fields of the node takes nothing else from the form.
settings_handler ==
  \/ \E form \in Forms, network \in Networks : Request(form \o network, network # <<>>)
  \/ \E node \in {Node("text"), <<Set("node_id", "text")>>, <<Set("node_secret", "text")>>} :
       Request(node, FALSE)

\* POST /claim, once the server has answered. (The firmware version it may name goes
\* to ota_config last; nothing here reads it.)
claim_handler == Request(Append(Node("text"), Set("claim_token", "text")), FALSE)

\* POST /reset-node, /reset-wifi
reset_node_handler == Request(ResetNode, FALSE)
reset_wifi_handler == Request(<<Erase("ssid"), Erase("password")>>, FALSE)

-----------------------------------------------------------------------------
\* The next write. A failure to save the SSID ends the request; the results of all
\* other writes are ignored.
Write ==
  /\ job # <<>>
  /\ LET w == Head(job)
         done == nvs' # nvs
     IN /\ IF w.text = "erase" THEN EraseKey(w.key) ELSE SetField(w.key, w.text)
        /\ job' = IF w.key = "ssid" /\ w.text # "erase" /\ ~done THEN <<>> ELSE Tail(job)
        /\ cleared' = (cleared \/ (done /\ w.text = "erase" /\ w.key \in KeysOf(ResetNode)))
  /\ told' = (told \/ job' = <<>>)
  /\ UNCHANGED <<request, written, lone>>

PowerLoss ==
  /\ job' = <<>>
  /\ told' = FALSE
  /\ UNCHANGED <<nvs, request, written, cleared, lone>>

Step ==
  \/ settings_handler
  \/ claim_handler
  \/ reset_node_handler
  \/ reset_wifi_handler
  \/ Write
  \/ PowerLoss

Next == Step /\ UNCHANGED nvsFails

Spec == Init /\ [][Next]_vars

-----------------------------------------------------------------------------
\* The password of a request is never stored beside the SSID of an earlier one, however
\* power losses, failed writes and resets of the network cut requests short: what
\* wifi_manager_save_credentials leaves torn is a new SSID with an older password. (Such
\* a pair joins nothing: the old network is gone with the first of the two commits.)
CredentialsInOrder ==
  nvs["ssid"] # Absent => nvs["password"].request <= nvs["ssid"].request

\* A node reset cut short leaves no node_id behind to pass for a configured node:
\* once anything of the node is erased, there is none until a new one is sent
\* (reset_node_handler, where NVS works: it ignores the results of the erases).
NodeResetIsClean == cleared /\ ~nvsFails => nvs["node_id"] = Absent

\* A claim or a form cut short pairs a new node_id with an older secret or none,
\* never a node_id with the secret of a later node: the two commits of claim_handler
\* and settings_handler come in this order (where NVS works, and no secret was ever
\* sent alone).
NodeInOrder ==
  nvs["node_id"] # Absent /\ ~lone /\ ~nvsFails =>
    nvs["node_secret"].request <= nvs["node_id"].request

\* config_store.c: all values are persisted. A field of the schema that the client
\* was told is saved is in NVS, where NVS works.
SavedIsStored ==
  told /\ job = <<>> /\ ~nvsFails =>
    \A k \in written \cap {"backend_url", "hardware_version", "node_id", "node_secret"} :
      nvs[k].request = request

=============================================================================
