------------------------- MODULE ConfigStoreProofs -------------------------
(* Proofs about ConfigStore, for any number of requests and form fields.        *)
EXTENDS ConfigStore, SequenceTheorems, TLAPS

Writes == [key : Keys, text : Texts \cup {"erase"}]

Sets(w, key) == w.key = key /\ w.text # "erase"
Erases(w, key) == w.key = key /\ w.text = "erase"

\* A request either writes or erases.
Unmixed(ws) ==
  \A i, j \in 1..Len(ws) : ws[i].text = "erase" => ws[j].text = "erase"

\* What a request writes of the credentials and of a node, and erases of a node,
\* comes in the order the properties are about, or the first part is done already.
PasswordLast(ws, done) ==
  \A i \in 1..Len(ws) : Sets(ws[i], "password") =>
    done \/ \E j \in 1..Len(ws) : j < i /\ Sets(ws[j], "ssid")

SecretLast(ws, done) ==
  \A i \in 1..Len(ws) : Sets(ws[i], "node_secret") =>
    done \/ \E j \in 1..Len(ws) : j < i /\ Sets(ws[j], "node_id")

NodeIdFirst(ws, done) ==
  \A i \in 1..Len(ws) : ws[i].text = "erase" /\ ws[i].key \in {"node_secret", "claim_token"} =>
    done \/ \E j \in 1..Len(ws) : j < i /\ Erases(ws[j], "node_id")

\* What a handler asks for.
Orderly(ws) ==
  /\ ws \in Seq(Writes)
  /\ Unmixed(ws) /\ PasswordLast(ws, FALSE) /\ NodeIdFirst(ws, FALSE)

Alone(ws) ==
  /\ \E i \in 1..Len(ws) : Sets(ws[i], "node_secret")
  /\ \A i \in 1..Len(ws) : ~Sets(ws[i], "node_id")

-----------------------------------------------------------------------------
\* The invariant.
Stored(key) == nvs[key].request = request

JobInv ==
  /\ Unmixed(job)
  /\ PasswordLast(job, Stored("ssid"))
  /\ ~lone /\ ~nvsFails => SecretLast(job, Stored("node_id"))
  /\ ~nvsFails => NodeIdFirst(job, nvs["node_id"] = Absent)
  /\ cleared => \A i \in 1..Len(job) : ~Sets(job[i], "node_id")

IInv ==
  /\ TypeOK
  /\ \A k \in Keys : nvs[k].request <= request
  /\ JobInv
  /\ CredentialsInOrder /\ NodeResetIsClean /\ NodeInOrder

LEMMA KeysAre ==
  /\ DOMAIN Schema = {"backend_url", "hardware_version", "node_id", "node_secret",
                      "claim_token", "update_interval_min", "auto_update"}
  /\ {"backend_url", "hardware_version", "node_id", "node_secret", "claim_token",
      "update_interval_min", "auto_update", "custom", "ssid", "password"} = Keys
<1>1. DOMAIN Schema = {"backend_url", "hardware_version", "node_id", "node_secret",
                       "claim_token", "update_interval_min", "auto_update"}
  BY DEF Schema
<1> QED BY <1>1 DEF Keys

LEMMA InitIInv == Init => IInv
<1> SUFFICES ASSUME Init PROVE IInv
  OBVIOUS
<1>0. Absent \in [type : {"absent", "string", "boolean", "number"}, request : 0..MaxRequests]
  BY StoreAssumption DEF Absent
<1>1. TypeOK
  <2>1. \A k \in DOMAIN Schema : nvs[k] = Absent
    BY DEF Init, Keys
  <2>2. job \in Seq([key : Keys, text : Texts \cup {"erase"}])
    BY EmptySeq DEF Init
  <2>3. nvs \in [Keys -> [type : {"absent", "string", "boolean", "number"},
                          request : 0..MaxRequests]]
    BY <1>0 DEF Init
  <2>4. 0 \in 0..MaxRequests
    BY StoreAssumption
  <2> QED BY <2>1, <2>2, <2>3, <2>4 DEF Init, TypeOK, TypedFields
<1>2. JobInv
  BY DEF Init, JobInv, Unmixed, PasswordLast, SecretLast, NodeIdFirst
<1>3. \A k \in Keys : nvs[k] = Absent
  BY DEF Init
<1> QED
  BY <1>1, <1>2, <1>3, KeysAre
     DEF Init, IInv, Absent, CredentialsInOrder, NodeResetIsClean, NodeInOrder

-----------------------------------------------------------------------------
\* Forms: fields, none of which is a credential, and a network or none.

LEMMA FormWrites ==
  ASSUME NEW form \in Forms
  PROVE  /\ form \in Seq(Writes)
         /\ \A i \in 1..Len(form) : form[i] \in Fields
<1>1. PICK n \in 0..MaxFields : form \in [1..n -> Fields]
  BY DEF Forms
<1>2. n \in Nat
  BY <1>1, StoreAssumption
<1>3. Fields \subseteq Writes
  BY DEF Fields, Set, Writes, Keys, Texts, Schema
<1>4. form \in Seq(Fields)
  BY <1>1, <1>2, SeqDef
<1> QED BY <1>3, <1>4, SeqMonotonic, ElementOfSeq

LEMMA FormIsOrderly ==
  ASSUME NEW form \in Forms, NEW network \in Networks
  PROVE  Orderly(form \o network) /\ SecretLast(form \o network, FALSE)
<1>1. network \in Seq(Writes)
  <2>1. <<>> \in Seq(Writes)
    BY EmptySeq
  <2>2. SaveCredentials \in Seq(Writes)
    BY DEF SaveCredentials, Set, Writes, Keys, Texts
  <2> QED BY <2>1, <2>2 DEF Networks
<1>2. /\ form \o network \in Seq(Writes)
      /\ Len(form \o network) = Len(form) + Len(network)
      /\ \A i \in 1..Len(form) + Len(network) :
           (form \o network)[i] = IF i <= Len(form) THEN form[i] ELSE network[i - Len(form)]
  BY <1>1, FormWrites, ConcatProperties
<1>3. Len(form) \in Nat /\ Len(network) \in Nat
  BY <1>1, FormWrites, LenProperties
<1>4. \A i \in 1..Len(form) :
        /\ form[i].text # "erase"
        /\ form[i].key \notin {"password", "ssid", "node_id", "node_secret", "claim_token"}
  BY FormWrites DEF Fields, Set, Texts
<1>5. CASE network = <<>>
  <2>1. Len(network) = 0
    BY <1>5
  <2>2. \A i \in 1..Len(form \o network) : (form \o network)[i] = form[i] /\ i \in 1..Len(form)
    BY <1>2, <1>3, <2>1
  <2> QED
    BY <1>2, <1>4, <2>2 DEF Orderly, Unmixed, PasswordLast, NodeIdFirst, SecretLast, Sets
<1>6. CASE network = SaveCredentials
  <2>1. Len(network) = 2 /\ network[1] = Set("ssid", "text") /\ network[2] = Set("password", "text")
    BY <1>6 DEF SaveCredentials
  <2> DEFINE ws == form \o network
             n == Len(form)
  <2> HIDE DEF ws
  <2>0. /\ Len(ws) = n + 2 /\ n \in Nat
        /\ \A i \in 1..n + 2 : ws[i] = IF i <= n THEN form[i] ELSE network[i - n]
    BY <1>2, <1>3, <2>1 DEF ws
  <2> HIDE DEF n
  <2>2. /\ \A i \in 1..n + 2 : i <= n \/ i = n + 1 \/ i = n + 2
        /\ ws[n + 1] = Set("ssid", "text")
        /\ ws[n + 2] = Set("password", "text")
    <3>1. n + 1 \in 1..n + 2 /\ n + 2 \in 1..n + 2 /\ (n + 1) - n = 1 /\ (n + 2) - n = 2
      BY <2>0
    <3>2. ~(n + 1 <= n) /\ ~(n + 2 <= n)
      BY <2>0
    <3>3. ws[n + 1] = network[(n + 1) - n] /\ ws[n + 2] = network[(n + 2) - n]
      BY <2>0, <3>1, <3>2
    <3> QED BY <2>0, <2>1, <3>1, <3>3
  <2>3. \A i \in 1..n + 2 :
          /\ ws[i].text # "erase"
          /\ ws[i].key \notin {"node_id", "node_secret"}
          /\ ws[i].key = "password" => i = n + 2
    BY <1>4, <2>0, <2>2 DEF Set, n
  <2>4. PasswordLast(ws, FALSE)
    BY <2>0, <2>2, <2>3 DEF PasswordLast, Sets, Set
  <2>5. Orderly(ws) /\ SecretLast(ws, FALSE)
    BY <1>2, <2>0, <2>3, <2>4 DEF Orderly, Unmixed, NodeIdFirst, SecretLast, Sets, ws
  <2> QED BY <2>5 DEF ws
<1> QED BY <1>5, <1>6 DEF Networks

\* Every handler asks for writes in order; a secret alone is what lone remembers.
LEMMA HandlersAreOrderly ==
  ASSUME settings_handler \/ claim_handler \/ reset_node_handler \/ reset_wifi_handler
  PROVE  \E ws, sentFirst :
           /\ Request(ws, sentFirst) /\ sentFirst \in BOOLEAN
           /\ Orderly(ws)
           /\ Alone(ws) \/ SecretLast(ws, FALSE)
<1> DEFINE ws1 == Node("text")
           ws2 == <<Set("node_id", "text")>>
           ws3 == <<Set("node_secret", "text")>>
           ws4 == Append(Node("text"), Set("claim_token", "text"))
           ws5 == ResetNode
           ws6 == <<Erase("ssid"), Erase("password")>>
<1> USE DEF Orderly, Unmixed, PasswordLast, NodeIdFirst, SecretLast, Sets, Erases, Set, Erase,
            Writes, Keys, Schema, Texts
<1>1. Orderly(ws1) /\ SecretLast(ws1, FALSE)
  BY DEF Node
<1>2. Orderly(ws2) /\ SecretLast(ws2, FALSE)
  OBVIOUS
<1>3. Orderly(ws3) /\ Alone(ws3)
  BY DEF Alone
<1>4. Orderly(ws4) /\ SecretLast(ws4, FALSE)
  BY DEF Node
<1>5. Orderly(ws5) /\ SecretLast(ws5, FALSE)
  BY DEF ResetNode
<1>6. Orderly(ws6) /\ SecretLast(ws6, FALSE)
  OBVIOUS
<1> HIDE DEF Orderly, Unmixed, PasswordLast, NodeIdFirst, SecretLast, Sets, Erases, Set, Erase,
             Writes, Keys, Schema, Texts
<1>7. CASE \E form \in Forms, network \in Networks : Request(form \o network, network # <<>>)
  BY <1>7, FormIsOrderly
<1>8. CASE Request(ws1, FALSE) \/ Request(ws2, FALSE) \/ Request(ws3, FALSE)
  BY <1>1, <1>2, <1>3, <1>8
<1>9. CASE claim_handler
  BY <1>4, <1>9 DEF claim_handler
<1>10. CASE reset_node_handler
  BY <1>5, <1>10 DEF reset_node_handler
<1>11. CASE reset_wifi_handler
  BY <1>6, <1>11 DEF reset_wifi_handler
<1> QED
  BY <1>7, <1>8, <1>9, <1>10, <1>11 DEF settings_handler

LEMMA RequestIInv ==
  ASSUME IInv, NEW ws, NEW sentFirst \in BOOLEAN, Request(ws, sentFirst), UNCHANGED nvsFails,
         Orderly(ws), Alone(ws) \/ SecretLast(ws, FALSE)
  PROVE  IInv'
<1>1. /\ ws \in Seq(Writes) /\ job' = ws
      /\ request' = request + 1 /\ request < MaxRequests /\ request \in 0..MaxRequests
      /\ nvs' = nvs /\ nvsFails' = nvsFails
  BY DEF Request, Orderly, IInv, TypeOK
<1>2. \A i \in 1..Len(ws) : ws[i].key \in Keys
  <2>1. \A i \in 1..Len(ws) : ws[i] \in Writes
    BY <1>1, ElementOfSeq
  <2> QED BY <2>1 DEF Writes
<1>3. written' = {ws[i].key : i \in {j \in 1..Len(ws) : ws[j].text # "erase"}}
  BY DEF Request
<1>4. \A k : k \in written' <=> \E i \in 1..Len(ws) : Sets(ws[i], k)
  BY <1>3 DEF Sets
<1>5. TypeOK'
  <2>1. 0..MaxRequests = 0..MaxRequests /\ request' \in 0..MaxRequests
    BY <1>1, StoreAssumption
  <2>2. told' \in BOOLEAN /\ cleared' \in BOOLEAN /\ lone' \in BOOLEAN
    BY DEF Request, IInv, TypeOK
  <2>3. written' \subseteq Keys
    BY <1>2, <1>3
  <2>4. TypedFields'
    BY <1>1 DEF IInv, TypeOK, TypedFields
  <2> QED BY <1>1, <2>1, <2>2, <2>3, <2>4 DEF IInv, TypeOK, Writes
<1>6. \A k \in Keys : nvs'[k].request <= request'
  <2> SUFFICES ASSUME NEW k \in Keys PROVE nvs[k].request <= request + 1
    BY <1>1
  <2>1. nvs[k].request \in 0..MaxRequests /\ nvs[k].request <= request
    BY DEF IInv, TypeOK
  <2> QED BY <1>1, <2>1, StoreAssumption
<1>7. JobInv'
  <2>1. ~lone' => SecretLast(ws, FALSE)
    <3>1. Alone(ws) => "node_secret" \in written' /\ "node_id" \notin written'
      BY <1>4 DEF Alone
    <3> QED BY <3>1 DEF Request
  <2>2. cleared' => \A i \in 1..Len(ws) : ~Sets(ws[i], "node_id")
    BY <1>4 DEF Request
  <2> QED
    BY <1>1, <2>1, <2>2 DEF JobInv, Orderly, PasswordLast, SecretLast, NodeIdFirst, Unmixed
<1>8. CredentialsInOrder' /\ NodeResetIsClean' /\ NodeInOrder'
  <2>1. (cleared' => cleared) /\ (lone => lone')
    BY DEF Request
  <2>2. CredentialsInOrder'
    BY <1>1 DEF IInv, CredentialsInOrder
  <2>3. NodeResetIsClean'
    BY <1>1, <2>1 DEF IInv, NodeResetIsClean
  <2>4. NodeInOrder'
    BY <1>1, <2>1 DEF IInv, NodeInOrder
  <2> QED BY <2>2, <2>3, <2>4
<1> QED BY <1>5, <1>6, <1>7, <1>8 DEF IInv

LEMMA PowerLossIInv ==
  ASSUME IInv, PowerLoss, UNCHANGED nvsFails
  PROVE  IInv'
<1>1. JobInv'
  BY DEF PowerLoss, JobInv, Unmixed, PasswordLast, SecretLast, NodeIdFirst
<1>2. TypeOK'
  BY EmptySeq DEF PowerLoss, IInv, TypeOK, TypedFields
<1> QED
  BY <1>1, <1>2 DEF PowerLoss, IInv, CredentialsInOrder, NodeResetIsClean, NodeInOrder

-----------------------------------------------------------------------------
\* One write.

\* What a setter does to NVS: nothing, or this field gets this request's value, of
\* the schema's type; what it never fails to store is a node's.
LEMMA SetFieldStores ==
  ASSUME IInv, NEW key \in Keys, NEW text \in Texts, SetField(key, text)
  PROVE  /\ nvs' \in [Keys -> [type : {"absent", "string", "boolean", "number"},
                               request : 0..MaxRequests]]
         /\ TypedFields'
         /\ \A k \in Keys \ {key} : nvs'[k] = nvs[k]
         /\ nvs' = nvs \/ (nvs'[key].request = request /\ nvs'[key] # Absent)
         /\ ~nvsFails /\ key \in {"node_id", "node_secret"} => nvs'[key].request = request
<1> USE DEF IInv, TypeOK
<1>1. CASE UNCHANGED nvs /\ (key \in TooLong \/ Tried(key, text) = {} \/ nvsFails)
  <2>1. key \in {"node_id", "node_secret"} => key \notin TooLong
    BY DEF TooLong
  <2>2. key \in {"node_id", "node_secret"} => "string" \in Tried(key, text)
    BY DEF Tried, Accepts, Reads, Schema
  <2> QED BY <1>1, <2>1, <2>2 DEF TypedFields
<1>2. CASE \E t \in Tried(key, text) : nvs' = [nvs EXCEPT ![key] = Value(t)]
  <2>1. PICK t \in Tried(key, text) : nvs' = [nvs EXCEPT ![key] = Value(t)]
    BY <1>2
  <2>2. t \in {"boolean", "string", "number"} /\ (key \in DOMAIN Schema => Schema[key] = t)
    BY DEF Tried, Accepts
  <2>3. /\ Value(t) \in [type : {"absent", "string", "boolean", "number"},
                         request : 0..MaxRequests]
        /\ Value(t).request = request /\ Value(t).type = t /\ Value(t) # Absent
    BY <2>2 DEF Value, Absent
  <2>4. TypedFields'
    <3>1. DOMAIN Schema \subseteq Keys
      BY DEF Keys
    <3> QED BY <2>1, <2>2, <2>3, <3>1 DEF TypedFields
  <2> QED BY <2>1, <2>3, <2>4
<1> QED BY <1>1, <1>2 DEF SetField

\* What is left of the writes keeps its order, with the first one done.
LEMMA TailKeepsOrder ==
  ASSUME NEW ws \in Seq(Writes), ws # <<>>, NEW d1 \in BOOLEAN, NEW d2 \in BOOLEAN, NEW d3 \in BOOLEAN
  PROVE  /\ Unmixed(ws) => Unmixed(Tail(ws))
         /\ PasswordLast(ws, d1) => PasswordLast(Tail(ws), d1 \/ Sets(ws[1], "ssid"))
         /\ SecretLast(ws, d2) => SecretLast(Tail(ws), d2 \/ Sets(ws[1], "node_id"))
         /\ NodeIdFirst(ws, d3) => NodeIdFirst(Tail(ws), d3 \/ Erases(ws[1], "node_id"))
<1> DEFINE rest == Tail(ws)
           n == Len(ws)
<1>1. /\ n \in Nat \ {0} /\ Len(rest) = n - 1
      /\ \A i \in 1..Len(rest) : rest[i] = ws[i + 1]
  BY HeadTailProperties, EmptySeq
<1> HIDE DEF rest, n
<1>2. \A i \in 1..Len(rest) : i + 1 \in 1..n
  BY <1>1
<1>3. \A j \in 1..n : j = 1 \/ (j - 1 \in 1..Len(rest) /\ rest[j - 1] = ws[j])
  BY <1>1
<1>4. ASSUME NEW i \in 1..Len(rest), NEW j \in 1..n, j < i + 1
      PROVE  j = 1 \/ (j - 1 \in 1..Len(rest) /\ j - 1 < i /\ rest[j - 1] = ws[j])
  BY <1>1, <1>3, <1>4
<1>5. Unmixed(ws) => Unmixed(rest)
  BY <1>1, <1>2 DEF Unmixed, n
<1>6. PasswordLast(ws, d1) => PasswordLast(rest, d1 \/ Sets(ws[1], "ssid"))
  <2> SUFFICES ASSUME PasswordLast(ws, d1), NEW i \in 1..Len(rest), Sets(rest[i], "password"),
                      ~d1, ~Sets(ws[1], "ssid")
               PROVE  \E j \in 1..Len(rest) : j < i /\ Sets(rest[j], "ssid")
    BY DEF PasswordLast
  <2>1. PICK j \in 1..n : j < i + 1 /\ Sets(ws[j], "ssid")
    BY <1>1, <1>2 DEF PasswordLast, n
  <2> QED BY <1>4, <2>1
<1>7. SecretLast(ws, d2) => SecretLast(rest, d2 \/ Sets(ws[1], "node_id"))
  <2> SUFFICES ASSUME SecretLast(ws, d2), NEW i \in 1..Len(rest), Sets(rest[i], "node_secret"),
                      ~d2, ~Sets(ws[1], "node_id")
               PROVE  \E j \in 1..Len(rest) : j < i /\ Sets(rest[j], "node_id")
    BY DEF SecretLast
  <2>1. PICK j \in 1..n : j < i + 1 /\ Sets(ws[j], "node_id")
    BY <1>1, <1>2 DEF SecretLast, n
  <2> QED BY <1>4, <2>1
<1>8. NodeIdFirst(ws, d3) => NodeIdFirst(rest, d3 \/ Erases(ws[1], "node_id"))
  <2> SUFFICES ASSUME NodeIdFirst(ws, d3), NEW i \in 1..Len(rest), rest[i].text = "erase",
                      rest[i].key \in {"node_secret", "claim_token"},
                      ~d3, ~Erases(ws[1], "node_id")
               PROVE  \E j \in 1..Len(rest) : j < i /\ Erases(rest[j], "node_id")
    BY DEF NodeIdFirst
  <2>1. PICK j \in 1..n : j < i + 1 /\ Erases(ws[j], "node_id")
    BY <1>1, <1>2 DEF NodeIdFirst, n
  <2> QED BY <1>4, <2>1
<1> QED BY <1>5, <1>6, <1>7, <1>8 DEF rest

LEMMA WriteIInv ==
  ASSUME IInv, Write, UNCHANGED nvsFails
  PROVE  IInv'
<1> DEFINE w == Head(job)
<1>1. /\ job \in Seq(Writes) /\ job # <<>>
      /\ w \in Writes /\ w = job[1] /\ 1 \in 1..Len(job)
      /\ Tail(job) \in Seq(Writes)
  <2>1. job \in Seq(Writes) /\ job # <<>>
    BY DEF Write, IInv, TypeOK, Writes
  <2>2. w = job[1]
    BY <2>1
  <2> QED BY <2>1, <2>2, HeadTailProperties, EmptySeq
<1>2. /\ w.key \in Keys
      /\ w.text \in Texts \cup {"erase"}
  BY <1>1 DEF Writes
<1>3. job' = Tail(job) \/ (job' = <<>> /\ w.key = "ssid" /\ nvs' = nvs)
  BY DEF Write
<1>4. request' = request /\ written' = written /\ lone' = lone /\ nvsFails' = nvsFails
  BY DEF Write
<1>5. cleared' = (cleared \/ (nvs' # nvs /\ w.text = "erase" /\ w.key \in KeysOf(ResetNode)))
  BY DEF Write
<1>6. KeysOf(ResetNode) = {"node_id", "node_secret", "claim_token"}
  BY DEF KeysOf, ResetNode, Erase
<1> HIDE DEF w
<1>7. job' \in Seq(Writes)
  BY <1>1, <1>3, EmptySeq
<1>8. told' \in BOOLEAN /\ cleared' \in BOOLEAN
  BY <1>5 DEF Write, IInv, TypeOK
\* The order of what is left.
<1>9. /\ Unmixed(job')
      /\ PasswordLast(job', Stored("ssid") \/ (nvs' # nvs /\ Sets(w, "ssid")))
      /\ ~lone /\ ~nvsFails => SecretLast(job', Stored("node_id") \/ Sets(w, "node_id"))
      /\ ~nvsFails => NodeIdFirst(job', nvs["node_id"] = Absent \/ Erases(w, "node_id"))
      /\ cleared => \A i \in 1..Len(job') : ~Sets(job'[i], "node_id")
      /\ \A i \in 1..Len(job') : job'[i].text = "erase" <=> w.text = "erase"
  <2>1. CASE job' = <<>>
    BY <2>1 DEF Unmixed, PasswordLast, SecretLast, NodeIdFirst
  <2>2. CASE job' # <<>> /\ job' = Tail(job)
    <3>1. /\ Unmixed(job)
          /\ PasswordLast(job, Stored("ssid"))
          /\ ~lone /\ ~nvsFails => SecretLast(job, Stored("node_id"))
          /\ ~nvsFails => NodeIdFirst(job, nvs["node_id"] = Absent)
          /\ cleared => \A i \in 1..Len(job) : ~Sets(job[i], "node_id")
      BY DEF IInv, JobInv
    <3>2. Sets(w, "ssid") => nvs' # nvs
      BY <2>2 DEF Write, Sets, w
    <3>3. /\ Unmixed(job')
          /\ PasswordLast(job', Stored("ssid") \/ (nvs' # nvs /\ Sets(w, "ssid")))
          /\ ~lone /\ ~nvsFails => SecretLast(job', Stored("node_id") \/ Sets(w, "node_id"))
          /\ ~nvsFails => NodeIdFirst(job', nvs["node_id"] = Absent \/ Erases(w, "node_id"))
      <4>1. Stored("ssid") \in BOOLEAN /\ Stored("node_id") \in BOOLEAN
        BY DEF Stored
      <4>2. (nvs["node_id"] = Absent) \in BOOLEAN
        OBVIOUS
      <4>3. Unmixed(job')
        BY <1>1, <2>2, <3>1, TailKeepsOrder
      <4>4. PasswordLast(job', Stored("ssid") \/ Sets(w, "ssid"))
        BY <1>1, <2>2, <3>1, <4>1, TailKeepsOrder
      <4>5. ~lone /\ ~nvsFails => SecretLast(job', Stored("node_id") \/ Sets(w, "node_id"))
        BY <1>1, <2>2, <3>1, <4>1, TailKeepsOrder
      <4>6. ~nvsFails => NodeIdFirst(job', nvs["node_id"] = Absent \/ Erases(w, "node_id"))
        BY <1>1, <2>2, <3>1, <4>2, TailKeepsOrder
      <4>7. PasswordLast(job', Stored("ssid") \/ (nvs' # nvs /\ Sets(w, "ssid")))
        BY <3>2, <4>4 DEF PasswordLast
      <4> QED BY <4>3, <4>5, <4>6, <4>7
    <3>4. \A i \in 1..Len(job') : i + 1 \in 1..Len(job) /\ job'[i] = job[i + 1]
      <4>1. Len(job') = Len(job) - 1 /\ \A i \in 1..Len(job') : job'[i] = job[i + 1]
        BY <1>1, <2>2, HeadTailProperties
      <4>2. Len(job) \in Nat
        BY <1>1, LenProperties
      <4> QED BY <4>1, <4>2
    <3>5. cleared => \A i \in 1..Len(job') : ~Sets(job'[i], "node_id")
      BY <3>1, <3>4
    <3>6. \A i \in 1..Len(job') : job'[i].text = "erase" <=> w.text = "erase"
      BY <1>1, <3>1, <3>4 DEF Unmixed
    <3> QED BY <3>3, <3>5, <3>6
  <2> QED BY <1>3, <2>1, <2>2
<1>10. CASE w.text = "erase"
  <2>1. EraseKey(w.key)
    BY <1>10 DEF Write, w
  <2>2. /\ nvs' = [nvs EXCEPT ![w.key] = Absent] \/ (nvs' = nvs /\ nvsFails)
        /\ nvs \in [Keys -> [type : {"absent", "string", "boolean", "number"},
                             request : 0..MaxRequests]]
        /\ request \in 0..MaxRequests
    BY <2>1 DEF EraseKey, IInv, TypeOK
  <2>3. /\ \A k \in Keys : nvs'[k] = nvs[k] \/ (nvs'[k] = Absent /\ k = w.key)
        /\ ~nvsFails => nvs'[w.key] = Absent
    BY <1>2, <2>2
  <2>4. nvs' \in [Keys -> [type : {"absent", "string", "boolean", "number"},
                           request : 0..MaxRequests]]
    <3>1. Absent \in [type : {"absent", "string", "boolean", "number"}, request : 0..MaxRequests]
      BY StoreAssumption DEF Absent
    <3> QED BY <2>2, <3>1
  <2>5. \A k \in Keys : nvs[k].request \in Nat /\ nvs[k].request <= request
    BY <2>2, StoreAssumption DEF IInv
  <2>6. TypeOK'
    <3>1. TypedFields'
      <4>1. \A k \in DOMAIN Schema : k \in Keys
        BY DEF Keys
      <4> QED BY <2>3, <4>1 DEF IInv, TypeOK, TypedFields
    <3> QED BY <1>4, <1>7, <1>8, <2>4, <3>1 DEF IInv, TypeOK, Writes
  <2>7. \A k \in Keys : nvs'[k].request <= request'
    BY <1>4, <2>2, <2>3, <2>5, StoreAssumption DEF Absent
  <2>8. JobInv'
    <3>1. \A i \in 1..Len(job') : job'[i].text = "erase"
      BY <1>9, <1>10
    <3>2. ~nvsFails => NodeIdFirst(job', nvs'["node_id"] = Absent)
      <4>1. ~nvsFails /\ (nvs["node_id"] = Absent \/ Erases(w, "node_id")) => nvs'["node_id"] = Absent
        BY <2>3, KeysAre DEF Erases
      <4> QED BY <1>9, <4>1 DEF NodeIdFirst
    <3> QED
      BY <1>4, <1>9, <3>1, <3>2 DEF JobInv, PasswordLast, SecretLast, Sets
  <2>9. CredentialsInOrder'
    BY <2>3, <2>5, KeysAre DEF IInv, CredentialsInOrder, Absent
  <2>10. NodeInOrder'
    BY <1>4, <2>3, <2>5, KeysAre DEF IInv, NodeInOrder, Absent
  <2>11. NodeResetIsClean'
    <3> SUFFICES ASSUME cleared', ~nvsFails PROVE nvs'["node_id"] = Absent
      BY <1>4 DEF NodeResetIsClean
    <3>1. CASE cleared
      BY <2>3, <3>1, KeysAre DEF IInv, NodeResetIsClean
    <3>2. CASE w.key = "node_id"
      BY <2>3, <3>2
    <3>3. CASE w.key \in {"node_secret", "claim_token"}
      <4>1. NodeIdFirst(job, nvs["node_id"] = Absent)
        BY DEF IInv, JobInv
      <4>2. Len(job) \in Nat
        BY <1>1, LenProperties
      <4>3. nvs["node_id"] = Absent
        BY <1>1, <1>10, <3>3, <4>1, <4>2 DEF NodeIdFirst
      <4> QED BY <2>3, <4>3, KeysAre
    <3> QED BY <1>5, <1>6, <3>1, <3>2, <3>3
  <2> QED BY <2>6, <2>7, <2>8, <2>9, <2>10, <2>11 DEF IInv
<1>11. CASE w.text # "erase"
  <2>1. SetField(w.key, w.text)
    BY <1>11 DEF Write, w
  <2>2. /\ nvs' \in [Keys -> [type : {"absent", "string", "boolean", "number"},
                              request : 0..MaxRequests]]
        /\ TypedFields'
        /\ \A k \in Keys \ {w.key} : nvs'[k] = nvs[k]
        /\ nvs' = nvs \/ (nvs'[w.key].request = request /\ nvs'[w.key] # Absent)
        /\ ~nvsFails /\ w.key \in {"node_id", "node_secret"} => nvs'[w.key].request = request
    BY <1>2, <1>11, <2>1, SetFieldStores
  <2>3. /\ request \in Nat
        /\ \A k \in Keys : nvs[k].request \in Nat /\ nvs[k].request <= request
    BY StoreAssumption DEF IInv, TypeOK
  <2>4. TypeOK'
    BY <1>4, <1>7, <1>8, <2>2 DEF IInv, TypeOK, Writes
  <2>5. \A k \in Keys : nvs'[k].request <= request'
    BY <1>4, <2>2, <2>3
  <2>6. cleared' = cleared
    BY <1>5, <1>11 DEF IInv, TypeOK
  <2>7. JobInv'
    <3>1. Stored("ssid") \/ (nvs' # nvs /\ Sets(w, "ssid")) => Stored("ssid")'
      BY <1>4, <2>2, KeysAre DEF Stored, Sets
    <3>2. ~nvsFails /\ (Stored("node_id") \/ Sets(w, "node_id")) => Stored("node_id")'
      BY <1>4, <2>2, KeysAre DEF Stored, Sets
    <3>3. PasswordLast(job', Stored("ssid")')
      BY <1>9, <3>1 DEF PasswordLast
    <3>4. ~lone /\ ~nvsFails => SecretLast(job', Stored("node_id")')
      BY <1>9, <3>2 DEF SecretLast
    <3>5. NodeIdFirst(job', nvs'["node_id"] = Absent)
      BY <1>9, <1>11 DEF NodeIdFirst
    <3> QED BY <1>4, <1>9, <2>6, <3>3, <3>4, <3>5 DEF JobInv
  <2>8. CredentialsInOrder'
    <3>1. CASE w.key = "password"
      <4>1. Len(job) \in Nat /\ PasswordLast(job, Stored("ssid"))
        BY <1>1, LenProperties DEF IInv, JobInv
      <4>2. Stored("ssid")
        BY <1>1, <1>11, <3>1, <4>1 DEF PasswordLast, Sets
      <4> QED BY <2>2, <2>3, <3>1, <4>2, KeysAre DEF IInv, CredentialsInOrder, Stored
    <3>2. CASE w.key # "password"
      BY <2>2, <2>3, <3>2, KeysAre DEF IInv, CredentialsInOrder
    <3> QED BY <3>1, <3>2
  <2>9. NodeInOrder'
    <3> SUFFICES ASSUME ~lone, ~nvsFails, nvs'["node_id"] # Absent
                 PROVE  nvs'["node_secret"].request <= nvs'["node_id"].request
      BY <1>4 DEF NodeInOrder
    <3>1. CASE w.key = "node_secret"
      <4>1. Len(job) \in Nat /\ SecretLast(job, Stored("node_id"))
        BY <1>1, LenProperties DEF IInv, JobInv
      <4>2. Stored("node_id")
        BY <1>1, <1>11, <3>1, <4>1 DEF SecretLast, Sets
      <4> QED BY <2>2, <2>3, <3>1, <4>2, KeysAre DEF Stored
    <3>2. CASE w.key # "node_secret"
      BY <2>2, <2>3, <3>2, KeysAre DEF IInv, NodeInOrder
    <3> QED BY <3>1, <3>2
  <2>10. NodeResetIsClean'
    <3> SUFFICES ASSUME cleared, ~nvsFails PROVE nvs'["node_id"] = Absent
      BY <1>4, <2>6 DEF NodeResetIsClean
    <3>1. w.key # "node_id"
      BY <1>1, <1>11 DEF IInv, JobInv, Sets
    <3> QED BY <2>2, <3>1, KeysAre DEF IInv, NodeResetIsClean
  <2> QED BY <2>4, <2>5, <2>7, <2>8, <2>9, <2>10 DEF IInv
<1> QED BY <1>10, <1>11

-----------------------------------------------------------------------------
THEOREM IInvHolds == Spec => []IInv
<1>1. IInv /\ [Next]_vars => IInv'
  <2> SUFFICES ASSUME IInv, [Next]_vars PROVE IInv'
    OBVIOUS
  <2>1. CASE Next
    <3>1. UNCHANGED nvsFails
      BY <2>1 DEF Next
    <3>2. CASE settings_handler \/ claim_handler \/ reset_node_handler \/ reset_wifi_handler
      BY <3>1, <3>2, HandlersAreOrderly, RequestIInv
    <3>3. CASE Write
      BY <3>1, <3>3, WriteIInv
    <3>4. CASE PowerLoss
      BY <3>1, <3>4, PowerLossIInv
    <3> QED BY <2>1, <3>2, <3>3, <3>4 DEF Next, Step
  <2>2. CASE UNCHANGED vars
    BY <2>2
       DEF vars, IInv, TypeOK, TypedFields, JobInv, Unmixed, PasswordLast, SecretLast,
           NodeIdFirst, Stored, CredentialsInOrder, NodeResetIsClean, NodeInOrder
  <2> QED BY <2>1, <2>2
<1> QED BY <1>1, InitIInv, PTL DEF Spec

\* The fields of the schema keep their types whatever clients send for them: no
\* setter that settings_handler tries gets a foreign one past config_store.c.
THEOREM TypeCorrect == Spec => []TypeOK
<1>1. IInv => TypeOK
  BY DEF IInv
<1> QED BY <1>1, IInvHolds, PTL

\* The two commits of wifi_manager_save_credentials keep their order: wherever they are
\* cut short, no password is newer than the SSID it is stored with. That says nothing of
\* a torn pair's use, which is none.
THEOREM CredentialsAlwaysInOrder == Spec => []CredentialsInOrder
<1>1. IInv => CredentialsInOrder
  BY DEF IInv
<1> QED BY <1>1, IInvHolds, PTL

\* reset_node_handler cut short leaves no node_id behind.
THEOREM NodeResetIsAlwaysClean == Spec => []NodeResetIsClean
<1>1. IInv => NodeResetIsClean
  BY DEF IInv
<1> QED BY <1>1, IInvHolds, PTL

\* claim_handler or settings_handler cut short never pairs a node_id with the secret
\* of a later node.
THEOREM NodeAlwaysInOrder == Spec => []NodeInOrder
<1>1. IInv => NodeInOrder
  BY DEF IInv
<1> QED BY <1>1, IInvHolds, PTL

=============================================================================
