-------------------------- MODULE RouteTableProofs --------------------------
(* Proofs about RouteTable, for any number of routes and of slots.              *)
EXTENDS RouteTable, FiniteSetTheorems, TLAPS

Active(i) == slot[i].active
Mine(c) == Portal[n[c]]
Adding == {"free", "write", "activate"}

\* The event task will not register any more; nothing registers but c.
Done == ready \/ pc["event"] = "dns"
Alone(c) == c = "event" \/ (pc["event"] = "idle" /\ ~ready)

\* The slots are taken from the first on, and by routes.
Prefix ==
  /\ \A i, j \in Slots : i < j /\ Active(j) => Active(i)
  /\ \A i \in Slots : Active(i) => slot[i].route \in Routes

\* What is registered by whom.
DoneInv ==
  /\ ready => pc["event"] \notin Registering
  /\ ready => Routes \subseteq Registered
  /\ \A c \in Callers : pc[c] = "dns" => Routes \subseteq Registered
  /\ \A c \in Callers : pc[c] \in Registering =>
       \A m \in 1..Len(Portal) : m < n[c] => Portal[m] \in Registered

\* A task that nobody interrupts adds what is not there yet.
NotYetInv ==
  \A c \in Callers : Alone(c) =>
    /\ pc[c] = "same" => \A j \in Slots : j < at[c] => ~Matches(j, Mine(c))
    /\ pc[c] \in Adding => Mine(c) \notin Registered

\* Where a route is being put.
PlaceInv ==
  \A c \in Callers :
    /\ pc[c] \in Adding => \A j \in Slots : j < at[c] => Active(j)
    /\ pc[c] \in {"write", "activate"} /\ Active(at[c]) => slot[at[c]].route = Mine(c)
    /\ pc[c] = "activate" => slot[at[c]].route = Mine(c)

\* The slot that the interrupted main task has found is the one that the event task
\* takes for the same route.
ShareInv ==
  pc["event"] \in Registering /\ pc["main"] \in {"write", "activate"} /\ ~Active(at["main"])
    => Mine("main") \notin Registered

\* No route has two slots, or all of them are registered and only looked for.
Once ==
  \A i, j \in Slots : Active(i) /\ Active(j) /\ slot[i].route = slot[j].route => i = j
Twice ==
  /\ Done /\ Routes \subseteq Registered
  /\ pc["main"] \notin Adding
  /\ pc["main"] = "same" => \E j \in Slots : j >= at["main"] /\ Matches(j, Mine("main"))

\* A look-up has what it looks for still before it.
ReadInv ==
  /\ reader.pc = "scan" <=> lookup.answer = "pending"
  /\ reader.pc = "scan" /\ lookup.known =>
       \E j \in Slots : j >= reader.at /\ Matches(j, lookup.route)

IInv ==
  /\ TypeOK
  /\ Prefix
  /\ DoneInv
  /\ NotYetInv
  /\ PlaceInv
  /\ ShareInv
  /\ Once \/ Twice
  /\ NeverFull
  /\ ReadInv

-----------------------------------------------------------------------------
\* The table, slot by slot.

LEMMA InTable == \A r : r \in Registered <=> \E i \in Slots : Matches(i, r)
BY DEF Registered, Matches

LEMMA InTableNext ==
  \A r : r \in Registered' <=> \E i \in Slots : slot'[i].active /\ slot'[i].route = r
BY DEF Registered

LEMMA RoutesAre ==
  /\ Len(Portal) \in Nat
  /\ \A m \in 1..Len(Portal) : Portal[m] \in Routes
  /\ \A r \in Routes : \E m \in 1..Len(Portal) : r = Portal[m]
BY RouteAssumption DEF Routes

LEMMA MineIsARoute ==
  ASSUME TypeOK, NEW c \in Callers
  PROVE  Mine(c) \in Routes /\ n[c] \in 1..Len(Portal) /\ at[c] \in Slots
BY RoutesAre DEF TypeOK, Mine

\* Where both tasks are putting a route in a slot that is free, it is the same route
\* and the same slot.
LEMMA SamePlace ==
  ASSUME IInv, pc["event"] \in {"write", "activate"}, pc["main"] \in {"write", "activate"},
         ~Active(at["main"])
  PROVE  at["main"] = at["event"] /\ Mine("main") = Mine("event")
<1> "main" \in Callers /\ "event" \in Callers
  BY DEF Callers
<1>1. Mine("event") \notin Registered /\ Mine("main") \notin Registered
  BY DEF IInv, NotYetInv, ShareInv, Alone, Adding, Registering
<1>2. at["main"] \in Slots /\ at["event"] \in Slots /\ n["main"] \in 1..Len(Portal)
        /\ n["event"] \in 1..Len(Portal)
  BY MineIsARoute DEF IInv
<1>3. ~Active(at["event"])
  BY <1>1, <1>2, InTable DEF IInv, PlaceInv, Matches, Active
<1>4. ~(at["main"] < at["event"]) /\ ~(at["event"] < at["main"])
  BY <1>2, <1>3 DEF IInv, PlaceInv, Adding
<1>5. ~(n["main"] < n["event"]) /\ ~(n["event"] < n["main"])
  BY <1>1, <1>2 DEF IInv, DoneInv, Registering, Mine
<1>6. at["main"] = at["event"]
  BY <1>2, <1>4, RouteAssumption DEF Slots
<1>7. n["main"] = n["event"]
  BY <1>2, <1>5, RoutesAre
<1> QED BY <1>6, <1>7 DEF Mine

\* A table without a route twice has a free slot.
LEMMA FreeSlot ==
  ASSUME TypeOK, Prefix, Once
  PROVE  \E i \in Slots : ~Active(i)
<1> SUFFICES ASSUME \A i \in Slots : Active(i) PROVE FALSE
  OBVIOUS
<1> DEFINE f == [i \in Slots |-> CHOOSE m \in 1..Len(Portal) : slot[i].route = Portal[m]]
<1>1. \A i \in Slots : f[i] \in 1..Len(Portal) /\ slot[i].route = Portal[f[i]]
  <2> SUFFICES ASSUME NEW i \in Slots
               PROVE  f[i] \in 1..Len(Portal) /\ slot[i].route = Portal[f[i]]
    OBVIOUS
  <2>1. \E m \in 1..Len(Portal) : slot[i].route = Portal[m]
    BY RoutesAre DEF Prefix
  <2> QED BY <2>1
<1>2. f \in [Slots -> 1..Len(Portal)]
  BY <1>1
<1> HIDE DEF f
<1>3. IsFiniteSet(Slots) /\ Cardinality(Slots) = SLOTS
  BY FS_Interval, RouteAssumption, RoutesAre DEF Slots
<1>4. IsFiniteSet(1..Len(Portal)) /\ Cardinality(1..Len(Portal)) = Len(Portal)
  <2>1. ASSUME NEW k \in Nat PROVE IsFiniteSet(1..k) /\ Cardinality(1..k) = k
    <3>1. 1 \in Int /\ k \in Int /\ (IF 1 > k THEN 0 ELSE k - 1 + 1) = k
      OBVIOUS
    <3> QED BY <3>1, FS_Interval
  <2> QED BY <2>1, RoutesAre
<1>5. \E i, j \in Slots : i # j /\ f[i] = f[j]
  BY <1>2, <1>3, <1>4, FS_PigeonHole, RouteAssumption
<1> QED BY <1>1, <1>5 DEF Once

-----------------------------------------------------------------------------
\* The two steps that write the table.

LEMMA WriteSlots ==
  ASSUME IInv, NEW c \in Callers, WriteRoute(c)
  PROVE  /\ slot' \in [Slots -> [route : Routes \cup {"none"}, active : BOOLEAN]]
         /\ \A i \in Slots : slot'[i].active = slot[i].active
         /\ \A i \in Slots : Active(i) \/ i # at[c] => slot'[i] = slot[i]
         /\ slot'[at[c]].route = Mine(c)
         /\ Registered' = Registered
         /\ \A i \in Slots : \A r : Matches(i, r)' <=> Matches(i, r)
<1>1. /\ slot \in [Slots -> [route : Routes \cup {"none"}, active : BOOLEAN]]
      /\ slot' = [slot EXCEPT ![at[c]].route = Mine(c)]
      /\ at[c] \in Slots /\ Mine(c) \in Routes
  BY MineIsARoute DEF IInv, TypeOK, WriteRoute, Mine
<1>2. Active(at[c]) => slot[at[c]].route = Mine(c)
  BY DEF IInv, PlaceInv, WriteRoute
<1>3. \A i \in Slots : slot[i].active /\ slot[i].route = Mine(c) => [slot[i] EXCEPT !.route = Mine(c)] = slot[i]
  BY <1>1
<1>4. \A i \in Slots : Active(i) \/ i # at[c] => slot'[i] = slot[i]
  BY <1>1, <1>2, <1>3 DEF Active
<1>5. \A i \in Slots : slot'[i].active = slot[i].active
  BY <1>1
<1>6. \A i \in Slots : \A r : (slot'[i].active /\ slot'[i].route = r) <=> Matches(i, r)
  BY <1>4, <1>5 DEF Active, Matches
<1>7. Registered' = Registered
  <2>1. \A r : r \in Registered' <=> r \in Registered
    BY <1>6, InTable, InTableNext
  <2> QED BY <2>1
<1> QED BY <1>1, <1>4, <1>5, <1>6, <1>7 DEF Matches

LEMMA ActivateSlots ==
  ASSUME IInv, NEW c \in Callers, Activate(c)
  PROVE  /\ slot' \in [Slots -> [route : Routes \cup {"none"}, active : BOOLEAN]]
         /\ \A i \in Slots : slot'[i].active <=> Active(i) \/ i = at[c]
         /\ \A i \in Slots : slot'[i].route = slot[i].route
         /\ slot[at[c]].route = Mine(c)
         /\ Registered' = Registered \cup {Mine(c)}
<1>1. /\ slot \in [Slots -> [route : Routes \cup {"none"}, active : BOOLEAN]]
      /\ slot' = [slot EXCEPT ![at[c]].active = TRUE]
      /\ at[c] \in Slots
  BY MineIsARoute DEF IInv, TypeOK, Activate
<1>2. slot[at[c]].route = Mine(c)
  BY DEF IInv, PlaceInv, Activate
<1>3. \A i \in Slots : slot'[i].active <=> Active(i) \/ i = at[c]
  BY <1>1 DEF Active
<1>4. \A i \in Slots : slot'[i].route = slot[i].route
  BY <1>1
<1>5. \A r : r \in Registered' <=> r \in Registered \/ r = Mine(c)
  BY <1>1, <1>2, <1>3, <1>4, InTable, InTableNext DEF Active, Matches
<1> QED BY <1>1, <1>2, <1>3, <1>4, <1>5

\* Where a task goes when it is done with a route.
LEMMA NextRouteGoes ==
  ASSUME TypeOK, NEW c \in Callers, NextRoute(c)
  PROVE  /\ pc' \in [Callers -> {"idle", "same", "free", "write", "activate", "dns", "full"}]
         /\ n' \in [Callers -> 1..Len(Portal)]
         /\ at' \in [Callers -> Slots]
         /\ at'[c] = 1
         /\ \A d \in Callers \ {c} : pc'[d] = pc[d] /\ n'[d] = n[d] /\ at'[d] = at[d]
         /\ \/ pc'[c] = "same" /\ n'[c] = n[c] + 1
            \/ pc'[c] = "dns" /\ n[c] = Len(Portal)
<1>1. /\ Len(Portal) \in Nat /\ 1 \in Slots /\ n[c] \in 1..Len(Portal)
  BY RoutesAre, RouteAssumption, MineIsARoute DEF Slots
<1>2. n[c] < Len(Portal) => n[c] + 1 \in 1..Len(Portal)
  BY <1>1
<1>3. ~(n[c] < Len(Portal)) => n[c] = Len(Portal)
  BY <1>1
<1>4. CASE n[c] < Len(Portal)
  <2> DEFINE k == n[c] + 1
  <2>1. /\ pc' = [pc EXCEPT ![c] = "same"] /\ n' = [n EXCEPT ![c] = k]
        /\ at' = [at EXCEPT ![c] = 1]
    BY <1>4 DEF NextRoute, Goto
  <2>2. k \in 1..Len(Portal)
    BY <1>2, <1>4
  <2> HIDE DEF k
  <2>3. pc'[c] = "same" /\ n'[c] = k /\ at'[c] = 1
    BY <2>1 DEF TypeOK
  <2>4. n' \in [Callers -> 1..Len(Portal)]
    BY <2>1, <2>2 DEF TypeOK
  <2>5. n'[c] = n[c] + 1
    BY <2>3 DEF k
  <2> QED BY <1>1, <2>1, <2>3, <2>4, <2>5 DEF TypeOK
<1>5. CASE ~(n[c] < Len(Portal))
  BY <1>1, <1>3, <1>5 DEF TypeOK, NextRoute, Goto
<1> QED BY <1>4, <1>5

-----------------------------------------------------------------------------
\* A step that leaves the table alone.

LEMMA SameTable ==
  ASSUME UNCHANGED slot
  PROVE  /\ Registered' = Registered
         /\ Once' = Once /\ Prefix' = Prefix
         /\ \A i \in Slots : \A r : Matches(i, r)' <=> Matches(i, r)
         /\ \A i \in Slots : Active(i)' <=> Active(i)
<1>1. \A r : r \in Registered' <=> r \in Registered
  BY DEF Registered
<1> QED BY <1>1 DEF Once, Prefix, Matches, Active

\* Whatever a task does to the table, a look-up loses nothing.
LEMMA ReadStays ==
  ASSUME ReadInv, UNCHANGED <<reader, lookup>>,
         \A i \in Slots : \A r : Matches(i, r) => Matches(i, r)'
  PROVE  ReadInv'
BY DEF ReadInv

LEMMA InitIInv == Init => IInv
<1> SUFFICES ASSUME Init PROVE IInv
  OBVIOUS
<1>1. 1 \in Slots /\ Len(Portal) \in Nat
  BY RouteAssumption, RoutesAre DEF Slots
<1>2. \A c \in Callers : pc[c] = "idle"
  BY DEF Init
<1>3. \A i \in Slots : ~Active(i)
  BY DEF Init, Empty, Active
<1>4. TypeOK
  <2>1. 1 \in 1..Len(Portal)
    BY RouteAssumption
  <2>2. slot \in [Slots -> [route : Routes \cup {"none"}, active : BOOLEAN]]
    BY DEF Init, Empty
  <2> QED BY <1>1, <2>1, <2>2 DEF Init, TypeOK, NoLookup
<1> QED
  BY <1>2, <1>3, <1>4
     DEF Init, NoLookup, IInv, Prefix, DoneInv, NotYetInv, PlaceInv, ShareInv, Once, NeverFull,
         ReadInv, Registering, Adding, Callers

LEMMA PortalInitIInv ==
  ASSUME IInv, NEW c \in Callers, PortalInit(c)
  PROVE  IInv'
<1> USE DEF Callers
<1>1. /\ pc \in [Callers -> {"idle", "same", "free", "write", "activate", "dns", "full"}]
      /\ pc[c] = "idle" /\ ~ready /\ ready' = ready
      /\ pc' = [pc EXCEPT ![c] = "same"] /\ n' = [n EXCEPT ![c] = 1] /\ at' = [at EXCEPT ![c] = 1]
      /\ slot' = slot /\ reader' = reader /\ lookup' = lookup
      /\ n \in [Callers -> 1..Len(Portal)] /\ at \in [Callers -> Slots]
  BY DEF IInv, TypeOK, PortalInit, Goto
<1>2. 1 \in 1..Len(Portal) /\ 1 \in Slots
  BY <1>1, RoutesAre, RouteAssumption, MineIsARoute DEF Slots, IInv
<1>3. /\ pc'[c] = "same" /\ n'[c] = 1 /\ at'[c] = 1
      /\ \A d \in Callers \ {c} : pc'[d] = pc[d] /\ n'[d] = n[d] /\ at'[d] = at[d] /\ Mine(d)' = Mine(d)
  BY <1>1 DEF Mine
<1>4. TypeOK'
  <2>1. pc' \in [Callers -> {"idle", "same", "free", "write", "activate", "dns", "full"}]
    BY <1>1
  <2>2. n' \in [Callers -> 1..Len(Portal)]
    BY <1>1, <1>2
  <2>3. at' \in [Callers -> Slots]
    BY <1>1, <1>2
  <2> QED BY <1>1, <2>1, <2>2, <2>3 DEF IInv, TypeOK
<1>5. \A j \in Slots : ~(j < 1)
  BY RouteAssumption DEF Slots
<1>6. DoneInv'
  <2>1. \A m \in 1..Len(Portal) : ~(m < 1)
    BY RoutesAre
  <2> QED BY <1>1, <1>3, <2>1, SameTable DEF IInv, DoneInv
<1>7. NotYetInv'
  BY <1>1, <1>3, <1>5, SameTable DEF IInv, NotYetInv, Alone, Adding
<1>8. PlaceInv'
  BY <1>1, <1>3, SameTable DEF IInv, PlaceInv, Adding
<1>9. ShareInv'
  <2>1. CASE c = "main"
    BY <1>3, <2>1 DEF ShareInv
  <2>2. CASE c = "event"
    BY <1>1, <1>3, <2>2, SameTable DEF IInv, ShareInv, NotYetInv, Alone, Adding
  <2> QED BY <2>1, <2>2
<1>10. (Once \/ Twice)'
  <2>1. CASE Once
    BY <1>1, <2>1, SameTable
  <2>2. CASE Twice
    <3>1. c = "main" /\ Done' /\ Routes \subseteq Registered'
      BY <1>1, <1>3, <2>2, SameTable DEF Twice, Done
    <3>2. Mine("main")' \in Registered'
      BY <1>4, <3>1, RoutesAre DEF TypeOK, Mine
    <3>3. PICK j \in Slots : slot'[j].active /\ slot'[j].route = Mine("main")'
      BY <3>2, InTableNext
    <3>4. j >= 1
      BY RouteAssumption DEF Slots
    <3> QED BY <1>3, <3>1, <3>3, <3>4 DEF Twice, Adding, Matches
  <2> QED BY <2>1, <2>2 DEF IInv
<1>11. NeverFull' /\ ReadInv' /\ Prefix'
  BY <1>1, <1>3, SameTable, ReadStays DEF IInv, NeverFull
<1> QED BY <1>4, <1>6, <1>7, <1>8, <1>9, <1>10, <1>11 DEF IInv

\* NextRoute after a route that is in the table, whether it was before or not: what
\* the task has behind it, for FindSame and Activate.
LEMMA NextRouteKeeps ==
  ASSUME IInv, NEW c \in Callers, NextRoute(c), pc[c] \in Registering, ready' = ready,
         Registered' = Registered \cup {Mine(c)}
  PROVE  DoneInv' /\ NeverFull'
<1> USE DEF Callers
<1>1. /\ pc'[c] \in {"same", "dns"}
      /\ \A d \in Callers \ {c} : pc'[d] = pc[d] /\ n'[d] = n[d]
  BY NextRouteGoes DEF IInv
<1>2. n[c] \in 1..Len(Portal) /\ n'[c] \in 1..Len(Portal) /\ Len(Portal) \in Nat
  BY MineIsARoute, NextRouteGoes, RoutesAre DEF IInv
<1>3. \A m \in 1..Len(Portal) : m < n[c] => Portal[m] \in Registered
  BY DEF IInv, DoneInv
<1>4. \A m \in 1..Len(Portal) : m <= n[c] => Portal[m] \in Registered'
  <2>1. \A m \in 1..Len(Portal) : m <= n[c] => m < n[c] \/ m = n[c]
    BY <1>2
  <2> QED BY <1>3, <2>1 DEF Mine
<1>5. pc'[c] = "same" => \A m \in 1..Len(Portal) : m < n'[c] => Portal[m] \in Registered'
  <2>1. pc'[c] = "same" => n'[c] = n[c] + 1
    BY NextRouteGoes DEF IInv
  <2>2. pc'[c] = "same" => \A m \in 1..Len(Portal) : m < n'[c] => m <= n[c]
    BY <1>2, <2>1
  <2> QED BY <1>4, <2>2
<1>6. pc'[c] = "dns" => Routes \subseteq Registered'
  <2>1. pc'[c] = "dns" => n[c] = Len(Portal)
    BY NextRouteGoes DEF IInv
  <2>2. pc'[c] = "dns" => \A m \in 1..Len(Portal) : Portal[m] \in Registered'
    BY <1>2, <1>4, <2>1
  <2> QED BY <2>2, RoutesAre
<1>7. ready => pc'["event"] \notin Registering
  BY <1>1 DEF IInv, DoneInv, Registering
<1>8. DoneInv'
  BY <1>1, <1>5, <1>6, <1>7 DEF IInv, DoneInv, Registering
<1> QED BY <1>1, <1>8 DEF IInv, NeverFull

LEMMA FindSameIInv ==
  ASSUME IInv, NEW c \in Callers, FindSame(c)
  PROVE  IInv'
<1> USE DEF Callers
<1>1. /\ pc[c] = "same" /\ MayRun(c)
      /\ UNCHANGED <<slot, ready, reader, lookup>>
      /\ TypeOK /\ SLOTS \in Nat /\ \A d \in Callers : at[d] \in Slots
  BY MineIsARoute, RouteAssumption DEF FindSame, IInv
<1>2. /\ Registered' = Registered /\ Once' = Once /\ Prefix'
      /\ \A i \in Slots : \A r : Matches(i, r)' <=> Matches(i, r)
      /\ \A i \in Slots : Active(i)' <=> Active(i)
      /\ ReadInv'
  BY <1>1, SameTable, ReadStays DEF IInv
<1>3. \A j \in Slots : ~(j < 1)
  BY RouteAssumption DEF Slots
<1>4. CASE Matches(at[c], Mine(c)) /\ NextRoute(c)
  <2>1. /\ pc'[c] \in {"same", "dns"} /\ at'[c] = 1
        /\ \A d \in Callers \ {c} : pc'[d] = pc[d] /\ n'[d] = n[d] /\ at'[d] = at[d] /\ Mine(d)' = Mine(d)
    BY <1>1, <1>4, NextRouteGoes DEF Mine
  <2>2. Mine(c) \in Registered
    BY <1>1, <1>4, InTable
  <2>3. DoneInv' /\ NeverFull'
    BY <1>1, <1>2, <1>4, <2>2, NextRouteKeeps DEF Registering
  <2>4. TypeOK'
    BY <1>1, <1>4, NextRouteGoes DEF TypeOK
  <2>5. NotYetInv'
    BY <1>1, <1>2, <1>3, <2>1 DEF IInv, NotYetInv, Alone, Adding
  <2>6. PlaceInv'
    <3>1. slot' = slot /\ PlaceInv
      BY <1>1 DEF IInv
    <3>2. pc'[c] \notin Adding /\ pc'[c] \notin {"write", "activate"}
      BY <2>1 DEF Adding
    <3> SUFFICES ASSUME NEW d \in Callers
                 PROVE  /\ pc'[d] \in Adding => \A j \in Slots : j < at'[d] => Active(j)'
                        /\ pc'[d] \in {"write", "activate"} /\ slot[at'[d]].active
                             => slot[at'[d]].route = Mine(d)'
                        /\ pc'[d] = "activate" => slot[at'[d]].route = Mine(d)'
      BY <3>1 DEF PlaceInv, Active
    <3>3. CASE d = c
      BY <3>2, <3>3
    <3>4. CASE d # c
      BY <1>1, <1>2, <2>1, <3>1, <3>4 DEF PlaceInv, Active
    <3> QED BY <3>3, <3>4
  <2>7. ShareInv'
    <3>1. CASE c = "main"
      BY <2>1, <3>1 DEF ShareInv
    <3>2. CASE c = "event"
      BY <1>1, <1>2, <2>1, <3>2 DEF IInv, ShareInv, Registering
    <3> QED BY <3>1, <3>2
  <2>8. (Once \/ Twice)'
    <3>1. CASE Once
      BY <1>2, <3>1
    <3>2. CASE Twice
      <4>1. c = "main"
        BY <1>1, <3>2 DEF IInv, Twice, Done, DoneInv, Registering
      <4>2. Done' /\ Routes \subseteq Registered'
        BY <1>1, <1>2, <2>1, <3>2, <4>1 DEF Twice, Done
      <4>3. Mine("main")' \in Registered'
        BY <2>4, <4>2, RoutesAre DEF TypeOK, Mine
      <4>4. PICK j \in Slots : slot'[j].active /\ slot'[j].route = Mine("main")'
        BY <4>3, InTableNext
      <4>5. j >= 1
        BY RouteAssumption DEF Slots
      <4> QED BY <2>1, <4>1, <4>2, <4>4, <4>5 DEF Twice, Adding, Matches
    <3> QED BY <3>1, <3>2 DEF IInv
  <2> QED BY <1>2, <2>3, <2>4, <2>5, <2>6, <2>7, <2>8 DEF IInv
<1>5. CASE ~Matches(at[c], Mine(c)) /\ at[c] < SLOTS /\ at' = [at EXCEPT ![c] = @ + 1] /\ UNCHANGED <<pc, n>>
  <2>1. /\ at'[c] = at[c] + 1 /\ at[c] + 1 \in Slots
        /\ at' \in [Callers -> Slots]
        /\ \A d \in Callers \ {c} : at'[d] = at[d]
        /\ pc' = pc /\ n' = n /\ \A d \in Callers : Mine(d)' = Mine(d)
    <3>1. at[c] + 1 \in Slots
      BY <1>1, <1>5 DEF Slots
    <3> QED BY <1>1, <1>5, <3>1 DEF TypeOK, Mine
  <2>2. \A j \in Slots : j < at'[c] => j < at[c] \/ j = at[c]
    BY <1>1, <2>1 DEF Slots
  <2>3. \A j \in Slots : j >= at[c] => j = at[c] \/ j >= at'[c]
    BY <1>1, <2>1 DEF Slots
  <2>4. TypeOK'
    BY <1>1, <2>1 DEF TypeOK
  <2>5. DoneInv' /\ NeverFull'
    BY <1>1, <1>2, <2>1 DEF IInv, DoneInv, NeverFull
  <2>6. NotYetInv'
    BY <1>1, <1>2, <1>5, <2>1, <2>2 DEF IInv, NotYetInv, Alone, Adding
  <2>7. PlaceInv'
    BY <1>1, <1>2, <2>1 DEF IInv, PlaceInv, Adding
  <2>8. ShareInv'
    BY <1>1, <1>2, <2>1 DEF IInv, ShareInv
  <2>9. (Once \/ Twice)'
    BY <1>1, <1>2, <1>5, <2>1, <2>3 DEF IInv, Twice, Done
  <2> QED BY <1>2, <2>4, <2>5, <2>6, <2>7, <2>8, <2>9 DEF IInv
<1>6. CASE /\ ~Matches(at[c], Mine(c)) /\ ~(at[c] < SLOTS)
           /\ Goto(c, "free") /\ at' = [at EXCEPT ![c] = 1] /\ UNCHANGED n
  <2>1. /\ pc'[c] = "free" /\ at'[c] = 1 /\ n' = n /\ 1 \in Slots
        /\ at' \in [Callers -> Slots]
        /\ pc' \in [Callers -> {"idle", "same", "free", "write", "activate", "dns", "full"}]
        /\ \A d \in Callers \ {c} : at'[d] = at[d] /\ pc'[d] = pc[d]
        /\ \A d \in Callers : Mine(d)' = Mine(d)
    <3>1. 1 \in Slots
      BY RouteAssumption, RoutesAre DEF Slots
    <3> QED BY <1>1, <1>6, <3>1 DEF TypeOK, Mine, Goto
  <2>2. \A j \in Slots : j < at[c] \/ j = at[c]
    BY <1>1, <1>6 DEF Slots
  <2>3. \A j \in Slots : j >= at[c] => j = at[c]
    BY <1>1, <1>6 DEF Slots
  <2>4. TypeOK'
    BY <1>1, <2>1 DEF TypeOK
  <2>5. DoneInv' /\ NeverFull'
    BY <1>1, <1>2, <2>1 DEF IInv, DoneInv, NeverFull, Registering
  <2>6. NotYetInv'
    <3>1. Alone(c) => Mine(c) \notin Registered
      BY <1>1, <1>6, <2>2, InTable DEF IInv, NotYetInv
    <3> QED BY <1>1, <1>2, <2>1, <3>1 DEF IInv, NotYetInv, Alone, Adding
  <2>7. PlaceInv'
    BY <1>1, <1>2, <1>3, <2>1 DEF IInv, PlaceInv, Adding
  <2>8. ShareInv'
    BY <1>1, <1>2, <2>1 DEF IInv, ShareInv, Registering
  <2>9. (Once \/ Twice)'
    <3>1. ~Twice
      <4>1. CASE c = "main"
        BY <1>1, <1>6, <2>3, <4>1 DEF Twice
      <4>2. CASE c = "event"
        BY <1>1, <4>2 DEF IInv, Twice, Done, DoneInv, Registering
      <4> QED BY <4>1, <4>2
    <3> QED BY <1>2, <3>1 DEF IInv
  <2> QED BY <1>2, <2>4, <2>5, <2>6, <2>7, <2>8, <2>9 DEF IInv
<1> QED BY <1>4, <1>5, <1>6 DEF FindSame, Mine

LEMMA FindFreeIInv ==
  ASSUME IInv, NEW c \in Callers, FindFree(c)
  PROVE  IInv'
<1> USE DEF Callers
<1>1. /\ pc[c] = "free" /\ MayRun(c)
      /\ slot' = slot /\ UNCHANGED <<ready, n, reader, lookup>>
      /\ TypeOK /\ SLOTS \in Nat /\ \A d \in Callers : at[d] \in Slots
  BY MineIsARoute, RouteAssumption DEF FindFree, IInv
<1>2. /\ Registered' = Registered /\ Once' = Once /\ Prefix'
      /\ \A i \in Slots : \A r : Matches(i, r)' <=> Matches(i, r)
      /\ \A i \in Slots : Active(i)' <=> Active(i)
      /\ ReadInv'
      /\ \A d \in Callers : Mine(d)' = Mine(d)
  BY <1>1, SameTable, ReadStays DEF IInv, Mine
<1>3. ~Twice
  BY <1>1 DEF IInv, Twice, Done, DoneInv, Registering, Adding
<1>4. Once'
  BY <1>2, <1>3 DEF IInv
<1>5. CASE ~Active(at[c]) /\ Goto(c, "write") /\ UNCHANGED at
  <2>1. /\ pc' \in [Callers -> {"idle", "same", "free", "write", "activate", "dns", "full"}]
        /\ pc'[c] = "write" /\ \A d \in Callers \ {c} : pc'[d] = pc[d]
        /\ at' = at
    BY <1>1, <1>5 DEF TypeOK, Goto
  <2>2. TypeOK'
    BY <1>1, <2>1 DEF TypeOK
  <2>3. DoneInv' /\ NeverFull'
    BY <1>1, <1>2, <2>1 DEF IInv, DoneInv, NeverFull, Registering
  <2>4. NotYetInv'
    BY <1>1, <1>2, <2>1 DEF IInv, NotYetInv, Alone, Adding
  <2>5. PlaceInv'
    <3>1. PlaceInv
      BY DEF IInv
    <3> QED BY <1>1, <1>2, <1>5, <2>1, <3>1 DEF PlaceInv, Adding
  <2>6. ShareInv'
    <3>1. CASE c = "main"
      BY <1>1, <2>1, <3>1 DEF ShareInv, MayRun
    <3>2. CASE c = "event"
      BY <1>1, <1>2, <2>1, <3>2 DEF IInv, ShareInv, Registering
    <3> QED BY <3>1, <3>2
  <2> QED BY <1>2, <1>4, <2>2, <2>3, <2>4, <2>5, <2>6 DEF IInv
<1>6. CASE Active(at[c]) /\ at[c] < SLOTS /\ at' = [at EXCEPT ![c] = @ + 1] /\ UNCHANGED pc
  <2>1. /\ at'[c] = at[c] + 1 /\ at' \in [Callers -> Slots]
        /\ \A d \in Callers \ {c} : at'[d] = at[d]
        /\ pc' = pc
    <3>1. at[c] + 1 \in Slots
      BY <1>1, <1>6 DEF Slots
    <3> QED BY <1>1, <1>6, <3>1 DEF TypeOK
  <2>2. \A j \in Slots : j < at'[c] => j < at[c] \/ j = at[c]
    BY <1>1, <2>1 DEF Slots
  <2>3. TypeOK'
    BY <1>1, <2>1 DEF TypeOK
  <2>4. DoneInv' /\ NeverFull'
    BY <1>1, <1>2, <2>1 DEF IInv, DoneInv, NeverFull
  <2>5. NotYetInv'
    BY <1>1, <1>2, <2>1 DEF IInv, NotYetInv, Alone
  <2>6. PlaceInv'
    <3>1. PlaceInv /\ \A j \in Slots : j < at[c] => Active(j)
      BY <1>1 DEF IInv, PlaceInv, Adding
    <3> QED BY <1>1, <1>2, <1>6, <2>1, <2>2, <3>1 DEF PlaceInv
  <2>7. ShareInv'
    <3>1. CASE c = "main"
      BY <1>1, <2>1, <3>1 DEF ShareInv, MayRun
    <3>2. CASE c = "event"
      BY <1>1, <1>2, <2>1, <3>2 DEF IInv, ShareInv
    <3> QED BY <3>1, <3>2
  <2> QED BY <1>2, <1>4, <2>3, <2>4, <2>5, <2>6, <2>7 DEF IInv
\* No slot is free: with every route in one slot at most, there would be too many.
<1>7. CASE Active(at[c]) /\ ~(at[c] < SLOTS)
  <2>1. \A j \in Slots : j < at[c] \/ j = at[c]
    BY <1>1, <1>7 DEF Slots
  <2>2. \A j \in Slots : Active(j)
    BY <1>1, <1>7, <2>1 DEF IInv, PlaceInv, Adding
  <2> QED BY <1>1, <1>3, <2>2, FreeSlot DEF IInv
<1> QED BY <1>5, <1>6, <1>7 DEF FindFree, Active

LEMMA WriteRouteIInv ==
  ASSUME IInv, NEW c \in Callers, WriteRoute(c)
  PROVE  IInv'
<1> USE DEF Callers
<1>1. /\ pc[c] = "write" /\ MayRun(c)
      /\ UNCHANGED <<ready, n, at, reader, lookup>>
      /\ pc' \in [Callers -> {"idle", "same", "free", "write", "activate", "dns", "full"}]
      /\ pc'[c] = "activate" /\ \A d \in Callers \ {c} : pc'[d] = pc[d]
      /\ TypeOK /\ \A d \in Callers : at[d] \in Slots
  BY MineIsARoute DEF WriteRoute, Goto, IInv, TypeOK
<1>2. /\ slot' \in [Slots -> [route : Routes \cup {"none"}, active : BOOLEAN]]
      /\ Registered' = Registered
      /\ \A i \in Slots : \A r : Matches(i, r)' <=> Matches(i, r)
      /\ \A i \in Slots : Active(i)' <=> Active(i)
      /\ \A i \in Slots : Active(i) \/ i # at[c] => slot'[i] = slot[i]
      /\ slot'[at[c]].route = Mine(c)
      /\ \A d \in Callers : Mine(d)' = Mine(d)
  BY <1>1, WriteSlots DEF Active, Mine
<1>3. ReadInv'
  BY <1>1, <1>2, ReadStays DEF IInv
<1>4. TypeOK'
  BY <1>1, <1>2 DEF TypeOK
<1>5. DoneInv' /\ NeverFull'
  BY <1>1, <1>2 DEF IInv, DoneInv, NeverFull, Registering
<1>6. NotYetInv'
  BY <1>1, <1>2 DEF IInv, NotYetInv, Alone, Adding
<1>7. Prefix' /\ Once'
  <2>1. ~Twice
    BY <1>1 DEF IInv, Twice, Done, DoneInv, Registering, Adding
  <2>2. Once /\ Prefix
    BY <2>1 DEF IInv
  <2> QED BY <1>2, <2>2 DEF Once, Prefix
<1>8. PlaceInv'
  <2> SUFFICES ASSUME NEW d \in Callers
               PROVE  /\ pc'[d] \in Adding => \A j \in Slots : j < at[d] => Active(j)
                      /\ pc'[d] \in {"write", "activate"} /\ Active(at[d])
                           => slot'[at[d]].route = Mine(d)
                      /\ pc'[d] = "activate" => slot'[at[d]].route = Mine(d)
    BY <1>1, <1>2 DEF PlaceInv
  <2>1. CASE d = c
    BY <1>1, <1>2, <2>1 DEF IInv, PlaceInv, Adding
  <2>2. CASE d # c /\ (Active(at[d]) \/ at[d] # at[c])
    BY <1>1, <1>2, <2>2 DEF IInv, PlaceInv
  <2>3. CASE d # c /\ ~Active(at[d]) /\ at[d] = at[c]
    <3>1. CASE d = "event"
      BY <1>1, <2>3, <3>1 DEF MayRun, Registering, Adding
    <3>2. CASE d = "main"
      <4>1. c = "event"
        BY <2>3, <3>2
      <4>2. pc["main"] = "activate" => Mine("main") = Mine("event")
        BY <1>1, <2>3, <3>2, <4>1, SamePlace
      <4>3. pc["main"] \in Adding => \A j \in Slots : j < at["main"] => Active(j)
        BY DEF IInv, PlaceInv
      <4> QED BY <1>1, <1>2, <2>3, <3>2, <4>1, <4>2, <4>3
    <3> QED BY <3>1, <3>2
  <2> QED BY <2>1, <2>2, <2>3
<1>9. ShareInv'
  <2>1. CASE c = "main"
    BY <1>1, <2>1 DEF ShareInv, MayRun
  <2>2. CASE c = "event"
    BY <1>1, <1>2, <2>2 DEF IInv, ShareInv, Registering
  <2> QED BY <2>1, <2>2
<1> QED BY <1>3, <1>4, <1>5, <1>6, <1>7, <1>8, <1>9 DEF IInv

LEMMA ActivateIInv ==
  ASSUME IInv, NEW c \in Callers, Activate(c)
  PROVE  IInv'
<1> USE DEF Callers
<1>1. /\ pc[c] = "activate" /\ MayRun(c) /\ NextRoute(c)
      /\ ready' = ready /\ UNCHANGED <<reader, lookup>>
      /\ TypeOK /\ \A d \in Callers : at[d] \in Slots
      /\ Mine(c) \in Routes
  BY MineIsARoute DEF Activate, IInv
<1>2. /\ slot' \in [Slots -> [route : Routes \cup {"none"}, active : BOOLEAN]]
      /\ \A i \in Slots : Active(i)' <=> Active(i) \/ i = at[c]
      /\ \A i \in Slots : slot'[i].route = slot[i].route
      /\ slot[at[c]].route = Mine(c)
      /\ Registered' = Registered \cup {Mine(c)}
  BY ActivateSlots DEF Active
<1>3. /\ pc'[c] \in {"same", "dns"} /\ at'[c] = 1
      /\ \A d \in Callers \ {c} :
           pc'[d] = pc[d] /\ n'[d] = n[d] /\ at'[d] = at[d] /\ Mine(d)' = Mine(d)
  BY <1>1, NextRouteGoes DEF Mine
<1>4. TypeOK'
  BY <1>1, <1>2, NextRouteGoes DEF TypeOK
<1>5. DoneInv' /\ NeverFull'
  BY <1>1, <1>2, NextRouteKeeps DEF Registering
<1>6. ReadInv'
  <2>1. \A i \in Slots : \A r : Matches(i, r) => Matches(i, r)'
    BY <1>2 DEF Matches, Active
  <2> QED BY <1>1, <2>1, ReadStays DEF IInv
<1>7. Prefix'
  <2>1. \A j \in Slots : j < at[c] => Active(j)
    BY <1>1 DEF IInv, PlaceInv, Adding
  <2> QED BY <1>1, <1>2, <2>1 DEF IInv, Prefix
\* A task that this one may interrupt, or that has interrupted it, is not adding.
<1>8. c = "main" => pc'["event"] \notin Registering
  BY <1>1, <1>3 DEF MayRun
<1>9. c = "event" => ~(pc'["event"] = "idle") /\ ~ready
  BY <1>1, <1>3 DEF IInv, DoneInv, Registering
<1>10. NotYetInv'
  <2> SUFFICES ASSUME NEW d \in Callers, Alone(d)'
               PROVE  /\ pc'[d] = "same" => \A j \in Slots : j < at'[d] => ~Matches(j, Mine(d))'
                      /\ pc'[d] \in Adding => Mine(d)' \notin Registered'
    BY DEF NotYetInv
  <2>1. CASE d = c
    <3>1. \A j \in Slots : ~(j < 1)
      BY RouteAssumption DEF Slots
    <3> QED BY <1>3, <2>1, <3>1 DEF Adding
  <2>2. CASE d = "event" /\ c = "main"
    BY <1>8, <2>2 DEF Registering, Adding
  <2>3. CASE d = "main" /\ c = "event"
    BY <1>9, <2>3 DEF Alone
  <2> QED BY <2>1, <2>2, <2>3
<1>11. ASSUME c = "event", pc["main"] \in {"write", "activate"}, ~Active(at["main"])
       PROVE  at["main"] = at["event"] /\ Mine("main") = Mine("event")
  BY <1>1, <1>11, SamePlace
<1>12. PlaceInv'
  <2> SUFFICES ASSUME NEW d \in Callers
               PROVE  /\ pc'[d] \in Adding => \A j \in Slots : j < at'[d] => Active(j)'
                      /\ pc'[d] \in {"write", "activate"} /\ Active(at[d])'
                           => slot'[at'[d]].route = Mine(d)'
                      /\ pc'[d] = "activate" => slot'[at'[d]].route = Mine(d)'
    BY <1>3 DEF PlaceInv, Active, Adding
  <2>1. CASE d = c
    BY <1>3, <2>1 DEF Adding
  <2>2. CASE d = "event" /\ c = "main"
    BY <1>8, <2>2 DEF Registering, Adding
  <2>3. CASE d = "main" /\ c = "event"
    <3>1. pc'["main"] = pc["main"] /\ at'["main"] = at["main"] /\ Mine("main")' = Mine("main")
      BY <1>3, <2>3
    <3>2. pc["main"] \in Adding => \A j \in Slots : j < at["main"] => Active(j)
      BY DEF IInv, PlaceInv
    <3>3. pc["main"] \in {"write", "activate"} => slot[at["main"]].route = Mine("main") \/ ~Active(at["main"])
      BY DEF IInv, PlaceInv
    <3>4. pc["main"] = "activate" => slot[at["main"]].route = Mine("main")
      BY DEF IInv, PlaceInv
    <3>5. pc["main"] \in {"write", "activate"} => slot[at["main"]].route = Mine("main") \/ ~Active(at["main"])'
      BY <1>1, <1>2, <1>11, <2>3, <3>3
    <3> QED BY <1>1, <1>2, <2>3, <3>1, <3>2, <3>4, <3>5 DEF Active
  <2> QED BY <2>1, <2>2, <2>3
<1>13. ShareInv'
  <2>1. CASE c = "main"
    BY <1>3, <2>1 DEF ShareInv
  <2>2. CASE c = "event"
    <3> SUFFICES ASSUME pc["main"] \in {"write", "activate"}, ~Active(at["main"])'
                 PROVE  FALSE
      BY <1>3, <2>2 DEF ShareInv, Active
    <3>1. ~Active(at["main"]) /\ at["main"] # at["event"]
      BY <1>1, <1>2, <1>3, <2>2 DEF Active
    <3> QED BY <1>11, <2>2, <3>1
  <2> QED BY <2>1, <2>2
<1>14. Once
  BY <1>1 DEF IInv, Twice, Done, DoneInv, Registering, Adding
<1>15. (Once \/ Twice)'
  <2>1. CASE Active(at[c]) \/ Mine(c) \notin Registered
    <3>1. \A i \in Slots : Active(i) /\ slot[i].route = Mine(c) => i = at[c]
      BY <1>1, <1>2, <1>14, <2>1, InTable DEF Once, Matches, Active
    <3> QED BY <1>1, <1>2, <1>14, <3>1 DEF Once
\* The event task was in between, and has put the route in another slot.
  <2>2. CASE ~Active(at[c]) /\ Mine(c) \in Registered
    <3>1. ~Alone(c)
      BY <1>1, <2>2 DEF IInv, NotYetInv, Adding
    <3>2. c = "main" /\ pc["event"] \notin Registering
      BY <1>1, <3>1 DEF Alone, MayRun
    <3>3. ready \/ pc["event"] = "dns"
      BY <1>1, <3>1, <3>2 DEF IInv, Alone, TypeOK, NeverFull, Registering
    <3>4. Done' /\ Routes \subseteq Registered'
      BY <1>1, <1>2, <1>3, <3>2, <3>3 DEF IInv, DoneInv, Done
    <3>5. Mine("main")' \in Registered'
      BY <1>4, <3>4, RoutesAre DEF TypeOK, Mine
    <3>6. PICK j \in Slots : slot'[j].active /\ slot'[j].route = Mine("main")'
      BY <3>5, InTableNext
    <3>7. j >= 1
      BY RouteAssumption DEF Slots
    <3> QED BY <1>3, <3>2, <3>4, <3>6, <3>7 DEF Twice, Adding, Matches
  <2> QED BY <2>1, <2>2
<1> QED BY <1>4, <1>5, <1>6, <1>7, <1>10, <1>12, <1>13, <1>15 DEF IInv

LEMMA PortalDoneIInv ==
  ASSUME IInv, NEW c \in Callers, PortalDone(c)
  PROVE  IInv'
<1> USE DEF Callers
<1>1. /\ pc[c] = "dns" /\ MayRun(c) /\ ready'
      /\ slot' = slot /\ UNCHANGED <<n, at, reader, lookup>>
      /\ pc' \in [Callers -> {"idle", "same", "free", "write", "activate", "dns", "full"}]
      /\ pc'[c] = "idle" /\ \A d \in Callers \ {c} : pc'[d] = pc[d]
      /\ TypeOK /\ \A d \in Callers : at[d] \in Slots
      /\ ready' \in BOOLEAN
  BY MineIsARoute DEF PortalDone, Goto, IInv, TypeOK
<1>2. /\ Registered' = Registered /\ Once' = Once /\ Prefix'
      /\ \A i \in Slots : \A r : Matches(i, r)' <=> Matches(i, r)
      /\ \A i \in Slots : Active(i)' <=> Active(i)
      /\ ReadInv'
      /\ \A d \in Callers : Mine(d)' = Mine(d)
  BY <1>1, SameTable, ReadStays DEF IInv, Mine
<1>3. TypeOK'
  BY <1>1 DEF TypeOK
<1>4. DoneInv' /\ NeverFull'
  BY <1>1, <1>2 DEF IInv, DoneInv, NeverFull, MayRun, Registering
<1>5. NotYetInv'
  BY <1>1, <1>2 DEF IInv, NotYetInv, Alone, Adding
<1>6. PlaceInv'
  BY <1>1, <1>2 DEF IInv, PlaceInv, Adding
<1>7. ShareInv'
  BY <1>1, <1>2 DEF IInv, ShareInv, MayRun, Registering
<1>8. (Once \/ Twice)'
  BY <1>1, <1>2 DEF IInv, Twice, Done, Adding
<1> QED BY <1>2, <1>3, <1>4, <1>5, <1>6, <1>7, <1>8 DEF IInv

LEMMA FindRouteIInv ==
  ASSUME IInv, find_route
  PROVE  IInv'
<1>1. UNCHANGED <<slot, ready, pc, n, at>>
  BY DEF find_route, FindStart, FindNext, FindEnd
<1>2. /\ Registered' = Registered /\ Once' = Once /\ Prefix'
      /\ \A i \in Slots : \A r : Matches(i, r)' <=> Matches(i, r)
      /\ 1 \in Slots /\ SLOTS \in Nat
  BY <1>1, SameTable, RouteAssumption DEF IInv, Slots
<1>3. /\ DoneInv' /\ NotYetInv' /\ PlaceInv' /\ ShareInv' /\ NeverFull' /\ (Once \/ Twice)'
  <2> USE <1>1, <1>2 DEF IInv
  <2>1. DoneInv' /\ NeverFull'
    BY DEF DoneInv, NeverFull
  <2>2. NotYetInv'
    BY DEF NotYetInv, Alone, Matches, Mine
  <2>3. PlaceInv'
    BY DEF PlaceInv, Active, Mine
  <2>4. ShareInv'
    BY DEF ShareInv, Active, Mine
  <2>5. (Once \/ Twice)'
    BY DEF Twice, Done, Matches, Mine
  <2> QED BY <2>1, <2>2, <2>3, <2>4, <2>5
<1>4. TypeOK' /\ ReadInv'
  <2>1. ASSUME NEW r \in Routes \cup Others, FindStart(r) PROVE TypeOK' /\ ReadInv'
    <3>1. r \in Registered => \E j \in Slots : j >= 1 /\ Matches(j, r)'
      <4>1. \A j \in Slots : j >= 1
        BY DEF Slots
      <4> QED BY <1>2, <4>1, InTable
    <3>2. lookup' = [route |-> r, known |-> r \in Registered, answer |-> "pending"]
            /\ reader' = [pc |-> "scan", at |-> 1]
      BY <2>1 DEF FindStart
    <3>3. (r \in Registered) \in BOOLEAN
      OBVIOUS
    <3>4. TypeOK'
      BY <1>1, <1>2, <3>2, <3>3 DEF IInv, TypeOK
    <3>5. ReadInv'
      BY <3>1, <3>2 DEF ReadInv
    <3> QED BY <3>4, <3>5
  <2>2. CASE FindNext
    <3>1. /\ reader.pc = "scan" /\ reader' = [reader EXCEPT !.at = @ + 1]
          /\ ~Matches(reader.at, lookup.route) /\ reader.at < SLOTS /\ lookup' = lookup
          /\ reader \in [pc : {"idle", "scan"}, at : Slots]
      BY <2>2 DEF FindNext, IInv, TypeOK
    <3>2. reader.at + 1 \in Slots /\ \A j \in Slots : j >= reader.at => j = reader.at \/ j >= reader.at + 1
      BY <1>2, <3>1 DEF Slots
    <3>3. reader'.pc = "scan" /\ reader'.at = reader.at + 1
      BY <3>1
    <3>4. TypeOK'
      BY <1>1, <3>1, <3>2 DEF IInv, TypeOK
    <3>5. ReadInv'
      BY <1>2, <3>1, <3>2, <3>3 DEF IInv, ReadInv
    <3> QED BY <3>4, <3>5
  <2>3. CASE FindEnd
    <3>1. /\ lookup \in [route : Routes \cup Others \cup {"none"}, known : BOOLEAN,
                         answer : {"none", "pending", "found", "NULL"}]
          /\ reader' = [pc |-> "idle", at |-> 1]
          /\ \E a \in {"found", "NULL"} : lookup' = [lookup EXCEPT !.answer = a]
      BY <2>3 DEF FindEnd, IInv, TypeOK
    <3>2. TypeOK'
      BY <1>1, <1>2, <3>1 DEF IInv, TypeOK
    <3>3. ReadInv'
      BY <3>1 DEF ReadInv
    <3> QED BY <3>2, <3>3
  <2> QED BY <2>1, <2>2, <2>3 DEF find_route
<1> QED BY <1>2, <1>3, <1>4 DEF IInv

THEOREM IInvHolds == Spec => []IInv
<1>1. IInv /\ [Next]_vars => IInv'
  <2> SUFFICES ASSUME IInv, [Next]_vars PROVE IInv'
    OBVIOUS
  <2>1. ASSUME NEW c \in Callers, web_portal_init(c) PROVE IInv'
    BY <2>1, PortalInitIInv, FindSameIInv, FindFreeIInv, WriteRouteIInv, ActivateIInv,
       PortalDoneIInv DEF web_portal_init, http_server_register_handler
  <2>2. CASE find_route
    BY <2>2, FindRouteIInv
  <2>3. CASE UNCHANGED vars
    <3>1. /\ slot' = slot /\ ready' = ready /\ pc' = pc /\ n' = n /\ at' = at
          /\ reader' = reader /\ lookup' = lookup
      BY <2>3 DEF vars
    <3>2. Registered' = Registered /\ Once' = Once /\ Prefix'
      BY <3>1, SameTable DEF IInv
    <3>3. TypeOK' /\ ReadInv' /\ NeverFull'
      BY <3>1 DEF IInv, TypeOK, ReadInv, NeverFull, Matches
    <3>4. DoneInv' /\ NotYetInv' /\ PlaceInv' /\ ShareInv'
      BY <3>1, <3>2
         DEF IInv, DoneInv, NotYetInv, PlaceInv, ShareInv, Alone, Active, Matches, Mine
    <3>5. (Once \/ Twice)'
      BY <3>1, <3>2 DEF IInv, Twice, Done, Matches, Mine
    <3> QED BY <3>2, <3>3, <3>4, <3>5 DEF IInv
  <2> QED BY <2>1, <2>2, <2>3 DEF Next
<1> QED BY <1>1, InitIInv, PTL DEF Spec

\* Types of the table, of both callers and of the look-up.
THEOREM TypeCorrect == Spec => []TypeOK
<1>1. IInv => TypeOK
  BY DEF IInv
<1> QED BY <1>1, IInvHolds, PTL

\* One slot more than there are routes is enough for two tasks that run
\* web_portal_init at a time.
THEOREM TableIsNeverFull == Spec => []NeverFull
<1>1. IInv => NeverFull
  BY DEF IInv
<1> QED BY <1>1, IInvHolds, PTL

\* Once one of them is done, every route is in the table.
THEOREM PortalIsAlwaysServed == Spec => []PortalIsServed
<1>1. IInv => PortalIsServed
  BY DEF IInv, DoneInv, PortalIsServed
<1> QED BY <1>1, IInvHolds, PTL

-----------------------------------------------------------------------------
\* The slots, registered one field after the other and searched without a lock,
\* implement the map.
THEOREM TableIsAMap == Spec => RefinesMap
<1>1. Init => Map!Init
  BY DEF Init, Map!Init, Registered, Empty, NoLookup, Map!NoLookup
<1>2. IInv /\ [Next]_vars => [Map!Next]_<<Registered, lookup>>
  <2> SUFFICES ASSUME IInv, [Next]_vars PROVE [Map!Next]_<<Registered, lookup>>
    OBVIOUS
  <2>1. ASSUME NEW c \in Callers, web_portal_init(c) PROVE [Map!Next]_<<Registered, lookup>>
    <3>1. lookup' = lookup
      BY <2>1 DEF web_portal_init, http_server_register_handler, PortalInit, FindSame, FindFree,
                  WriteRoute, Activate, PortalDone
    <3>2. CASE UNCHANGED slot
      BY <3>1, <3>2, SameTable
    <3>3. CASE WriteRoute(c)
      BY <3>1, <3>3, WriteSlots
    <3>4. CASE Activate(c)
      <4>1. Registered' = Registered \cup {Mine(c)} /\ Mine(c) \in Routes \cup Others
        BY <3>4, ActivateSlots, MineIsARoute DEF IInv
      <4>2. Map!Register(Mine(c))
        BY <3>1, <4>1 DEF Map!Register
      <4> QED BY <4>1, <4>2 DEF Map!Next
    <3> QED
      BY <2>1, <3>2, <3>3, <3>4
         DEF web_portal_init, http_server_register_handler, PortalInit, FindSame, FindFree, PortalDone
  <2>2. ASSUME NEW r \in Routes \cup Others, FindStart(r) PROVE Map!Next
    <3>1. Registered' = Registered
      BY <2>2, SameTable DEF FindStart
    <3>2. lookup.answer # "pending"
      BY <2>2 DEF IInv, ReadInv, FindStart
    <3>3. Map!Ask(r)
      BY <2>2, <3>1, <3>2 DEF FindStart, Map!Ask
    <3> QED BY <3>3 DEF Map!Next
  <2>3. CASE FindNext
    <3>1. Registered' = Registered
      BY <2>3, SameTable DEF FindNext
    <3> QED BY <2>3, <3>1 DEF FindNext
  <2>4. CASE FindEnd
    <3> DEFINE found == Matches(reader.at, lookup.route)
    <3>1. Registered' = Registered
      BY <2>4, SameTable DEF FindEnd
    <3>2. lookup.answer = "pending" /\ lookup' = [lookup EXCEPT !.answer = IF found THEN "found" ELSE "NULL"]
      BY <2>4 DEF IInv, ReadInv, FindEnd
    <3>3. reader.at \in Slots /\ SLOTS \in Nat
      BY RouteAssumption DEF IInv, TypeOK
    <3>4. found => lookup.route \in Registered
      BY <3>3, InTable
    <3>5. lookup.known => found
      <4> SUFFICES ASSUME lookup.known, ~found PROVE FALSE
        OBVIOUS
      <4>1. reader.pc = "scan" /\ reader.at = SLOTS
        BY <2>4 DEF FindEnd
      <4>2. PICK j \in Slots : j >= reader.at /\ Matches(j, lookup.route)
        BY <4>1 DEF IInv, ReadInv
      <4>3. j = reader.at
        BY <3>3, <4>1, <4>2 DEF Slots
      <4> QED BY <4>2, <4>3
    <3>6. found \in BOOLEAN
      BY <3>3 DEF IInv, TypeOK, Matches
    <3>7. Map!Answer(found)
      BY <3>1, <3>2, <3>4, <3>5 DEF Map!Answer
    <3> QED BY <3>6, <3>7 DEF Map!Next
  <2>5. CASE UNCHANGED vars
    BY <2>5, SameTable DEF vars
  <2> QED BY <2>1, <2>2, <2>3, <2>4, <2>5 DEF Next, find_route
<1> QED BY <1>1, <1>2, IInvHolds, PTL DEF Spec, RefinesMap, Map!Spec

=============================================================================
