-------------------------- MODULE WifiManagerProofs --------------------------
(* Lemmas about the steps of WifiManager, for every number of retries and every *)
(* length of the event queue: what each does to the types, and to the address   *)
(* that will be recorded once the events in the queue are handled.              *)
EXTENDS WifiManager, SequenceTheorems, TLAPS

\* The events that decide has_ip.
Ends == {"DISCONNECTED", "REFUSED", "GOT_IP", "LOST_IP"}

\* has_ip once the events of q are handled: by the last of them that decides it.
WillHaveIp(flag, q) ==
  \/ flag /\ \A j \in 1..Len(q) : q[j] \notin Ends
  \/ \E i \in 1..Len(q) : q[i] = "GOT_IP" /\ \A j \in (i + 1)..Len(q) : q[j] \notin Ends

Coming == WillHaveIp(wifi.has_ip, queue)

\* No address is recorded, or on its way, that the driver has lost without saying so ...
Sound == Coming => drv.link = "online"

\* ... and none that it has is forgotten.
Kept == drv.link = "online" => Coming

-----------------------------------------------------------------------------
\* The event queue

\* An event at the end decides, or leaves it as it was.
LEMMA Posted ==
  ASSUME NEW q \in Seq(Events), NEW flag \in BOOLEAN, NEW e \in Events
  PROVE  /\ q \o <<e>> \in Seq(Events)
         /\ q \o <<e>> # <<>>
         /\ e \in Ends => (WillHaveIp(flag, q \o <<e>>) <=> e = "GOT_IP")
         /\ e \notin Ends => (WillHaveIp(flag, q \o <<e>>) <=> WillHaveIp(flag, q))
<1> DEFINE r == q \o <<e>>
<1>1. <<e>> \in Seq(Events) /\ Len(<<e>>) = 1 /\ <<e>>[1] = e
  OBVIOUS
<1>2. /\ r \in Seq(Events) /\ Len(r) = Len(q) + 1 /\ Len(q) \in Nat
      /\ r[Len(q) + 1] = e
      /\ \A i \in 1..Len(q) : r[i] = q[i]
  BY <1>1, ConcatProperties, LenProperties
<1> HIDE DEF r
<1>3. r # <<>>
  BY <1>2, EmptySeq
<1>4. ASSUME e \in Ends
      PROVE  WillHaveIp(flag, r) <=> e = "GOT_IP"
  <2>1. Len(r) \in 1..Len(r) /\ r[Len(r)] = e
    BY <1>2
  <2>2. \A i \in 1..Len(r) : i # Len(r) => Len(r) \in (i + 1)..Len(r)
    BY <1>2
  <2>3. \A j \in (Len(r) + 1)..Len(r) : r[j] \notin Ends
    BY <1>2
  <2> QED BY <1>4, <2>1, <2>2, <2>3 DEF WillHaveIp
<1>5. ASSUME e \notin Ends
      PROVE  WillHaveIp(flag, r) <=> WillHaveIp(flag, q)
  <2>1. e # "GOT_IP"
    BY <1>5 DEF Ends
  <2>2. (\A j \in 1..Len(r) : r[j] \notin Ends) <=> \A j \in 1..Len(q) : q[j] \notin Ends
    <3>1. \A j \in 1..Len(r) : j \in 1..Len(q) \/ j = Len(q) + 1
      BY <1>2
    <3>2. \A j \in 1..Len(q) : j \in 1..Len(r)
      BY <1>2
    <3> QED BY <1>2, <1>5, <3>1, <3>2
  <2>3. ASSUME NEW i \in 1..Len(q)
        PROVE  (\A j \in (i + 1)..Len(r) : r[j] \notin Ends) <=> \A j \in (i + 1)..Len(q) : q[j] \notin Ends
    <3>1. \A j \in (i + 1)..Len(r) : j \in (i + 1)..Len(q) \/ j = Len(q) + 1
      BY <1>2
    <3>2. \A j \in (i + 1)..Len(q) : j \in (i + 1)..Len(r) /\ j \in 1..Len(q)
      BY <1>2
    <3> QED BY <1>2, <1>5, <3>1, <3>2
  <2>4. \A i \in 1..Len(r) : r[i] = "GOT_IP" => i \in 1..Len(q)
    BY <1>2, <2>1
  <2>5. \A i \in 1..Len(q) : i \in 1..Len(r) /\ r[i] = q[i]
    BY <1>2
  <2> QED BY <2>2, <2>3, <2>4, <2>5 DEF WillHaveIp
<1> QED BY <1>2, <1>3, <1>4, <1>5 DEF r

\* Likewise for an event that is only reported where there is something to report,
\* which decides nothing ...
LEMMA PostedQuietly ==
  ASSUME NEW q \in Seq(Events), NEW flag \in BOOLEAN, NEW c \in BOOLEAN, NEW e \in Events,
         e \notin Ends
  PROVE  /\ q \o When(c, e) \in Seq(Events)
         /\ WillHaveIp(flag, q \o When(c, e)) <=> WillHaveIp(flag, q)
<1>1. CASE c
  <2>1. q \o When(c, e) = q \o <<e>>
    BY <1>1 DEF When
  <2>2. /\ q \o <<e>> \in Seq(Events)
        /\ WillHaveIp(flag, q \o <<e>>) <=> WillHaveIp(flag, q)
    BY Posted
  <2> QED BY <2>1, <2>2
<1>2. CASE ~c
  <2>1. q \o When(c, e) = q
    BY <1>2, ConcatEmptySeq DEF When
  <2> QED BY <2>1
<1> QED BY <1>1, <1>2

\* ... or says that the link is down.
LEMMA PostedDown ==
  ASSUME NEW q \in Seq(Events), NEW flag \in BOOLEAN, NEW c \in BOOLEAN,
         ~c => ~WillHaveIp(flag, q)
  PROVE  /\ q \o When(c, "DISCONNECTED") \in Seq(Events)
         /\ ~WillHaveIp(flag, q \o When(c, "DISCONNECTED"))
<1>1. CASE c
  <2>1. q \o When(c, "DISCONNECTED") = q \o <<"DISCONNECTED">>
    BY <1>1 DEF When
  <2>2. "DISCONNECTED" \in Events /\ "DISCONNECTED" \in Ends /\ "DISCONNECTED" # "GOT_IP"
    BY DEF Events, Ends
  <2>3. /\ q \o <<"DISCONNECTED">> \in Seq(Events)
        /\ WillHaveIp(flag, q \o <<"DISCONNECTED">>) <=> "DISCONNECTED" = "GOT_IP"
    BY <2>2, Posted
  <2> QED BY <2>1, <2>2, <2>3
<1>2. CASE ~c
  <2>1. q \o When(c, "DISCONNECTED") = q
    BY <1>2, ConcatEmptySeq DEF When
  <2> QED BY <1>2, <2>1
<1> QED BY <1>1, <1>2

\* The handler of the oldest event leaves what is still to come.
LEMMA Handled ==
  ASSUME NEW q \in Seq(Events), q # <<>>, NEW flag \in BOOLEAN, NEW next \in BOOLEAN,
         Head(q) \in Ends => (next <=> Head(q) = "GOT_IP"),
         Head(q) \notin Ends => (next <=> flag)
  PROVE  WillHaveIp(next, Tail(q)) <=> WillHaveIp(flag, q)
<1> DEFINE r == Tail(q)
<1>1. /\ r \in Seq(Events) /\ Len(r) \in Nat /\ Len(q) = Len(r) + 1
      /\ q[1] = Head(q)
      /\ \A i \in 1..Len(r) : r[i] = q[i + 1]
  BY HeadTailProperties, LenProperties
<1> HIDE DEF r
<1>2. \A i \in 2..Len(q) : i - 1 \in 1..Len(r) /\ r[i - 1] = q[i]
  <2>1. \A i \in 2..Len(q) : i - 1 \in 1..Len(r) /\ (i - 1) + 1 = i
    BY <1>1
  <2> QED BY <1>1, <2>1
<1>3. \A i \in 1..Len(r) : i + 1 \in 2..Len(q)
  BY <1>1
<1>4. (\A j \in 1..Len(r) : r[j] \notin Ends) <=> \A j \in 2..Len(q) : q[j] \notin Ends
  BY <1>1, <1>2, <1>3
<1>5. ASSUME NEW i \in 1..Len(r)
      PROVE  (\A j \in (i + 1)..Len(r) : r[j] \notin Ends)
               <=> \A j \in (i + 2)..Len(q) : q[j] \notin Ends
  <2>1. \A j \in (i + 1)..Len(r) : j \in 1..Len(r) /\ j + 1 \in (i + 2)..Len(q)
    BY <1>1
  <2>2. \A j \in (i + 2)..Len(q) : j \in 2..Len(q) /\ j - 1 \in (i + 1)..Len(r)
    BY <1>1
  <2> QED BY <1>1, <1>2, <2>1, <2>2
<1>6. (\E i \in 1..Len(r) : r[i] = "GOT_IP" /\ \A j \in (i + 1)..Len(r) : r[j] \notin Ends)
        <=> \E i \in 2..Len(q) : q[i] = "GOT_IP" /\ \A j \in (i + 1)..Len(q) : q[j] \notin Ends
  <2>1. ASSUME NEW i \in 1..Len(r), r[i] = "GOT_IP", \A j \in (i + 1)..Len(r) : r[j] \notin Ends
        PROVE  \E k \in 2..Len(q) : q[k] = "GOT_IP" /\ \A j \in (k + 1)..Len(q) : q[j] \notin Ends
    <3>1. i + 1 \in 2..Len(q) /\ q[i + 1] = "GOT_IP" /\ (i + 1) + 1 = i + 2
      BY <1>1, <1>3, <2>1
    <3>2. \A j \in (i + 2)..Len(q) : q[j] \notin Ends
      BY <1>5, <2>1
    <3> QED BY <3>1, <3>2
  <2>2. ASSUME NEW k \in 2..Len(q), q[k] = "GOT_IP", \A j \in (k + 1)..Len(q) : q[j] \notin Ends
        PROVE  \E i \in 1..Len(r) : r[i] = "GOT_IP" /\ \A j \in (i + 1)..Len(r) : r[j] \notin Ends
    <3>1. k - 1 \in 1..Len(r) /\ r[k - 1] = "GOT_IP" /\ (k - 1) + 2 = k + 1
      BY <1>1, <1>2, <2>2
    <3>2. \A j \in ((k - 1) + 1)..Len(r) : r[j] \notin Ends
      BY <1>5, <2>2, <3>1
    <3> QED BY <3>1, <3>2
  <2> QED BY <2>1, <2>2
<1>7. /\ Len(q) \in Nat /\ Len(q) >= 1 /\ 1 \in 1..Len(q)
      /\ \A i \in 1..Len(q) : i = 1 \/ i \in 2..Len(q)
      /\ \A i \in 2..Len(q) : i \in 1..Len(q)
  BY <1>1
<1>8. (\A j \in 1..Len(q) : q[j] \notin Ends)
        <=> Head(q) \notin Ends /\ \A j \in 2..Len(q) : q[j] \notin Ends
  BY <1>1, <1>7
<1>9. (\E i \in 1..Len(q) : q[i] = "GOT_IP" /\ \A j \in (i + 1)..Len(q) : q[j] \notin Ends)
        <=> \/ Head(q) = "GOT_IP" /\ \A j \in 2..Len(q) : q[j] \notin Ends
            \/ \E i \in 2..Len(q) : q[i] = "GOT_IP" /\ \A j \in (i + 1)..Len(q) : q[j] \notin Ends
  <2>1. (1 + 1)..Len(q) = 2..Len(q)
    OBVIOUS
  <2> QED BY <1>1, <1>7, <2>1
<1>10. "GOT_IP" \in Ends
  BY DEF Ends
<1> QED BY <1>4, <1>6, <1>8, <1>9, <1>10 DEF WillHaveIp, r

-----------------------------------------------------------------------------
\* The steps

\* Every step but DisconnectMark, which forgets an address the driver still has,
\* and DisconnectDriver, which follows it.
WifiStep ==
  \/ StartAp \/ StartApDone \/ StopAp
  \/ ConnectStop \/ ConnectStart \/ ConnectDone
  \/ ScanBegin \/ (\E wasIdle \in BOOLEAN : ScanEnd(wasIdle))
  \/ (\E e \in Events : wifi_event_handler(e))
  \/ Driver
  \/ UNCHANGED wifiVars

\* What a step keeps.
Keeps == WifiTypeOK' /\ Sound' /\ (Kept => Kept')

\* A step that only reports what decides nothing, and changes the link neither to
\* nor from having an address.
LEMMA QuietStep ==
  ASSUME WifiTypeOK, Sound, NEW c \in BOOLEAN, NEW e \in Events \ Ends,
         queue' = queue \o When(c, e), wifi'.has_ip = wifi.has_ip,
         wifi' \in [state : WifiStates, has_ip : BOOLEAN, connect_retries : 0..MAX_RETRIES],
         drv' \in [mode : Modes, started : BOOLEAN, link : Links],
         drv'.link = "online" <=> drv.link = "online"
  PROVE  Keeps
<1>0. e \in Events /\ e \notin Ends
  OBVIOUS
<1>1. queue \in Seq(Events) /\ wifi.has_ip \in BOOLEAN
  BY DEF WifiTypeOK
<1>2. /\ queue \o When(c, e) \in Seq(Events)
      /\ WillHaveIp(wifi.has_ip, queue \o When(c, e)) <=> WillHaveIp(wifi.has_ip, queue)
  BY <1>0, <1>1, PostedQuietly
<1>3. WillHaveIp(wifi'.has_ip, queue') <=> WillHaveIp(wifi.has_ip, queue)
  BY <1>2
<1>4. queue' \in Seq(Events)
  BY <1>2
<1> QED BY <1>3, <1>4 DEF Keeps, WifiTypeOK, Sound, Kept, Coming

\* A step of the station, reported by an event.
LEMMA LinkStep ==
  ASSUME WifiTypeOK, Sound, NEW e \in Events, queue' = queue \o <<e>>, UNCHANGED wifi,
         NEW link \in Links, drv' = [drv EXCEPT !.link = link],
         e \in Ends => (e = "GOT_IP" <=> link = "online"),
         e \notin Ends => drv.link # "online" /\ link # "online"
  PROVE  Keeps
<1>1. queue \in Seq(Events) /\ wifi.has_ip \in BOOLEAN
  BY DEF WifiTypeOK
<1>2. drv' \in [mode : Modes, started : BOOLEAN, link : Links] /\ drv'.link = link
  BY DEF WifiTypeOK
<1>3. /\ queue' \in Seq(Events)
      /\ e \in Ends => (WillHaveIp(wifi.has_ip, queue') <=> e = "GOT_IP")
      /\ e \notin Ends => (WillHaveIp(wifi.has_ip, queue') <=> WillHaveIp(wifi.has_ip, queue))
  BY <1>1, Posted
<1>4. /\ e \in Ends => (WillHaveIp(wifi'.has_ip, queue') <=> e = "GOT_IP")
      /\ e \notin Ends => (WillHaveIp(wifi'.has_ip, queue') <=> WillHaveIp(wifi.has_ip, queue))
  BY <1>3
<1> QED BY <1>2, <1>3, <1>4 DEF Keeps, WifiTypeOK, Sound, Kept, Coming

\* A step that takes the link down, and says so if it was up.
LEMMA DownStep ==
  ASSUME WifiTypeOK, Sound, NEW c \in BOOLEAN, NEW e \in Events \ Ends,
         queue' = (queue \o When(Linked, "DISCONNECTED")) \o When(c, e),
         wifi'.has_ip = wifi.has_ip,
         wifi' \in [state : WifiStates, has_ip : BOOLEAN, connect_retries : 0..MAX_RETRIES],
         drv' \in [mode : Modes, started : BOOLEAN, link : Links],
         drv'.link = "idle"
  PROVE  WifiTypeOK' /\ Sound' /\ Kept'
<1> DEFINE q == queue \o When(Linked, "DISCONNECTED")
<1>0. e \in Events /\ e \notin Ends
  OBVIOUS
<1>1. queue \in Seq(Events) /\ wifi.has_ip \in BOOLEAN /\ Linked \in BOOLEAN
  BY DEF WifiTypeOK, Linked
<1>2. ~Linked => ~WillHaveIp(wifi.has_ip, queue)
  BY DEF Sound, Coming, Linked
<1>3. q \in Seq(Events) /\ ~WillHaveIp(wifi.has_ip, q)
  BY <1>1, <1>2, PostedDown
<1> HIDE DEF q
<1>6. /\ q \o When(c, e) \in Seq(Events)
      /\ WillHaveIp(wifi.has_ip, q \o When(c, e)) <=> WillHaveIp(wifi.has_ip, q)
  BY <1>0, <1>1, <1>3, PostedQuietly
<1>7. queue' = q \o When(c, e)
  BY DEF q
<1>8. queue' \in Seq(Events) /\ ~WillHaveIp(wifi'.has_ip, queue')
  BY <1>3, <1>6, <1>7
<1> QED BY <1>8 DEF WifiTypeOK, Sound, Kept, Coming

LEMMA DisconnectDriverStep ==
  ASSUME WifiTypeOK, Sound, DisconnectDriver
  PROVE  WifiTypeOK' /\ Sound' /\ Kept'
<1>1. "AP_STOP" \in Events \ Ends /\ When(FALSE, "AP_STOP") = <<>>
  BY DEF Events, Ends, When
<1>2. queue \o When(Linked, "DISCONNECTED") \in Seq(Events)
  <2>1. queue \in Seq(Events) /\ wifi.has_ip \in BOOLEAN /\ Linked \in BOOLEAN
        /\ "DISCONNECTED" \in Events
    BY DEF WifiTypeOK, Linked, Events
  <2> QED BY <2>1 DEF When
<1>3. queue' = (queue \o When(Linked, "DISCONNECTED")) \o When(FALSE, "AP_STOP")
  BY <1>1, <1>2, ConcatEmptySeq DEF DisconnectDriver, esp_wifi_disconnect, Post
<1>4. /\ drv' \in [mode : Modes, started : BOOLEAN, link : Links] /\ drv'.link = "idle"
      /\ UNCHANGED wifi
  BY DEF DisconnectDriver, esp_wifi_disconnect, WifiTypeOK, Links
<1> QED BY <1>1, <1>3, <1>4, DownStep DEF WifiTypeOK

LEMMA DisconnectMarkStep ==
  ASSUME WifiTypeOK, Sound, DisconnectMark
  PROVE  WifiTypeOK' /\ Sound' /\ UNCHANGED drv
<1>1. /\ wifi' \in [state : WifiStates, has_ip : BOOLEAN, connect_retries : 0..MAX_RETRIES]
      /\ wifi'.has_ip = FALSE /\ UNCHANGED <<drv, queue>>
  BY DEF DisconnectMark, WifiTypeOK
<1>2. WillHaveIp(FALSE, queue) => WillHaveIp(wifi.has_ip, queue)
  BY DEF WillHaveIp
<1> QED BY <1>1, <1>2 DEF WifiTypeOK, Sound, Coming

LEMMA StopTyped ==
  WifiTypeOK =>
    /\ StoppedDriver \in [mode : Modes, started : BOOLEAN, link : Links]
    /\ StoppedDriver.link = "idle" /\ StoppedDriver.mode = drv.mode
    /\ ApUp \in BOOLEAN /\ Linked \in BOOLEAN
BY DEF WifiTypeOK, StoppedDriver, Links, ApUp, Linked

\* esp_wifi_stop posts in two parts.
LEMMA StopPosted ==
  ASSUME WifiTypeOK, Post(StopEvents)
  PROVE  queue' = (queue \o When(Linked, "DISCONNECTED")) \o When(ApUp, "AP_STOP")
<1>1. queue \in Seq(Events) /\ "DISCONNECTED" \in Events /\ "AP_STOP" \in Events
  BY DEF WifiTypeOK, Events
<1>2. When(Linked, "DISCONNECTED") \in Seq(Events) /\ When(ApUp, "AP_STOP") \in Seq(Events)
  BY <1>1 DEF When
<1> QED BY <1>1, <1>2, ConcatAssociative DEF Post, StopEvents

\* The calls of the access point and of a new connection.
LEMMA DriverCalls ==
  ASSUME WifiTypeOK, Sound, StartAp \/ StopAp \/ ConnectStart
  PROVE  Keeps
<1>1. {"AP_START", "AP_STOP"} \subseteq Events \ Ends
  BY DEF Events, Ends
<1>2. wifi' \in [state : WifiStates, has_ip : BOOLEAN, connect_retries : 0..MAX_RETRIES]
      /\ wifi'.has_ip = wifi.has_ip
  BY DEF WifiTypeOK, StartAp, StopAp, ConnectStart
<1>3. drv' \in [mode : Modes, started : BOOLEAN, link : Links]
      /\ (drv'.link = "online" <=> drv.link = "online")
  BY DEF WifiTypeOK, StartAp, StopAp, ConnectStart, ApDriver, Joining, Modes, Links
<1>4. ApUp \in BOOLEAN /\ (~ApUp) \in BOOLEAN
  BY DEF ApUp, WifiTypeOK
<1>5. \/ queue' = queue \o When(~ApUp, "AP_START")
      \/ queue' = queue \o When(ApUp, "AP_STOP")
  BY DEF StartAp, StopAp, ConnectStart, Post
<1>6. CASE queue' = queue \o When(~ApUp, "AP_START")
  BY <1>1, <1>2, <1>3, <1>4, <1>6, QuietStep
<1>7. CASE queue' = queue \o When(ApUp, "AP_STOP")
  BY <1>1, <1>2, <1>3, <1>4, <1>7, QuietStep
<1> QED BY <1>5, <1>6, <1>7

\* What is only recorded.
LEMMA Records ==
  ASSUME WifiTypeOK, Sound, StartApDone \/ ConnectDone \/ UNCHANGED wifiVars
  PROVE  Keeps
<1>1. /\ wifi' \in [state : WifiStates, has_ip : BOOLEAN, connect_retries : 0..MAX_RETRIES]
      /\ wifi'.has_ip = wifi.has_ip /\ UNCHANGED <<drv, queue>>
  BY DEF WifiTypeOK, StartApDone, ConnectDone, WifiStates, wifiVars
<1> QED BY <1>1 DEF Keeps, WifiTypeOK, Sound, Kept, Coming

\* The driver stopped: for a new connection, or after the scan of an idle manager.
LEMMA Stops ==
  ASSUME WifiTypeOK, Sound, ConnectStop \/ \E wasIdle \in BOOLEAN : ScanEnd(wasIdle)
  PROVE  Keeps
<1>1. CASE UNCHANGED wifiVars
  BY <1>1, Records
<1>2. CASE Post(StopEvents) /\ ~UNCHANGED wifiVars
  <2>1. "AP_STOP" \in Events \ Ends /\ ApUp \in BOOLEAN
    BY StopTyped DEF Events, Ends
  <2>2. queue' = (queue \o When(Linked, "DISCONNECTED")) \o When(ApUp, "AP_STOP")
    BY <1>2, StopPosted
  <2>3. wifi' \in [state : WifiStates, has_ip : BOOLEAN, connect_retries : 0..MAX_RETRIES]
        /\ wifi'.has_ip = wifi.has_ip
    BY <1>2, WifiAssumption DEF WifiTypeOK, ConnectStop, ScanEnd, WifiStates
  <2>4. drv' = StoppedDriver \/ drv' = [StoppedDriver EXCEPT !.mode = "NULL"]
    BY <1>2 DEF ConnectStop, ScanEnd
  <2>5. drv' \in [mode : Modes, started : BOOLEAN, link : Links] /\ drv'.link = "idle"
    BY <2>4, StopTyped DEF Modes
  <2> QED BY <2>1, <2>2, <2>3, <2>5, DownStep DEF Keeps
<1> QED BY <1>1, <1>2 DEF ConnectStop, ScanEnd

LEMMA ScanBegins ==
  ASSUME WifiTypeOK, Sound, ScanBegin
  PROVE  Keeps
<1>1. CASE esp_wifi_disconnect
  <2>1. DisconnectDriver
    BY <1>1 DEF ScanBegin, DisconnectDriver
  <2> QED BY <2>1, DisconnectDriverStep DEF Keeps
<1>2. CASE drv' = [drv EXCEPT !.mode = "STA", !.started = TRUE] /\ Post(When(ApUp, "AP_STOP"))
  <2>1. "AP_STOP" \in Events \ Ends /\ ApUp \in BOOLEAN
    BY StopTyped DEF Events, Ends
  <2>2. /\ drv' \in [mode : Modes, started : BOOLEAN, link : Links]
        /\ drv'.link = drv.link
        /\ UNCHANGED wifi /\ queue' = queue \o When(ApUp, "AP_STOP")
    BY <1>2 DEF WifiTypeOK, Modes, ScanBegin, Post
  <2> QED BY <2>1, <2>2, QuietStep DEF WifiTypeOK
<1>3. CASE UNCHANGED <<drv, queue>>
  BY <1>3, Records DEF ScanBegin, wifiVars
<1> QED BY <1>1, <1>2, <1>3 DEF ScanBegin

LEMMA DriverMoves ==
  ASSUME WifiTypeOK, Sound, Driver
  PROVE  Keeps
<1>1. /\ {"STA_CONNECTED", "REFUSED", "GOT_IP", "LOST_IP", "DISCONNECTED"} \subseteq Events
      /\ {"REFUSED", "GOT_IP", "LOST_IP", "DISCONNECTED"} \subseteq Ends
      /\ "STA_CONNECTED" \notin Ends
      /\ {"idle", "associated", "online"} \subseteq Links
  BY DEF Events, Ends, Links
<1>2. UNCHANGED wifi
  BY DEF Driver
<1>3. CASE /\ drv.link = "connecting" /\ drv' = [drv EXCEPT !.link = "associated"]
           /\ queue' = queue \o <<"STA_CONNECTED">>
  BY <1>1, <1>2, <1>3, LinkStep
<1>4. CASE drv' = [drv EXCEPT !.link = "idle"] /\ queue' = queue \o <<"REFUSED">>
  BY <1>1, <1>2, <1>4, LinkStep
<1>5. CASE drv' = [drv EXCEPT !.link = "online"] /\ queue' = queue \o <<"GOT_IP">>
  BY <1>1, <1>2, <1>5, LinkStep
<1>6. CASE drv' = [drv EXCEPT !.link = "associated"] /\ queue' = queue \o <<"LOST_IP">>
  BY <1>1, <1>2, <1>6, LinkStep
<1>7. CASE drv' = [drv EXCEPT !.link = "idle"] /\ queue' = queue \o <<"DISCONNECTED">>
  BY <1>1, <1>2, <1>7, LinkStep
<1> QED BY <1>3, <1>4, <1>5, <1>6, <1>7 DEF Driver, Post

LEMMA Handles ==
  ASSUME WifiTypeOK, Sound, NEW e \in Events, wifi_event_handler(e)
  PROVE  Keeps
<1>1. /\ queue \in Seq(Events) /\ queue # <<>> /\ e = Head(queue) /\ queue' = Tail(queue)
      /\ wifi.has_ip \in BOOLEAN /\ wifi' = AfterEvent(e)
  BY DEF wifi_event_handler, WifiTypeOK
<1>2. queue' \in Seq(Events)
  BY <1>1, HeadTailProperties
<1>3. ~GivesUp(e) /\ e = "DISCONNECTED" => wifi.connect_retries + 1 \in 0..MAX_RETRIES
  BY WifiAssumption DEF WifiTypeOK, GivesUp
<1>4. wifi' \in [state : WifiStates, has_ip : BOOLEAN, connect_retries : 0..MAX_RETRIES]
      /\ (e \in Ends => (wifi'.has_ip <=> e = "GOT_IP"))
      /\ (e \notin Ends => (wifi'.has_ip <=> wifi.has_ip))
  <2>1. CASE e \in {"DISCONNECTED", "REFUSED"}
    <3>1. AfterEvent(e) = AfterLoss(e)
      BY <2>1 DEF AfterEvent
    <3>2. GivesUp(e) \/ e = "DISCONNECTED"
      BY <2>1 DEF GivesUp
    <3> QED BY <1>1, <1>3, <2>1, <3>1, <3>2 DEF AfterLoss, WifiTypeOK, WifiStates, Ends
  <2>2. CASE e \in {"STA_CONNECTED", "GOT_IP", "LOST_IP", "AP_START", "AP_STOP"}
    BY <1>1, <2>2 DEF AfterEvent, WifiTypeOK, WifiStates, Ends
  <2> QED BY <2>1, <2>2 DEF Events
<1>5. drv' \in [mode : Modes, started : BOOLEAN, link : Links]
      /\ (drv'.link = "online" <=> drv.link = "online")
  BY DEF wifi_event_handler, Joining, WifiTypeOK, Links
<1>6. wifi'.has_ip \in BOOLEAN
  BY <1>4
<1>7. WillHaveIp(wifi'.has_ip, Tail(queue)) <=> WillHaveIp(wifi.has_ip, queue)
  BY <1>1, <1>4, <1>6, Handled
<1>8. Coming' <=> Coming
  BY <1>1, <1>7 DEF Coming
<1> QED BY <1>2, <1>4, <1>5, <1>8 DEF Keeps, WifiTypeOK, Sound, Kept

\* Whatever a step of the Wi-Fi manager or the driver does, the queue tells the
\* rest of the truth about the address.
LEMMA WifiStepKeeps ==
  ASSUME WifiTypeOK, Sound, WifiStep
  PROVE  Keeps
BY DriverCalls, Records, Stops, ScanBegins, DriverMoves, Handles DEF WifiStep

-----------------------------------------------------------------------------
\* The access point

\* The events after which a manager may still take, or already takes, itself for idle.
Idles == {"AP_STOP", "LOST_IP"}

\* The state is IDLE, or will be, once the events of q are handled.
MayIdle(state, q) ==
  \/ state = "IDLE" /\ \A j \in 1..Len(q) : q[j] \in Idles
  \/ \E i \in 1..Len(q) : q[i] = "AP_STOP" /\ \A j \in (i + 1)..Len(q) : q[j] \in Idles

\* A manager whose access point runs never takes itself for idle for good, and
\* nothing but the access point ever starts the driver.
ApKnown ==
  /\ ApUp => ~MayIdle(wifi.state, queue)
  /\ drv.started \/ Linked => ApUp

\* Only AP_STOP, once posted, can make the manager idle; most events rule it out.
LEMMA PostedIdle ==
  ASSUME NEW q \in Seq(Events), NEW state \in WifiStates, NEW e \in Events, e # "AP_STOP"
  PROVE  /\ MayIdle(state, q \o <<e>>) => MayIdle(state, q)
         /\ MayIdle(state, q \o <<e>>) => e = "LOST_IP"
<1> DEFINE r == q \o <<e>>
<1>1. /\ Len(r) = Len(q) + 1 /\ Len(q) \in Nat
      /\ r[Len(q) + 1] = e
      /\ \A i \in 1..Len(q) : r[i] = q[i]
  <2>1. <<e>> \in Seq(Events) /\ Len(<<e>>) = 1 /\ <<e>>[1] = e
    OBVIOUS
  <2> QED BY <2>1, ConcatProperties, LenProperties
<1> HIDE DEF r
<1>2. /\ \A j \in 1..Len(q) : j \in 1..Len(r)
      /\ Len(r) \in 1..Len(r) /\ r[Len(r)] = e
  BY <1>1
<1>3. ASSUME state = "IDLE", \A j \in 1..Len(r) : r[j] \in Idles
      PROVE  MayIdle(state, q) /\ e = "LOST_IP"
  BY <1>1, <1>2, <1>3 DEF MayIdle, Idles
<1>4. ASSUME NEW i \in 1..Len(r), r[i] = "AP_STOP", \A j \in (i + 1)..Len(r) : r[j] \in Idles
      PROVE  MayIdle(state, q) /\ e = "LOST_IP"
  <2>1. i \in 1..Len(q) /\ Len(r) \in (i + 1)..Len(r)
    BY <1>1, <1>4
  <2>2. \A j \in (i + 1)..Len(q) : j \in (i + 1)..Len(r) /\ j \in 1..Len(q)
    BY <1>1
  <2> QED BY <1>1, <1>2, <1>4, <2>1, <2>2 DEF MayIdle, Idles
<1> QED BY <1>3, <1>4 DEF MayIdle, r

\* The same for an event reported only where there is something to report.
LEMMA PostedIdleWhen ==
  ASSUME NEW q \in Seq(Events), NEW state \in WifiStates, NEW c \in BOOLEAN,
         NEW e \in Events, e # "AP_STOP"
  PROVE  /\ MayIdle(state, q \o When(c, e)) => MayIdle(state, q)
         /\ c /\ MayIdle(state, q \o When(c, e)) => e = "LOST_IP"
<1>1. CASE c
  BY <1>1, PostedIdle DEF When
<1>2. CASE ~c
  BY <1>2, ConcatEmptySeq DEF When
<1> QED BY <1>1, <1>2

\* The handler makes the manager idle only for an AP_STOP.
LEMMA HandledIdle ==
  ASSUME NEW q \in Seq(Events), q # <<>>, NEW state \in WifiStates, NEW next \in WifiStates,
         next = "IDLE" =>
           Head(q) = "AP_STOP" \/ (Head(q) = "LOST_IP" /\ state = "IDLE"),
         MayIdle(next, Tail(q))
  PROVE  MayIdle(state, q)
<1> DEFINE r == Tail(q)
<1>1. /\ Len(r) \in Nat /\ Len(q) = Len(r) + 1 /\ q[1] = Head(q)
      /\ \A i \in 1..Len(r) : r[i] = q[i + 1]
  BY HeadTailProperties, LenProperties
<1> HIDE DEF r
<1>2. \A i \in 2..Len(q) : i - 1 \in 1..Len(r) /\ r[i - 1] = q[i]
  <2>1. \A i \in 2..Len(q) : i - 1 \in 1..Len(r) /\ (i - 1) + 1 = i
    BY <1>1
  <2> QED BY <1>1, <2>1
<1>3. 1 \in 1..Len(q) /\ \A j \in 1..Len(q) : j = 1 \/ j \in 2..Len(q)
  BY <1>1
<1>4. ASSUME next = "IDLE", \A j \in 1..Len(r) : r[j] \in Idles
      PROVE  MayIdle(state, q)
  <2>1. \A j \in 2..Len(q) : q[j] \in Idles
    BY <1>2, <1>4
  <2>2. (1 + 1)..Len(q) = 2..Len(q)
    OBVIOUS
  <2> QED BY <1>1, <1>3, <1>4, <2>1, <2>2 DEF MayIdle, Idles
<1>5. ASSUME NEW i \in 1..Len(r), r[i] = "AP_STOP", \A j \in (i + 1)..Len(r) : r[j] \in Idles
      PROVE  MayIdle(state, q)
  <2>1. i + 1 \in 1..Len(q) /\ q[i + 1] = "AP_STOP"
    BY <1>1, <1>5
  <2>2. \A j \in ((i + 1) + 1)..Len(q) : j \in 2..Len(q) /\ j - 1 \in (i + 1)..Len(r)
    BY <1>1
  <2> QED BY <1>2, <1>5, <2>1, <2>2 DEF MayIdle
<1> QED BY <1>4, <1>5 DEF MayIdle, r

\* A step that leaves the access point as it is, and at most reports an event.
LEMMA ApReported ==
  ASSUME WifiTypeOK, ApKnown, NEW c \in BOOLEAN, NEW e \in Events, e # "AP_STOP",
         queue' = queue \o When(c, e), wifi'.state = wifi.state,
         UNCHANGED <<drv.started, drv.mode>>, drv'.link # "idle" => drv.started \/ Linked
  PROVE  ApKnown' /\ (ApUp => ApUp')
<1>1. queue \in Seq(Events) /\ wifi.state \in WifiStates
  BY DEF WifiTypeOK
<1>2. MayIdle(wifi.state, queue') => MayIdle(wifi.state, queue)
  BY <1>1, PostedIdleWhen
<1>3. MayIdle(wifi'.state, queue') => MayIdle(wifi.state, queue)
  BY <1>2
<1> QED BY <1>3 DEF ApKnown, ApUp, Linked

LEMMA ApStarts ==
  ASSUME WifiTypeOK, ApKnown, StartAp \/ ConnectStart
  PROVE  ApKnown' /\ ApUp'
<1>1. queue \in Seq(Events) /\ wifi.state \in WifiStates /\ (~ApUp) \in BOOLEAN
      /\ "AP_START" \in Events
  BY DEF WifiTypeOK, Events, ApUp
<1>2. queue' = queue \o When(~ApUp, "AP_START") /\ wifi' = wifi
  BY DEF StartAp, ConnectStart, Post
<1>3. ~MayIdle(wifi.state, queue')
  BY <1>1, <1>2, PostedIdleWhen DEF ApKnown
<1>4. ~MayIdle(wifi'.state, queue')
  BY <1>2, <1>3
<1>5. ApUp'
  BY DEF StartAp, ConnectStart, ApDriver, Joining, ApUp, WifiTypeOK
<1> QED BY <1>4, <1>5 DEF ApKnown

LEMMA ApStopsToConnect ==
  ASSUME WifiTypeOK, ApKnown, ConnectStop
  PROVE  ApKnown'
BY DEF ConnectStop, StoppedDriver, WifiTypeOK, ApKnown, ApUp, Linked

\* What is only recorded.
LEMMA ApRecords ==
  ASSUME WifiTypeOK, ApKnown,
         StartApDone \/ ConnectDone \/ DisconnectMark \/ ScanEnd(FALSE) \/ UNCHANGED wifiVars
  PROVE  ApKnown' /\ (ApUp => ApUp')
<1>1. UNCHANGED <<drv, queue>> /\ (wifi'.state = "IDLE" => wifi.state = "IDLE")
  BY DEF WifiTypeOK, StartApDone, ConnectDone, DisconnectMark, ScanEnd, wifiVars
<1>2. MayIdle(wifi'.state, queue') => MayIdle(wifi.state, queue)
  BY <1>1 DEF MayIdle
<1> QED BY <1>1, <1>2 DEF ApKnown, ApUp, Linked

LEMMA ApDisconnects ==
  ASSUME WifiTypeOK, ApKnown, DisconnectDriver \/ (ScanBegin /\ wifi.state # "IDLE")
  PROVE  ApKnown' /\ (ApUp => ApUp')
<1>1. CASE UNCHANGED <<drv, queue>> /\ UNCHANGED wifi
  BY <1>1, ApRecords DEF wifiVars
<1>2. CASE esp_wifi_disconnect /\ UNCHANGED wifi
  <2>1. Linked \in BOOLEAN /\ "DISCONNECTED" \in Events
    BY DEF Linked, Events
  <2>2. /\ UNCHANGED <<drv.started, drv.mode>> /\ drv'.link = "idle"
        /\ queue' = queue \o When(Linked, "DISCONNECTED")
    BY <1>2 DEF esp_wifi_disconnect, Post, WifiTypeOK
  <2> QED BY <1>2, <2>1, <2>2, ApReported
<1> QED BY <1>1, <1>2 DEF DisconnectDriver, ScanBegin

LEMMA ApDriverMoves ==
  ASSUME WifiTypeOK, ApKnown, Driver
  PROVE  ApKnown' /\ (ApUp => ApUp')
<1>1. PICK e \in {"STA_CONNECTED", "REFUSED", "GOT_IP", "LOST_IP", "DISCONNECTED"} :
        queue' = queue \o <<e>>
  BY DEF Driver, Post
<1>2. queue' = queue \o When(TRUE, e) /\ e \in Events /\ e # "AP_STOP"
  BY <1>1 DEF When, Events
<1>3. UNCHANGED <<drv.started, drv.mode>> /\ wifi' = wifi /\ (drv'.link # "idle" => Linked)
  BY DEF Driver, Linked, WifiTypeOK
<1> QED BY <1>2, <1>3, ApReported

LEMMA ApHandles ==
  ASSUME WifiTypeOK, ApKnown, NEW e \in Events, wifi_event_handler(e)
  PROVE  ApKnown' /\ (ApUp => ApUp')
<1>1. /\ queue \in Seq(Events) /\ queue # <<>> /\ e = Head(queue) /\ queue' = Tail(queue)
      /\ wifi' = AfterEvent(e) /\ wifi.state \in WifiStates
  BY DEF wifi_event_handler, WifiTypeOK
<1>2. /\ wifi'.state \in WifiStates
      /\ wifi'.state = "IDLE" => e = "AP_STOP" \/ (e = "LOST_IP" /\ wifi.state = "IDLE")
  <2>1. CASE e \in {"DISCONNECTED", "REFUSED"}
    BY <1>1, <2>1 DEF AfterEvent, AfterLoss, WifiTypeOK, WifiStates
  <2>2. CASE e \in {"STA_CONNECTED", "GOT_IP", "LOST_IP", "AP_START", "AP_STOP"}
    BY <1>1, <2>2 DEF AfterEvent, WifiTypeOK, WifiStates
  <2> QED BY <2>1, <2>2 DEF Events
<1>3. MayIdle(wifi'.state, queue') => MayIdle(wifi.state, queue)
  BY <1>1, <1>2, HandledIdle
<1>4. UNCHANGED <<drv.started, drv.mode>> /\ (drv'.link # "idle" => drv.started \/ Linked)
  BY DEF wifi_event_handler, Joining, Linked, WifiTypeOK
<1> QED BY <1>3, <1>4 DEF ApKnown, ApUp, Linked

=============================================================================
