------------------------- MODULE RemoteSessionProofs -------------------------
(* Who hears the user, what becomes of the frames, what an ended session may   *)
(* become and who ends one that lost its agent, for any number of sockets,    *)
(* ends, frames and crashes.                                                  *)
EXTENDS RemoteSession, TLAPS

Attached == {"open", "closing", "closed"}

RelayTypes ==
    /\ tun \in Seq(Entry)
    /\ cur \in 0..Len(tun)
    /\ sock \in [Sockets -> SocketState]
    /\ home \in [Sockets -> 0..Len(tun)]
    /\ wired \in [Browsers -> SUBSET Agents]
    /\ sent \in [Agents -> Nat]

\* An entry knows only sockets that were registered in it, a socket is registered
\* once, an open agent is still the agent of its entry (nobody replaced it), and
\* the two ends of a bridge come from the same entry.
Paths ==
    /\ \A k \in 1..Len(tun) : tun[k].agent # None => home[tun[k].agent] = k
    /\ \A k \in 1..Len(tun) : tun[k].browser # None => home[tun[k].browser] = k
    /\ \A s \in Sockets : home[s] # 0 => sock[s] \in Attached
    /\ \A a \in Agents : sock[a] = "open" => home[a] # 0 /\ tun[home[a]].agent = a
    /\ \A b \in Browsers : \A a \in wired[b] : home[a] = home[b] /\ home[b] # 0

RelayInv == RelayTypes /\ Paths

\* What a step that registers nobody may do to a socket.
SocketMoves(s) ==
    \/ sock'[s] = sock[s]
    \/ sock'[s] \in {"closing", "closed"}
    \/ sock[s] \in {"none", "auth", "user"} /\ sock'[s] \in {"auth", "user", "ok"}

\* A step that registers nobody, creates no entry and sends no frame.
LEMMA QuietStep ==
    ASSUME RelayInv, UNCHANGED <<tun, home, wired, sent>>, cur' \in {cur, 0},
           sock' \in [Sockets -> SocketState], \A s \in Sockets : SocketMoves(s)
    PROVE  RelayInv'
<1>1. RelayTypes'
  BY DEF RelayInv, RelayTypes
<1>2. \A s \in Sockets : home[s] # 0 => sock'[s] \in Attached
  BY DEF RelayInv, Paths, SocketMoves, Attached
<1>3. \A a \in Agents : sock'[a] = "open" => sock[a] = "open"
  BY DEF SocketMoves, Sockets
<1>4. Paths'
  BY <1>2, <1>3 DEF RelayInv, Paths
<1> QED BY <1>1, <1>4 DEF RelayInv

\* ws.close() only turns open sockets into closing ones.
LEMMA CloseMoves ==
    ASSUME RelayInv, NEW S, Close(S)
    PROVE  sock' \in [Sockets -> SocketState] /\ \A s \in Sockets : SocketMoves(s)
<1>1. sock \in [Sockets -> SocketState]
  BY DEF RelayInv, RelayTypes
<1> QED BY <1>1 DEF Close, SocketMoves, SocketState

\* Moving one socket.
LEMMA SetMoves ==
    ASSUME RelayInv, NEW s \in Sockets, NEW st \in SocketState, SetSocket(s, st),
           \/ st \in {"closing", "closed"}
           \/ sock[s] \in {"none", "auth", "user"} /\ st \in {"auth", "user", "ok"}
    PROVE  sock' \in [Sockets -> SocketState] /\ \A x \in Sockets : SocketMoves(x)
<1>1. sock \in [Sockets -> SocketState]
  BY DEF RelayInv, RelayTypes
<1> QED BY <1>1 DEF SetSocket, SocketMoves

\* handleTunnelClose: the socket that closed, and the ends of the entry.
LEMMA TunnelCloseMoves ==
    ASSUME RelayInv, NEW s \in Sockets, NEW j \in Jobs, HandleTunnelClose(s, j)
    PROVE  sock' \in [Sockets -> SocketState] /\ \A x \in Sockets : SocketMoves(x)
<1>1. sock \in [Sockets -> SocketState]
  BY DEF RelayInv, RelayTypes
<1> QED BY <1>1 DEF HandleTunnelClose, SocketMoves, SocketState

\* The entry a socket is registered in, and the entries with it.
LEMMA SlotFacts ==
    ASSUME RelayTypes
    PROVE  /\ Entries \in Seq(Entry)
           /\ Slot \in 1..Len(Entries)
           /\ Len(Entries) >= Len(tun)
           /\ \A k \in 1..Len(tun) : Entries[k] = tun[k]
           /\ \A k \in 1..Len(Entries) : k \notin 1..Len(tun) => Entries[k] = NewEntry
<1>1. NewEntry \in Entry
  BY DEF NewEntry, NoFrames, Entry
<1>2. tun \in Seq(Entry) /\ cur \in 0..Len(tun)
  BY DEF RelayTypes
<1>3. CASE cur = 0
  BY <1>1, <1>2, <1>3 DEF Entries, Slot
<1>4. CASE cur # 0
  BY <1>2, <1>4 DEF Entries, Slot
<1> QED BY <1>3, <1>4

\* Bridging empties a buffer and may wire the two ends of the entry; it changes
\* nobody's place.
LEMMA RelayFacts ==
    ASSUME RelayTypes, NEW es \in Seq(Entry), Slot \in 1..Len(es), Relay(es)
    PROVE  /\ tun' \in Seq(Entry)
           /\ Len(tun') = Len(es)
           /\ \A k \in 1..Len(es) : /\ tun'[k].agent = es[k].agent
                                    /\ tun'[k].browser = es[k].browser
           /\ wired' \in [Browsers -> SUBSET Agents]
           /\ \A b \in Browsers : \A a \in wired'[b] :
                 \/ a \in wired[b]
                 \/ a = es[Slot].agent /\ b = es[Slot].browser /\ a # None /\ b # None
<1> DEFINE a == es[Slot].agent
           b == es[Slot].browser
<1>1. es[Slot] \in Entry /\ wired \in [Browsers -> SUBSET Agents]
  BY DEF RelayTypes
<1>2. CASE a # None /\ b # None
  <2>1. a \in Agents /\ b \in Browsers
    BY <1>1, <1>2 DEF Entry
  <2>2. /\ tun' = [es EXCEPT ![Slot].buf = NoFrames]
        /\ wired' = [wired EXCEPT ![b] = @ \cup {a}]
    BY <1>2 DEF Relay, FlushAndBridge
  <2>7. NoFrames \in [Agents -> Seq(Nat)]
    BY DEF NoFrames
  <2>3. [es[Slot] EXCEPT !.buf = NoFrames] \in Entry
    BY <1>1, <2>7 DEF Entry
  <2>4. tun' = [es EXCEPT ![Slot] = [es[Slot] EXCEPT !.buf = NoFrames]]
    BY <2>2
  <2>5. tun' \in Seq(Entry) /\ Len(tun') = Len(es)
    BY <2>3, <2>4
  <2>6. \A k \in 1..Len(es) : tun'[k].agent = es[k].agent /\ tun'[k].browser = es[k].browser
    BY <1>1, <2>4 DEF Entry
  <2> QED BY <1>1, <1>2, <2>1, <2>2, <2>5, <2>6
<1>3. CASE ~(a # None /\ b # None)
  BY <1>1, <1>3 DEF Relay
<1> QED BY <1>2, <1>3

\* A socket that is not attached anywhere appears in no entry and in no bridge.
LEMMA NewcomerIsUnknown ==
    ASSUME RelayInv, NEW s \in Sockets, sock[s] \in {"none", "ok"}
    PROVE  /\ home[s] = 0
           /\ \A k \in 1..Len(tun) : tun[k].agent # s /\ tun[k].browser # s
           /\ \A b \in Browsers : s \notin wired[b]
           /\ s \in Browsers => wired[s] = {}
<1>1. home[s] = 0
  BY DEF RelayInv, Paths, Attached
<1>2. s # None
  BY RemoteAssumption DEF Sockets
<1>3. \A k \in 1..Len(tun) : tun[k].agent # s /\ tun[k].browser # s
  BY <1>1, <1>2 DEF RelayInv, Paths
<1>4. \A b \in Browsers : s \notin wired[b]
  BY <1>1 DEF RelayInv, Paths
<1>5. s \in Browsers => wired[s] = {}
  BY <1>1 DEF RelayInv, RelayTypes, Paths
<1> QED BY <1>1, <1>3, <1>4, <1>5

\* registerAgentTunnel: the place is free, for an open agent would be the live one.
LEMMA AgentRegisters ==
    ASSUME RelayInv, NEW a \in Agents, RegisterAgentTunnel(a)
    PROVE  RelayInv'
<1> DEFINE es == [Entries EXCEPT ![Slot].agent = a]
           e  == [Entries[Slot] EXCEPT !.agent = a]
<1>1. RelayTypes /\ Paths
  BY DEF RelayInv
<1>2. a \in Sockets /\ a # None /\ a \notin Browsers
  BY RemoteAssumption DEF Sockets
<1>3. /\ home[a] = 0
      /\ \A k \in 1..Len(tun) : tun[k].agent # a /\ tun[k].browser # a
      /\ \A b \in Browsers : a \notin wired[b]
  BY <1>2, NewcomerIsUnknown DEF RegisterAgentTunnel
<1>4. /\ Entries \in Seq(Entry)
      /\ Slot \in 1..Len(Entries)
      /\ Len(Entries) >= Len(tun)
      /\ \A k \in 1..Len(tun) : Entries[k] = tun[k]
      /\ \A k \in 1..Len(Entries) : k \notin 1..Len(tun) => Entries[k] = NewEntry
  BY <1>1, SlotFacts
<1>5. e \in Entry /\ e.agent = a /\ e.browser = Entries[Slot].browser
  <2>1. Entries[Slot] \in Entry
    BY <1>4
  <2>2. \A x \in Entry : LET y == [x EXCEPT !.agent = a]
                       IN  y \in Entry /\ y.agent = a /\ y.browser = x.browser
    BY DEF Entry
  <2> QED BY <2>1, <2>2
<1>6. es = [Entries EXCEPT ![Slot] = e]
  OBVIOUS
<1>7. /\ es \in Seq(Entry)
      /\ Len(es) = Len(Entries)
      /\ es[Slot] = e
      /\ \A k \in 1..Len(es) : k # Slot => es[k] = Entries[k]
  BY <1>4, <1>5, <1>6
<1> HIDE DEF es, e
<1>8. Relay(es)
  BY DEF RegisterAgentTunnel, es
<1>9. /\ tun' \in Seq(Entry)
      /\ Len(tun') = Len(es)
      /\ \A k \in 1..Len(es) : tun'[k].agent = es[k].agent /\ tun'[k].browser = es[k].browser
      /\ wired' \in [Browsers -> SUBSET Agents]
      /\ \A b \in Browsers : \A x \in wired'[b] :
            x \in wired[b] \/ (x = es[Slot].agent /\ b = es[Slot].browser /\ x # None /\ b # None)
  BY <1>1, <1>4, <1>7, <1>8, RelayFacts
<1>10. /\ home' = [home EXCEPT ![a] = Slot]
       /\ sock' = [sock EXCEPT ![a] = "open"]
       /\ cur' = Slot
       /\ sent' = sent
       /\ ~HasLiveAgent
  BY DEF RegisterAgentTunnel, SetSocket
<1>11. RelayTypes'
  BY <1>1, <1>2, <1>4, <1>7, <1>9, <1>10 DEF RelayTypes, SocketState
<1>12. \A k \in 1..Len(tun') : tun'[k].agent # None => home'[tun'[k].agent] = k
  <2> SUFFICES ASSUME NEW k \in 1..Len(tun'), tun'[k].agent # None
               PROVE  home'[tun'[k].agent] = k
    OBVIOUS
  <2>1. CASE k = Slot
    BY <1>1, <1>2, <1>5, <1>7, <1>9, <1>10, <2>1 DEF RelayTypes
  <2>2. CASE k # Slot /\ k \in 1..Len(tun)
    <3>1. tun'[k].agent = tun[k].agent
      BY <1>4, <1>7, <1>9, <2>2
    <3>2. home[tun[k].agent] = k /\ tun[k].agent # a
      BY <1>1, <1>3, <2>2, <3>1 DEF Paths
    <3> QED BY <1>1, <1>10, <3>1, <3>2 DEF RelayTypes
  <2>3. CASE k # Slot /\ k \notin 1..Len(tun)
    <3>1. Entries[k] = NewEntry /\ es[k] = Entries[k] /\ tun'[k].agent = es[k].agent
      BY <1>4, <1>7, <1>9, <2>3
    <3>2. NewEntry.agent = None
      BY DEF NewEntry
    <3> QED BY <3>1, <3>2
  <2> QED BY <2>1, <2>2, <2>3
<1>13. \A k \in 1..Len(tun') : tun'[k].browser # None => home'[tun'[k].browser] = k
  <2> SUFFICES ASSUME NEW k \in 1..Len(tun'), tun'[k].browser # None
               PROVE  home'[tun'[k].browser] = k
    OBVIOUS
  <2>1. tun'[k].browser = Entries[k].browser
    BY <1>5, <1>7, <1>9
  <2>2. k \in 1..Len(tun) /\ Entries[k] = tun[k]
    BY <1>4, <1>7, <1>9, <2>1 DEF NewEntry
  <2>3. home[tun[k].browser] = k /\ tun[k].browser # a
    BY <1>1, <1>3, <2>1, <2>2 DEF Paths
  <2> QED BY <1>1, <1>10, <2>1, <2>2, <2>3 DEF RelayTypes
<1>14. \A s \in Sockets : home'[s] # 0 => sock'[s] \in Attached
  BY <1>1, <1>10 DEF RelayTypes, Paths, Attached
<1>15. \A x \in Agents : sock'[x] = "open" => home'[x] # 0 /\ tun'[home'[x]].agent = x
  <2> SUFFICES ASSUME NEW x \in Agents, sock'[x] = "open"
               PROVE  home'[x] # 0 /\ tun'[home'[x]].agent = x
    OBVIOUS
  <2>0. x \in Sockets
    BY DEF Sockets
  <2>1. CASE x = a
    BY <1>1, <1>2, <1>4, <1>5, <1>7, <1>9, <1>10, <2>1 DEF RelayTypes
  <2>2. CASE x # a
    <3>1. sock[x] = "open" /\ home'[x] = home[x]
      BY <1>1, <1>10, <2>0, <2>2 DEF RelayTypes
    <3>2. home[x] # 0 /\ home[x] \in 1..Len(tun) /\ tun[home[x]].agent = x
      BY <1>1, <2>0, <3>1 DEF RelayTypes, Paths
    <3>3. home[x] # Slot
      <4> SUFFICES ASSUME home[x] = Slot PROVE FALSE
        OBVIOUS
      <4>1. cur # 0 /\ home[x] = cur
        BY <1>1, <3>2 DEF Slot, RelayTypes
      <4>2. HasLiveAgent
        BY <3>1, <3>2, <4>1, RemoteAssumption, <2>0 DEF HasLiveAgent
      <4> QED BY <1>10, <4>2
    <3> QED BY <1>4, <1>7, <1>9, <3>1, <3>2, <3>3
  <2> QED BY <2>1, <2>2
<1>16. \A b \in Browsers : \A x \in wired'[b] : home'[x] = home'[b] /\ home'[b] # 0
  <2> SUFFICES ASSUME NEW b \in Browsers, NEW x \in wired'[b]
               PROVE  home'[x] = home'[b] /\ home'[b] # 0
    OBVIOUS
  <2>0. b \in Sockets /\ b # a /\ home'[b] = home[b]
    BY <1>1, <1>2, <1>10 DEF Sockets, RelayTypes
  <2>1. CASE x \in wired[b]
    BY <1>1, <1>3, <1>10, <2>0, <2>1 DEF RelayTypes, Paths
  <2>2. CASE x = es[Slot].agent /\ b = es[Slot].browser /\ b # None
    <3>1. x = a /\ b = tun'[Slot].browser /\ Slot \in 1..Len(tun')
      BY <1>4, <1>5, <1>7, <1>9, <2>2
    <3>2. home'[b] = Slot
      BY <1>13, <2>2, <3>1
    <3> QED BY <1>1, <1>2, <1>4, <1>10, <3>1, <3>2 DEF RelayTypes
  <2> QED BY <1>9, <2>1, <2>2
<1> QED BY <1>11, <1>12, <1>13, <1>14, <1>15, <1>16 DEF RelayInv, Paths

\* registerBrowserTunnel: the agent of the entry keeps its place.
LEMMA BrowserRegisters ==
    ASSUME RelayInv, NEW b \in Browsers, RegisterBrowserTunnel(b)
    PROVE  RelayInv'
<1> DEFINE es == [Entries EXCEPT ![Slot].browser = b]
           e  == [Entries[Slot] EXCEPT !.browser = b]
<1>1. RelayTypes /\ Paths
  BY DEF RelayInv
<1>2. b \in Sockets /\ b # None /\ b \notin Agents
  BY RemoteAssumption DEF Sockets
<1>3. /\ home[b] = 0
      /\ \A k \in 1..Len(tun) : tun[k].agent # b /\ tun[k].browser # b
      /\ wired[b] = {}
  BY <1>2, NewcomerIsUnknown DEF RegisterBrowserTunnel
<1>4. /\ Entries \in Seq(Entry)
      /\ Slot \in 1..Len(Entries)
      /\ Len(Entries) >= Len(tun)
      /\ \A k \in 1..Len(tun) : Entries[k] = tun[k]
      /\ \A k \in 1..Len(Entries) : k \notin 1..Len(tun) => Entries[k] = NewEntry
  BY <1>1, SlotFacts
<1>5. e \in Entry /\ e.browser = b /\ e.agent = Entries[Slot].agent
  <2>1. Entries[Slot] \in Entry
    BY <1>4
  <2>2. \A x \in Entry : LET y == [x EXCEPT !.browser = b]
                       IN  y \in Entry /\ y.browser = b /\ y.agent = x.agent
    BY DEF Entry
  <2> QED BY <2>1, <2>2
<1>6. es = [Entries EXCEPT ![Slot] = e]
  OBVIOUS
<1>7. /\ es \in Seq(Entry)
      /\ Len(es) = Len(Entries)
      /\ es[Slot] = e
      /\ \A k \in 1..Len(es) : k # Slot => es[k] = Entries[k]
  BY <1>4, <1>5, <1>6
<1> HIDE DEF es, e
<1>8. Relay(es)
  BY DEF RegisterBrowserTunnel, es
<1>9. /\ tun' \in Seq(Entry)
      /\ Len(tun') = Len(es)
      /\ \A k \in 1..Len(es) : tun'[k].agent = es[k].agent /\ tun'[k].browser = es[k].browser
      /\ wired' \in [Browsers -> SUBSET Agents]
      /\ \A x \in Browsers : \A a \in wired'[x] :
            a \in wired[x] \/ (a = es[Slot].agent /\ x = es[Slot].browser /\ a # None /\ x # None)
  BY <1>1, <1>4, <1>7, <1>8, RelayFacts
<1>10. /\ home' = [home EXCEPT ![b] = Slot]
       /\ sock' = [sock EXCEPT ![b] = "open"]
       /\ cur' = Slot
       /\ sent' = sent
  BY DEF RegisterBrowserTunnel, SetSocket
<1>11. RelayTypes'
  BY <1>1, <1>2, <1>4, <1>7, <1>9, <1>10 DEF RelayTypes, SocketState
<1>12. \A k \in 1..Len(tun') : tun'[k].agent = Entries[k].agent
  BY <1>5, <1>7, <1>9
<1>13. \A k \in 1..Len(tun') : tun'[k].agent # None => home'[tun'[k].agent] = k
  <2> SUFFICES ASSUME NEW k \in 1..Len(tun'), tun'[k].agent # None
               PROVE  home'[tun'[k].agent] = k
    OBVIOUS
  <2>1. k \in 1..Len(tun) /\ Entries[k] = tun[k]
    BY <1>4, <1>7, <1>9, <1>12 DEF NewEntry
  <2>2. home[tun[k].agent] = k /\ tun[k].agent # b
    BY <1>1, <1>3, <1>12, <2>1 DEF Paths
  <2> QED BY <1>1, <1>10, <1>12, <2>1, <2>2 DEF RelayTypes
<1>14. \A k \in 1..Len(tun') : tun'[k].browser # None => home'[tun'[k].browser] = k
  <2> SUFFICES ASSUME NEW k \in 1..Len(tun'), tun'[k].browser # None
               PROVE  home'[tun'[k].browser] = k
    OBVIOUS
  <2>1. CASE k = Slot
    BY <1>1, <1>2, <1>5, <1>7, <1>9, <1>10, <2>1 DEF RelayTypes
  <2>2. CASE k # Slot
    <3>1. tun'[k].browser = Entries[k].browser
      BY <1>7, <1>9, <2>2
    <3>2. k \in 1..Len(tun) /\ Entries[k] = tun[k]
      BY <1>4, <1>7, <1>9, <3>1 DEF NewEntry
    <3>3. home[tun[k].browser] = k /\ tun[k].browser # b
      BY <1>1, <1>3, <3>1, <3>2 DEF Paths
    <3> QED BY <1>1, <1>10, <3>1, <3>2, <3>3 DEF RelayTypes
  <2> QED BY <2>1, <2>2
<1>15. \A s \in Sockets : home'[s] # 0 => sock'[s] \in Attached
  BY <1>1, <1>10 DEF RelayTypes, Paths, Attached
<1>16. \A a \in Agents : sock'[a] = "open" => home'[a] # 0 /\ tun'[home'[a]].agent = a
  <2> SUFFICES ASSUME NEW a \in Agents, sock'[a] = "open"
               PROVE  home'[a] # 0 /\ tun'[home'[a]].agent = a
    OBVIOUS
  <2>1. a \in Sockets /\ a # b
    BY <1>2 DEF Sockets
  <2>2. sock[a] = "open" /\ home'[a] = home[a]
    BY <1>1, <1>10, <2>1 DEF RelayTypes
  <2>3. home[a] \in 1..Len(tun) /\ tun[home[a]].agent = a
    BY <1>1, <2>1, <2>2 DEF RelayTypes, Paths
  <2>4. home[a] \in 1..Len(tun') /\ Entries[home[a]] = tun[home[a]]
    BY <1>4, <1>7, <1>9, <2>3
  <2> QED BY <1>12, <2>2, <2>3, <2>4
<1>17. \A x \in Browsers : \A a \in wired'[x] : home'[a] = home'[x] /\ home'[x] # 0
  <2> SUFFICES ASSUME NEW x \in Browsers, NEW a \in wired'[x]
               PROVE  home'[a] = home'[x] /\ home'[x] # 0
    OBVIOUS
  <2>1. a \in Agents /\ a \in Sockets /\ a # b /\ home'[a] = home[a]
    BY <1>1, <1>2, <1>9, <1>10 DEF Sockets, RelayTypes
  <2>2. CASE a \in wired[x]
    <3>1. x # b /\ x \in Sockets
      BY <1>3, <2>2 DEF Sockets
    <3> QED BY <1>1, <1>10, <2>1, <2>2, <3>1 DEF RelayTypes, Paths
  <2>3. CASE a = es[Slot].agent /\ x = es[Slot].browser /\ a # None
    <3>1. x = b /\ a = tun'[Slot].agent /\ Slot \in 1..Len(tun')
      BY <1>4, <1>5, <1>7, <1>9, <2>3
    <3>2. home'[a] = Slot
      BY <1>13, <2>3, <3>1
    <3> QED BY <1>1, <1>2, <1>4, <1>10, <3>1, <3>2 DEF RelayTypes
  <2> QED BY <1>9, <2>2, <2>3
<1> QED BY <1>11, <1>13, <1>14, <1>15, <1>16, <1>17 DEF RelayInv, Paths

\* A frame goes to the browser or into the buffer of the entry.
LEMMA FrameRelayed ==
    ASSUME RelayInv, NEW a \in Agents, AgentFrame(a)
    PROVE  RelayInv'
<1>1. RelayTypes /\ Paths /\ a \in Sockets
  BY DEF RelayInv, Sockets
<1>2. home[a] \in 1..Len(tun) /\ sent' \in [Agents -> Nat]
  BY <1>1 DEF AgentFrame, Paths, RelayTypes
<1>3. /\ tun' \in Seq(Entry)
      /\ Len(tun') = Len(tun)
      /\ \A k \in 1..Len(tun) : tun'[k].agent = tun[k].agent /\ tun'[k].browser = tun[k].browser
  <2>1. CASE tun' = tun
    BY <1>1, <2>1 DEF RelayTypes
  <2>2. CASE tun' # tun
    <3> DEFINE f == sent[a] + 1
               n == [tun[home[a]] EXCEPT !.buf[a] = Append(@, f)]
    <3>1. f \in Nat
      BY <1>1 DEF RelayTypes
    <3>2. tun[home[a]] \in Entry
      BY <1>1, <1>2 DEF RelayTypes
    <3> HIDE DEF f
    <3>3. n \in Entry /\ n.agent = tun[home[a]].agent /\ n.browser = tun[home[a]].browser
      <4>1. \A x \in Entry : LET y == [x EXCEPT !.buf[a] = Append(@, f)]
                           IN  y \in Entry /\ y.agent = x.agent /\ y.browser = x.browser
        <5> SUFFICES ASSUME NEW x \in Entry
                     PROVE  LET y == [x EXCEPT !.buf[a] = Append(@, f)]
                            IN  y \in Entry /\ y.agent = x.agent /\ y.browser = x.browser
          OBVIOUS
        <5>1. Append(x.buf[a], f) \in Seq(Nat)
          BY <3>1 DEF Entry
        <5>2. [x.buf EXCEPT ![a] = Append(x.buf[a], f)] \in [Agents -> Seq(Nat)]
          BY <5>1 DEF Entry
        <5> QED BY <5>2 DEF Entry
      <4> QED BY <3>2, <4>1
    <3>4. tun' = [tun EXCEPT ![home[a]] = n]
      BY <2>2 DEF AgentFrame, f
    <3> HIDE DEF n
    <3> QED BY <1>1, <1>2, <3>3, <3>4 DEF RelayTypes
  <2> QED BY <2>1, <2>2
<1>4. UNCHANGED <<cur, sock, home, wired>>
  BY DEF AgentFrame
<1>5. RelayTypes'
  BY <1>1, <1>2, <1>3, <1>4 DEF RelayTypes
<1>6. \A x \in Agents : sock[x] = "open" => tun'[home[x]].agent = tun[home[x]].agent
  BY <1>1, <1>3 DEF RelayTypes, Paths, Sockets
<1>7. Paths'
  BY <1>1, <1>3, <1>4, <1>6 DEF Paths
<1> QED BY <1>5, <1>7 DEF RelayInv

\* No step of any handler breaks the relay invariant.
LEMMA RelayStep == RelayInv /\ [Next]_vars => RelayInv'
<1> SUFFICES ASSUME RelayInv, [Next]_vars PROVE RelayInv'
  OBVIOUS
<1> USE DEF Sockets
<1>0. RelayTypes /\ RelayInv
  BY DEF RelayInv
<1> DEFINE Quiet == UNCHANGED <<tun, home, wired, sent>> /\ cur' \in {cur, 0}
           Moves == sock' \in [Sockets -> SocketState] /\ \A s \in Sockets : SocketMoves(s)
<1>a. ASSUME Quiet, Moves PROVE RelayInv'
  BY <1>a, QuietStep
<1>b. ASSUME Quiet, sock' = sock PROVE RelayInv'
  BY <1>0, <1>b, <1>a DEF RelayTypes, SocketMoves
<1>c. ASSUME Quiet, NEW S, Close(S) PROVE RelayInv'
  BY <1>a, <1>c, CloseMoves
<1>d. ASSUME Quiet, NEW s \in Sockets, SetSocket(s, "closed") \/ SetSocket(s, "closing")
      PROVE  RelayInv'
  <2>1. Moves
    BY <1>d, SetMoves DEF SocketState
  <2> QED BY <1>a, <1>d, <2>1
<1>e. ASSUME Quiet, NEW s \in Sockets, NEW st \in {"auth", "user", "ok"},
             sock[s] \in {"none", "auth", "user"}, SetSocket(s, st)
      PROVE  RelayInv'
  <2>1. Moves
    BY <1>e, SetMoves DEF SocketState
  <2> QED BY <1>a, <1>e, <2>1
<1> HIDE DEF Moves
<1>1. ASSUME NEW pr \in Protocols, CreateSession(pr) PROVE RelayInv'
  BY <1>1, <1>b DEF CreateSession, relayVars, histVars
<1>2. CASE DeliverOpen
  BY <1>2, <1>b DEF DeliverOpen, relayVars, histVars
<1>3. CASE VmConsoleOffline
  BY <1>3, <1>b DEF VmConsoleOffline, relayVars, histVars
<1>4. CASE OpenFailed
  BY <1>4, <1>b DEF OpenFailed, relayVars, histVars
<1>5. CASE CleanupStaleSessions
  BY <1>5, <1>b DEF CleanupStaleSessions, relayVars, histVars
<1>6. ASSUME NEW a \in Agents, AgentDials(a) PROVE RelayInv'
  BY <1>6, <1>e DEF AgentDials, histVars
<1>7. ASSUME NEW a \in Agents, AuthorizeAgent(a) PROVE RelayInv'
  BY <1>7, <1>d, <1>e DEF AuthorizeAgent, histVars
<1>8. ASSUME NEW a \in Agents, RegisterAgentTunnel(a) PROVE RelayInv'
  BY <1>8, AgentRegisters
<1>9. ASSUME NEW a \in Agents, RefuseSecondAgent(a) PROVE RelayInv'
  BY <1>9, <1>d DEF RefuseSecondAgent, histVars
<1>10. ASSUME NEW a \in Agents, AgentFrame(a) PROVE RelayInv'
  BY <1>10, FrameRelayed
<1>11. ASSUME NEW a \in Agents, MarkActive(a) PROVE RelayInv'
  <2>1. CASE status = "waiting"
    BY <1>11, <2>1, <1>b DEF MarkActive, histVars
  <2>2. CASE status # "waiting"
    BY <1>11, <2>2, <1>c DEF MarkActive, histVars
  <2> QED BY <2>1, <2>2
<1>12. ASSUME NEW a \in Agents, AgentLinkFails(a) PROVE RelayInv'
  BY <1>12, <1>d DEF AgentLinkFails, histVars
<1>13. ASSUME NEW b \in Browsers, BrowserDials(b) PROVE RelayInv'
  BY <1>13, <1>e DEF BrowserDials, histVars
<1>14. ASSUME NEW b \in Browsers, AuthorizeBrowser(b) PROVE RelayInv'
  BY <1>14, <1>d, <1>e DEF AuthorizeBrowser, histVars
<1>15. ASSUME NEW b \in Browsers, RegisterBrowserTunnel(b) PROVE RelayInv'
  BY <1>15, BrowserRegisters
<1>16. ASSUME NEW s \in Sockets, DialDropped(s) PROVE RelayInv'
  BY <1>16, <1>d DEF DialDropped, histVars
<1>17. ASSUME NEW s \in Sockets, Hangup(s) PROVE RelayInv'
  BY <1>17, <1>d DEF Hangup, histVars
<1>18. ASSUME NEW s \in Sockets, NEW j \in Jobs, CloseEvent(s, j) PROVE RelayInv'
  <2>1. CASE HandleTunnelClose(s, j)
    <3>1. Moves
      BY <2>1, TunnelCloseMoves DEF Moves
    <3>2. Quiet
      BY <1>18, <2>1 DEF CloseEvent, HandleTunnelClose, histVars
    <3> QED BY <1>a, <3>1, <3>2
  <2>2. CASE SetSocket(s, "closed") /\ UNCHANGED cur
    BY <1>18, <2>2, <1>d DEF CloseEvent, histVars
  <2> QED BY <1>18, <2>1, <2>2 DEF CloseEvent
<1>19. ASSUME NEW s \in Sockets, NEW j \in Jobs, BastionClosed(s, j) PROVE RelayInv'
  BY <1>19, <1>d DEF BastionClosed, histVars
<1>20. ASSUME NEW s \in Sockets, NEW j \in Jobs, BastionLeaves(s, j) PROVE RelayInv'
  <2>1. CASE HandleTunnelClose(s, j)
    <3>1. Moves
      BY <2>1, TunnelCloseMoves DEF Moves
    <3>2. Quiet
      BY <1>20, <2>1 DEF BastionLeaves, HandleTunnelClose, histVars
    <3> QED BY <1>a, <3>1, <3>2
  <2>2. CASE SetSocket(s, "closed") /\ cur' \in {cur, 0}
    BY <1>20, <2>2, <1>d DEF BastionLeaves, histVars
  <2> QED BY <1>20, <2>1, <2>2 DEF BastionLeaves
<1>21. ASSUME NEW j \in Jobs, EndRequest(j) PROVE RelayInv'
  BY <1>21, <1>b DEF EndRequest, relayVars, histVars
<1>22. ASSUME NEW j \in Jobs, DisableUser(j) PROVE RelayInv'
  BY <1>22, <1>b DEF DisableUser, relayVars, histVars
<1>23. ASSUME NEW j \in Jobs, JobStep(j) PROVE RelayInv'
  <2>1. CASE SelectOpen(j)
    BY <2>1, <1>b DEF SelectOpen, relayVars, histVars
  <2>2. CASE Teardown(j)
    BY <2>2, <1>c DEF Teardown, histVars
  <2>3. CASE EndRead(j)
    BY <2>3, <1>b DEF EndRead, relayVars, histVars
  <2>4. CASE EndUpdate(j)
    BY <2>4, <1>b DEF EndUpdate, relayVars, histVars
  <2>5. CASE EndPush(j)
    BY <2>5, <1>b DEF EndPush, histVars
  <2>6. CASE EndDelete(j)
    BY <2>6, <1>b DEF EndDelete, histVars
  <2> QED BY <1>23, <2>1, <2>2, <2>3, <2>4, <2>5, <2>6 DEF JobStep
<1>27. ASSUME NEW a \in Agents, MarkFails(a) PROVE RelayInv'
  BY <1>27, <1>b DEF MarkFails, relayVars, histVars
<1>28. ASSUME NEW j \in Jobs, EndFails(j) PROVE RelayInv'
  BY <1>28, <1>b DEF EndFails, relayVars
<1>24. CASE AgentCloses
  BY <1>24, <1>c DEF AgentCloses, histVars
<1>25. CASE ServerCrash
  <2>1. /\ tun' = <<>> /\ cur' = 0
        /\ sock' \in [Sockets -> SocketState]
        /\ \A s \in Sockets : sock'[s] # "open"
        /\ home' = [s \in Sockets |-> 0]
        /\ wired' = [b \in Browsers |-> {}]
        /\ sent' \in [Agents -> Nat]
    BY <1>25 DEF ServerCrash, SocketState
  <2>2. RelayTypes'
    BY <2>1 DEF RelayTypes
  <2>3. Paths'
    BY <2>1 DEF Paths
  <2> QED BY <2>2, <2>3 DEF RelayInv
<1>26. CASE UNCHANGED vars
  BY <1>26, <1>b DEF vars
<1> QED
  BY <1>1, <1>2, <1>3, <1>4, <1>5, <1>6, <1>7, <1>8, <1>9, <1>10, <1>11, <1>12, <1>13, <1>14,
     <1>15, <1>16, <1>17, <1>18, <1>19, <1>20, <1>21, <1>22, <1>23, <1>24, <1>25, <1>26,
     <1>27, <1>28 DEF Next, SocketStep

\* The empty relay.
LEMMA RelayInit == Init => RelayInv
BY DEF Init, RelayInv, RelayTypes, Paths, Sockets, SocketState

\* The relay invariant holds throughout.
THEOREM RelaySafety == Spec => []RelayInv
BY RelayInit, RelayStep, PTL DEF Spec

\* What the user types reaches one open agent at most (registerAgentTunnel refuses
\* a second one in the tick in which it registers).
THEOREM OneAgent == Spec => []OneAgentHears
<1>1. RelayInv => OneAgentHears
  <2> SUFFICES ASSUME RelayInv, NEW b \in Browsers, NEW a1 \in wired[b], NEW a2 \in wired[b],
                      sock[a1] = "open", sock[a2] = "open"
               PROVE  a1 = a2
    BY DEF OneAgentHears
  <2>1. a1 \in Agents /\ a2 \in Agents
    BY DEF RelayInv, RelayTypes
  <2>2. home[a1] = home[b] /\ home[a2] = home[b]
    BY DEF RelayInv, Paths
  <2>3. tun[home[a1]].agent = a1 /\ tun[home[a2]].agent = a2
    BY <2>1 DEF RelayInv, Paths
  <2> QED BY <2>2, <2>3
<1> QED BY <1>1, RelaySafety, PTL

-----------------------------------------------------------------------------
(* The row and those who end the session *)

EndsSoon == {"teardown", "read", "update"}

\* Whoever took the entry out of the map is about to write the end of the session.
Ending == \E j \in Jobs : job[j].by # "request" /\ job[j].pc \in EndsSoon

\* Only the kill of a user looks for open sessions and tears one down.
JobTypes ==
    /\ job \in [Jobs -> Job]
    /\ \A j \in Jobs : job[j].pc \in {"select", "teardown"} => job[j].by = "drop"

RowTypes ==
    /\ status \in {"absent"} \cup Open \cup Ended
    /\ connected \in BOOLEAN
    /\ marking \subseteq Agents
    /\ JobTypes
    /\ failed \in BOOLEAN
    /\ crashes \in Nat

\* Agent a is the only one that ever attached.
Only(a) == home[a] # 0 /\ \A x \in Agents \ {a} : home[x] = 0

\* Nothing is attached before the insert; who pushes the end has written it; an
\* active session was made active by an agent that attached; and as long as nobody
\* is ending an open session, and no end failed after it took the entry, its only agent
\* is in the map and not gone.
SessionInv ==
    /\ RelayInv /\ RowTypes
    /\ status = "absent" => phase = "none" /\ ~opened /\ \A s \in Sockets : sock[s] = "none"
    /\ \A j \in Jobs : job[j].pc \in {"push", "delete"} => status \in Ended
    /\ \A a \in marking : home[a] # 0
    /\ crashes = 0 /\ status = "active" => \E a \in Agents : home[a] # 0 /\ a \notin marking
    /\ crashes = 0 /\ ~failed /\ status \in Open /\ ~Ending =>
          \A a \in Agents : Only(a) => cur = home[a] /\ sock[a] # "closed"

\* A step that attaches no agent, makes no session active and hides no end.
LEMMA Undisturbed ==
    ASSUME SessionInv, RelayInv', RowTypes',
           marking' \subseteq marking, status' = "active" => marking' = marking,
           crashes' = crashes, failed' = failed, \A a \in Agents : home'[a] = home[a],
           status' = status \/ status' \in Ended,
           status' = "absent" => UNCHANGED <<phase, opened, sock>>,
           \A j \in Jobs : job'[j].pc \in {"push", "delete"} =>
                               job[j].pc \in {"push", "delete"} \/ status' \in Ended,
           status' \in Open /\ Ending => Ending',
           status' \in Open /\ ~Ending' => \A a \in Agents :
               cur = home[a] /\ home[a] # 0 /\ sock[a] # "closed" => cur' = cur /\ sock'[a] # "closed"
    PROVE  SessionInv'
<1>1. status' = "absent" => phase' = "none" /\ ~opened' /\ \A s \in Sockets : sock'[s] = "none"
  BY DEF SessionInv, Ended
<1>2. \A j \in Jobs : job'[j].pc \in {"push", "delete"} => status' \in Ended
  BY DEF SessionInv
<1>3. \A a \in marking' : home'[a] # 0
  BY DEF SessionInv, RowTypes
<1>4. crashes' = 0 /\ status' = "active" => \E a \in Agents : home'[a] # 0 /\ a \notin marking'
  BY DEF SessionInv, Ended
<1>5. crashes' = 0 /\ ~failed' /\ status' \in Open /\ ~Ending' =>
        \A a \in Agents : (home'[a] # 0 /\ \A x \in Agents \ {a} : home'[x] = 0)
                           => cur' = home'[a] /\ sock'[a] # "closed"
  <2> SUFFICES ASSUME crashes' = 0, ~failed', status' \in Open, ~Ending', NEW a \in Agents, home'[a] # 0,
                      \A x \in Agents \ {a} : home'[x] = 0
               PROVE  cur' = home'[a] /\ sock'[a] # "closed"
    OBVIOUS
  <2>1. crashes = 0 /\ ~failed /\ status \in Open /\ ~Ending /\ Only(a)
    BY DEF Only, Open, Ended
  <2> QED BY <2>1 DEF SessionInv, Only
<1> QED BY <1>1, <1>2, <1>3, <1>4, <1>5 DEF SessionInv, Only

\* Job k takes the place of one that was not about to end the session, or is itself.
EndsIt(k) == k.by # "request" /\ k.pc \in EndsSoon

LEMMA JobMoves ==
    ASSUME RowTypes, NEW j \in Jobs, NEW k \in Job, job' = [job EXCEPT ![j] = k],
           EndsIt(job[j]) => EndsIt(k), k.pc \in {"select", "teardown"} => k.by = "drop"
    PROVE  /\ JobTypes'
           /\ Ending => Ending'
           /\ EndsIt(k) => Ending'
           /\ \A i \in Jobs : job'[i].pc \in {"push", "delete"} =>
                                  job[i].pc \in {"push", "delete"} \/ k.pc \in {"push", "delete"}
<1>1. job \in [Jobs -> Job] /\ JobTypes
  BY DEF RowTypes, JobTypes
<1>3. \A i \in Jobs : job'[i] = IF i = j THEN k ELSE job[i]
  BY <1>1
<1>2. JobTypes'
  BY <1>1, <1>3 DEF JobTypes
<1>4. Ending => Ending'
  BY <1>3 DEF Ending, EndsIt
<1>5. EndsIt(k) => Ending'
  BY <1>3 DEF Ending, EndsIt
<1>6. \A i \in Jobs : job'[i].pc \in {"push", "delete"} =>
                          job[i].pc \in {"push", "delete"} \/ k.pc \in {"push", "delete"}
  BY <1>3
<1> QED BY <1>2, <1>4, <1>5, <1>6

\* An idle job starts.
LEMMA StartMoves ==
    ASSUME RowTypes, NEW j \in Jobs, NEW pc \in {"read", "select"}, NEW by \in Callers,
           Start(j, pc, by), pc = "select" => by = "drop"
    PROVE  /\ JobTypes'
           /\ Ending => Ending'
           /\ pc = "read" /\ by # "request" => Ending'
           /\ \A i \in Jobs : job'[i].pc \in {"push", "delete"} => job[i].pc \in {"push", "delete"}
<1> DEFINE k == [IdleJob EXCEPT !.pc = pc, !.by = by]
<1>1. k \in Job /\ k.pc = pc /\ k.by = by
  BY DEF IdleJob, Job, Callers
<1>2. job' = [job EXCEPT ![j] = k] /\ job[j].pc = "idle"
  BY DEF Start
<1> HIDE DEF k
<1>3. ~EndsIt(job[j]) /\ (pc = "read" /\ by # "request" => EndsIt(k))
  BY <1>1, <1>2 DEF EndsIt, EndsSoon
<1> QED BY <1>1, <1>2, <1>3, JobMoves

\* A job goes on from one step that ends the session to another.
LEMMA GotoMoves ==
    ASSUME RowTypes, NEW j \in Jobs, NEW pc \in {"read", "teardown"}, Goto(j, pc),
           pc = "teardown" => job[j].by = "drop"
    PROVE  /\ JobTypes'
           /\ Ending => Ending'
           /\ job[j].by # "request" => Ending'
           /\ \A i \in Jobs : job'[i].pc \in {"push", "delete"} => job[i].pc \in {"push", "delete"}
<1> DEFINE k == [job[j] EXCEPT !.pc = pc]
<1>1. job[j] \in Job
  BY DEF RowTypes, JobTypes
<1>2. k \in Job /\ k.pc = pc /\ k.by = job[j].by
  BY <1>1 DEF Job
<1>3. job' = [job EXCEPT ![j] = k]
  BY DEF Goto
<1> HIDE DEF k
<1>4. (EndsIt(job[j]) => EndsIt(k)) /\ (job[j].by # "request" => EndsIt(k))
  BY <1>2 DEF EndsIt, EndsSoon
<1> QED BY <1>2, <1>3, <1>4, JobMoves

\* Closing open sockets closes no agent's socket yet.
LEMMA CloseKeepsAgents ==
    ASSUME RelayInv, NEW S, Close(S)
    PROVE  \A a \in Agents : sock[a] # "closed" => sock'[a] # "closed"
BY DEF Close, Sockets

\* An agent attaches: a second one, or the only one in the map.
LEMMA AgentAttaches ==
    ASSUME SessionInv, RelayInv', NEW a \in Agents, RegisterAgentTunnel(a)
    PROVE  SessionInv'
<1>1. RelayInv /\ RowTypes /\ a \in Sockets
  BY DEF SessionInv, Sockets
<1>2. home[a] = 0 /\ Slot # 0 /\ status # "absent"
  <2>1. Slot # 0
    BY <1>1, SlotFacts DEF RelayInv
  <2> QED BY <1>1, <2>1, NewcomerIsUnknown DEF RegisterAgentTunnel, SessionInv
<1>3. /\ home' = [home EXCEPT ![a] = Slot] /\ sock' = [sock EXCEPT ![a] = "open"]
      /\ cur' = Slot /\ marking' = marking \cup {a}
      /\ UNCHANGED <<status, connected, crashes, failed, job, phase, opened>>
  BY DEF RegisterAgentTunnel, SetSocket, rowVars, cmdVars
<1>4. home'[a] = Slot /\ sock'[a] = "open" /\ \A x \in Agents : x # a => home'[x] = home[x]
  BY <1>1, <1>3 DEF RelayInv, RelayTypes, Sockets
<1>5. RowTypes' /\ Ending' = Ending
  BY <1>1, <1>3 DEF RowTypes, JobTypes, Ending
<1>6. \A x \in marking' : home'[x] # 0
  BY <1>1, <1>2, <1>3, <1>4 DEF SessionInv, RowTypes
<1>7. crashes' = 0 /\ status' = "active" => \E x \in Agents : home'[x] # 0 /\ x \notin marking'
  BY <1>2, <1>3, <1>4 DEF SessionInv
<1>8. crashes' = 0 /\ ~failed' /\ status' \in Open /\ ~Ending' =>
        \A x \in Agents : Only(x)' => cur' = home'[x] /\ sock'[x] # "closed"
  <2> SUFFICES ASSUME NEW x \in Agents, Only(x)' PROVE cur' = home'[x] /\ sock'[x] # "closed"
    OBVIOUS
  <2>1. x = a
    BY <1>2, <1>4 DEF Only
  <2> QED BY <1>3, <1>4, <2>1
<1>9. \A j \in Jobs : job'[j].pc \in {"push", "delete"} => status' \in Ended
  BY <1>3 DEF SessionInv
<1> QED BY <1>2, <1>3, <1>5, <1>6, <1>7, <1>8, <1>9 DEF SessionInv

\* The UPDATE to 'active': its agent attached, and when the session is active
\* already another one did.
LEMMA AgentMarks ==
    ASSUME SessionInv, RelayInv', NEW a \in Agents, MarkActive(a)
    PROVE  SessionInv'
<1>1. RelayInv /\ RowTypes /\ a \in marking /\ home[a] # 0 /\ a \in Sockets
  BY DEF SessionInv, MarkActive, Sockets
<1>2. /\ marking' = marking \ {a}
      /\ UNCHANGED <<home, crashes, failed, job, phase, opened>>
      /\ Ending' = Ending
  BY DEF MarkActive, cmdVars, histVars, Ending
<1>3. status # "absent"
  BY <1>1 DEF SessionInv, RelayInv, Paths, Attached
<1>4. CASE status = "waiting"
  <2>1. status' = "active" /\ connected' = TRUE /\ UNCHANGED <<cur, sock>>
    BY <1>4 DEF MarkActive
  <2>2. RowTypes'
    BY <1>1, <1>2, <2>1 DEF RowTypes, JobTypes, Open
  <2>3. \E x \in Agents : home'[x] # 0 /\ x \notin marking'
    BY <1>1, <1>2
  <2>4. \A j \in Jobs : job'[j].pc \in {"push", "delete"} => status' \in Ended
    BY <1>2, <1>4 DEF SessionInv, Ended
  <2>5. \A x \in Agents : Only(x)' = Only(x)
    BY <1>2 DEF Only
  <2> QED BY <1>2, <1>4, <2>1, <2>2, <2>3, <2>4, <2>5 DEF SessionInv, Open
<1>5. CASE status # "waiting"
  <2>1. status' = status /\ connected' = connected /\ (cur' = cur \/ cur' = 0)
    BY <1>5 DEF MarkActive, rowVars
  <2>2. \A x \in Agents : sock[x] # "closed" => sock'[x] # "closed"
    BY <1>1, <1>5, CloseKeepsAgents DEF MarkActive
  <2>3. RowTypes'
    BY <1>1, <1>2, <2>1 DEF RowTypes, JobTypes
  <2>4. crashes' = 0 /\ status' = "active" =>
          /\ \E x \in Agents : home'[x] # 0 /\ x \notin marking'
          /\ \A y \in Agents : ~Only(y)'
    <3> SUFFICES ASSUME crashes = 0, status = "active"
                 PROVE  /\ \E x \in Agents : home'[x] # 0 /\ x \notin marking'
                        /\ \A y \in Agents : ~Only(y)'
      BY <1>2, <2>1
    <3>1. PICK x \in Agents : home[x] # 0 /\ x \notin marking
      BY DEF SessionInv
    <3>2. x # a
      BY <1>1, <3>1
    <3> QED BY <1>1, <1>2, <3>1, <3>2 DEF Only
  <2>5. \A j \in Jobs : job'[j].pc \in {"push", "delete"} => status' \in Ended
    BY <1>2, <2>1 DEF SessionInv
  <2>6. crashes' = 0 /\ ~failed' /\ status' \in Open /\ ~Ending' =>
          \A x \in Agents : Only(x)' => cur' = home'[x] /\ sock'[x] # "closed"
    BY <1>5, <2>1, <2>4 DEF Open
  <2> QED BY <1>1, <1>2, <1>3, <2>1, <2>3, <2>4, <2>5, <2>6 DEF SessionInv
<1> QED BY <1>4, <1>5

\* The UPDATE fails: the agent stays attached, unmarked.
LEMMA AgentUnmarked ==
    ASSUME SessionInv, RelayInv', NEW a \in Agents, MarkFails(a)
    PROVE  SessionInv'
<1>1. /\ marking' = marking \ {a}
      /\ UNCHANGED <<status, connected, phase, opened, sock, home, cur, job, failed, crashes>>
  BY DEF MarkFails, rowVars, cmdVars, relayVars, histVars
<1>2. RowTypes' /\ Ending' = Ending
  BY <1>1 DEF SessionInv, RowTypes, JobTypes, Ending
<1>3. \A x \in Agents : Only(x)' = Only(x)
  BY <1>1 DEF Only
<1>4. crashes' = 0 /\ status' = "active" => \E x \in Agents : home'[x] # 0 /\ x \notin marking'
  BY <1>1 DEF SessionInv
<1> QED BY <1>1, <1>2, <1>3, <1>4 DEF SessionInv

\* An end fails: its caller had not taken the entry, or its failure is remembered.
LEMMA EndMayFail ==
    ASSUME SessionInv, RelayInv', NEW j \in Jobs, EndFails(j)
    PROVE  SessionInv'
<1>1. /\ RowTypes /\ IdleJob \in Job /\ IdleJob.pc = "idle"
      /\ UNCHANGED <<status, connected, marking, crashes, home, cur, sock, phase, opened>>
      /\ job[j].by # "relay" /\ job[j].pc # "teardown" /\ job[j] \in Job
  BY DEF EndFails, SessionInv, RowTypes, JobTypes, IdleJob, Job, Callers, rowVars, cmdVars,
         relayVars
<1>2. job' = [job EXCEPT ![j] = IdleJob]
  BY DEF EndFails, Finish
<1>3. /\ JobTypes' /\ failed' \in BOOLEAN
      /\ \A i \in Jobs : job'[i] = IF i = j THEN IdleJob ELSE job[i]
  BY <1>1, <1>2 DEF RowTypes, JobTypes, EndFails
<1>4. RowTypes'
  BY <1>1, <1>3 DEF RowTypes
<1>5. \A i \in Jobs : job'[i].pc \in {"push", "delete"} => job[i].pc \in {"push", "delete"}
  BY <1>1, <1>3
<1>6. CASE failed'
  BY <1>1, <1>4, <1>5, <1>6 DEF SessionInv, Only
<1>7. CASE ~failed'
  <2>1. ~failed /\ ~EndsIt(job[j])
    BY <1>1, <1>7 DEF EndFails, EndsIt, EndsSoon, Job, Callers
  <2>2. Ending => Ending'
    BY <1>1, <1>2, <2>1, JobMoves
  <2>3. failed' = failed
    BY <1>1, <1>3, <1>7, <2>1 DEF RowTypes
  <2> QED BY <1>1, <1>4, <1>5, <1>7, <2>2, <2>3, Undisturbed
<1> QED BY <1>6, <1>7

\* No step leaves an open session without its agent and without somebody ending it.
LEMMA SessionStep == SessionInv /\ [Next]_vars => SessionInv'
<1> SUFFICES ASSUME SessionInv, [Next]_vars PROVE SessionInv'
  OBVIOUS
<1>0. RelayInv /\ RowTypes /\ RelayInv'
  BY RelayStep DEF SessionInv
<1>h. \A a \in Agents : home[a] # 0 => sock[a] \in Attached
  BY <1>0 DEF RelayInv, Paths, Sockets
\* The row, the jobs and the agents' marks stay.
<1>a. ASSUME UNCHANGED <<status, connected, marking, job, failed, crashes, home, cur>>,
             status = "absent" => UNCHANGED <<phase, opened, sock>>,
             \A a \in Agents : home[a] # 0 /\ sock[a] # "closed" => sock'[a] # "closed"
      PROVE  SessionInv'
  <2>1. RowTypes' /\ Ending' = Ending
    BY <1>0, <1>a DEF RowTypes, JobTypes, Ending
  <2> QED BY <1>0, <1>a, <2>1, Undisturbed
\* The session ends and nothing else.
<1>b. ASSUME status' \in Ended, UNCHANGED <<connected, marking, failed, crashes, home>>,
             JobTypes'
      PROVE  SessionInv'
  <2>1. RowTypes'
    BY <1>0, <1>b DEF RowTypes
  <2>2. status' \notin Open /\ status' # "absent" /\ status' # "active"
    BY <1>b DEF Open, Ended
  <2> QED BY <1>0, <1>b, <2>1, <2>2, Undisturbed
\* A job starts or goes on, and the map keeps its entry unless the job ends the session.
<1>c. ASSUME NEW j \in Jobs, NEW by \in Callers,
             \/ StartEnd(j, by)
             \/ by = job[j].by /\ (Goto(j, "read") \/ (by = "drop" /\ Goto(j, "teardown"))),
             by # "request" \/ (cur' = cur /\ \A a \in Agents : sock'[a] = sock[a]),
             UNCHANGED <<status, connected, marking, failed, crashes, home>>,
             status = "absent" => UNCHANGED <<phase, opened, sock>>
      PROVE  SessionInv'
  <2>1. /\ JobTypes'
        /\ Ending => Ending'
        /\ by # "request" => Ending'
        /\ \A i \in Jobs : job'[i].pc \in {"push", "delete"} => job[i].pc \in {"push", "delete"}
    BY <1>0, <1>c, StartMoves, GotoMoves DEF StartEnd
  <2>2. RowTypes'
    BY <1>0, <1>c, <2>1 DEF RowTypes
  <2>3. status' \in Open /\ ~Ending' => \A a \in Agents :
          cur = home[a] /\ home[a] # 0 /\ sock[a] # "closed" => cur' = cur /\ sock'[a] # "closed"
    BY <1>c, <2>1
  <2> QED BY <1>0, <1>c, <2>1, <2>2, <2>3, Undisturbed
<1>d. status = "absent" => ~opened /\ phase = "none" /\ \A s \in Sockets : sock[s] = "none"
  BY DEF SessionInv
<1> USE DEF rowVars, cmdVars, relayVars, histVars
<1>1. ASSUME NEW pr \in Protocols, CreateSession(pr) PROVE SessionInv'
  <2>1. /\ status = "absent" /\ status' = "waiting"
        /\ UNCHANGED <<connected, marking, job, failed, crashes, home>>
    BY <1>1 DEF CreateSession
  <2>2. \A s \in Sockets : home[s] = 0
    BY <1>0, <1>d, <2>1 DEF RelayInv, Paths, Attached
  <2>3. \A a \in Agents : home'[a] = 0
    BY <2>1, <2>2 DEF Sockets
  <2>4. RowTypes' /\ \A j \in Jobs : job'[j].pc \notin {"push", "delete"}
    BY <1>0, <2>1 DEF RowTypes, JobTypes, Open, SessionInv, Ended
  <2>5. \A a \in marking' : home'[a] # 0
    BY <2>1 DEF SessionInv
  <2> QED BY <1>0, <2>1, <2>3, <2>4, <2>5 DEF SessionInv, Only
<1>2. CASE DeliverOpen
  BY <1>2, <1>a, <1>d DEF DeliverOpen
<1>3. CASE VmConsoleOffline
  BY <1>0, <1>3, <1>b DEF VmConsoleOffline, Ended, RowTypes, JobTypes
<1>4. CASE OpenFailed
  <2>1. CASE status = "waiting"
    BY <1>0, <1>4, <1>b, <2>1 DEF OpenFailed, Ended, RowTypes, JobTypes
  <2>2. CASE status # "waiting"
    BY <1>4, <1>a, <2>2 DEF OpenFailed
  <2> QED BY <2>1, <2>2
<1>5. CASE CleanupStaleSessions
  BY <1>0, <1>5, <1>b DEF CleanupStaleSessions, Ended, RowTypes, JobTypes
<1>6. ASSUME NEW a \in Agents, AgentDials(a) PROVE SessionInv'
  <2>1. \A x \in Agents : sock[x] # "closed" => sock'[x] # "closed"
    BY <1>0, <1>6 DEF AgentDials, SetSocket, RelayInv, RelayTypes, Sockets
  <2> QED BY <1>6, <1>a, <1>d, <2>1 DEF AgentDials
<1>7. ASSUME NEW a \in Agents, AuthorizeAgent(a) PROVE SessionInv'
  <2>1. home[a] = 0 /\ status # "absent"
    BY <1>d, <1>h, <1>7 DEF AuthorizeAgent, Attached, Sockets
  <2>2. \A x \in Agents : home[x] # 0 => sock'[x] = sock[x]
    BY <1>0, <1>7, <2>1 DEF AuthorizeAgent, SetSocket, RelayInv, RelayTypes, Sockets
  <2> QED BY <1>7, <1>a, <2>1, <2>2 DEF AuthorizeAgent
<1>8. ASSUME NEW a \in Agents, RegisterAgentTunnel(a) PROVE SessionInv'
  BY <1>0, <1>8, AgentAttaches
<1>9. ASSUME NEW a \in Agents, RefuseSecondAgent(a) PROVE SessionInv'
  <2>1. home[a] = 0 /\ status # "absent"
    BY <1>d, <1>h, <1>9 DEF RefuseSecondAgent, Attached, Sockets
  <2>2. \A x \in Agents : home[x] # 0 => sock'[x] = sock[x]
    BY <1>0, <1>9, <2>1 DEF RefuseSecondAgent, SetSocket, RelayInv, RelayTypes, Sockets
  <2> QED BY <1>9, <1>a, <2>1, <2>2 DEF RefuseSecondAgent
<1>10. ASSUME NEW a \in Agents, AgentFrame(a) PROVE SessionInv'
  BY <1>10, <1>a DEF AgentFrame
<1>11. ASSUME NEW a \in Agents, MarkActive(a) PROVE SessionInv'
  BY <1>0, <1>11, AgentMarks
<1>31. ASSUME NEW a \in Agents, MarkFails(a) PROVE SessionInv'
  BY <1>0, <1>31, AgentUnmarked
<1>32. ASSUME NEW j \in Jobs, EndFails(j) PROVE SessionInv'
  BY <1>0, <1>32, EndMayFail
<1>12. ASSUME NEW a \in Agents, AgentLinkFails(a) PROVE SessionInv'
  <2>1. status # "absent"
    BY <1>d, <1>12 DEF AgentLinkFails, Sockets
  <2>2. \A x \in Agents : sock[x] # "closed" => sock'[x] # "closed"
    BY <1>0, <1>12 DEF AgentLinkFails, SetSocket, RelayInv, RelayTypes, Sockets
  <2> QED BY <1>12, <1>a, <2>1, <2>2 DEF AgentLinkFails
<1>13. ASSUME NEW b \in Browsers, BrowserDials(b) PROVE SessionInv'
  <2>1. status # "absent"
    BY <1>d, <1>13 DEF BrowserDials
  <2>2. \A x \in Agents : sock[x] # "closed" => sock'[x] # "closed"
    BY <1>0, <1>13 DEF BrowserDials, SetSocket, RelayInv, RelayTypes, Sockets
  <2> QED BY <1>13, <1>a, <2>1, <2>2 DEF BrowserDials
<1>14. ASSUME NEW b \in Browsers, AuthorizeBrowser(b) PROVE SessionInv'
  <2>1. status # "absent"
    BY <1>d, <1>14 DEF AuthorizeBrowser, Sockets
  <2>2. \A x \in Agents : sock'[x] = sock[x]
    <3>1. \A x \in Agents : x # b
      BY RemoteAssumption
    <3> QED BY <1>0, <1>14, <3>1 DEF AuthorizeBrowser, SetSocket, RelayInv, RelayTypes, Sockets
  <2> QED BY <1>14, <1>a, <2>1, <2>2 DEF AuthorizeBrowser
<1>15. ASSUME NEW b \in Browsers, RegisterBrowserTunnel(b) PROVE SessionInv'
  <2>1. status # "absent"
    BY <1>d, <1>15 DEF RegisterBrowserTunnel, Sockets
  <2>2. \A x \in Agents : x # b
    BY RemoteAssumption
  <2>3. \A x \in Agents : sock'[x] = sock[x] /\ home'[x] = home[x]
    BY <1>0, <1>15, <2>2 DEF RegisterBrowserTunnel, SetSocket, RelayInv, RelayTypes, Sockets
  <2>4. UNCHANGED <<status, connected, marking, job, failed, crashes>> /\ (cur # 0 => cur' = cur)
    BY <1>15 DEF RegisterBrowserTunnel, Slot
  <2>5. RowTypes' /\ Ending' = Ending
    BY <1>0, <2>4 DEF RowTypes, JobTypes, Ending
  <2> QED BY <1>0, <2>1, <2>3, <2>4, <2>5, Undisturbed
<1>16. ASSUME NEW s \in Sockets, DialDropped(s) PROVE SessionInv'
  <2>1. status # "absent" /\ (s \in Agents => home[s] = 0)
    BY <1>d, <1>h, <1>16 DEF DialDropped, Attached
  <2>2. \A x \in Agents : home[x] # 0 => sock'[x] = sock[x]
    BY <1>0, <1>16, <2>1 DEF DialDropped, SetSocket, RelayInv, RelayTypes, Sockets
  <2> QED BY <1>16, <1>a, <2>1, <2>2 DEF DialDropped
<1>17. ASSUME NEW s \in Sockets, Hangup(s) PROVE SessionInv'
  <2>1. status # "absent"
    BY <1>d, <1>17 DEF Hangup
  <2>2. \A x \in Agents : sock[x] # "closed" => sock'[x] # "closed"
    BY <1>0, <1>17 DEF Hangup, SetSocket, RelayInv, RelayTypes, Sockets
  <2> QED BY <1>17, <1>a, <2>1, <2>2 DEF Hangup
<1>18. ASSUME NEW s \in Sockets, NEW j \in Jobs, CloseEvent(s, j) PROVE SessionInv'
  <2>1. status # "absent" /\ UNCHANGED <<status, connected, marking, failed, crashes, home>>
    BY <1>d, <1>18 DEF CloseEvent
  <2>2. CASE HandleTunnelClose(s, j)
    BY <1>c, <2>1, <2>2 DEF HandleTunnelClose, Callers
  <2>3. CASE ~HandleTunnelClose(s, j)
    <3>1. /\ SetSocket(s, "closed") /\ UNCHANGED <<cur, job>>
          /\ s \in Agents => cur = 0
      BY <1>18, <2>3 DEF CloseEvent
    <3>2. \A x \in Agents : x # s => sock'[x] = sock[x]
      BY <1>0, <3>1 DEF SetSocket, RelayInv, RelayTypes, Sockets
    <3>3. RowTypes' /\ Ending' = Ending
      BY <1>0, <2>1, <3>1 DEF RowTypes, JobTypes, Ending
    <3> QED BY <1>0, <2>1, <3>1, <3>2, <3>3, Undisturbed
  <2> QED BY <2>2, <2>3
<1>19. ASSUME NEW s \in Sockets, NEW j \in Jobs, BastionClosed(s, j) PROVE SessionInv'
  <2>1. status # "absent" /\ UNCHANGED <<status, connected, marking, failed, crashes, home, cur>>
    BY <1>d, <1>19 DEF BastionClosed
  <2>4. \A x \in Agents : sock'[x] = sock[x]
    <3>1. s \in Browsers /\ SetSocket(s, "closed")
      BY <1>19 DEF BastionClosed, Adapters
    <3>2. \A x \in Agents : x # s
      BY <3>1, RemoteAssumption
    <3> QED BY <1>0, <3>1, <3>2 DEF SetSocket, RelayInv, RelayTypes, Sockets
  <2>2. CASE StartEnd(j, "request")
    BY <1>c, <2>1, <2>2, <2>4 DEF Callers
  <2>3. CASE job' = job
    BY <1>a, <2>1, <2>3, <2>4
  <2> QED BY <1>19, <2>2, <2>3 DEF BastionClosed
<1>20. ASSUME NEW s \in Sockets, NEW j \in Jobs, BastionLeaves(s, j) PROVE SessionInv'
  <2>1. status # "absent" /\ UNCHANGED <<status, connected, marking, failed, crashes, home>>
    BY <1>d, <1>20 DEF BastionLeaves
  <2>2. CASE StartEnd(j, "relay") \/ StartEnd(j, "drop")
    BY <1>c, <2>1, <2>2 DEF Callers
  <2>3. CASE job' = job /\ cur' = cur /\ SetSocket(s, "closed")
    <3>1. s \in Browsers
      BY <1>20 DEF BastionLeaves, Adapters
    <3>2. \A x \in Agents : x # s
      BY <3>1, RemoteAssumption
    <3>3. \A x \in Agents : sock'[x] = sock[x]
      BY <1>0, <2>3, <3>2 DEF SetSocket, RelayInv, RelayTypes, Sockets
    <3> QED BY <1>a, <2>1, <2>3, <3>3
  <2> QED BY <1>20, <2>2, <2>3 DEF BastionLeaves, HandleTunnelClose
<1>21. ASSUME NEW j \in Jobs, EndRequest(j) PROVE SessionInv'
  BY <1>21, <1>c DEF EndRequest, Callers
<1>22. ASSUME NEW j \in Jobs, DisableUser(j) PROVE SessionInv'
  <2>1. /\ Start(j, "select", "drop") /\ "drop" \in Callers
        /\ UNCHANGED <<status, connected, marking, failed, crashes, home, cur, sock, phase,
                       opened>>
    BY <1>22 DEF DisableUser, Callers
  <2>2. /\ JobTypes'
        /\ Ending => Ending'
        /\ \A i \in Jobs : job'[i].pc \in {"push", "delete"} => job[i].pc \in {"push", "delete"}
    BY <1>0, <2>1, StartMoves
  <2>3. RowTypes'
    BY <1>0, <2>1, <2>2 DEF RowTypes
  <2> QED BY <1>0, <2>1, <2>2, <2>3, Undisturbed
<1>23. ASSUME NEW j \in Jobs, SelectOpen(j) PROVE SessionInv'
  <2>1. UNCHANGED <<status, connected, marking, failed, crashes, home, cur, sock, phase, opened>>
    BY <1>23 DEF SelectOpen
  <2>2. CASE Goto(j, "teardown")
    <3>1. job[j].by \in Callers /\ job[j].by = "drop"
      BY <1>0, <1>23 DEF RowTypes, JobTypes, Job, SelectOpen
    <3> QED BY <1>c, <2>1, <2>2, <3>1
  <2>3. CASE Finish(j)
    <3>1. IdleJob \in Job /\ IdleJob.pc = "idle" /\ job[j].pc = "select"
      BY <1>23 DEF IdleJob, Job, Callers, SelectOpen
    <3>2. /\ JobTypes'
          /\ Ending => Ending'
          /\ \A i \in Jobs : job'[i].pc \in {"push", "delete"} => job[i].pc \in {"push", "delete"}
      BY <1>0, <2>3, <3>1, JobMoves DEF Finish, EndsIt, EndsSoon
    <3>3. RowTypes'
      BY <1>0, <2>1, <3>2 DEF RowTypes
    <3> QED BY <1>0, <2>1, <3>2, <3>3, Undisturbed
  <2> QED BY <1>23, <2>2, <2>3 DEF SelectOpen
<1>24. ASSUME NEW j \in Jobs, Teardown(j) PROVE SessionInv'
  <2>0. job[j].by = "drop" /\ "drop" \in Callers
    BY <1>0, <1>24 DEF RowTypes, JobTypes, Teardown, Callers
  <2>1. CASE status = "absent"
    <3>1. cur' = 0 /\ \A s \in Sockets : sock'[s] = sock[s]
      BY <1>d, <1>24, <2>1 DEF Teardown, Close
    <3>2. sock' = sock
      BY <1>0, <3>1 DEF RelayInv, RelayTypes
    <3> QED BY <1>c, <1>24, <2>0, <3>2 DEF Teardown
  <2>2. CASE status # "absent"
    BY <1>c, <1>24, <2>0, <2>2 DEF Teardown
  <2> QED BY <2>1, <2>2
<1>25. ASSUME NEW j \in Jobs, EndRead(j) PROVE SessionInv'
  <2> DEFINE k == [job[j] EXCEPT !.pc = "update", !.conn = connected]
  <2>0. job \in [Jobs -> Job] /\ job[j] \in Job /\ connected \in BOOLEAN /\ job[j].pc = "read"
    BY <1>0, <1>25 DEF EndRead, RowTypes, JobTypes
  <2>1. /\ job' = [job EXCEPT ![j] = k]
        /\ UNCHANGED <<status, connected, marking, failed, crashes, home, cur, sock, phase,
                       opened>>
    BY <1>25, <2>0 DEF EndRead
  <2>2. k \in Job /\ k.pc = "update" /\ k.by = job[j].by
    BY <2>0 DEF Job
  <2> HIDE DEF k
  <2>3. /\ JobTypes'
        /\ Ending => Ending'
        /\ \A i \in Jobs : job'[i].pc \in {"push", "delete"} => job[i].pc \in {"push", "delete"}
    BY <1>0, <2>0, <2>1, <2>2, JobMoves DEF EndsIt, EndsSoon
  <2>4. RowTypes'
    BY <1>0, <2>1, <2>3 DEF RowTypes
  <2> QED BY <1>0, <2>1, <2>3, <2>4, Undisturbed
<1>26. ASSUME NEW j \in Jobs, EndUpdate(j) PROVE SessionInv'
  <2>1. JobTypes'
    BY <1>0, <1>26 DEF EndUpdate, Goto, Job, RowTypes, JobTypes
  <2> QED BY <1>26, <1>b, <2>1 DEF EndUpdate, Ended
<1>27. ASSUME NEW j \in Jobs, EndPush(j) \/ EndDelete(j) PROVE SessionInv'
  <2>1. status \in Ended
    BY <1>27 DEF EndPush, EndDelete, SessionInv
  <2>2. JobTypes'
    <3>1. /\ job \in [Jobs -> Job] /\ job[j] \in Job
          /\ IdleJob \in Job /\ IdleJob.pc = "idle"
      BY <1>0 DEF RowTypes, JobTypes, IdleJob, Job, Callers
    <3>2. [job[j] EXCEPT !.pc = "delete"] \in Job
      BY <3>1 DEF Job
    <3>3. \A i \in Jobs : i # j => job'[i] = job[i]
      BY <1>27, <3>1 DEF EndPush, EndDelete, Goto, Finish
    <3>4. job' = [job EXCEPT ![j] = IdleJob] \/ job' = [job EXCEPT ![j].pc = "delete"]
      BY <1>27 DEF EndPush, EndDelete, Goto, Finish
    <3>5. job'[j] = IdleJob \/ job'[j].pc = "delete"
      BY <3>1, <3>4 DEF Job
    <3>6. job' \in [Jobs -> Job]
      BY <3>1, <3>2, <3>4
    <3> QED BY <1>0, <3>1, <3>3, <3>5, <3>6 DEF RowTypes, JobTypes
  <2> QED BY <1>27, <1>b, <2>1, <2>2 DEF EndPush, EndDelete
<1>28. CASE AgentCloses
  <2>1. \A x \in Agents : sock[x] # "closed" => sock'[x] # "closed"
    BY <1>0, <1>28, CloseKeepsAgents DEF AgentCloses
  <2>2. status = "absent" => sock' = sock
    BY <1>0, <1>d, <1>28 DEF AgentCloses, Close, RelayInv, RelayTypes
  <2> QED BY <1>28, <1>a, <2>1, <2>2 DEF AgentCloses
<1>29. CASE ServerCrash
  <2>1. /\ crashes' # 0 /\ marking' = {} /\ job' = [j \in Jobs |-> IdleJob]
        /\ UNCHANGED <<status, connected, opened, failed>> /\ crashes' \in Nat
    BY <1>0, <1>29 DEF ServerCrash, RowTypes
  <2>2. RowTypes' /\ \A j \in Jobs : job'[j].pc = "idle"
    BY <1>0, <2>1 DEF RowTypes, JobTypes, IdleJob, Job, Callers
  <2>3. status = "absent" => phase' = "none" /\ \A s \in Sockets : sock'[s] = "none"
    BY <1>d, <1>29 DEF ServerCrash, SessionInv
  <2> QED BY <1>0, <1>d, <2>1, <2>2, <2>3 DEF SessionInv
<1>30. CASE UNCHANGED vars
  BY <1>30, <1>a DEF vars
<1> QED
  BY <1>1, <1>2, <1>3, <1>4, <1>5, <1>6, <1>7, <1>8, <1>9, <1>10, <1>11, <1>12, <1>13, <1>14,
     <1>15, <1>16, <1>17, <1>18, <1>19, <1>20, <1>21, <1>22, <1>23, <1>24, <1>25, <1>26, <1>27,
     <1>28, <1>29, <1>30, <1>31, <1>32 DEF Next, SocketStep, JobStep

\* An absent session.
LEMMA SessionInit == Init => SessionInv
<1> SUFFICES ASSUME Init PROVE SessionInv
  OBVIOUS
<1>1. RelayInv
  BY RelayInit
<1>2. RowTypes /\ \A j \in Jobs : job[j].pc = "idle"
  BY DEF Init, RowTypes, JobTypes, IdleJob, Job, Callers
<1> QED BY <1>1, <1>2 DEF Init, SessionInv, Open

\* The session invariant holds throughout.
THEOREM SessionSafety == Spec => []SessionInv
BY SessionInit, SessionStep, PTL DEF Spec

\* An active session whose only agent is gone is being ended by whoever took the
\* entry out of the map (handleTunnelClose, the kill of a user, a bastion end that
\* gives up), until a crash or an error that the last two swallow.
THEOREM NoActiveOrphan == Spec => []ActiveHasItsAgent
<1>1. SessionInv => ActiveHasItsAgent
  <2> SUFFICES ASSUME SessionInv, NEW a \in Agents, status = "active", crashes = 0,
                      ~failed, sock[a] = "closed", Only(a)
               PROVE  Ending
    BY DEF ActiveHasItsAgent, Only, Ending, EndsSoon
  <2> QED BY DEF SessionInv, Open
<1> QED BY <1>1, SessionSafety, PTL

\* No handler writes an ended session open again: the late UPDATE to 'active' and
\* the agent's failure are conditional, every other write is an end.
THEOREM EndedStays == Spec => NeverReopened
<1>1. [Next]_vars => [(status \in Ended) => (status' \in Ended)]_vars
  <2> SUFFICES ASSUME [Next]_vars, status \in Ended PROVE status' \in Ended
    OBVIOUS
  <2> USE DEF rowVars, Ended
  <2>1. CASE UNCHANGED vars
    BY <2>1 DEF vars
  <2>2. CASE \/ \E p \in Protocols : CreateSession(p)
             \/ DeliverOpen \/ VmConsoleOffline \/ OpenFailed \/ CleanupStaleSessions
    BY <2>2 DEF CreateSession, DeliverOpen, VmConsoleOffline, OpenFailed, CleanupStaleSessions
  <2>3. ASSUME NEW a \in Agents,
               \/ AgentDials(a) \/ AuthorizeAgent(a) \/ RegisterAgentTunnel(a)
               \/ RefuseSecondAgent(a) \/ AgentFrame(a) \/ MarkActive(a) \/ MarkFails(a)
               \/ AgentLinkFails(a)
        PROVE  status' \in Ended
    BY <2>3 DEF AgentDials, AuthorizeAgent, RegisterAgentTunnel, RefuseSecondAgent, AgentFrame,
                MarkActive, MarkFails, AgentLinkFails
  <2>4. ASSUME NEW b \in Browsers,
               BrowserDials(b) \/ AuthorizeBrowser(b) \/ RegisterBrowserTunnel(b)
        PROVE  status' \in Ended
    BY <2>4 DEF BrowserDials, AuthorizeBrowser, RegisterBrowserTunnel
  <2>5. ASSUME NEW s \in Sockets, NEW j \in Jobs,
               CloseEvent(s, j) \/ BastionClosed(s, j) \/ BastionLeaves(s, j)
        PROVE  status' \in Ended
    BY <2>5 DEF CloseEvent, BastionClosed, BastionLeaves
  <2>6. ASSUME NEW j \in Jobs, EndRequest(j) \/ DisableUser(j) \/ JobStep(j) \/ EndFails(j)
        PROVE  status' \in Ended
    BY <2>6 DEF EndRequest, DisableUser, EndFails, JobStep, SelectOpen, Teardown, EndRead, EndUpdate,
                EndPush, EndDelete
  <2>7. CASE AgentCloses \/ ServerCrash
    BY <2>7 DEF AgentCloses, ServerCrash
  <2>8. ASSUME NEW s \in Sockets, DialDropped(s) \/ Hangup(s) PROVE status' \in Ended
    BY <2>8 DEF DialDropped, Hangup
  <2> QED BY <2>1, <2>2, <2>3, <2>4, <2>5, <2>6, <2>7, <2>8 DEF Next, SocketStep
<1> QED BY <1>1, PTL DEF Spec, NeverReopened

-----------------------------------------------------------------------------
(* What the agents send *)

\* Only an entry without a browser buffers, for the agents registered in it; who is
\* registered nowhere has sent nothing; and nothing is lost, doubled or overtaken.
FrameInv ==
    /\ RelayInv
    /\ out \in [Agents -> Seq(Nat)]
    /\ \A k \in 1..Len(tun) :
          tun[k].browser # None \/ tun[k].agent = None => tun[k].buf = NoFrames
    /\ \A k \in 1..Len(tun) : \A a \in Agents : home[a] # k => tun[k].buf[a] = <<>>
    /\ \A a \in Agents : home[a] = 0 => sent[a] = 0 /\ out[a] = <<>>
    /\ FramesInOrder

\* Nothing is registered, sent or relayed.
LEMMA FramesRest ==
    ASSUME FrameInv, RelayInv', UNCHANGED <<tun, home, sent, out>>
    PROVE  FrameInv'
BY DEF FrameInv, FramesInOrder

\* The facts about sequences the relay rests on.
LEMMA FrameSequences ==
    /\ \A s \in Seq(Nat) : s \o <<>> = s
    /\ \A s, t \in Seq(Nat) : s \o t \in Seq(Nat)
    /\ \A s, t \in Seq(Nat), n \in Nat : s \o Append(t, n) = Append(s \o t, n)
    /\ \A n \in Nat : Append([i \in 1..n |-> i], n + 1) = [i \in 1..(n + 1) |-> i]
    /\ <<>> = [i \in 1..0 |-> i]
<1>1. \A s \in Seq(Nat) : s \o <<>> = s
  OBVIOUS
<1>2. \A s, t \in Seq(Nat) : s \o t \in Seq(Nat)
  OBVIOUS
<1>3. \A s, t \in Seq(Nat), n \in Nat : s \o Append(t, n) = Append(s \o t, n)
  OBVIOUS
<1>4. \A n \in Nat : Append([i \in 1..n |-> i], n + 1) = [i \in 1..(n + 1) |-> i]
  OBVIOUS
<1>5. <<>> = [i \in 1..0 |-> i]
  OBVIOUS
<1> QED BY <1>1, <1>2, <1>3, <1>4, <1>5

\* A bridge hands the buffer over; without it the buffer stays.
LEMMA RelayFrames ==
    ASSUME RelayTypes, out \in [Agents -> Seq(Nat)], NEW es \in Seq(Entry), Slot \in 1..Len(es),
           Relay(es)
    PROVE  /\ out' \in [Agents -> Seq(Nat)]
           /\ \A k \in 1..Len(es) : k # Slot => tun'[k].buf = es[k].buf
           /\ \/ /\ tun'[Slot].buf = NoFrames
                 /\ \A x \in Agents : out'[x] = out[x] \o es[Slot].buf[x]
              \/ /\ tun'[Slot].buf = es[Slot].buf
                 /\ out' = out
                 /\ es[Slot].agent = None \/ es[Slot].browser = None
<1>1. es[Slot] \in Entry
  OBVIOUS
<1>2. CASE es[Slot].agent # None /\ es[Slot].browser # None
  <2>1. /\ tun' = [es EXCEPT ![Slot].buf = NoFrames]
        /\ out' = [x \in Agents |-> out[x] \o es[Slot].buf[x]]
    BY <1>2 DEF Relay, FlushAndBridge
  <2>2. out' \in [Agents -> Seq(Nat)]
    <3>1. \A x \in Agents : out[x] \in Seq(Nat) /\ es[Slot].buf[x] \in Seq(Nat)
      BY <1>1 DEF Entry
    <3> QED BY <2>1, <3>1, FrameSequences
  <2>3. tun'[Slot].buf = NoFrames /\ \A k \in 1..Len(es) : k # Slot => tun'[k].buf = es[k].buf
    BY <1>1, <2>1 DEF Entry
  <2>4. \A x \in Agents : out'[x] = out[x] \o es[Slot].buf[x]
    BY <2>1
  <2> QED BY <2>2, <2>3, <2>4
<1>3. CASE ~(es[Slot].agent # None /\ es[Slot].browser # None)
  BY <1>3 DEF Relay
<1> QED BY <1>2, <1>3

\* A registration, of either end, in the entry of the map or in a new one.
LEMMA RegisteredFrames ==
    ASSUME FrameInv, RelayInv', NEW es \in Seq(Entry), Len(es) = Len(Entries),
           \A k \in 1..Len(es) : es[k].buf = Entries[k].buf,
           \A k \in 1..Len(es) : es[k].agent = None => Entries[k].agent = None,
           \A k \in 1..Len(es) : k # Slot => es[k].browser = Entries[k].browser,
           Relay(es), UNCHANGED sent,
           \A x \in Agents : home'[x] = home[x] \/ (home[x] = 0 /\ home'[x] = Slot)
    PROVE  FrameInv'
<1>1. RelayTypes /\ RelayTypes' /\ out \in [Agents -> Seq(Nat)]
  BY DEF FrameInv, RelayInv
<1>2. /\ Slot \in 1..Len(es)
      /\ Len(es) >= Len(tun)
      /\ \A k \in 1..Len(tun) : Entries[k] = tun[k]
      /\ \A k \in 1..Len(es) : k \notin 1..Len(tun) => Entries[k] = NewEntry
  BY <1>1, SlotFacts
<1>3. /\ Len(tun') = Len(es)
      /\ \A k \in 1..Len(es) : tun'[k].agent = es[k].agent /\ tun'[k].browser = es[k].browser
  BY <1>1, <1>2, RelayFacts
<1>4. /\ out' \in [Agents -> Seq(Nat)]
      /\ \A k \in 1..Len(es) : k # Slot => tun'[k].buf = Entries[k].buf
      /\ \/ /\ tun'[Slot].buf = NoFrames
            /\ \A x \in Agents : out'[x] = out[x] \o Entries[Slot].buf[x]
         \/ /\ tun'[Slot].buf = Entries[Slot].buf
            /\ out' = out
            /\ es[Slot].agent = None \/ es[Slot].browser = None
  BY <1>1, <1>2, RelayFrames
<1>5. \A k \in 1..Len(es) :
        Entries[k].browser # None \/ Entries[k].agent = None => Entries[k].buf = NoFrames
  BY <1>2 DEF FrameInv, NewEntry
<1>6. \A x \in Agents : NoFrames[x] = <<>>
  BY DEF NoFrames
<1>7. \A k \in 1..Len(es) : \A x \in Agents : home[x] # k => Entries[k].buf[x] = <<>>
  <2> SUFFICES ASSUME NEW k \in 1..Len(es), NEW x \in Agents, home[x] # k
               PROVE  Entries[k].buf[x] = <<>>
    OBVIOUS
  <2>1. CASE k \in 1..Len(tun)
    BY <1>2, <2>1 DEF FrameInv
  <2>2. CASE k \notin 1..Len(tun)
    BY <1>2, <1>6, <2>2 DEF NewEntry
  <2> QED BY <2>1, <2>2
<1>8. \A x \in Agents : out[x] \in Seq(Nat) /\ Entries[Slot].buf[x] \in Seq(Nat)
  <2>1. Entries[Slot] \in Entry
    BY <1>1, <1>2, SlotFacts
  <2> QED BY <1>1, <2>1 DEF Entry
<1>9. \A x \in Agents : out'[x] \o tun'[Slot].buf[x] = out[x] \o Entries[Slot].buf[x]
  <2> SUFFICES ASSUME NEW x \in Agents
               PROVE  out'[x] \o tun'[Slot].buf[x] = out[x] \o Entries[Slot].buf[x]
    OBVIOUS
  <2>1. CASE tun'[Slot].buf = NoFrames /\ out'[x] = out[x] \o Entries[Slot].buf[x]
    <3>1. out'[x] \in Seq(Nat) /\ tun'[Slot].buf[x] = <<>>
      BY <1>4, <1>6, <2>1
    <3> QED BY <2>1, <3>1, FrameSequences
  <2>2. CASE tun'[Slot].buf = Entries[Slot].buf /\ out' = out
    BY <2>2
  <2> QED BY <1>4, <2>1, <2>2
<1>10. \A x \in Agents : Entries[Slot].buf[x] = <<>> => out'[x] = out[x]
  <2> SUFFICES ASSUME NEW x \in Agents, Entries[Slot].buf[x] = <<>> PROVE out'[x] = out[x]
    OBVIOUS
  <2>1. out[x] \in Seq(Nat) /\ out[x] \o <<>> = out[x]
    BY <1>8, FrameSequences
  <2> QED BY <1>4, <2>1
<1>11. \A k \in 1..Len(tun') :
          tun'[k].browser # None \/ tun'[k].agent = None => tun'[k].buf = NoFrames
  <2> SUFFICES ASSUME NEW k \in 1..Len(es), es[k].browser # None \/ es[k].agent = None
               PROVE  tun'[k].buf = NoFrames
    BY <1>3
  <2>1. CASE k # Slot
    BY <1>4, <1>5, <2>1
  <2>2. CASE k = Slot
    BY <1>4, <1>5, <2>2
  <2> QED BY <2>1, <2>2
<1>12. \A k \in 1..Len(tun') : \A x \in Agents : home'[x] # k => tun'[k].buf[x] = <<>>
  <2> SUFFICES ASSUME NEW k \in 1..Len(es), NEW x \in Agents, home'[x] # k
               PROVE  tun'[k].buf[x] = <<>>
    BY <1>3
  <2>1. home[x] # k
    OBVIOUS
  <2>2. Entries[k].buf[x] = <<>> /\ NoFrames[x] = <<>>
    BY <1>6, <1>7, <2>1
  <2>3. tun'[k].buf = Entries[k].buf \/ tun'[k].buf = NoFrames
    BY <1>4
  <2> QED BY <2>2, <2>3
<1>13. \A x \in Agents : home'[x] = 0 => sent'[x] = 0 /\ out'[x] = <<>>
  <2> SUFFICES ASSUME NEW x \in Agents, home'[x] = 0 PROVE sent'[x] = 0 /\ out'[x] = <<>>
    OBVIOUS
  <2>1. home[x] = 0 /\ home[x] # Slot
    BY <1>2
  <2> QED BY <1>2, <1>7, <1>10, <2>1 DEF FrameInv
<1>14. \A x \in Agents : home'[x] # 0 =>
          out'[x] \o tun'[home'[x]].buf[x] = [i \in 1..sent'[x] |-> i]
  <2> SUFFICES ASSUME NEW x \in Agents, home'[x] # 0
               PROVE  out'[x] \o tun'[home'[x]].buf[x] = [i \in 1..sent[x] |-> i]
    OBVIOUS
  <2>0. x \in Sockets
    BY DEF Sockets
  <2>1. CASE home[x] = 0
    <3>1. home'[x] = Slot /\ home[x] # Slot
      BY <1>2, <2>1
    <3>2. Entries[Slot].buf[x] = <<>> /\ out[x] = <<>> /\ sent[x] = 0
      BY <1>2, <1>7, <2>1, <3>1 DEF FrameInv
    <3>3. out'[x] \o tun'[Slot].buf[x] = <<>>
      BY <1>8, <1>9, <3>2, FrameSequences
    <3> QED BY <3>1, <3>2, <3>3, FrameSequences
  <2>2. CASE home[x] # 0
    <3>1. home'[x] = home[x] /\ home[x] \in 1..Len(tun) /\ Entries[home[x]] = tun[home[x]]
      BY <1>1, <1>2, <2>0, <2>2 DEF RelayTypes
    <3>2. out[x] \o tun[home[x]].buf[x] = [i \in 1..sent[x] |-> i]
      BY <2>2 DEF FrameInv, FramesInOrder
    <3>3. CASE home[x] = Slot
      BY <1>9, <3>1, <3>2, <3>3
    <3>4. CASE home[x] # Slot
      <4>1. out'[x] = out[x]
        BY <1>2, <1>7, <1>10, <3>4
      <4>2. tun'[home[x]].buf = tun[home[x]].buf
        <5>1. home[x] \in 1..Len(es)
          BY <1>2, <3>1
        <5>2. tun'[home[x]].buf = Entries[home[x]].buf
          BY <1>4, <3>4, <5>1
        <5> QED BY <3>1, <5>2
      <4> QED BY <3>1, <3>2, <4>1, <4>2
    <3> QED BY <3>3, <3>4
  <2> QED BY <2>1, <2>2
<1> QED BY <1>4, <1>11, <1>12, <1>13, <1>14 DEF FrameInv, FramesInOrder

\* The agent's registration.
LEMMA AgentRegistersFrames ==
    ASSUME FrameInv, RelayInv', NEW a \in Agents, RegisterAgentTunnel(a)
    PROVE  FrameInv'
<1> DEFINE es == [Entries EXCEPT ![Slot].agent = a]
<1>1. RelayInv /\ RelayTypes /\ a \in Sockets /\ a # None
  BY RemoteAssumption DEF FrameInv, RelayInv, Sockets
<1>2. Entries \in Seq(Entry) /\ Slot \in 1..Len(Entries) /\ Entries[Slot] \in Entry
  BY <1>1, SlotFacts
<1>3. \A x \in Entry : LET y == [x EXCEPT !.agent = a]
                       IN  y \in Entry /\ y.agent = a /\ y.browser = x.browser /\ y.buf = x.buf
  BY DEF Entry
<1>4. /\ es \in Seq(Entry) /\ Len(es) = Len(Entries)
      /\ \A k \in 1..Len(es) : k # Slot => es[k] = Entries[k]
      /\ es[Slot].agent = a /\ es[Slot].buf = Entries[Slot].buf
  BY <1>2, <1>3
<1> HIDE DEF es
<1>5. /\ Relay(es) /\ UNCHANGED sent /\ home' = [home EXCEPT ![a] = Slot] /\ sock[a] = "ok"
  BY DEF RegisterAgentTunnel, es
<1>6. home[a] = 0
  BY <1>1, <1>5, NewcomerIsUnknown
<1>7. \A x \in Agents : home'[x] = home[x] \/ (home[x] = 0 /\ home'[x] = Slot)
  <2>1. \A x \in Agents : x \in Sockets
    BY DEF Sockets
  <2>2. \A x \in Sockets : home'[x] = IF x = a THEN Slot ELSE home[x]
    BY <1>1, <1>5 DEF RelayTypes
  <2> SUFFICES ASSUME NEW x \in Agents
               PROVE  home'[x] = home[x] \/ (home[x] = 0 /\ home'[x] = Slot)
    OBVIOUS
  <2>3. CASE x = a
    BY <1>6, <2>1, <2>2, <2>3
  <2>4. CASE x # a
    BY <2>1, <2>2, <2>4
  <2> QED BY <2>3, <2>4
<1>8. /\ \A k \in 1..Len(es) : es[k].buf = Entries[k].buf
      /\ \A k \in 1..Len(es) : es[k].agent = None => Entries[k].agent = None
      /\ \A k \in 1..Len(es) : k # Slot => es[k].browser = Entries[k].browser
  BY <1>1, <1>4
<1> QED BY <1>4, <1>5, <1>7, <1>8, RegisteredFrames

\* The registration of the starter's end.
LEMMA BrowserRegistersFrames ==
    ASSUME FrameInv, RelayInv', NEW b \in Browsers, RegisterBrowserTunnel(b)
    PROVE  FrameInv'
<1> DEFINE es == [Entries EXCEPT ![Slot].browser = b]
<1>1. RelayInv /\ RelayTypes /\ \A x \in Agents : x # b
  BY RemoteAssumption DEF FrameInv, RelayInv
<1>2. Entries \in Seq(Entry) /\ Slot \in 1..Len(Entries) /\ Entries[Slot] \in Entry
  BY <1>1, SlotFacts
<1>3. \A x \in Entry : LET y == [x EXCEPT !.browser = b]
                       IN  y \in Entry /\ y.agent = x.agent /\ y.buf = x.buf
  BY DEF Entry
<1>4. /\ es \in Seq(Entry) /\ Len(es) = Len(Entries)
      /\ \A k \in 1..Len(es) : k # Slot => es[k] = Entries[k]
      /\ es[Slot].agent = Entries[Slot].agent /\ es[Slot].buf = Entries[Slot].buf
  BY <1>2, <1>3
<1> HIDE DEF es
<1>5. /\ Relay(es) /\ UNCHANGED sent /\ home' = [home EXCEPT ![b] = Slot]
  BY DEF RegisterBrowserTunnel, es
<1>6. \A x \in Agents : home'[x] = home[x] \/ (home[x] = 0 /\ home'[x] = Slot)
  <2>1. \A x \in Agents : x \in Sockets
    BY DEF Sockets
  <2>2. \A x \in Sockets : x # b => home'[x] = home[x]
    BY <1>1, <1>5 DEF RelayTypes
  <2> QED BY <1>1, <2>1, <2>2
<1>7. /\ \A k \in 1..Len(es) : es[k].buf = Entries[k].buf
      /\ \A k \in 1..Len(es) : es[k].agent = None => Entries[k].agent = None
      /\ \A k \in 1..Len(es) : k # Slot => es[k].browser = Entries[k].browser
  BY <1>4
<1> QED BY <1>4, <1>5, <1>6, <1>7, RegisteredFrames

\* A frame goes out behind the ones before it, or into the buffer behind them: the
\* buffer of an entry that has a browser is empty.
LEMMA FrameKeepsItsPlace ==
    ASSUME FrameInv, RelayInv', NEW a \in Agents, AgentFrame(a)
    PROVE  FrameInv'
<1> DEFINE e == home[a]
           no == sent[a] + 1
<1>1. /\ RelayTypes /\ out \in [Agents -> Seq(Nat)] /\ a \in Sockets
      /\ sent[a] \in Nat /\ no \in Nat
      /\ e # 0 /\ e \in 1..Len(tun) /\ tun[e].agent = a /\ a # None
  BY RemoteAssumption DEF FrameInv, RelayInv, RelayTypes, Paths, AgentFrame, Sockets
<1>2. tun[e] \in Entry /\ tun[e].buf \in [Agents -> Seq(Nat)]
  <2>1. tun[e] \in Entry
    BY <1>1 DEF RelayTypes
  <2>2. \A x \in Entry : x.buf \in [Agents -> Seq(Nat)]
    BY DEF Entry
  <2> QED BY <2>1, <2>2
<1>3. out[a] \in Seq(Nat) /\ tun[e].buf[a] \in Seq(Nat)
  BY <1>1, <1>2
<1>4. out[a] \o tun[e].buf[a] = [i \in 1..sent[a] |-> i]
  BY <1>1 DEF FrameInv, FramesInOrder
<1>5. /\ UNCHANGED home /\ sent' = [sent EXCEPT ![a] = no]
      /\ sent'[a] = no /\ \A x \in Agents : x # a => sent'[x] = sent[x]
  BY <1>1 DEF AgentFrame, RelayTypes
<1>6. CASE tun[e].browser # None
  <2>1. UNCHANGED tun /\ out' = [out EXCEPT ![a] = Append(@, no)]
    BY <1>6 DEF AgentFrame
  <2>2. tun[e].buf[a] = <<>>
    BY <1>1, <1>6 DEF FrameInv, NoFrames
  <2>3. out' \in [Agents -> Seq(Nat)] /\ out'[a] = Append(out[a], no)
        /\ \A x \in Agents : x # a => out'[x] = out[x]
    BY <1>1, <1>3, <2>1
  <2>4. out'[a] \o tun[e].buf[a] = [i \in 1..no |-> i]
    <3>1. out[a] = [i \in 1..sent[a] |-> i]
      BY <1>3, <1>4, <2>2, FrameSequences
    <3>2. Append(out[a], no) = [i \in 1..no |-> i]
      BY <1>1, <3>1, FrameSequences
    <3>3. out'[a] \in Seq(Nat) /\ out'[a] \o <<>> = out'[a]
      BY <2>3, FrameSequences
    <3> QED BY <2>2, <2>3, <3>2, <3>3
  <2> HIDE DEF no
  <2>5. \A x \in Agents : home'[x] = 0 => sent'[x] = 0 /\ out'[x] = <<>>
    BY <1>1, <1>5, <2>3 DEF FrameInv
  <2>6. FramesInOrder'
    BY <1>5, <2>1, <2>3, <2>4 DEF FrameInv, FramesInOrder
  <2> QED BY <1>5, <2>1, <2>3, <2>5, <2>6 DEF FrameInv
<1>7. CASE tun[e].browser = None
  <2>1. UNCHANGED out /\ tun' = [tun EXCEPT ![e].buf[a] = Append(@, no)]
    BY <1>7 DEF AgentFrame
  <2> DEFINE n == [tun[e] EXCEPT !.buf = [tun[e].buf EXCEPT ![a] = Append(tun[e].buf[a], no)]]
  <2>2. /\ n.agent = a /\ n.browser = None /\ n.buf[a] = Append(tun[e].buf[a], no)
        /\ \A x \in Agents : x # a => n.buf[x] = tun[e].buf[x]
    BY <1>1, <1>2, <1>7 DEF Entry
  <2>3. tun' = [tun EXCEPT ![e] = n]
    BY <2>1
  <2> HIDE DEF n
  <2>4. /\ Len(tun') = Len(tun) /\ tun'[e] = n
        /\ \A k \in 1..Len(tun) : k # e => tun'[k] = tun[k]
    BY <1>1, <2>3 DEF RelayTypes
  <2>5. out[a] \o n.buf[a] = [i \in 1..no |-> i]
    <3>1. Append(out[a] \o tun[e].buf[a], no) = [i \in 1..no |-> i]
      BY <1>1, <1>4, FrameSequences
    <3>2. out[a] \o Append(tun[e].buf[a], no) = Append(out[a] \o tun[e].buf[a], no)
      <4>1. \A s, t \in Seq(Nat), m \in Nat : s \o Append(t, m) = Append(s \o t, m)
        BY FrameSequences
      <4>2. no \in Nat
        BY <1>1
      <4> HIDE DEF e, no
      <4> QED BY <1>3, <4>1, <4>2, Zenon
    <3> QED BY <2>2, <3>1, <3>2
  <2> HIDE DEF no
  <2>6. \A k \in 1..Len(tun') :
          tun'[k].browser # None \/ tun'[k].agent = None => tun'[k].buf = NoFrames
    BY <1>1, <2>2, <2>4 DEF FrameInv
  <2>7. \A k \in 1..Len(tun') : \A x \in Agents : home'[x] # k => tun'[k].buf[x] = <<>>
    <3> SUFFICES ASSUME NEW k \in 1..Len(tun), NEW x \in Agents, home[x] # k
                 PROVE  tun'[k].buf[x] = <<>>
      BY <1>5, <2>4
    <3>1. tun[k].buf[x] = <<>>
      BY DEF FrameInv
    <3>2. CASE k = e
      BY <2>2, <2>4, <3>1, <3>2
    <3>3. CASE k # e
      BY <2>4, <3>1, <3>3
    <3> QED BY <3>2, <3>3
  <2>8. \A x \in Agents : home'[x] = 0 => sent'[x] = 0 /\ out'[x] = <<>>
    BY <1>1, <1>5, <2>1 DEF FrameInv
  <2>9. \A x \in Agents : home[x] # 0 =>
          out[x] \o tun'[home[x]].buf[x] = [i \in 1..sent'[x] |-> i]
    <3> SUFFICES ASSUME NEW x \in Agents, home[x] # 0
                 PROVE  out[x] \o tun'[home[x]].buf[x] = [i \in 1..sent'[x] |-> i]
      OBVIOUS
    <3>1. CASE x = a
      BY <1>5, <2>4, <2>5, <3>1
    <3>2. CASE x # a
      <4>1. home[x] \in 1..Len(tun)
        BY <1>1 DEF RelayTypes, Sockets
      <4>2. tun'[home[x]].buf[x] = tun[home[x]].buf[x]
        BY <2>2, <2>4, <3>2, <4>1
      <4>3. sent'[x] = sent[x] /\ out[x] \o tun[home[x]].buf[x] = [i \in 1..sent[x] |-> i]
        BY <1>5, <3>2 DEF FrameInv, FramesInOrder
      <4> QED BY <4>2, <4>3
    <3> QED BY <3>1, <3>2
  <2>10. FramesInOrder'
    BY <1>5, <2>1, <2>9 DEF FramesInOrder
  <2> QED BY <1>1, <2>1, <2>6, <2>7, <2>8, <2>10 DEF FrameInv
<1> QED BY <1>6, <1>7

\* No step of any handler loses, doubles or reorders a frame.
LEMMA FrameStep == FrameInv /\ [Next]_vars => FrameInv'
<1> SUFFICES ASSUME FrameInv, [Next]_vars PROVE FrameInv'
  OBVIOUS
<1>0. RelayInv'
  BY RelayStep DEF FrameInv
<1>a. ASSUME UNCHANGED <<tun, home, sent, out>> PROVE FrameInv'
  BY <1>0, <1>a, FramesRest
<1> USE DEF relayVars, histVars
<1>1. CASE \/ \E p \in Protocols : CreateSession(p)
           \/ DeliverOpen \/ VmConsoleOffline \/ OpenFailed \/ CleanupStaleSessions
           \/ AgentCloses \/ UNCHANGED vars
  BY <1>1, <1>a DEF CreateSession, DeliverOpen, VmConsoleOffline, OpenFailed,
                    CleanupStaleSessions, AgentCloses, vars
<1>2. ASSUME NEW a \in Agents,
             \/ AgentDials(a) \/ AuthorizeAgent(a) \/ RefuseSecondAgent(a) \/ MarkActive(a)
             \/ MarkFails(a) \/ AgentLinkFails(a)
      PROVE  FrameInv'
  BY <1>2, <1>a DEF AgentDials, AuthorizeAgent, RefuseSecondAgent, MarkActive, MarkFails,
                    AgentLinkFails
<1>3. ASSUME NEW a \in Agents, RegisterAgentTunnel(a) PROVE FrameInv'
  BY <1>0, <1>3, AgentRegistersFrames
<1>4. ASSUME NEW a \in Agents, AgentFrame(a) PROVE FrameInv'
  BY <1>0, <1>4, FrameKeepsItsPlace
<1>5. ASSUME NEW b \in Browsers, BrowserDials(b) \/ AuthorizeBrowser(b) PROVE FrameInv'
  BY <1>5, <1>a DEF BrowserDials, AuthorizeBrowser
<1>6. ASSUME NEW b \in Browsers, RegisterBrowserTunnel(b) PROVE FrameInv'
  BY <1>0, <1>6, BrowserRegistersFrames
<1>7. ASSUME NEW s \in Sockets, DialDropped(s) \/ Hangup(s) PROVE FrameInv'
  BY <1>7, <1>a DEF DialDropped, Hangup
<1>8. ASSUME NEW s \in Sockets, NEW j \in Jobs,
             CloseEvent(s, j) \/ BastionClosed(s, j) \/ BastionLeaves(s, j)
      PROVE  FrameInv'
  BY <1>8, <1>a DEF CloseEvent, BastionClosed, BastionLeaves
<1>9. ASSUME NEW j \in Jobs, EndRequest(j) \/ DisableUser(j) \/ JobStep(j) \/ EndFails(j)
      PROVE  FrameInv'
  BY <1>9, <1>a DEF EndRequest, DisableUser, EndFails, JobStep, SelectOpen, Teardown, EndRead, EndUpdate,
                    EndPush, EndDelete
<1>10. CASE ServerCrash
  <2>1. /\ tun' = <<>> /\ out' = [a \in Agents |-> <<>>] /\ sent' = [a \in Agents |-> 0]
        /\ \A a \in Agents : home'[a] = 0
    BY <1>10 DEF ServerCrash, Sockets
  <2>2. out' \in [Agents -> Seq(Nat)]
    BY <2>1
  <2> QED BY <1>0, <2>1, <2>2 DEF FrameInv, FramesInOrder
<1> QED
  BY <1>1, <1>2, <1>3, <1>4, <1>5, <1>6, <1>7, <1>8, <1>9, <1>10 DEF Next, SocketStep

\* Nobody has sent anything.
LEMMA FrameInit == Init => FrameInv
<1> SUFFICES ASSUME Init PROVE FrameInv
  OBVIOUS
<1>1. /\ tun = <<>> /\ out = [a \in Agents |-> <<>>] /\ sent = [a \in Agents |-> 0]
      /\ \A a \in Agents : home[a] = 0
  BY DEF Init, Sockets
<1>2. out \in [Agents -> Seq(Nat)]
  BY <1>1
<1> QED BY <1>1, <1>2, RelayInit DEF FrameInv, FramesInOrder

\* The frame invariant holds throughout.
THEOREM FrameSafety == Spec => []FrameInv
BY FrameInit, FrameStep, PTL DEF Spec

\* What an agent sends before, while and after the browser attaches is handed over
\* once and in order (registerAgentTunnel buffers, _flushAndBridgeBrowser drains),
\* for any number of agents, ends and frames.
THEOREM FramesArriveInOrder == Spec => []FramesInOrder
<1>1. FrameInv => FramesInOrder
  BY DEF FrameInv
<1> QED BY <1>1, FrameSafety, PTL

-----------------------------------------------------------------------------
(* Types *)

CommandTypes ==
    /\ phase \in {"none", "inserted", "ready"}
    /\ proto \in Kinds
    /\ opened \in BOOLEAN /\ closeCmd \in BOOLEAN /\ nack \in BOOLEAN /\ userActive \in BOOLEAN

\* What is on its way to and from the agent, and what the caller knows.
LEMMA CommandTypesStep == CommandTypes /\ [Next]_vars => CommandTypes'
<1> SUFFICES ASSUME CommandTypes, [Next]_vars PROVE CommandTypes'
  OBVIOUS
<1> USE DEF CommandTypes, cmdVars
<1>1. ASSUME NEW p \in Protocols, CreateSession(p) PROVE CommandTypes'
  BY <1>1, RemoteAssumption DEF CreateSession
<1>2. CASE DeliverOpen \/ VmConsoleOffline \/ OpenFailed \/ CleanupStaleSessions
  BY <1>2 DEF DeliverOpen, VmConsoleOffline, OpenFailed, CleanupStaleSessions
<1>3. ASSUME NEW a \in Agents,
             \/ AgentDials(a) \/ AuthorizeAgent(a) \/ RegisterAgentTunnel(a)
             \/ RefuseSecondAgent(a) \/ AgentFrame(a) \/ MarkActive(a) \/ MarkFails(a)
             \/ AgentLinkFails(a)
      PROVE  CommandTypes'
  BY <1>3 DEF AgentDials, AuthorizeAgent, RegisterAgentTunnel, RefuseSecondAgent, AgentFrame,
              MarkActive, MarkFails, AgentLinkFails
<1>4. ASSUME NEW b \in Browsers,
             BrowserDials(b) \/ AuthorizeBrowser(b) \/ RegisterBrowserTunnel(b)
      PROVE  CommandTypes'
  BY <1>4 DEF BrowserDials, AuthorizeBrowser, RegisterBrowserTunnel
<1>5. ASSUME NEW s \in Sockets, DialDropped(s) \/ Hangup(s) PROVE CommandTypes'
  BY <1>5 DEF DialDropped, Hangup
<1>6. ASSUME NEW s \in Sockets, NEW j \in Jobs,
             CloseEvent(s, j) \/ BastionClosed(s, j) \/ BastionLeaves(s, j)
      PROVE  CommandTypes'
  BY <1>6 DEF CloseEvent, BastionClosed, BastionLeaves
<1>7. ASSUME NEW j \in Jobs, EndRequest(j) \/ DisableUser(j) \/ JobStep(j) \/ EndFails(j)
      PROVE  CommandTypes'
  BY <1>7 DEF EndRequest, DisableUser, EndFails, JobStep, SelectOpen, Teardown, EndRead, EndUpdate,
              EndPush, EndDelete
<1>8. CASE AgentCloses \/ ServerCrash
  BY <1>8 DEF AgentCloses, ServerCrash
<1>9. CASE UNCHANGED vars
  BY <1>9 DEF vars
<1> QED BY <1>1, <1>2, <1>3, <1>4, <1>5, <1>6, <1>7, <1>8, <1>9 DEF Next, SocketStep

\* Every row, socket, entry and job of the relay holds a value of its type, for any
\* number of sockets, jobs, frames and crashes.
THEOREM RemoteTypes == Spec => []TypeOK
<1>1. Init => CommandTypes
  BY DEF Init, CommandTypes, Kinds
<1>2. Spec => []CommandTypes
  BY <1>1, CommandTypesStep, PTL DEF Spec
<1>3. CommandTypes /\ SessionInv /\ FrameInv => TypeOK
  BY DEF CommandTypes, SessionInv, RowTypes, JobTypes, FrameInv, RelayInv, RelayTypes, TypeOK
<1> QED BY <1>2, <1>3, SessionSafety, FrameSafety, PTL

=============================================================================
