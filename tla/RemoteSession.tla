---------------------------- MODULE RemoteSession ----------------------------
(***************************************************************************)
(* ONE remote session: its remote_sessions row, the relay between the      *)
(* agent's WebSocket and the starter's end (a web viewer, or the adapter   *)
(* of the in-process SSH bastion), and everything that may end it.         *)
(*                                                                         *)
(* An action is the code between two awaits.  The row is in PostgreSQL;    *)
(* the relay (tunnels, sockets, closures) is memory of the Node process    *)
(* and is lost with it.  A TunnelEntry is an object: the closures of a     *)
(* socket keep the one they were created with after it has left the map,   *)
(* so entries are numbered and `cur` is the one tunnels.get(token) finds.  *)
(* No code writes the status 'connecting', so it is left out.              *)
(***************************************************************************)
EXTENDS Naturals, Sequences, FiniteSets

CONSTANTS
    Agents,     \* WebSockets the agent may dial: one per delivery of the command
    Browsers,   \* ends the starter may attach
    Protocols,  \* the protocols a session may have
    Jobs,       \* endSession calls that may be in flight
    Frames,     \* bound: frames an agent sends
    MaxCrashes  \* bound: crashes of the server

None == "none"

Sockets == Agents \cup Browsers

\* "shell" stands for rdp, ssh, cmd and powershell; "bastion" for the ssh and
\* sshjump sessions whose browser end is an adapter of the SSH bastion.
Kinds == {"shell", "bastion", "oblireach", "vmconsole"}

ASSUME RemoteAssumption ==
    /\ Agents \cap Browsers = {}
    /\ None \notin Sockets
    /\ Protocols \subseteq Kinds
    /\ Frames \in Nat
    /\ MaxCrashes \in Nat

Ended == {"failed", "closed", "expired", "timeout"}

\* OPEN_REMOTE_SESSION_STATUSES
Open == {"waiting", "active"}

SocketState == {"none", "auth", "user", "ok", "open", "closing", "closed"}

\* agentBuffer, by sender: no property tells the order of two agents apart.
Entry == [browser : Browsers \cup {None}, agent : Agents \cup {None},
          buf : [Agents -> Seq(Nat)]]

\* Who started an endSession, and so who has its errors.  "relay" is the close of a
\* tunnel, which nobody awaits: its error is an unhandled rejection, and no handler
\* is installed, so it ends the process (a ServerCrash).  "drop" also took the entry
\* out of the map, and "request" did not: their errors are caught.
Callers == {"relay", "drop", "request"}

Job == [pc : {"idle", "select", "teardown", "read", "update", "push", "delete"},
        conn : BOOLEAN, by : Callers]

VARIABLES
    status,     \* remote_sessions.status, "absent" before the insert
    connected,  \* remote_sessions.connected_at is set
    phase,      \* createSession: "none", "inserted", "ready"
    proto,      \* remote_sessions.protocol, and who created the session
    opened,     \* open_remote_tunnel was pushed or queued
    closeCmd,   \* close_remote_tunnel is on its way to the agent
    nack,       \* the agent's failure of open_remote_tunnel is on its way
    userActive, \* users.is_active of the starter
    tun,        \* every TunnelEntry created, in order
    cur,        \* the entry in the tunnels map, 0 = none
    sock,       \* [Sockets -> SocketState]: readyState, and the upgrade before it
    home,       \* [Sockets -> Nat]: the entry the socket was registered in
    wired,      \* [Browsers -> SUBSET Agents]: who gets the browser's messages
    marking,    \* agents whose UPDATE to 'active' is in flight
    job,        \* [Jobs -> Job]
    failed,     \* history: an end failed after it took the entry out of the map
    sent,       \* history: frames each agent sent
    out,        \* history: frames of each agent handed to a browser
    crashes     \* history: crashes so far

rowVars == <<status, connected>>
cmdVars == <<phase, proto, opened, closeCmd, nack>>
relayVars == <<tun, cur, sock, home, wired>>
histVars == <<sent, out, failed>>
vars == <<status, connected, phase, proto, opened, closeCmd, nack, userActive, tun, cur,
          sock, home, wired, marking, job, sent, out, failed, crashes>>

IdleJob == [pc |-> "idle", conn |-> FALSE, by |-> "request"]

NoFrames == [a \in Agents |-> <<>>]

NewEntry == [browser |-> None, agent |-> None, buf |-> NoFrames]

Init ==
    /\ status = "absent"
    /\ connected = FALSE
    /\ phase = "none"
    /\ proto = "shell"
    /\ opened = FALSE
    /\ closeCmd = FALSE
    /\ nack = FALSE
    /\ userActive = TRUE
    /\ tun = <<>>
    /\ cur = 0
    /\ sock = [s \in Sockets |-> "none"]
    /\ home = [s \in Sockets |-> 0]
    /\ wired = [b \in Browsers |-> {}]
    /\ marking = {}
    /\ job = [j \in Jobs |-> IdleJob]
    /\ failed = FALSE
    /\ sent = [a \in Agents |-> 0]
    /\ out = [a \in Agents |-> <<>>]
    /\ crashes = 0

\* The adapters of the bastion: no WebSocket, so no 'close' of their own.
Adapters == IF proto = "bastion" THEN Browsers ELSE {}

Goto(j, pc) == job' = [job EXCEPT ![j].pc = pc]

Finish(j) == job' = [job EXCEPT ![j] = IdleJob]

\* An idle job starts, at endSession or before it.
Start(j, pc, by) ==
    /\ job[j].pc = "idle"
    /\ job' = [job EXCEPT ![j] = [IdleJob EXCEPT !.pc = pc, !.by = by]]

StartEnd(j, by) == Start(j, "read", by)

\* ws.close() on each socket of S that is still open.
Close(S) == sock' = [s \in Sockets |-> IF s \in S /\ sock[s] = "open" THEN "closing" ELSE sock[s]]

\* The ends of the entry in the map.
Ends == IF cur = 0 THEN {} ELSE {tun[cur].browser, tun[cur].agent} \ {None}

-----------------------------------------------------------------------------
(* createSession *)

CreateSession(p) ==
    /\ status = "absent"
    /\ status' = "waiting"
    /\ proto' = p
    /\ phase' = "inserted"
    /\ UNCHANGED <<connected, opened, closeCmd, nack, userActive, relayVars, marking,
                   job, histVars, crashes>>

\* Pushed on the command channel, or queued for the agent's return.
DeliverOpen ==
    /\ phase = "inserted"
    /\ phase' = "ready"
    /\ opened' = TRUE
    /\ UNCHANGED <<rowVars, proto, closeCmd, nack, userActive, relayVars, marking,
                   job, histVars, crashes>>

\* A VM console needs a live channel: the row fails and the caller gets a 409.
VmConsoleOffline ==
    /\ phase = "inserted"
    /\ proto = "vmconsole"
    /\ status' = "failed"
    /\ phase' = "none"
    /\ UNCHANGED <<connected, proto, opened, closeCmd, nack, userActive, relayVars, marking,
                   job, histVars, crashes>>

\* The failure ack of open_remote_tunnel, from either channel.
OpenFailed ==
    /\ nack
    /\ nack' = FALSE
    /\ status' = IF status = "waiting" THEN "failed" ELSE status
    /\ UNCHANGED <<connected, phase, proto, opened, closeCmd, userActive, relayVars, marking,
                   job, histVars, crashes>>

\* cleanupStaleSessions: six minutes in 'waiting'.
CleanupStaleSessions ==
    /\ status = "waiting"
    /\ status' = "timeout"
    /\ UNCHANGED <<connected, cmdVars, userActive, relayVars, marking, job, histVars,
                   crashes>>

-----------------------------------------------------------------------------
(* The upgrade requests *)

SetSocket(s, st) == sock' = [sock EXCEPT ![s] = st]

AgentDials(a) ==
    /\ opened
    /\ sock[a] = "none"
    /\ SetSocket(a, "auth")
    /\ UNCHANGED <<rowVars, cmdVars, userActive, tun, cur, home, wired, marking, job,
                   histVars, crashes>>

\* authorizeAgentTunnel reads the row; a refusal fails the agent's command.  It
\* looks for a live agent in the tick that registers, which looks again.
AuthorizeAgent(a) ==
    /\ sock[a] = "auth"
    /\ SetSocket(a, IF status = "waiting" THEN "ok" ELSE "closed")
    /\ nack' = (nack \/ status # "waiting")
    /\ UNCHANGED <<rowVars, phase, proto, opened, closeCmd, userActive, tun, cur, home, wired,
                   marking, job, histVars, crashes>>

BrowserDials(b) ==
    /\ phase = "ready"
    /\ proto # "bastion"
    /\ sock[b] = "none"
    /\ SetSocket(b, "auth")
    /\ UNCHANGED <<rowVars, cmdVars, userActive, tun, cur, home, wired, marking, job,
                   histVars, crashes>>

\* authorizeBrowserTunnel reads the row, then the user.
AuthorizeBrowser(b) ==
    /\ \/ sock[b] = "auth" /\ SetSocket(b, IF status \in Open THEN "user" ELSE "closed")
       \/ sock[b] = "user" /\ SetSocket(b, IF userActive THEN "ok" ELSE "closed")
    /\ UNCHANGED <<rowVars, cmdVars, userActive, tun, cur, home, wired, marking, job,
                   histVars, crashes>>

\* The client goes away while the server looks it up (socket.destroyed).
DialDropped(s) ==
    /\ sock[s] \in {"auth", "user", "ok"}
    /\ SetSocket(s, "closed")
    /\ UNCHANGED <<rowVars, cmdVars, userActive, tun, cur, home, wired, marking, job,
                   histVars, crashes>>

-----------------------------------------------------------------------------
(* The relay *)

\* tunnels.set(token, ...) unless the map has an entry.
Slot == IF cur = 0 THEN Len(tun) + 1 ELSE cur

Entries == IF cur = 0 THEN Append(tun, NewEntry) ELSE tun

\* Variant: bridged without draining, so the next frame overtakes the buffer.
BridgeOnly(es, a, b) ==
    /\ tun' = es
    /\ UNCHANGED out
    /\ wired' = [wired EXCEPT ![b] = @ \cup {a}]

\* _flushAndBridgeBrowser: the buffered frames, then the browser's messages.
FlushAndBridge(es, a, b) ==
    /\ tun' = [es EXCEPT ![Slot].buf = NoFrames]
    /\ out' = [x \in Agents |-> out[x] \o es[Slot].buf[x]]
    /\ wired' = [wired EXCEPT ![b] = @ \cup {a}]

\* Bridged when both ends are there.
Relay(es) ==
    LET a == es[Slot].agent
        b == es[Slot].browser
    IN  IF a # None /\ b # None
        THEN FlushAndBridge(es, a, b)
        ELSE tun' = es /\ UNCHANGED <<out, wired>>

HasLiveAgent == cur # 0 /\ tun[cur].agent # None /\ sock[tun[cur].agent] = "open"

\* Variant: the check is left to the authorization.
RegisterSecondAgent(a) ==
    /\ sock[a] = "ok"
    /\ SetSocket(a, "open")
    /\ cur' = Slot
    /\ home' = [home EXCEPT ![a] = Slot]
    /\ Relay([Entries EXCEPT ![Slot].agent = a])
    /\ marking' = marking \cup {a}
    /\ UNCHANGED <<rowVars, cmdVars, userActive, job, sent, failed, crashes>>

\* registerAgentTunnel, in the tick of the positive verdict.
RegisterAgentTunnel(a) ==
    /\ sock[a] = "ok"
    /\ ~HasLiveAgent
    /\ SetSocket(a, "open")
    /\ cur' = Slot
    /\ home' = [home EXCEPT ![a] = Slot]
    /\ Relay([Entries EXCEPT ![Slot].agent = a])
    /\ marking' = marking \cup {a}
    /\ UNCHANGED <<rowVars, cmdVars, userActive, job, sent, failed, crashes>>

\* "Agent already attached": 409, and the agent's command fails.
RefuseSecondAgent(a) ==
    /\ sock[a] = "ok"
    /\ HasLiveAgent
    /\ SetSocket(a, "closed")
    /\ nack' = TRUE
    /\ UNCHANGED <<rowVars, phase, proto, opened, closeCmd, userActive, tun, cur, home, wired,
                   marking, job, histVars, crashes>>

\* registerBrowserTunnel: by the upgrade, or directly by the bastion.  A
\* previous browser is replaced.
RegisterBrowserTunnel(b) ==
    /\ IF proto = "bastion"
       THEN phase = "ready" /\ \A x \in Browsers : sock[x] = "none"
       ELSE sock[b] = "ok"
    /\ SetSocket(b, "open")
    /\ cur' = Slot
    /\ home' = [home EXCEPT ![b] = Slot]
    /\ Relay([Entries EXCEPT ![Slot].browser = b])
    /\ UNCHANGED <<rowVars, cmdVars, userActive, marking, job, sent, failed, crashes>>

\* agentWs.on('message'): to the entry's browser, or into its buffer.
AgentFrame(a) ==
    LET e == home[a]
        no == sent[a] + 1
    IN  /\ sock[a] = "open"
        /\ no <= Frames
        /\ sent' = [sent EXCEPT ![a] = no]
        /\ IF tun[e].browser # None
           THEN out' = [out EXCEPT ![a] = Append(@, no)] /\ UNCHANGED tun
           ELSE tun' = [tun EXCEPT ![e].buf[a] = Append(@, no)] /\ UNCHANGED out
        /\ UNCHANGED <<rowVars, cmdVars, userActive, cur, sock, home, wired, marking,
                       job, failed, crashes>>

\* Variant: the UPDATE has no condition on the status.
MarkActiveAlways(a) ==
    /\ a \in marking
    /\ marking' = marking \ {a}
    /\ status' = "active"
    /\ connected' = TRUE
    /\ UNCHANGED <<cmdVars, userActive, relayVars, job, histVars, crashes>>

\* The UPDATE to 'active' and its callback: a session that is not waiting any
\* more stays as it is and the agent is hung up on.
MarkActive(a) ==
    LET mine == cur # 0 /\ tun[cur].agent = a
    IN  /\ a \in marking
        /\ marking' = marking \ {a}
        /\ IF status = "waiting"
           THEN status' = "active" /\ connected' = TRUE /\ UNCHANGED <<cur, sock>>
           ELSE /\ UNCHANGED rowVars
                /\ cur' = IF mine THEN 0 ELSE cur
                /\ Close({a} \cup (IF mine THEN Ends ELSE {}))
        /\ UNCHANGED <<cmdVars, userActive, tun, home, wired, job, histVars, crashes>>

\* The UPDATE fails: the error is logged and the session keeps waiting.
MarkFails(a) ==
    /\ a \in marking
    /\ marking' = marking \ {a}
    /\ UNCHANGED <<rowVars, cmdVars, userActive, relayVars, job, histVars, crashes>>

-----------------------------------------------------------------------------
(* Closing *)

\* A peer starts to close, or its connection breaks.
Hangup(s) ==
    /\ s \notin Adapters
    /\ sock[s] = "open"
    /\ SetSocket(s, "closing")
    /\ UNCHANGED <<rowVars, cmdVars, userActive, tun, cur, home, wired, marking, job,
                   histVars, crashes>>

\* Variant: the map is cleaned and both ends closed, the session is left alone.
TunnelCloseOnly(s, j) ==
    /\ cur' = 0
    /\ sock' = [x \in Sockets |-> IF x = s THEN "closed"
                                  ELSE IF x \in Ends /\ sock[x] = "open" THEN "closing" ELSE sock[x]]
    /\ UNCHANGED job

\* handleTunnelClose: whatever entry is in the map now, and endSession.
HandleTunnelClose(s, j) ==
    /\ cur' = 0
    /\ sock' = [x \in Sockets |-> IF x = s THEN "closed"
                                  ELSE IF x \in Ends /\ sock[x] = "open" THEN "closing" ELSE sock[x]]
    /\ StartEnd(j, "relay")

\* The 'close' event of a WebSocket.  A browser has the handler once bridged.
CloseEvent(s, j) ==
    /\ s \notin Adapters
    /\ sock[s] = "closing"
    /\ IF cur # 0 /\ (s \in Agents \/ wired[s] # {})
       THEN HandleTunnelClose(s, j)
       ELSE SetSocket(s, "closed") /\ UNCHANGED <<cur, job>>
    /\ UNCHANGED <<rowVars, cmdVars, userActive, tun, home, wired, marking, histVars,
                   crashes>>

\* The bastion's user leaves, or (not paired) the connect timeout fires: a paired
\* adapter emits 'close', the other drops the entry and ends the session itself.
BastionLeaves(b, j) ==
    /\ b \in Adapters
    /\ sock[b] = "open"
    /\ IF cur = 0 /\ wired[b] # {}
       THEN SetSocket(b, "closed") /\ UNCHANGED <<cur, job>>
       ELSE IF wired[b] # {} THEN HandleTunnelClose(b, j)
       ELSE SetSocket(b, "closed") /\ cur' = 0 /\ StartEnd(j, "drop")
    /\ UNCHANGED <<rowVars, cmdVars, userActive, tun, home, wired, marking, histVars,
                   crashes>>

\* adapter.close() by the relay: the jump ends, and so does an unpaired session.
BastionClosed(b, j) ==
    /\ b \in Adapters
    /\ sock[b] = "closing"
    /\ SetSocket(b, "closed")
    /\ IF wired[b] # {} THEN UNCHANGED job ELSE StartEnd(j, "request")
    /\ UNCHANGED <<rowVars, cmdVars, userActive, tun, cur, home, wired, marking,
                   histVars, crashes>>

-----------------------------------------------------------------------------
(* endSession, and closeSessionsForUser that ends in it *)

\* POST /sessions/:id/end
EndRequest(j) ==
    /\ status # "absent"
    /\ StartEnd(j, "request")
    /\ UNCHANGED <<rowVars, cmdVars, userActive, relayVars, marking, histVars, crashes>>

\* The starter is disabled: killSessionsForUser.
DisableUser(j) ==
    /\ userActive
    /\ userActive' = FALSE
    /\ Start(j, "select", "drop")
    /\ UNCHANGED <<rowVars, cmdVars, relayVars, marking, histVars, crashes>>

SelectOpen(j) ==
    /\ job[j].pc = "select"
    /\ IF status \in Open THEN Goto(j, "teardown") ELSE Finish(j)
    /\ UNCHANGED <<rowVars, cmdVars, userActive, relayVars, marking, histVars, crashes>>

Teardown(j) ==
    /\ job[j].pc = "teardown"
    /\ Goto(j, "read")
    /\ cur' = 0
    /\ Close(Ends)
    /\ UNCHANGED <<rowVars, cmdVars, userActive, tun, home, wired, marking, histVars,
                   crashes>>

EndRead(j) ==
    /\ job[j].pc = "read"
    /\ job' = [job EXCEPT ![j].pc = "update", ![j].conn = connected]
    /\ UNCHANGED <<rowVars, cmdVars, userActive, relayVars, marking, histVars, crashes>>

\* Variant: a word the status column does not know.
EndUpdateRaw(j) ==
    /\ job[j].pc = "update"
    /\ Goto(j, "push")
    /\ status' = "ended"
    /\ UNCHANGED <<connected, cmdVars, userActive, relayVars, marking, histVars, crashes>>

\* By id, whatever the status is now: 'closed' once connected, else 'expired'.
EndUpdate(j) ==
    /\ job[j].pc = "update"
    /\ Goto(j, "push")
    /\ status' = IF job[j].conn THEN "closed" ELSE "expired"
    /\ UNCHANGED <<connected, cmdVars, userActive, relayVars, marking, histVars, crashes>>

\* close_remote_tunnel: pushed; else queued (one more await), except for
\* ObliReach; then tunnels.delete, which closes no socket.
EndPush(j) ==
    /\ job[j].pc = "push"
    /\ \/ closeCmd' = TRUE /\ cur' = 0 /\ Finish(j)
       \/ proto = "oblireach" /\ UNCHANGED closeCmd /\ cur' = 0 /\ Finish(j)
       \/ proto # "oblireach" /\ closeCmd' = TRUE /\ UNCHANGED cur /\ Goto(j, "delete")
    /\ UNCHANGED <<rowVars, phase, proto, opened, nack, userActive, tun, sock, home, wired,
                   marking, histVars, crashes>>

EndDelete(j) ==
    /\ job[j].pc = "delete"
    /\ cur' = 0
    /\ Finish(j)
    /\ UNCHANGED <<rowVars, cmdVars, userActive, tun, sock, home, wired, marking,
                   histVars, crashes>>

\* A statement of the end throws and the caller catches it: the rest does not
\* happen, and sockets that were closed stay closed.
EndFails(j) ==
    /\ job[j].pc \notin {"idle", "teardown"}
    /\ job[j].by # "relay"
    /\ Finish(j)
    /\ failed' = (failed \/ (job[j].by = "drop" /\ job[j].pc \in {"read", "update"}))
    /\ UNCHANGED <<rowVars, cmdVars, userActive, relayVars, marking, sent, out, crashes>>

-----------------------------------------------------------------------------
(* The agent *)

\* The local service or shell does not start: the WebSocket is closed and the
\* command fails.
AgentLinkFails(a) ==
    /\ sock[a] = "open"
    /\ SetSocket(a, "closing")
    /\ nack' = TRUE
    /\ UNCHANGED <<rowVars, phase, proto, opened, closeCmd, userActive, tun, cur, home, wired,
                   marking, job, histVars, crashes>>

\* handleCloseRemoteTunnel closes the tunnel in the agent's registry, which holds
\* it once the local service is up; before that the answer is "not_found".
AgentCloses ==
    /\ closeCmd
    /\ closeCmd' = FALSE
    /\ \E S \in {{}} \cup {{a} : a \in Agents} : Close(S)
    /\ UNCHANGED <<rowVars, phase, proto, opened, nack, userActive, tun, cur, home, wired,
                   marking, job, histVars, crashes>>

-----------------------------------------------------------------------------

\* The server dies: the row stays, the relay and the jobs are gone, and what was
\* in flight from or to the agent may be lost.
ServerCrash ==
    /\ crashes < MaxCrashes
    /\ crashes' = crashes + 1
    /\ tun' = <<>>
    /\ cur' = 0
    /\ sock' = [s \in Sockets |-> IF sock[s] = "none" THEN "none" ELSE "closed"]
    /\ home' = [s \in Sockets |-> 0]
    /\ wired' = [b \in Browsers |-> {}]
    /\ marking' = {}
    /\ job' = [j \in Jobs |-> IdleJob]
    /\ phase' = IF phase = "inserted" THEN "none" ELSE phase
    /\ nack' \in {nack, FALSE}
    /\ closeCmd' \in {closeCmd, FALSE}
    /\ sent' = [a \in Agents |-> 0]
    /\ out' = [a \in Agents |-> <<>>]
    /\ UNCHANGED <<rowVars, proto, opened, userActive, failed>>

JobStep(j) ==
    \/ SelectOpen(j) \/ Teardown(j) \/ EndRead(j) \/ EndUpdate(j) \/ EndPush(j) \/ EndDelete(j)

SocketStep(s, j) == CloseEvent(s, j) \/ BastionClosed(s, j)

Next ==
    \/ \E p \in Protocols : CreateSession(p)
    \/ DeliverOpen \/ VmConsoleOffline \/ OpenFailed \/ CleanupStaleSessions
    \/ \E a \in Agents : AgentDials(a) \/ AuthorizeAgent(a) \/ RegisterAgentTunnel(a)
                         \/ RefuseSecondAgent(a) \/ AgentFrame(a) \/ MarkActive(a)
                         \/ MarkFails(a) \/ AgentLinkFails(a)
    \/ \E b \in Browsers : BrowserDials(b) \/ AuthorizeBrowser(b) \/ RegisterBrowserTunnel(b)
    \/ \E s \in Sockets : DialDropped(s) \/ Hangup(s)
    \/ \E s \in Sockets, j \in Jobs : SocketStep(s, j) \/ BastionLeaves(s, j)
    \/ \E j \in Jobs : EndRequest(j) \/ DisableUser(j) \/ JobStep(j) \/ EndFails(j)
    \/ AgentCloses \/ ServerCrash

Spec == Init /\ [][Next]_vars

\* Node runs every callback; the agent handles the commands it gets; the
\* cleanup timer repeats.  A close event needs a free job of the model.
Fairness ==
    /\ \A j \in Jobs : WF_vars(JobStep(j))
    /\ \A s \in Sockets : SF_vars(\E j \in Jobs : SocketStep(s, j))
    /\ \A a \in Agents : WF_vars(MarkActive(a) \/ MarkFails(a))
    /\ WF_vars(CleanupStaleSessions) /\ WF_vars(AgentCloses)

FairSpec == Spec /\ Fairness

-----------------------------------------------------------------------------
(* Properties *)

\* Every row, socket, entry and job of the relay holds a value of its type.
TypeOK ==
    /\ status \in {"absent"} \cup Open \cup Ended
    /\ connected \in BOOLEAN
    /\ phase \in {"none", "inserted", "ready"}
    /\ proto \in Kinds
    /\ opened \in BOOLEAN /\ closeCmd \in BOOLEAN /\ nack \in BOOLEAN /\ userActive \in BOOLEAN
    /\ tun \in Seq(Entry)
    /\ cur \in 0..Len(tun)
    /\ sock \in [Sockets -> SocketState]
    /\ home \in [Sockets -> 0..Len(tun)]
    /\ wired \in [Browsers -> SUBSET Agents]
    /\ marking \subseteq Agents
    /\ job \in [Jobs -> Job]
    /\ sent \in [Agents -> Nat]
    /\ out \in [Agents -> Seq(Nat)]
    /\ failed \in BOOLEAN
    /\ crashes \in Nat

\* What the user types reaches one agent at most: "a second agent is never
\* swapped in or bridged to the browser", whatever was authorized before, and
\* even when entries leave the map with their sockets still open.
OneAgentHears ==
    \A b \in Browsers : \A a1, a2 \in wired[b] :
        sock[a1] = "open" /\ sock[a2] = "open" => a1 = a2

\* What an agent sends before, while and after the browser attaches is handed over
\* once and in order: the frames handed to a browser, then those still in the
\* buffer, are the frames sent.
FramesInOrder ==
    \A a \in Agents :
        home[a] # 0 => out[a] \o tun[home[a]].buf[a] = [i \in 1..sent[a] |-> i]

\* An ended session is never open again, although the end, the agent's late
\* attachment, its failure, the timeout and the kill of its user write the row
\* without a common lock.
NeverReopened == [][(status \in Ended) => (status' \in Ended)]_vars

\* An active session has its agent: once the only agent that attached is gone, the
\* end of the session by whoever took the entry out of the map is under way,
\* whichever side closed first and whatever other ends failed.  Two things void it:
\* a crash, also the one an unhandled error of handleTunnelClose is, for nothing
\* ends a session whose relay was lost with the process; and a caught error of the
\* end that took the entry (closeSessionsForUser), for nothing repeats that end.
ActiveHasItsAgent ==
    \A a \in Agents :
        status = "active" /\ crashes = 0 /\ ~failed /\ sock[a] = "closed" /\ home[a] # 0
        /\ (\A x \in Agents \ {a} : home[x] = 0)
            => \E j \in Jobs : /\ job[j].by # "request"
                              /\ job[j].pc \in {"teardown", "read", "update"}

\* "Propagate close to the other side so neither end hangs as an orphan."
NeitherEndHangs ==
    \A a \in Agents, b \in Browsers :
        (a \in wired[b] /\ sock[a] = "closed") ~> (sock[b] = "closed" \/ crashes > 0)

=============================================================================
