----------------------------- MODULE PluginClient -----------------------------
(***************************************************************************)
(* The host's side of an out-of-process plugin                             *)
(* (packages/plugin-host/src/host.ts) over the frame decoder of            *)
(* packages/schemas/src/plugin/protocol.ts.                                *)
(*                                                                         *)
(* The plugin is any process: it answers what it was asked, or something   *)
(* else, or nothing, writes frames that do not parse, ignores signals and  *)
(* dies when it likes.  Every frame is a header and a payload, in that     *)
(* order in the pipe, and a data event delivers any number of them: the    *)
(* tokens 1..received have reached the decoder, those after parsed are in  *)
(* its buffer, the rest of frames is in the pipe.                          *)
(***************************************************************************)
EXTENDS PluginCompatibility, FiniteSets, Sequences

CONSTANTS
  Calls,      \* the calls of executeCapability
  Manifests,  \* the manifests that are found
  Large,      \* those whose payload may be too large for a frame
  MaxFrames   \* bound: how many frames the plugin writes

ASSUME PluginAssumption ==
  /\ MaxFrames \in Nat
  /\ Calls \cap {"handshake", "shutdown"} = {}

Ids == Calls \cup {"handshake", "shutdown"}

\* "event" is a diagnostic_event that carries the id of a request; the id of a
\* frame that does not parse means nothing.
Frame == [kind : {"response"}, id : Ids] \cup [kind : {"event"}, id : Ids \ {"shutdown"}]
           \cup [kind : {"refusal", "malformed", "oversized"}, id : {"handshake"}]

VARIABLES
  client,     \* what spawnPlugin has come to: "none", "handshaking", "ready" or "rejected"
  request,    \* each request: "idle", "pending" (in pendingRequests), "answered" or "failed"
  isAlive,    \* PluginClient.isAlive
  killed,     \* ChildProcess.killed
  killTimer,  \* the timer that kill starts
  sent,       \* what the host has written to stdin
  hostUp,     \* the host process runs
  plugin,     \* the plugin process: "running" or "exited"
  exitSeen,   \* the exit event was handled
  signals,    \* the signals the plugin got
  frames,     \* what the plugin has written to stdout
  received,   \* how many tokens of it the decoder has got
  parsed,     \* how many of those it has taken off its buffer
  delivered   \* the messages it has returned

processVars == <<plugin, exitSeen, signals>>
streamVars  == <<frames, received, parsed, delivered>>
callVars    == <<client, request, isAlive, killed, killTimer, sent>>
pluginVars  == <<callVars, hostUp, processVars, streamVars>>

PluginTypeOK ==
  /\ client \in {"none", "handshaking", "ready", "rejected"}
  /\ request \in [Ids -> {"idle", "pending", "answered", "failed"}]
  /\ {isAlive, killed, killTimer, hostUp, exitSeen} \subseteq BOOLEAN
  /\ sent \subseteq [type : {"request", "cancel"}, id : Ids]
  /\ plugin \in {"running", "exited"}
  /\ signals \subseteq {"SIGTERM", "SIGKILL"}
  /\ frames \in Seq(Frame) /\ delivered \in Seq(Frame)
  /\ received \in 0..(2 * Len(frames)) /\ parsed \in 0..received

PluginInit ==
  /\ client = "none" /\ request = [id \in Ids |-> "idle"]
  /\ isAlive = TRUE /\ killed = FALSE /\ killTimer = FALSE
  /\ sent = {} /\ hostUp = TRUE
  /\ plugin = "running" /\ exitSeen = FALSE /\ signals = {}
  /\ frames = <<>> /\ received = 0 /\ parsed = 0 /\ delivered = <<>>

Pending == {id \in Ids : request[id] = "pending"}

-----------------------------------------------------------------------------
(* PluginFrameDecoder.push                                                   *)

\* A payload that is read as a header (after a reset in the middle of a frame)
\* starts with the bytes of "{", which is more than any length allowed.
TooLarge(t) == t % 2 = 0 \/ frames[(t + 1) \div 2].kind = "oversized"

Malformed(t) == frames[(t + 1) \div 2].kind = "malformed"

\* (mutant: decodes a payload that has not arrived)
LoopEndsTooLate(t, upTo) == t > upTo \/ TooLarge(t) \/ Malformed(t)

\* (mutant: a frame that ends with the buffer is taken for unfinished)
LoopEndsTooEarly(t, upTo) == LoopEndsTooLate(t, upTo) \/ t + 2 > upTo

\* The loop ends at token t: too little is buffered, or the frame is bad.
LoopEnds(t, upTo) ==
  \/ t > upTo
  \/ TooLarge(t)
  \/ t + 1 > upTo
  \/ Malformed(t)

LoopEnd(upTo) ==
  CHOOSE t \in (parsed + 1)..(upTo + 2) :
    /\ (t - parsed) % 2 = 1
    /\ LoopEnds(t, upTo)
    /\ \A u \in (parsed + 1)..(t - 1) : (u - parsed) % 2 = 1 => ~LoopEnds(u, upTo)

\* What a push returns when upTo tokens have arrived: the messages, how far the
\* buffer is consumed, and whether it throws (and loses the messages).
Decoded(upTo) ==
  LET t == LoopEnd(upTo)
      oversized == t <= upTo /\ TooLarge(t)
      malformed == ~oversized /\ t + 1 <= upTo
  IN  [throws   |-> oversized \/ malformed,
       parsed   |-> IF oversized THEN upTo ELSE IF malformed THEN t + 1 ELSE t - 1,
       messages |-> SubSeq(frames, (parsed + 2) \div 2, (t - 1) \div 2)]

-----------------------------------------------------------------------------
(* Settling requests.  What follows an await runs before the next event, so  *)
(* the cancellation of a failed call, the end of shutdown and the end of     *)
(* spawnPlugin are part of the step that settles the request.                *)

\* Nobody listens for errors of stdin: a write that finds no reader any more,
\* before the exit event has destroyed stdin, may end the host.
Write(messages) ==
  /\ sent' = sent \cup messages
  /\ IF messages # {} /\ plugin = "exited" THEN hostUp' \in BOOLEAN ELSE UNCHANGED hostUp

KillEffect(wanted) ==
  /\ killed' = (killed \/ (wanted /\ ~exitSeen))
  /\ signals' = IF wanted /\ ~killed /\ ~exitSeen THEN signals \cup {"SIGTERM"} ELSE signals
  /\ killTimer' = (killTimer \/ (wanted /\ ~killed))

\* result: how each of some requests ends: "answered", or why it fails.
Cancellable(result) ==
  {id \in DOMAIN result \cap Calls : result[id] \in {"timeout", "fatal", "unsent"}}

\* (mutant: only a refusal rejects)
ClientAfterAny(result) ==
  IF "handshake" \notin DOMAIN result THEN client
  ELSE IF result["handshake"] = "refused" THEN "rejected" ELSE "ready"

ClientAfter(result) ==
  IF "handshake" \notin DOMAIN result THEN client
  ELSE IF result["handshake"] = "answered" THEN "ready" ELSE "rejected"

\* live: isAlive before a kill of this step.  A cancellation and the kill of
\* shutdown that follow from one fatal error run in either order.  When the
\* handshake is not refused but fails, spawnPlugin throws and kills nothing.
Settle(result, live) ==
  LET kills == \/ "shutdown" \in DOMAIN result
               \/ "handshake" \in DOMAIN result /\ result["handshake"] = "refused"
  IN  /\ request' = [id \in Ids |-> IF id \notin DOMAIN result THEN request[id]
                                    ELSE IF result[id] = "answered" THEN "answered"
                                    ELSE "failed"]
      /\ client' = ClientAfter(result)
      /\ \E ids \in IF kills THEN SUBSET Cancellable(result) ELSE {Cancellable(result)} :
           Write(IF live THEN [type : {"cancel"}, id : ids] ELSE {})
      /\ isAlive' = (live /\ ~kills)
      /\ KillEffect(kills)

\* (mutant: forgets the handshake and the shutdown)
FailCalls == [id \in Pending \cap Calls |-> "fatal"]

FailAll == [id \in Pending |-> "fatal"]

\* handleIncomingMessage for each message: the first one with the id of a
\* pending request settles it, whatever its type; others are dropped.
Resolved(messages) ==
  LET first(id) == CHOOSE i \in DOMAIN messages :
                     messages[i].id = id /\ \A j \in 1..(i - 1) : messages[j].id # id
      settled == {id \in Pending : \E i \in DOMAIN messages : messages[i].id = id}
  IN  [id \in settled |-> CASE messages[first(id)].kind = "response" -> "answered"
                            [] messages[first(id)].kind = "refusal"  -> "refused"
                            [] OTHER                                 -> "unexpected"]

-----------------------------------------------------------------------------
(* The host.                                                                *)

\* (mutant: does not ask isAlive)
SendAnyway(id, fits) ==
  /\ fits
  /\ request' = [request EXCEPT ![id] = "pending"]
  /\ Write({[type |-> "request", id |-> id]})
  /\ UNCHANGED <<isAlive, killed, killTimer, signals>>

\* sendRequest: registers the request, then writes it; what throws in between
\* settles it again.  fits: the frame can be encoded.
SendRequest(id, fits) ==
  IF isAlive /\ fits
  THEN /\ request' = [request EXCEPT ![id] = "pending"]
       /\ Write({[type |-> "request", id |-> id]})
       /\ UNCHANGED <<isAlive, killed, killTimer, signals>>
  ELSE Settle([i \in {id} |-> "unsent"], isAlive)

Spawn ==
  /\ hostUp /\ client = "none"
  /\ \E m \in Manifests :
       IF Compatible(m)
       THEN client' = "handshaking" /\ SendRequest("handshake", TRUE)
       ELSE client' = "rejected" /\ UNCHANGED <<request, sent, hostUp, isAlive, killed,
                                                killTimer, signals>>
  /\ UNCHANGED <<plugin, exitSeen, streamVars>>

Execute(c) ==
  /\ hostUp /\ client = "ready" /\ request[c] = "idle"
  /\ \E fits \in {TRUE, c \notin Large} : SendRequest(c, fits)
  /\ UNCHANGED <<client, plugin, exitSeen, streamVars>>

\* The capability is not in the manifest.
ExecuteUndeclared(c) ==
  /\ hostUp /\ client = "ready" /\ request[c] = "idle"
  /\ request' = [request EXCEPT ![c] = "failed"]
  /\ UNCHANGED <<client, isAlive, killed, killTimer, sent, hostUp, processVars,
                 streamVars>>

Shutdown ==
  /\ hostUp /\ client = "ready" /\ isAlive /\ request["shutdown"] = "idle"
  /\ SendRequest("shutdown", TRUE)
  /\ UNCHANGED <<client, plugin, exitSeen, streamVars>>

\* Whoever holds the client may kill it at any time.
Kill ==
  /\ hostUp /\ client = "ready" /\ isAlive
  /\ isAlive' = FALSE
  /\ KillEffect(TRUE)
  /\ UNCHANGED <<client, request, sent, hostUp, plugin, exitSeen, streamVars>>

\* The timer of kill: the second signal goes out unless killed is set, which
\* the first signal did.
KillTimer ==
  /\ hostUp /\ killTimer
  /\ killTimer' = FALSE
  /\ killed' = (killed \/ ~exitSeen)
  /\ signals' = IF ~killed /\ ~exitSeen THEN signals \cup {"SIGKILL"} ELSE signals
  /\ UNCHANGED <<client, request, isAlive, sent, hostUp, plugin, exitSeen, streamVars>>

\* (mutant: only capability calls have a timer)
TimeoutOfCall(id) ==
  /\ hostUp /\ id \in Pending \cap Calls
  /\ Settle([i \in {id} |-> "timeout"], isAlive)
  /\ UNCHANGED <<plugin, exitSeen, streamVars>>

Timeout(id) ==
  /\ hostUp /\ id \in Pending
  /\ Settle([i \in {id} |-> "timeout"], isAlive)
  /\ UNCHANGED <<plugin, exitSeen, streamVars>>

\* A data event with everything up to token upTo.
Data(upTo) ==
  LET d == Decoded(upTo)
  IN  /\ hostUp /\ upTo > received
      /\ received' = upTo
      /\ parsed' = d.parsed
      /\ IF d.throws
         THEN Settle(FailAll, isAlive) /\ UNCHANGED delivered
         ELSE Settle(Resolved(d.messages), isAlive) /\ delivered' = delivered \o d.messages
      /\ UNCHANGED <<plugin, exitSeen, frames>>

\* The exit event, and the error event of a process that could not be started.
ExitEvent ==
  /\ hostUp /\ plugin = "exited" /\ ~exitSeen
  /\ exitSeen' = TRUE
  /\ Settle(FailAll, FALSE)
  /\ UNCHANGED <<plugin, streamVars>>

-----------------------------------------------------------------------------
(* The plugin.                                                              *)

WriteFrame(frame) ==
  /\ hostUp /\ plugin = "running" /\ client # "none" /\ Len(frames) < MaxFrames
  /\ [type |-> "request", id |-> frame.id] \in sent
  /\ frames' = Append(frames, frame)
  /\ UNCHANGED <<callVars, hostUp, processVars, received, parsed, delivered>>

Exit ==
  /\ hostUp /\ plugin = "running" /\ client # "none"
  /\ plugin' = "exited"
  /\ UNCHANGED <<callVars, hostUp, exitSeen, signals, streamVars>>

PluginNext ==
  \/ Spawn \/ Shutdown \/ Kill \/ KillTimer \/ ExitEvent \/ Exit
  \/ \E c \in Calls : Execute(c) \/ ExecuteUndeclared(c)
  \/ \E id \in Ids : Timeout(id)
  \/ \E upTo \in 1..(2 * Len(frames)) : Data(upTo)
  \/ \E frame \in Frame : WriteFrame(frame)

\* Timers fire and the exit of a child is reported; a plugin that was sent
\* SIGKILL exits, whatever it does about other signals.
PluginFairness ==
  /\ \A id \in Ids : WF_pluginVars(Timeout(id))
  /\ WF_pluginVars(KillTimer)
  /\ WF_pluginVars(ExitEvent)
  /\ WF_pluginVars("SIGKILL" \in signals /\ Exit)

PluginSpec == PluginInit /\ [][PluginNext]_pluginVars /\ PluginFairness

-----------------------------------------------------------------------------
(* Properties.                                                              *)

\* What the decoder makes of a stream without bad frames does not depend on
\* how the pipe cuts it: the messages are the frames in their order, and no
\* frame that has arrived whole waits in the buffer
\* (PluginFrameDecoder.push).
FramesSurviveChunking ==
  (\A i \in DOMAIN frames : frames[i].kind \notin {"malformed", "oversized"}) =>
    delivered = SubSeq(frames, 1, received \div 2)

\* A call that succeeds got an answer to itself that the plugin wrote after
\* the call had reached it, and a client is handed out only for a plugin that
\* accepted its handshake (handleIncomingMessage, spawnPlugin).
AnswersAreGenuine ==
  /\ \A id \in Ids : request[id] = "answered" =>
       /\ [type |-> "request", id |-> id] \in sent
       /\ \E i \in DOMAIN delivered : delivered[i] = [kind |-> "response", id |-> id]
  /\ client = "ready" =>
       [kind |-> "response", id |-> "handshake"] \in {delivered[i] : i \in DOMAIN delivered}
  /\ \A s \in sent : s.id # "handshake" => client = "ready"

\* Once the host knows that the plugin has exited nothing waits for it: every
\* request is settled and none is registered any more (the exit handler,
\* handleFatalError, sendFrame).
NothingWaitsForTheDead == exitSeen => Pending = {}

\* After kill nothing is written to the plugin (sendFrame).
SilentAfterKill == [][~isAlive => UNCHANGED <<sent, isAlive>>]_pluginVars

\* Every request settles, whatever the plugin does, as long as the host runs:
\* none is made twice, so nothing stays pending (the timer of sendRequest).
RequestsSettle == Pending # {} ~> (Pending = {} \/ ~hostUp)

=============================================================================
