------------------------------ MODULE AudioLine ------------------------------
(***************************************************************************)
(* The audio of one client over one peer connection that call after call   *)
(* reuses: WebRtcNegotiation with the SessionLeg that serialises its work, *)
(* the media leg that the bridge starts and stops beside that work, the    *)
(* offer/answer state of the connection (werift), and the client at the    *)
(* other end of the data channel, which is reliable and in order.          *)
(*                                                                         *)
(* An SDP is the number of its offer, the call id sent with it and the     *)
(* identity (SSRC, msid) it gives the server's sender.  Tracks and sender  *)
(* identities are drawn from one counter.  The coordinator is reduced to   *)
(* the intents it may issue to this leg, one at a time and none but the    *)
(* teardown of media while media is bridged; module PolySession is about   *)
(* their choice.                                                           *)
(***************************************************************************)
EXTENDS Naturals, Sequences

CONSTANTS Mids,       \* the mids under which the client offers its audio
          MaxOffers,  \* how many calls and restarts are ever offered
          MaxErrors   \* how many mapping errors werift reports

ASSUME AudioAssumption == Mids \subseteq Nat \ {0} /\ MaxOffers \in Nat /\ MaxErrors \in Nat

VARIABLES
  state,       \* SessionLeg.state
  pendingEnd,  \* SessionLeg._pendingEndOffer: the message that asked for the end
  chain,       \* SessionLeg._signalingChain: the operations not yet finished
  drain,       \* what the coordinator waits for
  bridged,     \* a media handle exists
  sig,         \* the peer connection's signaling state; have-local-offer is "ring"
               \* or "end", as the offer is the one or the other
  lines,       \* its audio transceivers
  local,       \* session.localAudioTrack, or 0
  held,        \* _pendingAnswerSdp
  lastAnswer,  \* session.lastAnswerSdp
  callId,      \* session._activeCallMeta.callId, or 0
  up, down,    \* the data channel, from and to the client
  client,      \* the client's side of the negotiation
  offers,      \* offers and rings so far
  minted,      \* tracks and identities so far
  errors,      \* mapping errors so far
  crossed      \* an offer of the client was refused, an answer of it was taken for
               \* that to another offer, or an operation has set a state although
               \* the state had changed since it was asked for

leg == <<state, pendingEnd>>
audio == <<lines, local, minted>>
sdps == <<held, lastAnswer, callId>>
count == <<offers, errors>>
vars == <<leg, chain, drain, bridged, sig, audio, sdps, up, down, client, count, crossed>>

OursOpen == sig \in {"ring", "end"}

NoSdp == [n |-> 0, call |-> 0, ssrc |-> 0]
NoMessage == [kind |-> "none", n |-> 0, call |-> 0]

Init ==
  /\ state = "connected" /\ pendingEnd = NoMessage
  /\ chain = <<>> /\ drain = "idle" /\ bridged = FALSE
  /\ sig = "stable" /\ lines = <<>> /\ local = 0
  /\ held = NoSdp /\ lastAnswer = NoSdp /\ callId = 0
  /\ up = <<>> /\ down = <<>>
  /\ client = [open |-> NoMessage, ring |-> NoSdp, inCall |-> FALSE, told |-> NoSdp]
  /\ offers = 0 /\ minted = 0 /\ errors = 0 /\ crossed = FALSE

-----------------------------------------------------------------------------
(* The audio transceivers.                                                 *)

New == minted + 1

\* The first line with a mid among ms (0 is a line without one), or the first
\* of all.
First(ls, ms) ==
  LET having == {i \in DOMAIN ls : ls[i].mid \in ms}
  IN IF having = {} THEN 1 ELSE CHOOSE i \in having : \A j \in having : i <= j

\* Mutant of Attached: the sender keeps its identity from call to call.
AttachedUnrotated(ls, k) ==
  IF ls = <<>> THEN <<[mid |-> 0, dir |-> "sendrecv", track |-> k, ssrc |-> k]>>
  ELSE [ls EXCEPT ![1] = [@ EXCEPT !.dir = "sendrecv", !.track = k]]

\* Mutant of Attached: every call adds a transceiver.
AttachedAnew(ls, k) ==
  Append([i \in DOMAIN ls |-> [ls[i] EXCEPT !.dir = "inactive"]],
         [mid |-> 0, dir |-> "sendrecv", track |-> k, ssrc |-> k])

\* _ensureAudioSenderOnExistingTransceiver: the fresh track k goes to the line
\* that has a mid, under a new identity; the others fall silent.
Attached(ls, k) ==
  IF ls = <<>> THEN <<[mid |-> 0, dir |-> "sendrecv", track |-> k, ssrc |-> k]>>
  ELSE LET preferred == First(ls, Nat \ {0})
       IN [i \in DOMAIN ls |->
             IF i = preferred
               THEN [ls[i] EXCEPT !.dir = "sendrecv", !.track = k, !.ssrc = k]
               ELSE [ls[i] EXCEPT !.dir = "inactive"]]

\* _repairAudioForOfferMid, after _alignTransceiversToOffer: the line is given
\* the offered mid.
Repaired(ls, k, mid) ==
  LET fresh == Attached(ls, k)
      taken == First(fresh, {mid})
      preferred == IF fresh[taken].mid = mid THEN taken
                   ELSE First(fresh, {0})
  IN [i \in DOMAIN fresh |->
        IF i = preferred
          THEN [fresh[i] EXCEPT !.mid = mid, !.dir = "sendrecv", !.track = k]
          ELSE [fresh[i] EXCEPT !.dir = "inactive"]]

\* setRemoteDescription of an offer: it takes the line with the mid or one that
\* has none yet; otherwise werift adds a line.
RemoteOffer(ls, mid) ==
  IF \E i \in DOMAIN ls : ls[i].mid \in {0, mid}
    THEN [ls EXCEPT ![First(ls, {0, mid})].mid = mid]
    ELSE Append(ls, [mid |-> mid, dir |-> "recvonly", track |-> 0, ssrc |-> 0])

\* createOffer gives a line without a mid the next one.
LocalOffer(ls) == [i \in DOMAIN ls |-> [ls[i] EXCEPT !.mid = IF @ = 0 THEN i ELSE @]]

\* WebRtcClientLeg.ensureOutputTrack: the first line sends the session's track;
\* a new track is made if there is none, under the identity the sender has.
EnsureOutputTrack(ls) ==
  IF ls = <<>> THEN lines' = ls /\ UNCHANGED <<local, minted>>
  ELSE /\ local' = IF local = 0 THEN New ELSE local
       /\ minted' = IF local = 0 THEN New ELSE minted
       /\ lines' = [ls EXCEPT ![1].dir = "sendrecv", ![1].track = local']

\* _setAudioInactive.  (werift's replaceTrack(null) does nothing.)
SetAudioInactive ==
  /\ lines' = IF lines = <<>> THEN lines ELSE [lines EXCEPT ![1].dir = "inactive"]
  /\ local' = IF lines = <<>> THEN local ELSE 0
  /\ UNCHANGED minted

\* The identity that a description with this mid gives the sender.
Identity(ls, mid) == ls[First(ls, {mid})].ssrc

\* _rememberCallMeta
Remember(call) == callId' = IF call # 0 THEN call ELSE callId

Message(kind, n, call, ssrc) == [kind |-> kind, n |-> n, call |-> call, ssrc |-> ssrc]
Send(m) == down' = Append(down, m)

-----------------------------------------------------------------------------
(* The chain of operations.  The first runs; those of the coordinator set   *)
(* it free again; an operation sets the state it leads to when it ends.     *)

Operation(do, m, then, own) ==
  [do |-> do, m |-> m, then |-> then, own |-> own, stale |-> FALSE, ssrc |-> 0]

\* The operations that wait or run when the state changes were asked for in
\* another (a fact of the model, of which the code keeps no record).
Aged(ops) ==
  IF state' = state THEN ops
  ELSE [k \in DOMAIN ops |-> [ops[k] EXCEPT !.stale = TRUE]]

Enqueue(op) == chain' = Append(Aged(chain), op)

Running(do) == chain # <<>> /\ Head(chain).do = do

\* The operation ends; `then' is "" when it sets no state.  It does not look at
\* what became of the state while it ran.
Complete(then) ==
  /\ state' = IF then = "" THEN state ELSE then
  /\ chain' = Aged(Tail(chain))
  /\ drain' = IF Head(chain).own THEN "idle" ELSE drain
  /\ pendingEnd' = IF Head(chain).do = "ackEnd" /\ then # "" THEN NoMessage ELSE pendingEnd

\* An answer completes an offer of ours that it does not belong to.
Amiss(m) == /\ m.kind \in {"answer", "endAnswer"} /\ OursOpen
            /\ (sig = "ring") # (m.kind = "answer") \/ m.call # callId

Finish(then) ==
  /\ Complete(then)
  /\ crossed' = \/ crossed
                \/ then # "" /\ Head(chain).stale
                \/ Amiss(Head(chain).m)

\* It stays the first, in another shape.
Become(op) ==
  /\ chain' = [chain EXCEPT ![1] = op]
  /\ UNCHANGED <<leg, drain>>

\* applyOffer, up to the end of setRemoteDescription.  The track is minted and
\* the identity rotated before werift is asked; it refuses an offer while an
\* offer of ours is open, and the handler of the message ends with the error.
ApplyOffer ==
  /\ Running("offer") \/ Running("restart")
  /\ LET op == Head(chain)
         mints == op.do = "offer"
         mine == IF mints THEN Attached(lines, New) ELSE lines
     IN /\ IF OursOpen
             THEN lines' = mine /\ crossed' = TRUE /\ Complete("") /\ UNCHANGED sig
             ELSE /\ sig' = "remote"
                  /\ lines' = RemoteOffer(mine, op.m.mid)
                  /\ Become([op EXCEPT !.do = IF mints THEN "answerOffer" ELSE "answerRestart"])
                  /\ UNCHANGED crossed
        /\ local' = IF mints THEN New ELSE local
        /\ minted' = IF mints THEN New ELSE minted
        /\ Remember(op.m.call)
  /\ UNCHANGED <<bridged, held, lastAnswer, up, down, client, offers, errors>>

\* werift fails to map the offer to its lines: they are aligned and repaired,
\* and the step is tried again.
Recover ==
  /\ errors < MaxErrors
  /\ \/ Running("restart") /\ ~ OursOpen
     \/ Running("answerOffer") \/ Running("answerRestart")
  /\ errors' = errors + 1
  /\ lines' = Repaired(lines, New, Head(chain).m.mid)
  /\ local' = New /\ minted' = New
  /\ UNCHANGED <<leg, chain, drain, bridged, sig, sdps, up, down, client, offers, crossed>>

\* Mutant of Hold: an answer that is held is not replaced.
HoldFirst(sdp) == held' = IF held = NoSdp THEN sdp ELSE held

\* The answer waits for the pickup.
Hold(sdp) == held' = sdp

\* The rest of applyOffer.  A fresh offer's answer is held; a restart is
\* answered at once.
AnswerOffer ==
  /\ Running("answerOffer")
  /\ EnsureOutputTrack(lines)
  /\ LET op == Head(chain)
         sdp == [n |-> op.m.n, call |-> op.m.call, ssrc |-> Identity(lines, op.m.mid)]
     IN Hold(sdp) /\ lastAnswer' = sdp /\ Finish(op.then)
  /\ sig' = "stable"
  /\ UNCHANGED <<bridged, callId, up, down, client, count>>

AnswerRestart ==
  /\ Running("answerRestart")
  /\ LET op == Head(chain)
         ssrc == Identity(lines, op.m.mid)
     IN /\ Send(Message("answer", op.m.n, callId, ssrc))
        /\ lastAnswer' = [n |-> op.m.n, call |-> op.m.call, ssrc |-> ssrc]
        /\ Finish(op.then)
  /\ sig' = "stable"
  /\ UNCHANGED <<bridged, audio, held, callId, up, client, count>>

\* Mutant of Ring: the offer is made before the sender has its new identity.
RingBeforeAttach ==
  /\ Running("ring")
  /\ LET op == Head(chain) IN
       /\ callId' = op.m.call
       /\ lines' = Attached(LocalOffer(lines), New)
       /\ Become([op EXCEPT !.do = "ringSend",
                           !.ssrc = IF lines = <<>> THEN New ELSE lines[1].ssrc])
  /\ local' = New /\ minted' = New
  /\ sig' = "ring"
  /\ UNCHANGED <<bridged, held, lastAnswer, up, down, client, count, crossed>>

\* _sendDataChannelRing, up to the gathering of candidates: a new call id, a
\* fresh track and identity, our offer is open.
Ring ==
  /\ Running("ring")
  /\ LET op == Head(chain) IN
       /\ callId' = op.m.call
       /\ lines' = LocalOffer(Attached(lines, New))
       /\ Become([op EXCEPT !.do = "ringSend", !.ssrc = New])
  /\ local' = New /\ minted' = New
  /\ sig' = "ring"
  /\ UNCHANGED <<bridged, held, lastAnswer, up, down, client, count, crossed>>

RingSend ==
  /\ Running("ringSend")
  /\ LET op == Head(chain)
     IN Send(Message("ring", op.m.n, callId, op.ssrc)) /\ Finish(op.then)
  /\ UNCHANGED <<bridged, sig, audio, sdps, up, client, count>>

\* applyAnswer: the client picked up.
ApplyAnswer ==
  /\ Running("answer")
  /\ Remember(Head(chain).m.call)
  /\ IF OursOpen THEN sig' = "stable" /\ Finish(Head(chain).then)
     ELSE Finish("") /\ UNCHANGED sig
  /\ UNCHANGED <<bridged, audio, held, lastAnswer, up, down, client, count>>

\* answer: the peer picked up, and the held answer goes out, or failing that
\* the last answer there was.
Flush ==
  /\ Running("flush")
  /\ LET sdp == IF held # NoSdp THEN held ELSE lastAnswer
     IN Send(Message("answer", sdp.n, callId, sdp.ssrc))
  /\ held' = NoSdp
  /\ Finish(Head(chain).then)
  /\ UNCHANGED <<bridged, sig, audio, lastAnswer, callId, up, client, count>>

\* _answerEndCallOffer
AnswerEnd(m, then) ==
  IF OursOpen THEN Finish("") /\ UNCHANGED <<sig, audio, down>>
  ELSE /\ sig' = "stable"
       /\ SetAudioInactive
       /\ Send(Message("endAnswer", m.n, callId', 0))
       /\ Finish(then)

\* ackEnd: the client's end offer, if it came with one, is answered.
AckEnd ==
  /\ Running("ackEnd")
  /\ Remember(Head(chain).m.call)
  /\ IF Head(chain).m.kind = "bye"
       THEN Finish("connected") /\ UNCHANGED <<sig, audio, down>>
       ELSE AnswerEnd(Head(chain).m, "connected")
  /\ UNCHANGED <<bridged, held, lastAnswer, up, client, count>>

\* endCall, started by us: audio off, and an inactive offer.
EndOffer ==
  /\ Running("end")
  /\ SetAudioInactive
  /\ sig' = "end"
  /\ Send(Message("endOffer", 0, callId, 0))
  /\ Finish(Head(chain).then)
  /\ UNCHANGED <<bridged, sdps, up, client, count>>

\* endCall with mode "remote": the client's answer completes our end; its offer
\* is answered; a bare end has nothing to negotiate.
EndRemote ==
  /\ Running("endRemote")
  /\ LET op == Head(chain) IN
       /\ Remember(op.m.call)
       /\ CASE op.m.kind \in {"answer", "endAnswer"} ->
                 IF OursOpen
                   THEN /\ sig' = "stable"
                        /\ Send(Message("end", 0, callId', 0))
                        /\ Finish(op.then) /\ UNCHANGED audio
                   ELSE Finish("") /\ UNCHANGED <<sig, audio, down>>
            [] op.m.kind = "endOffer" -> AnswerEnd(op.m, op.then)
            [] OTHER -> Finish(op.then) /\ UNCHANGED <<sig, audio, down>>
  /\ UNCHANGED <<bridged, held, lastAnswer, up, client, count>>

Run == \/ ApplyOffer \/ Recover \/ AnswerOffer \/ AnswerRestart \/ Ring \/ RingSend
       \/ ApplyAnswer \/ Flush \/ AckEnd \/ EndOffer \/ EndRemote

-----------------------------------------------------------------------------
(* SessionLeg.handleIngress: the state decides what a message means, and its *)
(* operation joins the chain.                                               *)

Ingress(do, m, then) == UNCHANGED leg /\ Enqueue(Operation(do, m, then, FALSE))

OnOffer(m) ==
  IF state = "inCall" THEN Ingress("restart", m, "")
  ELSE Ingress("offer", m, IF state = "ringing" THEN "" ELSE "calling")

OnAnswer(m) ==
  IF state = "ending" THEN Ingress("endRemote", m, "connected")
  ELSE IF state \in {"connected", "calling", "ringing", "answering"}
    THEN Ingress("answer", m, "inCall")
  ELSE UNCHANGED <<leg, chain>>

\* Mutant of OnEnd: an answer that completes our end is absorbed like a stray.
OnEndAbsorbs(m) ==
  IF \/ m.kind = "endAnswer" /\ state \in {"calling", "ringing", "answering"}
     \/ state \in {"ending", "endRequested", "connected", "rejected"}
    THEN Ingress("endRemote", m, "")
  ELSE /\ state' = "endRequested" /\ pendingEnd' = m
       /\ chain' = Aged(chain)

OnEnd(m) ==
  IF m.kind = "endAnswer" /\ state = "ending" THEN Ingress("endRemote", m, "connected")
  ELSE IF \/ m.kind = "endAnswer" /\ state \in {"calling", "ringing", "answering"}
          \/ state \in {"ending", "endRequested", "connected", "rejected"}
    THEN Ingress("endRemote", m, "")
  ELSE /\ state' = "endRequested" /\ pendingEnd' = m
       /\ chain' = Aged(chain)

Deliver ==
  /\ up # <<>>
  /\ up' = Tail(up)
  /\ LET m == Head(up)
     IN CASE m.kind = "offer" -> OnOffer(m)
          [] m.kind = "answer" -> OnAnswer(m)
          [] OTHER -> OnEnd(m)
  /\ UNCHANGED <<drain, bridged, sig, audio, sdps, down, client, count, crossed>>

-----------------------------------------------------------------------------
(* The coordinator: one action at a time, teardown of media before others.  *)

Intent(do, m, now, then) ==
  /\ drain \in {"idle", "stopped"} /\ ~ bridged
  /\ drain' = "operation"
  /\ state' = now
  /\ Enqueue(Operation(do, m, then, TRUE))
  /\ UNCHANGED <<pendingEnd, bridged, sig, audio, sdps, up, down, client, errors, crossed>>

IntendRing ==
  /\ state \in {"connected", "rejected"}
  /\ offers < MaxOffers
  /\ offers' = offers + 1
  /\ Intent("ring", [kind |-> "ring", n |-> offers', call |-> offers'], "ringing", "")

IntendAnswer ==
  state = "calling" /\ Intent("flush", NoMessage, "answering", "inCall") /\ UNCHANGED offers

IntendAckEnd ==
  state = "endRequested" /\ Intent("ackEnd", pendingEnd, state, "connected") /\ UNCHANGED offers

IntendEnd ==
  /\ state \in {"calling", "ringing", "answering", "inCall"}
  /\ Intent("end", NoMessage, "ending", "") /\ UNCHANGED offers

\* MediaBridge.start of this side.
Bridge ==
  /\ drain = "idle" /\ state = "inCall" /\ ~ bridged
  /\ bridged' = TRUE
  /\ EnsureOutputTrack(lines)
  /\ UNCHANGED <<leg, chain, drain, sig, sdps, up, down, client, count, crossed>>

\* WebRtcClientLeg.stop, around the await of replaceTrack.  A leg that is still
\* in the call then is one whose peer left it: it is ended before it is bridged
\* again.
Unbridge ==
  /\ drain = "idle" /\ bridged
  /\ bridged' = FALSE /\ drain' = "stopping"
  /\ lines' = [lines EXCEPT ![1].dir = "inactive"]
  /\ UNCHANGED <<leg, chain, sig, local, minted, sdps, up, down, client, count, crossed>>

Unbridged ==
  /\ drain = "stopping"
  /\ drain' = "stopped" /\ local' = 0
  /\ UNCHANGED <<leg, chain, bridged, sig, lines, minted, sdps, up, down, client, count, crossed>>

Coordinate == \/ IntendRing \/ IntendAnswer \/ IntendAckEnd \/ IntendEnd
              \/ Bridge \/ Unbridge \/ Unbridged

-----------------------------------------------------------------------------
(* The client.  It takes back an offer of its own when one of ours arrives: *)
(* it has to, because a held answer leaves its offer open when a call ends  *)
(* before the pickup.                                                       *)

server == <<leg, chain, drain, bridged, sig, audio, sdps>>
Utter(ms) == up' = up \o ms /\ UNCHANGED <<server, down, errors, crossed>>
Speak(kind, n, call) == [kind |-> kind, n |-> n, call |-> call]

\* It places a call, or restarts the connection of the one it is in.
ClientOffers(mid) ==
  /\ client.open = NoMessage /\ client.ring = NoSdp /\ offers < MaxOffers
  /\ offers' = offers + 1
  /\ LET m == Speak("offer", offers', IF client.inCall THEN client.told.call ELSE offers')
     IN /\ client' = [client EXCEPT !.open = m]
        /\ Utter(<<[kind |-> m.kind, n |-> m.n, call |-> m.call, mid |-> mid]>>)

\* It hangs up, with or without a bare end before the offer.
ClientHangsUp ==
  /\ client.inCall \/ client.open.kind = "offer"
  /\ LET call == IF client.inCall THEN client.told.call ELSE client.open.call
         m == Speak("endOffer", 0, call)
     IN /\ client' = [client EXCEPT !.open = m, !.inCall = FALSE]
        /\ \/ Utter(<<m>>)
           \/ Utter(<<Speak("bye", 0, call), m>>)
  /\ UNCHANGED offers

ClientPicksUp ==
  /\ client.ring # NoSdp
  /\ client' = [client EXCEPT !.ring = NoSdp, !.inCall = TRUE, !.told = client.ring]
  /\ Utter(<<Speak("answer", client.ring.n, client.ring.call)>>)
  /\ UNCHANGED offers

\* It declines over HTTP (LEG_EVENTS.REJECT).
ClientDeclines ==
  /\ client.ring # NoSdp /\ state = "ringing"
  /\ client' = [client EXCEPT !.ring = NoSdp]
  /\ state' = "rejecting"
  /\ Enqueue(Operation("end", NoMessage, "rejected", FALSE))
  /\ UNCHANGED <<pendingEnd, drain, bridged, sig, audio, sdps, up, down, count, crossed>>

ClientHears ==
  /\ down # <<>>
  /\ down' = Tail(down)
  /\ LET m == Head(down)
         sdp == [n |-> m.n, call |-> m.call, ssrc |-> m.ssrc]
         idle == [client EXCEPT !.open = NoMessage, !.ring = NoSdp, !.inCall = FALSE]
     IN /\ client' =
             CASE m.kind = "ring" -> [idle EXCEPT !.ring = sdp]
               [] m.kind = "answer" /\ client.open = Speak("offer", m.n, m.call) ->
                    [idle EXCEPT !.inCall = TRUE, !.told = sdp]
               [] m.kind = "endOffer" -> idle
               [] m.kind = "endAnswer" /\ client.open.kind = "endOffer" ->
                    [client EXCEPT !.open = NoMessage]
               [] OTHER -> client
        /\ up' = IF m.kind = "endOffer"
                   THEN Append(up, Speak("endAnswer", 0, m.call)) ELSE up
  /\ UNCHANGED <<server, count, crossed>>

Client == \/ \E mid \in Mids : ClientOffers(mid)
          \/ ClientHangsUp \/ ClientPicksUp \/ ClientDeclines \/ ClientHears

-----------------------------------------------------------------------------
Next == Run \/ Deliver \/ Coordinate \/ Client

\* Promises settle, the channel delivers, and the coordinator drains what a
\* change of state made due.
Fairness == /\ WF_vars(Run) /\ WF_vars(Deliver) /\ WF_vars(ClientHears)
            /\ WF_vars(IntendAckEnd) /\ WF_vars(Unbridged)
            /\ WF_vars(state # "inCall" /\ Unbridge)

Spec == Init /\ [][Next]_vars /\ Fairness

-----------------------------------------------------------------------------
Quiet == chain = <<>> /\ up = <<>> /\ down = <<>>

\* However many calls, restarts and repairs the connection has seen, the client
\* is shown one audio line ("Never grow the audio m-line count beside an
\* existing mid", WebRtcNegotiation.js).
OneAudioLine == Len(lines) <= 1

\* A call that rings the client comes under another identity than the call it was
\* last in, and than the ring before it, whatever has crossed, failed or been
\* repaired since (WebRtcNegotiation._sendDataChannelRing).
RingIsFresh ==
  /\ client.ring # NoSdp => client.ring.ssrc # client.told.ssrc
  /\ \A i \in DOMAIN down :
       down[i].kind = "ring" => down[i].ssrc \notin {client.told.ssrc, client.ring.ssrc}

\* A new call is never described to the client under the identity of the last
\* one it was in: such audio is received and not played
\* (WebRtcNegotiation._rotateAudioSenderIdentity).  Of answers this is promised
\* where nothing crossed.
FreshIdentity ==
  /\ RingIsFresh
  /\ ~ crossed => \A i \in DOMAIN down :
       down[i].kind = "answer" /\ down[i].call # client.told.call
         => down[i].ssrc # client.told.ssrc

\* What reaches the client under the call of its open offer answers that offer,
\* not one of an earlier call that ended before it was picked up.
AnswerFits ==
  ~ crossed => \A i \in DOMAIN down :
    down[i].kind = "answer" /\ client.open.kind = "offer" /\ down[i].call = client.open.call
      => down[i].n = client.open.n

\* When media is bridged and nothing is under way, the server sends the
\* session's track under the identity the client was last told, unless offers
\* crossed since.
Described ==
  bridged /\ state = "inCall" /\ Quiet /\ client.inCall /\ client.open = NoMessage
    => /\ lines[1].ssrc = client.told.ssrc
       /\ lines[1].track = local /\ lines[1].dir = "sendrecv"

BridgedIsDescribed == ~ crossed => Described

\* An end that the server has begun is over some time, whatever crosses it.
EndingSettles == state = "ending" ~> state # "ending"

\* "Glare guard: if this leg is already being presented as the callee, accept
\* the fresh SDP but keep RINGING" (SessionLeg.js).  It does not hold:
\* glare.cfg.
GlareIsAccepted ==
  [][state = "ringing" /\ Running("offer") /\ ~ Running("offer")' => sig' = "remote"]_vars

==============================================================================
