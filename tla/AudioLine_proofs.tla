---------------------------- MODULE AudioLine_proofs ----------------------------
(***************************************************************************)
(* The audio lines of a connection that call after call reuses.  Whatever  *)
(* is offered, repaired or ended in whatever order, the client is shown    *)
(* one, provided it offers its audio under the mid that our own offers     *)
(* give the line: WebRtcNegotiation reuses a line by its mid alone.  And   *)
(* whatever crosses, a call that rings it has an identity of its own.      *)
(***************************************************************************)
EXTENDS AudioLine, SequenceTheorems, TLAPS

\* The client offers under the mid that createOffer gives the first line.
OneMid == Mids \subseteq {1}

-----------------------------------------------------------------------------
(* The kinds of what is said and done.                                     *)

State == {"connected", "calling", "ringing", "answering", "inCall", "ending",
          "endRequested", "rejecting", "rejected"}

Offer == [kind : {"offer"}, n : Nat, call : Nat, mid : {1}]

Word == [kind : {"none", "ring", "answer", "endAnswer", "endOffer", "bye"},
         n : Nat, call : Nat]

Told == [kind : {"ring", "answer", "endAnswer", "endOffer", "end"},
         n : Nat, call : Nat, ssrc : Nat]

Sdp == [n : Nat, call : Nat, ssrc : Nat]

ClientState ==
  [open : [kind : {"none", "offer", "endOffer"}, n : Nat, call : Nat],
   ring : Sdp, inCall : BOOLEAN, told : Sdp]

\* The operations of which only the offers of the client can be the subject.
OfferDo == {"offer", "restart", "answerOffer", "answerRestart"}

OtherDo == {"ring", "ringSend", "answer", "flush", "ackEnd", "end", "endRemote"}

OfferOp == [do : OfferDo, m : Offer, then : State \cup {""}, own : BOOLEAN,
            stale : BOOLEAN, ssrc : Nat]

OtherOp == [do : OtherDo, m : Word, then : State \cup {""}, own : BOOLEAN,
            stale : BOOLEAN, ssrc : Nat]

Op == OfferOp \cup OtherOp

Line == [mid : {0, 1}, dir : {"sendrecv", "recvonly", "inactive"}, track : Nat, ssrc : Nat]

\* No line, or one, under no mid yet or under the first.
AtMostOne == {<<>>} \cup {<<x>> : x \in Line}

Types ==
  /\ state \in State /\ pendingEnd \in Word
  /\ chain \in Seq(Op)
  /\ lines \in AtMostOne /\ {local, minted, callId, offers} \subseteq Nat
  /\ held \in Sdp /\ lastAnswer \in Sdp
  /\ up \in Seq(Offer \cup Word) /\ down \in Seq(Told)
  /\ client \in ClientState

\* An offer that is being answered has its line.
LineThere ==
  \A k \in DOMAIN chain : chain[k].do \in {"answerOffer", "answerRestart"} => lines # <<>>

LineInv == Types /\ LineThere

-----------------------------------------------------------------------------
(* The lines.                                                              *)

LEMMA OneOf ==
  ASSUME NEW ls \in AtMostOne, ls # <<>>
  PROVE  /\ DOMAIN ls = {1} /\ ls[1] \in Line /\ Len(ls) = 1
         /\ ls \in Seq(Line)
<1>1. PICK x \in Line : ls = <<x>> BY DEF AtMostOne
<1> QED BY <1>1

\* What keeps the places of a line keeps it one.
LEMMA Mapped ==
  ASSUME NEW ls \in AtMostOne, ls # <<>>, NEW f, f = [i \in DOMAIN ls |-> f[i]],
         f[1] \in Line
  PROVE  f \in AtMostOne /\ f # <<>>
<1>1. DOMAIN ls = 1 .. 1 BY OneOf
<1>2. f = <<f[1]>> BY <1>1
<1> QED BY <1>2 DEF AtMostOne

\* Whatever is sought, it is the one line that is found.
LEMMA FirstIsOne ==
  ASSUME NEW ls \in AtMostOne, ls # <<>>, NEW ms
  PROVE  First(ls, ms) = 1
<1> DEFINE having == {i \in DOMAIN ls : ls[i].mid \in ms}
<1>1. having \subseteq {1} BY OneOf
<1>2. CASE having = {} BY <1>2 DEF First
<1>3. CASE having = {1}
  <2>1. (CHOOSE i \in {1} : \A j \in {1} : i <= j) = 1 OBVIOUS
  <2>2. First(ls, ms) = IF having = {} THEN 1
                        ELSE CHOOSE i \in having : \A j \in having : i <= j
    BY DEF First
  <2> QED BY <1>3, <2>1, <2>2
<1> QED BY <1>1, <1>2, <1>3

LEMMA AttachedOne ==
  ASSUME NEW ls \in AtMostOne, NEW k \in Nat
  PROVE  Attached(ls, k) \in AtMostOne /\ Attached(ls, k) # <<>>
<1>1. CASE ls = <<>>
  <2>1. [mid |-> 0, dir |-> "sendrecv", track |-> k, ssrc |-> k] \in Line BY DEF Line
  <2> QED BY <1>1, <2>1 DEF Attached, AtMostOne
<1>2. CASE ls # <<>>
  <2> DEFINE f == Attached(ls, k)
  <2>1. f = [i \in DOMAIN ls |->
               IF i = 1 THEN [ls[i] EXCEPT !.dir = "sendrecv", !.track = k, !.ssrc = k]
               ELSE [ls[i] EXCEPT !.dir = "inactive"]]
    BY <1>2, FirstIsOne DEF Attached
  <2>2. f[1] = [ls[1] EXCEPT !.dir = "sendrecv", !.track = k, !.ssrc = k]
    BY <1>2, <2>1, OneOf
  <2>3. f[1] \in Line BY <1>2, <2>2, OneOf DEF Line
  <2>4. f = [i \in DOMAIN ls |-> f[i]] BY <2>1
  <2> HIDE DEF f
  <2> QED BY <1>2, <2>3, <2>4, Mapped DEF f
<1> QED BY <1>1, <1>2

LEMMA RepairedOne ==
  ASSUME NEW ls \in AtMostOne, NEW k \in Nat
  PROVE  Repaired(ls, k, 1) \in AtMostOne /\ Repaired(ls, k, 1) # <<>>
<1> DEFINE fresh == Attached(ls, k)
           f == Repaired(ls, k, 1)
<1>1. fresh \in AtMostOne /\ fresh # <<>> BY AttachedOne
<1> HIDE DEF fresh
<1>2. f = [i \in DOMAIN fresh |->
             IF i = 1 THEN [fresh[i] EXCEPT !.mid = 1, !.dir = "sendrecv", !.track = k]
             ELSE [fresh[i] EXCEPT !.dir = "inactive"]]
  BY <1>1, FirstIsOne DEF Repaired, fresh
<1>3. f[1] = [fresh[1] EXCEPT !.mid = 1, !.dir = "sendrecv", !.track = k]
  BY <1>1, <1>2, OneOf
<1>4. f[1] \in Line BY <1>1, <1>3, OneOf DEF Line
<1>5. f = [i \in DOMAIN fresh |-> f[i]] BY <1>2
<1> HIDE DEF f
<1> QED BY <1>1, <1>4, <1>5, Mapped DEF f

LEMMA RemoteOfferOne ==
  ASSUME NEW ls \in AtMostOne
  PROVE  RemoteOffer(ls, 1) \in AtMostOne /\ RemoteOffer(ls, 1) # <<>>
<1>1. CASE ls = <<>>
  <2> DEFINE x == [mid |-> 1, dir |-> "recvonly", track |-> 0, ssrc |-> 0]
  <2>1. x \in Line BY DEF Line
  <2> HIDE DEF x
  <2>2. Append(<<>>, x) = <<x>> BY SMT
  <2>3. RemoteOffer(ls, 1) = Append(<<>>, x) BY <1>1 DEF RemoteOffer, x
  <2> QED BY <2>1, <2>2, <2>3 DEF AtMostOne
<1>2. CASE ls # <<>>
  <2> DEFINE f == RemoteOffer(ls, 1)
  <2>1. \E i \in DOMAIN ls : ls[i].mid \in {0, 1} BY <1>2, OneOf DEF Line
  <2>2. f = [ls EXCEPT ![1] = [ls[1] EXCEPT !.mid = 1]]
    BY <1>2, <2>1, FirstIsOne DEF RemoteOffer
  <2>3. f[1] \in Line BY <1>2, <2>2, OneOf DEF Line
  <2>4. f = [i \in DOMAIN ls |-> f[i]] BY <1>2, <2>2, OneOf
  <2> HIDE DEF f
  <2> QED BY <1>2, <2>3, <2>4, Mapped DEF f
<1> QED BY <1>1, <1>2

LEMMA LocalOfferOne ==
  ASSUME NEW ls \in AtMostOne, ls # <<>>
  PROVE  LocalOffer(ls) \in AtMostOne /\ LocalOffer(ls) # <<>>
<1> DEFINE f == LocalOffer(ls)
<1>1. f = [i \in DOMAIN ls |-> [ls[i] EXCEPT !.mid = IF ls[i].mid = 0 THEN i ELSE ls[i].mid]]
  BY DEF LocalOffer
<1>2. f[1] \in Line
  <2>1. f[1] = [ls[1] EXCEPT !.mid = IF ls[1].mid = 0 THEN 1 ELSE ls[1].mid]
    BY <1>1, OneOf
  <2>2. ls[1] \in Line BY OneOf
  <2> HIDE DEF f
  <2> QED BY <2>1, <2>2 DEF Line
<1>3. f = [i \in DOMAIN ls |-> f[i]] BY <1>1
<1> HIDE DEF f
<1> QED BY <1>2, <1>3, Mapped DEF f

\* Another direction and track leave the line where it is.
LEMMA RedirectedOne ==
  ASSUME NEW ls \in AtMostOne, ls # <<>>, NEW d \in {"sendrecv", "inactive"}, NEW k \in Nat
  PROVE  /\ [ls EXCEPT ![1].dir = d] \in AtMostOne
         /\ [ls EXCEPT ![1].dir = d] # <<>>
         /\ [ls EXCEPT ![1].dir = d, ![1].track = k] \in AtMostOne
         /\ [ls EXCEPT ![1].dir = d, ![1].track = k] # <<>>
<1>1. DOMAIN ls = {1} /\ ls[1] \in Line BY OneOf
<1> DEFINE f == [ls EXCEPT ![1].dir = d]
           g == [ls EXCEPT ![1].dir = d, ![1].track = k]
<1>2. f[1] \in Line /\ f = [i \in DOMAIN ls |-> f[i]] BY <1>1 DEF Line
<1>3. g[1] \in Line /\ g = [i \in DOMAIN ls |-> g[i]] BY <1>1 DEF Line
<1> HIDE DEF f, g
<1> QED BY <1>2, <1>3, Mapped DEF f, g

-----------------------------------------------------------------------------
(* The chain of operations.                                                *)

\* The line is there for every offer that is being answered.
Served(q, ls) ==
  \A k \in DOMAIN q : q[k].do \in {"answerOffer", "answerRestart"} => ls # <<>>

\* A change of state leaves the operations what they are.
LEMMA AgedTypes ==
  ASSUME NEW q \in Seq(Op), NEW ls, Served(q, ls)
  PROVE  Aged(q) \in Seq(Op) /\ Served(Aged(q), ls)
<1> DEFINE f == [k \in DOMAIN q |-> [q[k] EXCEPT !.stale = TRUE]]
<1>1. DOMAIN q = 1 .. Len(q) /\ Len(q) \in Nat /\ \A k \in 1 .. Len(q) : q[k] \in Op
  BY LenProperties, ElementOfSeq
<1>2. \A k \in DOMAIN q : [q[k] EXCEPT !.stale = TRUE] \in Op
  BY <1>1 DEF Op, OfferOp, OtherOp
<1>3. f \in Seq(Op) BY <1>1, <1>2, IsASeq
<1>4. Served(f, ls)
  <2> SUFFICES ASSUME NEW k \in DOMAIN f, f[k].do \in {"answerOffer", "answerRestart"}
               PROVE  ls # <<>>
    BY DEF Served
  <2>1. f[k] = [q[k] EXCEPT !.stale = TRUE] /\ q[k] \in Op /\ k \in DOMAIN q BY <1>1
  <2>2. f[k].do = q[k].do BY <2>1 DEF Op, OfferOp, OtherOp
  <2> QED BY <2>1, <2>2 DEF Served
<1> QED BY <1>3, <1>4 DEF Aged

LEMMA EnqueueTypes ==
  ASSUME Types, LineThere, NEW op \in Op, op.do \notin {"answerOffer", "answerRestart"},
         Enqueue(op)
  PROVE  chain' \in Seq(Op) /\ Served(chain', lines)
<1> DEFINE q == Aged(chain)
<1>1. q \in Seq(Op) /\ Served(q, lines)
  BY AgedTypes DEF Types, LineThere, Served
<1>2. chain' = Append(q, op) BY DEF Enqueue
<1> HIDE DEF q
<1>3. /\ chain' \in Seq(Op) /\ Len(chain') = Len(q) + 1
      /\ \A k \in 1 .. Len(q) : chain'[k] = q[k]
      /\ chain'[Len(q) + 1] = op
  BY <1>1, <1>2, AppendProperties
<1>4. DOMAIN q = 1 .. Len(q) /\ DOMAIN chain' = 1 .. Len(q) + 1 /\ Len(q) \in Nat
  BY <1>1, <1>3, LenProperties
<1>5. ASSUME NEW k \in DOMAIN chain', chain'[k].do \in {"answerOffer", "answerRestart"}
      PROVE  lines # <<>>
  <2>1. k # Len(q) + 1 BY <1>3, <1>5
  <2>2. k \in DOMAIN q /\ chain'[k] = q[k] BY <1>3, <1>4, <2>1
  <2> QED BY <1>1, <1>5, <2>2 DEF Served
<1> QED BY <1>3, <1>5 DEF Served

LEMMA FirstOp ==
  ASSUME Types, chain # <<>>
  PROVE  Head(chain) \in Op /\ 1 \in DOMAIN chain /\ Head(chain) = chain[1]
<1>1. chain \in Seq(Op) BY DEF Types
<1> QED BY <1>1, HeadTailProperties, LenProperties, EmptySeq

LEMMA PlaceBehind == \A n \in Nat : \A j \in 1 .. n - 1 : j + 1 \in 1 .. n
OBVIOUS

\* The end of the first operation, once the lines are what they become.
LEMMA CompleteTypes ==
  ASSUME Types, LineThere, chain # <<>>, NEW then \in State \cup {""}, Complete(then)
  PROVE  /\ state' \in State /\ pendingEnd' \in Word
         /\ chain' \in Seq(Op) /\ Served(chain', lines)
<1> DEFINE q == Tail(chain)
<1>1. chain \in Seq(Op) BY DEF Types
<1>2. chain' = Aged(q) BY DEF Complete
<1>3. /\ q \in Seq(Op) /\ Len(q) = Len(chain) - 1
      /\ \A k \in 1 .. Len(q) : q[k] = chain[k + 1]
  BY <1>1, HeadTailProperties
<1> HIDE DEF q
<1>4. DOMAIN chain = 1 .. Len(chain) /\ DOMAIN q = 1 .. Len(q)
      /\ Len(chain) \in Nat
  BY <1>1, <1>3, LenProperties
<1>5. Served(q, lines)
  <2> SUFFICES ASSUME NEW k \in DOMAIN q,
                      q[k].do \in {"answerOffer", "answerRestart"}
               PROVE  lines # <<>>
    BY DEF Served
  <2>1. q[k] = chain[k + 1] BY <1>3, <1>4
  <2>2. k \in 1 .. Len(chain) - 1 BY <1>3, <1>4
  <2>3. k + 1 \in 1 .. Len(chain)
    BY <1>4, <2>2, PlaceBehind
  <2> QED BY <1>4, <2>1, <2>3 DEF LineThere
<1>6. state' \in State /\ pendingEnd' \in Word
  <2>1. NoMessage \in Word BY DEF NoMessage, Word
  <2> QED BY <2>1 DEF Complete, Types
<1> QED BY <1>2, <1>3, <1>5, <1>6, AgedTypes

LEMMA BecomeTypes ==
  ASSUME Types, LineThere, chain # <<>>, NEW op \in Op, Become(op),
         NEW ls, ls # <<>>
  PROVE  /\ state' \in State /\ pendingEnd' \in Word
         /\ chain' \in Seq(Op) /\ Served(chain', ls)
<1>1. chain \in Seq(Op) /\ state \in State /\ pendingEnd \in Word BY DEF Types
<1>2. 1 \in 1 .. Len(chain) BY <1>1, EmptySeq
<1>3. chain' \in Seq(Op) BY <1>1, <1>2, ExceptSeq DEF Become
<1>4. Served(chain', ls) BY DEF Served
<1> QED BY <1>1, <1>3, <1>4 DEF Become, leg

\* A chain that is served stays served when no line is taken away.
LEMMA StillServed ==
  ASSUME NEW q, NEW ls, NEW more, Served(q, ls), ls # <<>> => more # <<>>
  PROVE  Served(q, more)
BY DEF Served

LEMMA SaidTypes ==
  ASSUME Types, NEW m \in Told, Send(m)
  PROVE  down' \in Seq(Told)
<1>1. down \in Seq(Told) BY DEF Types
<1> QED BY <1>1, AppendProperties DEF Send

-----------------------------------------------------------------------------
(* The operations.  Each leaves the lines and the chain in order, with     *)
(* what it says, holds and counts.                                         *)

LineGoal == Types' /\ LineThere'

\* What a step has to show of itself.
LEMMA Kept ==
  ASSUME Types, state' \in State, pendingEnd' \in Word, chain' \in Seq(Op),
         lines' \in AtMostOne, {local', minted', callId', offers'} \subseteq Nat,
         held' \in Sdp, lastAnswer' \in Sdp, up' \in Seq(Offer \cup Word),
         down' \in Seq(Told), client' \in ClientState, Served(chain', lines')
  PROVE  LineGoal
BY DEF LineGoal, Types, LineThere, Served

\* A call that is remembered is a number.
LEMMA RememberTypes ==
  ASSUME Types, NEW c \in Nat, Remember(c)
  PROVE  callId' \in Nat
BY DEF Types, Remember

LEMMA ApplyOfferKeeps ==
  ASSUME Types, LineThere, ApplyOffer
  PROVE  LineGoal
<1> DEFINE op == Head(chain)
           mine == IF op.do = "offer" THEN Attached(lines, New) ELSE lines
<1>1. chain # <<>> /\ op \in Op /\ op.do \in {"offer", "restart"}
  BY FirstOp DEF ApplyOffer, Running
<1>2. op \in OfferOp /\ op.m.mid = 1 /\ op.m.call \in Nat
  BY <1>1 DEF Op, OfferOp, OtherOp, OtherDo, Offer
<1>3. New \in Nat /\ lines \in AtMostOne BY DEF New, Types
<1>4. mine \in AtMostOne /\ (lines # <<>> => mine # <<>>)
  BY <1>3, AttachedOne
<1>5. RemoteOffer(mine, 1) \in AtMostOne /\ RemoteOffer(mine, 1) # <<>>
  BY <1>4, RemoteOfferOne
<1> DEFINE next == [op EXCEPT !.do = IF op.do = "offer" THEN "answerOffer"
                                     ELSE "answerRestart"]
<1>6. next \in Op BY <1>2 DEF Op, OfferOp, OfferDo
<1>7. /\ {local', minted', callId', offers'} \subseteq Nat
      /\ UNCHANGED <<held, lastAnswer, up, down, client>>
  <2>1. callId' \in Nat BY <1>2, RememberTypes DEF ApplyOffer
  <2> QED BY <1>3, <2>1 DEF ApplyOffer, Types
<1>8. CASE OursOpen
  <2>1. lines' = mine /\ Complete("") BY <1>8 DEF ApplyOffer
  <2>2. /\ state' \in State /\ pendingEnd' \in Word
        /\ chain' \in Seq(Op) /\ Served(chain', lines)
    BY <1>1, <2>1, CompleteTypes
  <2>3. Served(chain', lines') BY <1>4, <2>1, <2>2, StillServed
  <2> QED BY <1>4, <1>7, <2>1, <2>2, <2>3, Kept DEF Types
<1>9. CASE ~ OursOpen
  <2>1. lines' = RemoteOffer(mine, 1) /\ Become(next) BY <1>2, <1>9 DEF ApplyOffer
  <2> HIDE DEF op, mine, next
  <2>2. /\ state' \in State /\ pendingEnd' \in Word
        /\ chain' \in Seq(Op) /\ Served(chain', lines')
    BY <1>1, <1>5, <1>6, <2>1, BecomeTypes
  <2> QED BY <1>5, <1>7, <2>1, <2>2, Kept DEF Types
<1> QED BY <1>8, <1>9

LEMMA RecoverKeeps ==
  ASSUME Types, LineThere, Recover
  PROVE  LineGoal
<1> DEFINE op == Head(chain)
<1>1. chain # <<>> /\ op \in Op /\ op.do \in OfferDo
  BY FirstOp DEF Recover, Running, OfferDo
<1>2. op.m.mid = 1 BY <1>1 DEF Op, OfferOp, OtherOp, OtherDo, OfferDo, Offer
<1>3. New \in Nat /\ lines \in AtMostOne BY DEF New, Types
<1>4. lines' = Repaired(lines, New, 1) BY <1>2 DEF Recover
<1>5. lines' \in AtMostOne /\ lines' # <<>> BY <1>3, <1>4, RepairedOne
<1>6. Served(chain', lines') BY <1>5 DEF Served
<1> QED BY <1>3, <1>5, <1>6, Kept DEF Recover, Types, leg, sdps

\* Media is given the session's track.
LEMMA OutputTypes ==
  ASSUME Types, EnsureOutputTrack(lines)
  PROVE  /\ lines' \in AtMostOne /\ {local', minted'} \subseteq Nat
         /\ lines # <<>> => lines' # <<>>
<1>1. CASE lines = <<>> BY <1>1 DEF EnsureOutputTrack, Types
<1>2. CASE lines # <<>>
  <2>1. local' \in Nat /\ minted' \in Nat
    BY <1>2 DEF EnsureOutputTrack, Types, New
  <2>2. lines' = [lines EXCEPT ![1].dir = "sendrecv", ![1].track = local']
    BY <1>2 DEF EnsureOutputTrack
  <2>3. lines \in AtMostOne BY DEF Types
  <2> QED BY <1>2, <2>1, <2>2, <2>3, RedirectedOne
<1> QED BY <1>1, <1>2

\* The identity described is that of the line.
LEMMA IdentityType ==
  ASSUME Types, lines # <<>>, NEW mid
  PROVE  Identity(lines, mid) \in Nat
<1>1. lines \in AtMostOne BY DEF Types
<1> QED BY <1>1, FirstIsOne, OneOf DEF Identity, Line

LEMMA AnswerOfferKeeps ==
  ASSUME Types, LineThere, AnswerOffer
  PROVE  LineGoal
<1> DEFINE op == Head(chain)
           sdp == [n |-> op.m.n, call |-> op.m.call, ssrc |-> Identity(lines, op.m.mid)]
<1>1. /\ chain # <<>> /\ op \in Op /\ op.do = "answerOffer"
      /\ 1 \in DOMAIN chain /\ op = chain[1]
  BY FirstOp DEF AnswerOffer, Running
<1>2. lines # <<>> BY <1>1 DEF LineThere
<1>3. Identity(lines, op.m.mid) \in Nat BY <1>2, IdentityType
<1>4. op.m.n \in Nat /\ op.m.call \in Nat /\ op.then \in State \cup {""}
  BY <1>1 DEF Op, OfferOp, OtherOp, Offer, Word
<1>5. sdp \in Sdp BY <1>3, <1>4 DEF Sdp
<1>6. held' = sdp /\ lastAnswer' = sdp BY DEF AnswerOffer, Hold
<1>7. Complete(op.then) /\ EnsureOutputTrack(lines) BY DEF AnswerOffer, Finish
<1> HIDE DEF op, sdp
<1>8. /\ state' \in State /\ pendingEnd' \in Word
      /\ chain' \in Seq(Op) /\ Served(chain', lines)
  BY <1>1, <1>4, <1>7, CompleteTypes
<1>9. lines' \in AtMostOne /\ {local', minted'} \subseteq Nat /\ lines' # <<>>
  BY <1>2, <1>7, OutputTypes
<1>10. Served(chain', lines') BY <1>9 DEF Served
<1> QED BY <1>5, <1>6, <1>8, <1>9, <1>10, Kept DEF AnswerOffer, Types, count

LEMMA AnswerRestartKeeps ==
  ASSUME Types, LineThere, AnswerRestart
  PROVE  LineGoal
<1> DEFINE op == Head(chain)
           ssrc == Identity(lines, op.m.mid)
<1>1. /\ chain # <<>> /\ op \in Op /\ op.do = "answerRestart"
      /\ 1 \in DOMAIN chain /\ op = chain[1]
  BY FirstOp DEF AnswerRestart, Running
<1>2. lines # <<>> BY <1>1 DEF LineThere
<1>3. ssrc \in Nat BY <1>2, IdentityType
<1>4. op.m.n \in Nat /\ op.m.call \in Nat /\ op.then \in State \cup {""}
  BY <1>1 DEF Op, OfferOp, OtherOp, Offer, Word
<1>5. lastAnswer' = [n |-> op.m.n, call |-> op.m.call, ssrc |-> ssrc]
  BY DEF AnswerRestart
<1>6. Send(Message("answer", op.m.n, callId, ssrc)) /\ Complete(op.then)
  BY DEF AnswerRestart, Finish
<1> HIDE DEF op, ssrc
<1>7. /\ state' \in State /\ pendingEnd' \in Word
      /\ chain' \in Seq(Op) /\ Served(chain', lines)
  BY <1>1, <1>4, <1>6, CompleteTypes
<1>8. lastAnswer' \in Sdp BY <1>3, <1>4, <1>5 DEF Sdp
<1>9. down' \in Seq(Told)
  <2>1. Message("answer", op.m.n, callId, ssrc) \in Told
    BY <1>3, <1>4 DEF Message, Told, Types
  <2> QED BY <1>6, <2>1, SaidTypes
<1>10. UNCHANGED <<lines, local, minted, held, callId, up, client, offers>>
  BY DEF AnswerRestart, audio, count
<1> QED BY <1>7, <1>8, <1>9, <1>10, Kept DEF Types

LEMMA RingKeeps ==
  ASSUME Types, LineThere, Ring
  PROVE  LineGoal
<1> DEFINE op == Head(chain)
           next == [op EXCEPT !.do = "ringSend", !.ssrc = New]
<1>1. chain # <<>> /\ op \in Op /\ op.do = "ring"
  BY FirstOp DEF Ring, Running
<1>2. op \in OtherOp /\ op.m.call \in Nat
  BY <1>1 DEF Op, OfferOp, OfferDo, OtherOp, Word
<1>3. New \in Nat /\ lines \in AtMostOne BY DEF New, Types
<1>4. next \in Op BY <1>2, <1>3 DEF Op, OtherOp, OtherDo
<1>5. Attached(lines, New) \in AtMostOne /\ Attached(lines, New) # <<>>
  BY <1>3, AttachedOne
<1>6. lines' = LocalOffer(Attached(lines, New)) /\ Become(next) /\ callId' = op.m.call
  BY DEF Ring
<1>7. lines' \in AtMostOne /\ lines' # <<>> BY <1>5, <1>6, LocalOfferOne
<1> HIDE DEF op, next
<1>8. /\ state' \in State /\ pendingEnd' \in Word
      /\ chain' \in Seq(Op) /\ Served(chain', lines')
  BY <1>1, <1>4, <1>6, <1>7, BecomeTypes
<1>9. {local', minted', callId', offers'} \subseteq Nat
      /\ UNCHANGED <<held, lastAnswer, up, down, client>>
  BY <1>2, <1>3, <1>6 DEF Ring, count, Types
<1> QED BY <1>7, <1>8, <1>9, Kept DEF Types

\* An operation that ends, and what it may say, hold and remember, with the
\* lines as they were or silenced.
LEMMA EndKeeps ==
  ASSUME Types, LineThere, chain # <<>>, NEW then \in State \cup {""}, Finish(then),
         lines' \in AtMostOne, lines # <<>> => lines' # <<>>,
         {local', minted', callId'} \subseteq Nat, held' \in Sdp,
         down' \in Seq(Told), UNCHANGED <<lastAnswer, up, client, offers>>
  PROVE  LineGoal
<1>1. Complete(then) BY DEF Finish
<1>2. /\ state' \in State /\ pendingEnd' \in Word
      /\ chain' \in Seq(Op) /\ Served(chain', lines)
  BY <1>1, CompleteTypes
<1>3. Served(chain', lines') BY <1>2, StillServed
<1> QED BY <1>2, <1>3, Kept DEF Types

LEMMA SilentTypes ==
  ASSUME Types, SetAudioInactive
  PROVE  /\ lines' \in AtMostOne /\ {local', minted'} \subseteq Nat
         /\ lines # <<>> => lines' # <<>>
<1>1. lines \in AtMostOne BY DEF Types
<1>2. CASE lines = <<>> BY <1>1, <1>2 DEF SetAudioInactive, Types
<1>3. CASE lines # <<>>
  <2>1. lines' = [lines EXCEPT ![1].dir = "inactive"] BY <1>3 DEF SetAudioInactive
  <2>2. lines' \in AtMostOne /\ lines' # <<>> BY <1>1, <1>3, <2>1, RedirectedOne
  <2> QED BY <2>2 DEF SetAudioInactive, Types
<1> QED BY <1>2, <1>3

\* What is said of a call at a time.
LEMMA MessageTypes ==
  ASSUME NEW k \in {"ring", "answer", "endAnswer", "endOffer", "end"},
         NEW n \in Nat, NEW c \in Nat, NEW i \in Nat
  PROVE  Message(k, n, c, i) \in Told
BY DEF Message, Told

LEMMA RingSendKeeps ==
  ASSUME Types, LineThere, RingSend
  PROVE  LineGoal
<1> DEFINE op == Head(chain)
<1>1. chain # <<>> /\ op \in Op BY FirstOp DEF RingSend, Running
<1>2. op.m.n \in Nat /\ op.ssrc \in Nat /\ op.then \in State \cup {""}
  BY <1>1 DEF Op, OfferOp, OtherOp, Offer, Word
<1>3. Send(Message("ring", op.m.n, callId, op.ssrc)) /\ Finish(op.then)
  BY DEF RingSend
<1> HIDE DEF op
<1>4. callId \in Nat BY DEF Types
<1>5. down' \in Seq(Told) BY <1>2, <1>3, <1>4, MessageTypes, SaidTypes
<1>6. UNCHANGED <<lines, local, minted, callId, held, lastAnswer, up, client, offers>>
  BY DEF RingSend, audio, sdps, count
<1> QED BY <1>1, <1>2, <1>3, <1>5, <1>6, EndKeeps DEF Types

LEMMA ApplyAnswerKeeps ==
  ASSUME Types, LineThere, ApplyAnswer
  PROVE  LineGoal
<1> DEFINE op == Head(chain)
<1>1. chain # <<>> /\ op \in Op BY FirstOp DEF ApplyAnswer, Running
<1>2. op.m.call \in Nat /\ op.then \in State \cup {""}
  BY <1>1 DEF Op, OfferOp, OtherOp, Offer, Word
<1>3. callId' \in Nat BY <1>2, RememberTypes DEF ApplyAnswer
<1>4. PICK then \in State \cup {""} : Finish(then) BY <1>2 DEF ApplyAnswer
<1>5. UNCHANGED <<lines, local, minted, held, lastAnswer, up, down, client, offers>>
  BY DEF ApplyAnswer, audio, count
<1> QED BY <1>1, <1>3, <1>4, <1>5, EndKeeps DEF Types

LEMMA FlushKeeps ==
  ASSUME Types, LineThere, Flush
  PROVE  LineGoal
<1> DEFINE op == Head(chain)
           sdp == IF held # NoSdp THEN held ELSE lastAnswer
<1>1. chain # <<>> /\ op \in Op BY FirstOp DEF Flush, Running
<1>2. op.then \in State \cup {""}
  BY <1>1 DEF Op, OfferOp, OtherOp
<1>3. sdp.n \in Nat /\ sdp.ssrc \in Nat BY DEF Types, Sdp
<1>4. Send(Message("answer", sdp.n, callId, sdp.ssrc)) /\ held' = NoSdp /\ Finish(op.then)
  BY DEF Flush
<1> HIDE DEF op, sdp
<1>5. callId \in Nat BY DEF Types
<1>6. down' \in Seq(Told) BY <1>3, <1>4, <1>5, MessageTypes, SaidTypes
<1>7. held' \in Sdp BY <1>4 DEF NoSdp, Sdp
<1>8. UNCHANGED <<lines, local, minted, callId, lastAnswer, up, client, offers>>
  BY DEF Flush, audio, count
<1> QED BY <1>1, <1>2, <1>4, <1>6, <1>7, <1>8, EndKeeps DEF Types

\* The answer to the client's end offer.
LEMMA AnswerEndKeeps ==
  ASSUME Types, LineThere, chain # <<>>, NEW m, m.n \in Nat,
         NEW then \in State \cup {""}, AnswerEnd(m, then), callId' \in Nat,
         UNCHANGED <<held, lastAnswer, up, client, offers>>
  PROVE  LineGoal
<1>1. CASE OursOpen
  <2>1. Finish("") /\ UNCHANGED <<lines, local, minted, down>>
    BY <1>1 DEF AnswerEnd, audio
  <2> QED BY <2>1, EndKeeps DEF Types
<1>2. CASE ~ OursOpen
  <2>1. /\ SetAudioInactive /\ Finish(then)
        /\ Send(Message("endAnswer", m.n, callId', 0))
    BY <1>2 DEF AnswerEnd
  <2>2. down' \in Seq(Told) BY <2>1, MessageTypes, SaidTypes
  <2>3. /\ lines' \in AtMostOne /\ {local', minted'} \subseteq Nat
        /\ lines # <<>> => lines' # <<>>
    BY <2>1, SilentTypes
  <2> QED BY <2>1, <2>2, <2>3, EndKeeps DEF Types
<1> QED BY <1>1, <1>2

LEMMA AckEndKeeps ==
  ASSUME Types, LineThere, AckEnd
  PROVE  LineGoal
<1> DEFINE op == Head(chain)
<1>1. chain # <<>> /\ op \in Op BY FirstOp DEF AckEnd, Running
<1>2. op.m.call \in Nat /\ op.m.n \in Nat /\ "connected" \in State
  BY <1>1 DEF Op, OfferOp, OtherOp, Offer, Word, State
<1>3. callId' \in Nat BY <1>2, RememberTypes DEF AckEnd
<1>4. UNCHANGED <<held, lastAnswer, up, client, offers>> BY DEF AckEnd, count
<1>5. CASE op.m.kind = "bye"
  <2>1. Finish("connected") /\ UNCHANGED <<lines, local, minted, down>>
    BY <1>5 DEF AckEnd, audio
  <2> QED BY <1>1, <1>2, <1>3, <1>4, <2>1, EndKeeps DEF Types
<1>6. CASE op.m.kind # "bye"
  <2>1. AnswerEnd(op.m, "connected") BY <1>6 DEF AckEnd
  <2> QED BY <1>1, <1>2, <1>3, <1>4, <2>1, AnswerEndKeeps
<1> QED BY <1>5, <1>6

LEMMA EndOfferKeeps ==
  ASSUME Types, LineThere, EndOffer
  PROVE  LineGoal
<1> DEFINE op == Head(chain)
<1>1. chain # <<>> /\ op \in Op BY FirstOp DEF EndOffer, Running
<1>2. op.then \in State \cup {""} BY <1>1 DEF Op, OfferOp, OtherOp
<1>3. /\ SetAudioInactive /\ Finish(op.then)
      /\ Send(Message("endOffer", 0, callId, 0))
      /\ UNCHANGED <<callId, held, lastAnswer, up, client, offers>>
  BY DEF EndOffer, sdps, count
<1>4. callId \in Nat BY DEF Types
<1>5. down' \in Seq(Told) BY <1>3, <1>4, MessageTypes, SaidTypes
<1>6. /\ lines' \in AtMostOne /\ {local', minted'} \subseteq Nat
      /\ lines # <<>> => lines' # <<>>
  BY <1>3, SilentTypes
<1> QED BY <1>1, <1>2, <1>3, <1>4, <1>5, <1>6, EndKeeps DEF Types

LEMMA EndRemoteKeeps ==
  ASSUME Types, LineThere, EndRemote
  PROVE  LineGoal
<1> DEFINE op == Head(chain)
<1>1. chain # <<>> /\ op \in Op BY FirstOp DEF EndRemote, Running
<1>2. op.m.call \in Nat /\ op.m.n \in Nat /\ op.then \in State \cup {""}
  BY <1>1 DEF Op, OfferOp, OtherOp, Offer, Word
<1>3. callId' \in Nat BY <1>2, RememberTypes DEF EndRemote
<1>4. UNCHANGED <<held, lastAnswer, up, client, offers>> BY DEF EndRemote, count
<1>5. CASE op.m.kind \in {"answer", "endAnswer"} /\ OursOpen
  <2>1. /\ Send(Message("end", 0, callId', 0)) /\ Finish(op.then)
        /\ UNCHANGED <<lines, local, minted>>
    BY <1>5 DEF EndRemote, audio
  <2>2. down' \in Seq(Told) BY <1>3, <2>1, MessageTypes, SaidTypes
  <2> QED BY <1>1, <1>2, <1>3, <1>4, <2>1, <2>2, EndKeeps DEF Types
<1>6. CASE op.m.kind \in {"answer", "endAnswer"} /\ ~ OursOpen
  <2>1. Finish("") /\ UNCHANGED <<lines, local, minted, down>>
    BY <1>6 DEF EndRemote, audio
  <2> QED BY <1>1, <1>3, <1>4, <2>1, EndKeeps DEF Types
<1>7. CASE op.m.kind = "endOffer"
  <2>1. AnswerEnd(op.m, op.then) BY <1>7 DEF EndRemote
  <2> QED BY <1>1, <1>2, <1>3, <1>4, <2>1, AnswerEndKeeps
<1>8. CASE op.m.kind \notin {"answer", "endAnswer", "endOffer"}
  <2>1. Finish(op.then) /\ UNCHANGED <<lines, local, minted, down>>
    BY <1>8 DEF EndRemote, audio
  <2> QED BY <1>1, <1>2, <1>3, <1>4, <2>1, EndKeeps DEF Types
<1> QED BY <1>5, <1>6, <1>7, <1>8

-----------------------------------------------------------------------------
(* What comes in, what is intended, and the client.                        *)

\* An operation that joins the chain of a leg whose state is what it becomes.
LEMMA JoinKeeps ==
  ASSUME Types, LineThere, state' \in State, UNCHANGED pendingEnd,
         NEW do, NEW m, NEW then \in State \cup {""}, NEW own \in BOOLEAN,
         \/ do \in {"offer", "restart"} /\ m \in Offer
         \/ do \in OtherDo /\ m \in Word,
         Enqueue(Operation(do, m, then, own)),
         UNCHANGED <<lines, local, minted, callId, held, lastAnswer, down>>,
         offers' \in Nat, up' \in Seq(Offer \cup Word), client' \in ClientState
  PROVE  LineGoal
<1> DEFINE op == [do |-> do, m |-> m, then |-> then, own |-> own, stale |-> FALSE,
                  ssrc |-> 0]
<1>1. op \in Op /\ op.do \notin {"answerOffer", "answerRestart"}
  BY DEF Op, OfferOp, OtherOp, OfferDo, OtherDo
<1>2. Enqueue(op) BY DEF Operation
<1> HIDE DEF op
<1>3. chain' \in Seq(Op) /\ Served(chain', lines) BY <1>1, <1>2, EnqueueTypes
<1> QED BY <1>3, Kept DEF Types

\* A step that does nothing to the chain, nor takes a line away.
LEMMA AsideKeeps ==
  ASSUME Types, LineThere, UNCHANGED chain, state' \in State, pendingEnd' \in Word,
         lines' \in AtMostOne, lines # <<>> => lines' # <<>>,
         {local', minted', offers'} \subseteq Nat,
         UNCHANGED <<callId, held, lastAnswer>>,
         up' \in Seq(Offer \cup Word), down' \in Seq(Told), client' \in ClientState
  PROVE  LineGoal
<1>1. Served(chain', lines') BY DEF LineThere, Served
<1> QED BY <1>1, Kept DEF Types

\* One that changes the state, and leaves the chain what it is.
LEMMA AgeKeeps ==
  ASSUME Types, LineThere, chain' = Aged(chain), state' \in State, pendingEnd' \in Word,
         UNCHANGED <<lines, local, minted, callId, held, lastAnswer, down, client, offers>>,
         up' \in Seq(Offer \cup Word)
  PROVE  LineGoal
<1>1. chain' \in Seq(Op) /\ Served(chain', lines)
  BY AgedTypes DEF Types, LineThere, Served
<1> QED BY <1>1, Kept DEF Types

LEMMA DeliverKeeps ==
  ASSUME Types, LineThere, Deliver
  PROVE  LineGoal
<1> DEFINE m == Head(up)
<1>1. up \in Seq(Offer \cup Word) /\ up # <<>> BY DEF Types, Deliver
<1>2. m \in Offer \cup Word /\ up' \in Seq(Offer \cup Word)
  BY <1>1, HeadTailProperties DEF Deliver
<1>3. UNCHANGED <<lines, local, minted, callId, held, lastAnswer, down, client, offers>>
  BY DEF Deliver, audio, sdps, count
<1>4. {"calling", "connected", "inCall"} \subseteq State BY DEF State
<1>5. CASE m.kind = "offer"
  <2>1. m \in Offer BY <1>2, <1>5 DEF Word
  <2>2. PICK do \in {"offer", "restart"}, then \in {"", "calling"} : Ingress(do, m, then)
    BY <1>5 DEF Deliver, OnOffer
  <2> HIDE DEF m
  <2> QED BY <1>2, <1>3, <1>4, <2>1, <2>2, JoinKeeps DEF Ingress, leg, Types
<1>6. CASE m.kind = "answer"
  <2>1. m \in Word BY <1>2, <1>6 DEF Offer
  <2>2. \/ UNCHANGED <<leg, chain>>
        \/ \E do \in {"endRemote", "answer"}, then \in {"connected", "inCall"} :
             Ingress(do, m, then)
    BY <1>6 DEF Deliver, OnAnswer
  <2>3. CASE UNCHANGED <<leg, chain>>
    BY <1>2, <1>3, <2>3, AsideKeeps DEF leg, Types
  <2>4. ASSUME NEW do \in {"endRemote", "answer"}, NEW then \in {"connected", "inCall"},
               Ingress(do, m, then)
        PROVE  LineGoal
    <3> HIDE DEF m
    <3>1. do \in OtherDo BY DEF OtherDo
    <3> QED BY <1>2, <1>3, <1>4, <2>1, <2>4, <3>1, JoinKeeps DEF Ingress, leg, Types
  <2> QED BY <2>2, <2>3, <2>4
<1>7. CASE m.kind \notin {"offer", "answer"}
  <2>1. m \in Word BY <1>2, <1>7 DEF Offer
  <2>2. \/ /\ state' = "endRequested" /\ pendingEnd' = m
           /\ chain' = Aged(chain)
        \/ \E then \in {"connected", ""} : Ingress("endRemote", m, then)
    BY <1>7 DEF Deliver, OnEnd
  <2>3. CASE state' = "endRequested" /\ pendingEnd' = m /\ chain' = Aged(chain)
    BY <1>2, <1>3, <2>1, <2>3, AgeKeeps DEF Types, State
  <2>4. ASSUME NEW then \in {"connected", ""}, Ingress("endRemote", m, then)
        PROVE  LineGoal
    <3> HIDE DEF m
    <3>1. "endRemote" \in OtherDo BY DEF OtherDo
    <3> QED BY <1>2, <1>3, <1>4, <2>1, <2>4, <3>1, JoinKeeps DEF Ingress, leg, Types
  <2> QED BY <2>2, <2>3, <2>4
<1> QED BY <1>5, <1>6, <1>7

LEMMA IntendKeeps ==
  ASSUME Types, LineThere, IntendRing \/ IntendAnswer \/ IntendAckEnd \/ IntendEnd
  PROVE  LineGoal
<1>1. ASSUME NEW do \in OtherDo, NEW m \in Word, NEW now \in State,
             NEW then \in State \cup {""}, Intent(do, m, now, then), offers' \in Nat
      PROVE  LineGoal
  <2>1. UNCHANGED <<lines, local, minted, callId, held, lastAnswer, up, down, client,
                    pendingEnd>> /\ state' = now
    BY <1>1 DEF Intent, audio, sdps
  <2>2. Enqueue(Operation(do, m, then, TRUE)) BY <1>1 DEF Intent
  <2> QED BY <1>1, <2>1, <2>2, JoinKeeps DEF Types
<1>2. /\ {"ring", "flush", "ackEnd", "end"} \subseteq OtherDo
      /\ {"ringing", "answering", "inCall", "connected", "ending"} \subseteq State
      /\ NoMessage \in Word
  BY DEF OtherDo, State, NoMessage, Word
<1>3. offers \in Nat /\ pendingEnd \in Word /\ state \in State BY DEF Types
<1>4. CASE IntendRing
  <2> DEFINE m == [kind |-> "ring", n |-> offers', call |-> offers']
  <2>1. offers' \in Nat
    <3>1. offers' = offers + 1 BY <1>4 DEF IntendRing
    <3> QED BY <1>3, <3>1
  <2>2. m \in Word BY <2>1 DEF Word
  <2>3. Intent("ring", m, "ringing", "") BY <1>4 DEF IntendRing
  <2> HIDE DEF m
  <2> QED BY <1>1, <1>2, <2>1, <2>2, <2>3
<1>5. CASE IntendAnswer BY <1>1, <1>2, <1>3, <1>5 DEF IntendAnswer
<1>6. CASE IntendAckEnd BY <1>1, <1>2, <1>3, <1>6 DEF IntendAckEnd
<1>7. CASE IntendEnd BY <1>1, <1>2, <1>3, <1>7 DEF IntendEnd
<1> QED BY <1>4, <1>5, <1>6, <1>7

LEMMA MediaKeeps ==
  ASSUME Types, LineThere, Bridge \/ Unbridge \/ Unbridged
  PROVE  LineGoal
<1>0. UNCHANGED <<state, pendingEnd, chain, callId, held, lastAnswer, up, down, client,
                  offers>>
  BY DEF Bridge, Unbridge, Unbridged, leg, sdps, count
<1>1. CASE Bridge
  <2>1. /\ lines' \in AtMostOne /\ {local', minted'} \subseteq Nat
        /\ lines # <<>> => lines' # <<>>
    BY <1>1, OutputTypes DEF Bridge
  <2> QED BY <1>0, <2>1, AsideKeeps DEF Types
<1>2. CASE Unbridge
  <2>1. lines \in AtMostOne BY DEF Types
  <2>2. lines' = [lines EXCEPT ![1].dir = "inactive"] /\ UNCHANGED <<local, minted>>
    BY <1>2 DEF Unbridge
  <2>3. CASE lines = <<>>
    <3>1. lines' = lines BY <2>2, <2>3
    <3> QED BY <1>0, <2>1, <2>2, <3>1, AsideKeeps DEF Types
  <2>4. CASE lines # <<>>
    <3>1. lines' \in AtMostOne /\ lines' # <<>> BY <2>1, <2>2, <2>4, RedirectedOne
    <3> QED BY <1>0, <2>2, <3>1, AsideKeeps DEF Types
  <2> QED BY <2>3, <2>4
<1>3. CASE Unbridged
  BY <1>0, <1>3, AsideKeeps DEF Unbridged, Types
<1> QED BY <1>1, <1>2, <1>3

\* Words that join what the client has said.
LEMMA UtterKeeps ==
  ASSUME Types, LineThere, NEW ms \in Seq(Offer \cup Word), Utter(ms),
         client' \in ClientState, offers' \in Nat
  PROVE  LineGoal
<1>1. up \in Seq(Offer \cup Word) BY DEF Types
<1>2. up' \in Seq(Offer \cup Word) BY <1>1, ConcatProperties DEF Utter
<1>3. UNCHANGED <<state, pendingEnd, chain, lines, local, minted, held, lastAnswer,
                  callId, down>>
  BY DEF Utter, server, leg, audio, sdps
<1> QED BY <1>2, <1>3, AsideKeeps DEF Types

\* One or two words are a sequence of words.
LEMMA WordsTypes ==
  /\ \A x \in Offer \cup Word : <<x>> \in Seq(Offer \cup Word)
  /\ \A x, y \in Offer \cup Word : <<x, y>> \in Seq(Offer \cup Word)
OBVIOUS

LEMMA ClientOffersKeeps ==
  ASSUME Types, LineThere, OneMid, NEW mid \in Mids, ClientOffers(mid)
  PROVE  LineGoal
<1> DEFINE m == Speak("offer", offers', IF client.inCall THEN client.told.call ELSE offers')
           x == [kind |-> m.kind, n |-> m.n, call |-> m.call, mid |-> mid]
<1>1. offers' \in Nat
  <2>1. offers' = offers + 1 BY DEF ClientOffers
  <2> QED BY <2>1 DEF Types
<1>2. client \in ClientState /\ client.told.call \in Nat
  BY DEF Types, ClientState, Sdp
<1>3. m.kind = "offer" /\ m.n \in Nat /\ m.call \in Nat
  BY <1>1, <1>2 DEF Speak
<1>4. m \in [kind : {"none", "offer", "endOffer"}, n : Nat, call : Nat]
  BY <1>1, <1>2 DEF Speak
<1>5. x \in Offer BY <1>3 DEF Offer, OneMid
<1>6. client' = [client EXCEPT !.open = m] /\ Utter(<<x>>) BY DEF ClientOffers
<1> HIDE DEF m, x
<1>7. client' \in ClientState BY <1>2, <1>4, <1>6 DEF ClientState
<1>8. <<x>> \in Seq(Offer \cup Word) BY <1>5, WordsTypes
<1> QED BY <1>1, <1>6, <1>7, <1>8, UtterKeeps

LEMMA ClientHangsUpKeeps ==
  ASSUME Types, LineThere, ClientHangsUp
  PROVE  LineGoal
<1> DEFINE call == IF client.inCall THEN client.told.call ELSE client.open.call
           m == Speak("endOffer", 0, call)
           b == Speak("bye", 0, call)
<1>1. client \in ClientState /\ call \in Nat BY DEF Types, ClientState, Sdp
<1>2. client' = [client EXCEPT !.open = m, !.inCall = FALSE] BY DEF ClientHangsUp
<1>3. Utter(<<m>>) \/ Utter(<<b, m>>) BY DEF ClientHangsUp
<1> HIDE DEF call
<1>4. m \in Word /\ b \in Word BY <1>1 DEF Speak, Word
<1>5. m \in [kind : {"none", "offer", "endOffer"}, n : Nat, call : Nat]
  BY <1>1 DEF Speak
<1> HIDE DEF m, b
<1>6. client' \in ClientState BY <1>1, <1>2, <1>5 DEF ClientState
<1>7. offers' \in Nat BY DEF ClientHangsUp, Types
<1>8. <<m>> \in Seq(Offer \cup Word) /\ <<b, m>> \in Seq(Offer \cup Word)
  BY <1>4, WordsTypes
<1> QED BY <1>3, <1>6, <1>7, <1>8, UtterKeeps

LEMMA ClientPicksUpKeeps ==
  ASSUME Types, LineThere, ClientPicksUp
  PROVE  LineGoal
<1> DEFINE m == Speak("answer", client.ring.n, client.ring.call)
<1>1. client \in ClientState BY DEF Types
<1>2. m \in Word BY <1>1 DEF ClientState, Sdp, Speak, Word
<1>3. client' \in ClientState
  <2>1. NoSdp \in Sdp BY DEF NoSdp, Sdp
  <2>2. client' = [client EXCEPT !.ring = NoSdp, !.inCall = TRUE, !.told = client.ring]
    BY DEF ClientPicksUp
  <2> QED BY <1>1, <2>1, <2>2 DEF ClientState
<1>4. Utter(<<m>>) /\ offers' \in Nat BY DEF ClientPicksUp, Types
<1> HIDE DEF m
<1>5. <<m>> \in Seq(Offer \cup Word) BY <1>2, WordsTypes
<1> QED BY <1>3, <1>4, <1>5, UtterKeeps

LEMMA ClientDeclinesKeeps ==
  ASSUME Types, LineThere, ClientDeclines
  PROVE  LineGoal
<1>1. client' \in ClientState
  <2>1. NoSdp \in Sdp BY DEF NoSdp, Sdp
  <2>2. client' = [client EXCEPT !.ring = NoSdp] BY DEF ClientDeclines
  <2> QED BY <2>1, <2>2 DEF ClientState, Types
<1>2. /\ Enqueue(Operation("end", NoMessage, "rejected", FALSE))
      /\ state' = "rejecting" /\ "rejecting" \in State /\ "rejected" \in State
      /\ "end" \in OtherDo /\ NoMessage \in Word
  BY DEF ClientDeclines, State, OtherDo, NoMessage, Word
<1>3. UNCHANGED <<pendingEnd, lines, local, minted, callId, held, lastAnswer, up, down,
                  offers>>
  BY DEF ClientDeclines, audio, sdps, count
<1> QED BY <1>1, <1>2, <1>3, JoinKeeps DEF Types

LEMMA ClientHearsKeeps ==
  ASSUME Types, LineThere, ClientHears
  PROVE  LineGoal
<1> DEFINE m == Head(down)
           sdp == [n |-> m.n, call |-> m.call, ssrc |-> m.ssrc]
           idle == [client EXCEPT !.open = NoMessage, !.ring = NoSdp, !.inCall = FALSE]
<1>1. down \in Seq(Told) /\ down # <<>> /\ client \in ClientState /\ up \in Seq(Offer \cup Word)
  BY DEF Types, ClientHears
<1>2. m \in Told /\ down' \in Seq(Told)
  BY <1>1, HeadTailProperties DEF ClientHears
<1>3. sdp \in Sdp BY <1>2 DEF Told, Sdp
<1>4. /\ NoMessage \in [kind : {"none", "offer", "endOffer"}, n : Nat, call : Nat]
      /\ NoSdp \in Sdp
  BY DEF NoMessage, NoSdp, Sdp
<1>5. idle \in ClientState BY <1>1, <1>4 DEF ClientState
<1>6. client' \in {[idle EXCEPT !.ring = sdp], [idle EXCEPT !.inCall = TRUE, !.told = sdp],
                   idle, [client EXCEPT !.open = NoMessage], client}
  BY DEF ClientHears
<1>7. UNCHANGED <<state, pendingEnd, chain, lines, local, minted, held, lastAnswer,
                  callId, offers>>
  BY DEF ClientHears, server, leg, audio, sdps, count
<1>8. up' \in Seq(Offer \cup Word)
  <2> DEFINE w == Speak("endAnswer", 0, m.call)
  <2>1. w \in Word BY <1>2 DEF Told, Speak, Word
  <2>2. up' = up \/ up' = Append(up, w) BY DEF ClientHears
  <2> HIDE DEF w
  <2>3. Append(up, w) \in Seq(Offer \cup Word) BY <1>1, <2>1, AppendProperties
  <2> QED BY <1>1, <2>2, <2>3
<1> HIDE DEF idle, sdp
<1>9. client' \in ClientState BY <1>1, <1>3, <1>4, <1>5, <1>6 DEF ClientState
<1> QED BY <1>2, <1>7, <1>8, <1>9, AsideKeeps DEF Types

-----------------------------------------------------------------------------
LEMMA InitLine == Init => LineInv
<1> SUFFICES ASSUME Init PROVE LineInv OBVIOUS
<1>1. /\ NoMessage \in Word /\ NoSdp \in Sdp /\ "connected" \in State
      /\ NoMessage \in [kind : {"none", "offer", "endOffer"}, n : Nat, call : Nat]
  BY DEF NoMessage, NoSdp, Word, Sdp, State
<1>2. /\ <<>> \in Seq(Op) /\ <<>> \in AtMostOne /\ <<>> \in Seq(Offer \cup Word)
      /\ <<>> \in Seq(Told)
  BY EmptySeq DEF AtMostOne
<1>3. client \in ClientState BY <1>1 DEF Init, ClientState
<1>4. LineThere
  <2>1. DOMAIN chain = {} BY DEF Init
  <2> QED BY <2>1 DEF LineThere
<1> QED BY <1>1, <1>2, <1>3, <1>4 DEF Init, LineInv, Types

LEMMA NextLine ==
  ASSUME OneMid, LineInv, [Next]_vars
  PROVE  LineInv'
<1>1. Types /\ LineThere BY DEF LineInv
<1>2. CASE Run
  BY <1>1, <1>2, ApplyOfferKeeps, RecoverKeeps, AnswerOfferKeeps, AnswerRestartKeeps,
     RingKeeps, RingSendKeeps, ApplyAnswerKeeps, FlushKeeps, AckEndKeeps, EndOfferKeeps,
     EndRemoteKeeps
  DEF Run, LineGoal, LineInv
<1>3. CASE Deliver BY <1>1, <1>3, DeliverKeeps DEF LineGoal, LineInv
<1>4. CASE Coordinate
  BY <1>1, <1>4, IntendKeeps, MediaKeeps DEF Coordinate, LineGoal, LineInv
<1>5. CASE Client
  BY <1>1, <1>5, ClientOffersKeeps, ClientHangsUpKeeps, ClientPicksUpKeeps,
     ClientDeclinesKeeps, ClientHearsKeeps
  DEF Client, LineGoal, LineInv
<1>6. CASE UNCHANGED vars
  BY <1>1, <1>6
  DEF vars, leg, audio, sdps, count, LineInv, Types, LineThere
<1> QED BY <1>2, <1>3, <1>4, <1>5, <1>6 DEF Next

\* However many calls, restarts, repairs and errors of the SDP engine the
\* connection has seen, in whatever order, the client is shown one audio line
\* (WebRtcNegotiation: "Never grow the audio m-line count beside an existing
\* mid"), as long as it offers its audio under the mid of the line.
THEOREM OneLineForEveryCall ==
  ASSUME OneMid
  PROVE  Spec => []OneAudioLine
<1>1. LineInv => OneAudioLine
  <2> SUFFICES ASSUME LineInv PROVE Len(lines) <= 1 BY DEF OneAudioLine
  <2>1. lines \in AtMostOne BY DEF LineInv, Types
  <2>2. CASE lines = <<>> BY <2>2
  <2>3. CASE lines # <<>> BY <2>1, <2>3, OneOf
  <2> QED BY <2>2, <2>3
<1>2. LineInv /\ [Next]_vars => LineInv' BY NextLine
<1> QED BY <1>1, <1>2, InitLine, PTL DEF Spec

-----------------------------------------------------------------------------
(* The identities.  Every one in use was minted, and a ring is described   *)
(* under the newest: it lies above all that the client knows or is about   *)
(* to hear before it.                                                      *)

\* The identities on the lines are among the first n.
Minted(ls, n) == \A i \in DOMAIN ls : ls[i].ssrc \in 0 .. n

\* What the client has heard, or will.
Heard == {0, client.told.ssrc, client.ring.ssrc} \cup {down[i].ssrc : i \in DOMAIN down}

AllMinted ==
  /\ Minted(lines, minted)
  /\ held.ssrc \in 0 .. minted /\ lastAnswer.ssrc \in 0 .. minted
  /\ Heard \subseteq 0 .. minted
  /\ \A k \in DOMAIN chain : chain[k].ssrc \in 0 .. minted

\* A ring that is about to be sent is the operation that runs.
RingAhead ==
  \A k \in DOMAIN chain : chain[k].do = "ringSend" =>
    k = 1 /\ \A s \in Heard : s < chain[k].ssrc

\* One that was sent is above what the client knows and what comes before it.
RingOrder ==
  \A j \in DOMAIN down : down[j].kind = "ring" =>
    /\ client.told.ssrc < down[j].ssrc /\ client.ring.ssrc < down[j].ssrc
    /\ \A i \in 1 .. j - 1 : down[i].ssrc < down[j].ssrc

RingNew == client.ring # NoSdp => client.told.ssrc < client.ring.ssrc

RingInv == AllMinted /\ RingAhead /\ RingOrder /\ RingNew

RingGoal == AllMinted' /\ RingAhead' /\ RingOrder' /\ RingNew'

\* The first and the second half of a step: what it mints and what it queues.
MintsWell ==
  /\ minted' \in Nat /\ minted <= minted'
  /\ Minted(lines', minted')
  /\ held'.ssrc \in 0 .. minted' /\ lastAnswer'.ssrc \in 0 .. minted'

QueuesWell ==
  \A k \in DOMAIN chain' :
    /\ chain'[k].ssrc \in 0 .. minted
    /\ chain'[k].do = "ringSend" =>
         k = 1 /\ 1 \in DOMAIN chain /\ chain[1].do = "ringSend"
           /\ chain'[1].ssrc = chain[1].ssrc

\* No ring is about to be sent.
QueuesNoRing ==
  \A k \in DOMAIN chain' : chain'[k].ssrc \in 0 .. minted /\ chain'[k].do # "ringSend"

-----------------------------------------------------------------------------
LEMMA Numbers ==
  ASSUME Types
  PROVE  /\ minted \in Nat /\ client.told.ssrc \in Nat /\ client.ring.ssrc \in Nat
         /\ \A i \in DOMAIN down : down[i] \in Told /\ down[i].ssrc \in Nat
         /\ \A k \in DOMAIN chain : chain[k] \in Op /\ chain[k].ssrc \in Nat
         /\ DOMAIN down = 1 .. Len(down) /\ Len(down) \in Nat
         /\ DOMAIN chain = 1 .. Len(chain) /\ Len(chain) \in Nat
<1>1. /\ chain \in Seq(Op) /\ down \in Seq(Told) /\ client \in ClientState /\ minted \in Nat
  BY DEF Types
<1>2. /\ \A i \in 1 .. Len(down) : down[i] \in Told
      /\ \A k \in 1 .. Len(chain) : chain[k] \in Op
      /\ DOMAIN down = 1 .. Len(down) /\ Len(down) \in Nat
      /\ DOMAIN chain = 1 .. Len(chain) /\ Len(chain) \in Nat
  BY <1>1, ElementOfSeq, LenProperties
<1>3. client.told.ssrc \in Nat /\ client.ring.ssrc \in Nat BY <1>1 DEF ClientState, Sdp
<1>4. \A x \in Told : x.ssrc \in Nat BY DEF Told
<1>5. \A x \in Op : x.ssrc \in Nat BY DEF Op, OfferOp, OtherOp
<1> QED BY <1>1, <1>2, <1>3, <1>4, <1>5

\* A step that says nothing to the client: no ring becomes less fresh.
LEMMA RingAside ==
  ASSUME Types, RingInv, MintsWell, QueuesWell, UNCHANGED down,
         client'.told = client.told, client'.ring \in {client.ring, NoSdp}
  PROVE  RingGoal
<1>1. NoSdp.ssrc = 0 BY DEF NoSdp
<1>2. client'.ring.ssrc = client.ring.ssrc \/ client'.ring.ssrc = 0 BY <1>1
<1>3. Heard' \subseteq Heard BY <1>2 DEF Heard
<1>4. AllMinted'
  <2>1. Heard' \subseteq 0 .. minted'
    BY <1>3, Numbers DEF RingInv, AllMinted, MintsWell
  <2>2. \A k \in DOMAIN chain' : chain'[k].ssrc \in 0 .. minted'
    BY Numbers DEF MintsWell, QueuesWell
  <2> QED BY <2>1, <2>2 DEF AllMinted, MintsWell
<1>5. RingAhead' BY <1>3 DEF RingInv, RingAhead, QueuesWell
<1>6. RingOrder'
  <2> SUFFICES ASSUME NEW j \in DOMAIN down, down[j].kind = "ring"
               PROVE  client'.ring.ssrc < down[j].ssrc
    BY DEF RingInv, RingOrder
  <2>1. client.told.ssrc < down[j].ssrc /\ client.ring.ssrc < down[j].ssrc
    BY DEF RingInv, RingOrder
  <2> QED BY <1>2, <2>1, Numbers
<1>7. RingNew' BY DEF RingInv, RingNew
<1> QED BY <1>4, <1>5, <1>6, <1>7 DEF RingGoal

\* What is said lies behind what was said.
LEMMA Behind ==
  ASSUME Types, NEW m, Send(m)
  PROVE  /\ DOMAIN down' = 1 .. Len(down) + 1
         /\ \A i \in 1 .. Len(down) : down'[i] = down[i]
         /\ down'[Len(down) + 1] = m
<1>1. down \in Seq(Told) /\ down' = Append(down, m) BY DEF Types, Send
<1> QED BY <1>1

\* A step that says something other than a ring.
LEMMA RingSaid ==
  ASSUME Types, RingInv, MintsWell, QueuesNoRing, UNCHANGED client,
         NEW m, m.kind # "ring", m.ssrc \in 0 .. minted, Send(m)
  PROVE  RingGoal
<1>1. /\ DOMAIN down' = 1 .. Len(down) + 1
      /\ \A i \in 1 .. Len(down) : down'[i] = down[i]
      /\ down'[Len(down) + 1] = m
  BY Behind
<1>2. DOMAIN down = 1 .. Len(down) /\ Len(down) \in Nat BY Numbers
<1>3. \A i \in DOMAIN down' : i \in DOMAIN down \/ i = Len(down) + 1 BY <1>1, <1>2
<1>4. AllMinted'
  <2>1. Heard \subseteq 0 .. minted BY DEF RingInv, AllMinted
  <2>2. \A i \in DOMAIN down' : down'[i].ssrc \in 0 .. minted
    BY <1>1, <1>2, <1>3, <2>1 DEF Heard
  <2>3. Heard' \subseteq 0 .. minted BY <2>1, <2>2 DEF Heard
  <2>4. 0 .. minted \subseteq 0 .. minted' BY Numbers DEF MintsWell
  <2> QED BY <2>3, <2>4 DEF AllMinted, MintsWell, QueuesNoRing
<1>5. RingAhead' BY DEF RingAhead, QueuesNoRing
<1>6. RingOrder'
  <2> SUFFICES ASSUME NEW j \in DOMAIN down', down'[j].kind = "ring"
               PROVE  /\ client.told.ssrc < down'[j].ssrc
                      /\ client.ring.ssrc < down'[j].ssrc
                      /\ \A i \in 1 .. j - 1 : down'[i].ssrc < down'[j].ssrc
    BY DEF RingOrder
  <2>1. j \in 1 .. Len(down) /\ down'[j] = down[j] BY <1>1, <1>2, <1>3
  <2>2. \A i \in 1 .. j - 1 : i \in 1 .. Len(down) BY <1>2, <2>1
  <2> QED BY <1>1, <1>2, <2>1, <2>2 DEF RingInv, RingOrder
<1>7. RingNew' BY DEF RingInv, RingNew
<1> QED BY <1>4, <1>5, <1>6, <1>7 DEF RingGoal

-----------------------------------------------------------------------------
(* The identities on the lines.                                            *)

LEMMA SameIdentities ==
  ASSUME NEW ls, NEW f, NEW n, DOMAIN f = DOMAIN ls, Minted(ls, n),
         \A i \in DOMAIN ls : f[i].ssrc = ls[i].ssrc
  PROVE  Minted(f, n)
BY DEF Minted

LEMMA AttachedMinted ==
  ASSUME NEW ls \in AtMostOne, NEW n \in Nat, NEW k \in Nat, n <= k, Minted(ls, n)
  PROVE  Minted(Attached(ls, k), k)
<1>1. CASE ls = <<>> BY <1>1 DEF Attached, Minted
<1>2. CASE ls # <<>>
  <2>1. Attached(ls, k) =
          [i \in DOMAIN ls |->
             IF i = 1 THEN [ls[i] EXCEPT !.dir = "sendrecv", !.track = k, !.ssrc = k]
             ELSE [ls[i] EXCEPT !.dir = "inactive"]]
    BY <1>2, FirstIsOne DEF Attached
  <2>2. DOMAIN ls = {1} /\ ls[1] \in Line BY <1>2, OneOf
  <2>3. Attached(ls, k)[1].ssrc = k /\ DOMAIN Attached(ls, k) = {1}
    BY <2>1, <2>2 DEF Line
  <2> QED BY <2>3 DEF Minted
<1> QED BY <1>1, <1>2

LEMMA RepairedMinted ==
  ASSUME NEW ls \in AtMostOne, NEW n \in Nat, NEW k \in Nat, n <= k, Minted(ls, n)
  PROVE  Minted(Repaired(ls, k, 1), k)
<1> DEFINE fresh == Attached(ls, k)
           f == Repaired(ls, k, 1)
<1>1. fresh \in AtMostOne /\ fresh # <<>> /\ Minted(fresh, k)
  BY AttachedOne, AttachedMinted
<1> HIDE DEF fresh
<1>2. f = [i \in DOMAIN fresh |->
             IF i = 1 THEN [fresh[i] EXCEPT !.mid = 1, !.dir = "sendrecv", !.track = k]
             ELSE [fresh[i] EXCEPT !.dir = "inactive"]]
  BY <1>1, FirstIsOne DEF Repaired, fresh
<1>3. DOMAIN fresh = {1} /\ fresh[1] \in Line BY <1>1, OneOf
<1>4. DOMAIN f = DOMAIN fresh /\ f[1].ssrc = fresh[1].ssrc BY <1>2, <1>3 DEF Line
<1> HIDE DEF f
<1> QED BY <1>1, <1>3, <1>4, SameIdentities DEF f

LEMMA RemoteOfferMinted ==
  ASSUME NEW ls \in AtMostOne, NEW n \in Nat, Minted(ls, n)
  PROVE  Minted(RemoteOffer(ls, 1), n)
<1>1. CASE ls = <<>>
  <2>1. RemoteOffer(ls, 1) = <<[mid |-> 1, dir |-> "recvonly", track |-> 0, ssrc |-> 0]>>
    BY <1>1 DEF RemoteOffer
  <2> QED BY <2>1 DEF Minted
<1>2. CASE ls # <<>>
  <2>1. DOMAIN ls = {1} /\ ls[1] \in Line BY <1>2, OneOf
  <2>2. \E i \in DOMAIN ls : ls[i].mid \in {0, 1} BY <2>1 DEF Line
  <2>3. RemoteOffer(ls, 1) = [ls EXCEPT ![1] = [ls[1] EXCEPT !.mid = 1]]
    BY <1>2, <2>2, FirstIsOne DEF RemoteOffer
  <2>4. RemoteOffer(ls, 1)[1].ssrc = ls[1].ssrc /\ DOMAIN RemoteOffer(ls, 1) = {1}
    BY <2>1, <2>3 DEF Line
  <2> QED BY <2>1, <2>4, SameIdentities
<1> QED BY <1>1, <1>2

LEMMA LocalOfferMinted ==
  ASSUME NEW ls \in AtMostOne, ls # <<>>, NEW n \in Nat, Minted(ls, n)
  PROVE  Minted(LocalOffer(ls), n)
<1>1. DOMAIN ls = {1} /\ ls[1] \in Line BY OneOf
<1>2. LocalOffer(ls) =
        [i \in DOMAIN ls |-> [ls[i] EXCEPT !.mid = IF ls[i].mid = 0 THEN i ELSE ls[i].mid]]
  BY DEF LocalOffer
<1>3. LocalOffer(ls)[1].ssrc = ls[1].ssrc /\ DOMAIN LocalOffer(ls) = {1}
  BY <1>1, <1>2 DEF Line
<1> QED BY <1>1, <1>3, SameIdentities

LEMMA RedirectedMinted ==
  ASSUME NEW ls \in AtMostOne, NEW d, NEW k, NEW n, Minted(ls, n)
  PROVE  /\ Minted([ls EXCEPT ![1].dir = d], n)
         /\ Minted([ls EXCEPT ![1].dir = d, ![1].track = k], n)
<1>1. CASE ls = <<>> BY <1>1 DEF Minted
<1>2. CASE ls # <<>>
  <2>1. DOMAIN ls = {1} /\ ls[1] \in Line BY <1>2, OneOf
  <2> DEFINE f == [ls EXCEPT ![1].dir = d]
             g == [ls EXCEPT ![1].dir = d, ![1].track = k]
  <2>2. f[1].ssrc = ls[1].ssrc /\ DOMAIN f = DOMAIN ls BY <2>1 DEF Line
  <2>3. g[1].ssrc = ls[1].ssrc /\ DOMAIN g = DOMAIN ls BY <2>1 DEF Line
  <2> HIDE DEF f, g
  <2>4. Minted(f, n) /\ Minted(g, n) BY <2>1, <2>2, <2>3, SameIdentities
  <2> QED BY <2>4 DEF f, g
<1> QED BY <1>1, <1>2

-----------------------------------------------------------------------------
(* What the operations leave in the chain.                                 *)

LEMMA AgedQueue ==
  ASSUME NEW q \in Seq(Op)
  PROVE  /\ DOMAIN Aged(q) = DOMAIN q
         /\ \A k \in DOMAIN q : Aged(q)[k].ssrc = q[k].ssrc /\ Aged(q)[k].do = q[k].do
<1>1. \A k \in DOMAIN q : q[k] \in Op BY LenProperties, ElementOfSeq
<1>2. \A x \in Op : /\ [x EXCEPT !.stale = TRUE].ssrc = x.ssrc
                    /\ [x EXCEPT !.stale = TRUE].do = x.do
  BY DEF Op, OfferOp, OtherOp
<1> QED BY <1>1, <1>2 DEF Aged

\* The first operation ends, and with it the one ring there may be.
LEMMA CompleteQueues ==
  ASSUME Types, RingInv, chain # <<>>, NEW then, Complete(then)
  PROVE  QueuesNoRing
<1> DEFINE q == Tail(chain)
<1>1. chain \in Seq(Op) /\ chain' = Aged(q) BY DEF Types, Complete
<1>2. /\ q \in Seq(Op) /\ Len(q) = Len(chain) - 1
      /\ \A k \in 1 .. Len(q) : q[k] = chain[k + 1]
  BY <1>1, HeadTailProperties
<1> HIDE DEF q
<1>3. DOMAIN q = 1 .. Len(q) /\ DOMAIN chain = 1 .. Len(chain) /\ Len(chain) \in Nat
  BY <1>1, <1>2, LenProperties
<1>4. ASSUME NEW k \in DOMAIN q PROVE q[k].ssrc \in 0 .. minted /\ q[k].do # "ringSend"
  <2>1. k \in 1 .. Len(chain) - 1 BY <1>2, <1>3
  <2>2. k + 1 \in DOMAIN chain /\ k + 1 # 1 /\ q[k] = chain[k + 1]
    BY <1>2, <1>3, <2>1, PlaceBehind
  <2> QED BY <2>2 DEF RingInv, AllMinted, RingAhead
<1> QED BY <1>1, <1>2, <1>4, AgedQueue DEF QueuesNoRing

LEMMA NoRingQueues ==
  ASSUME QueuesNoRing
  PROVE  QueuesWell
BY DEF QueuesNoRing, QueuesWell

\* What is there stays, and what joins it is no ring about to be sent.
LEMMA JoinQueues ==
  ASSUME Types, RingInv, NEW do, do # "ringSend", NEW m, NEW then, NEW own,
         Enqueue(Operation(do, m, then, own))
  PROVE  QueuesWell
<1> DEFINE op == Operation(do, m, then, own)
           q == Aged(chain)
<1>1. op.ssrc = 0 /\ op.do = do BY DEF Operation
<1>2. chain \in Seq(Op) /\ chain' = Append(q, op) BY DEF Types, Enqueue
<1>3. /\ DOMAIN q = DOMAIN chain
      /\ \A k \in DOMAIN chain : q[k].ssrc = chain[k].ssrc /\ q[k].do = chain[k].do
  BY <1>2, AgedQueue
<1>4. DOMAIN chain = 1 .. Len(chain) /\ Len(chain) \in Nat BY Numbers
<1>5. q \in Seq(Op)
  <2>1. Served(chain, <<0>>) BY DEF Served
  <2> QED BY <1>2, <2>1, AgedTypes
<1> HIDE DEF q, op
<1>6. Len(q) = Len(chain) BY <1>3, <1>4, <1>5, LenProperties
<1>7. /\ DOMAIN chain' = 1 .. Len(chain) + 1
      /\ \A k \in 1 .. Len(chain) : chain'[k] = q[k]
      /\ chain'[Len(chain) + 1] = op
  BY <1>2, <1>5, <1>6
<1>8. ASSUME NEW k \in DOMAIN chain'
      PROVE  /\ chain'[k].ssrc \in 0 .. minted
             /\ chain'[k].do = "ringSend" =>
                  k = 1 /\ 1 \in DOMAIN chain /\ chain[1].do = "ringSend"
                    /\ chain'[1].ssrc = chain[1].ssrc
  <2>1. CASE k = Len(chain) + 1 BY <1>1, <1>7, <2>1, Numbers
  <2>2. CASE k # Len(chain) + 1
    <3>1. k \in DOMAIN chain BY <1>4, <1>7, <2>2
    <3>2. chain'[k].ssrc = chain[k].ssrc /\ chain'[k].do = chain[k].do
      BY <1>3, <1>4, <1>7, <3>1
    <3> QED BY <3>1, <3>2 DEF RingInv, AllMinted, RingAhead
  <2> QED BY <2>1, <2>2
<1> QED BY <1>8 DEF QueuesWell

\* It stays what it is, or ages.
LEMMA SameQueues ==
  ASSUME Types, RingInv, UNCHANGED chain \/ chain' = Aged(chain)
  PROVE  QueuesWell
<1>1. /\ DOMAIN chain' = DOMAIN chain
      /\ \A k \in DOMAIN chain : chain'[k].ssrc = chain[k].ssrc /\ chain'[k].do = chain[k].do
  BY AgedQueue DEF Types
<1> QED BY <1>1 DEF QueuesWell, RingInv, AllMinted, RingAhead

\* The first takes another shape.
LEMMA BecomeQueues ==
  ASSUME Types, RingInv, chain # <<>>, NEW op, Become(op)
  PROVE  /\ 1 \in DOMAIN chain /\ DOMAIN chain' = DOMAIN chain /\ chain'[1] = op
         /\ \A k \in DOMAIN chain \ {1} :
              chain'[k].ssrc \in 0 .. minted /\ chain'[k].do # "ringSend"
<1>1. chain' = [chain EXCEPT ![1] = op] BY DEF Become
<1>2. 1 \in DOMAIN chain BY FirstOp
<1> QED BY <1>1, <1>2 DEF RingInv, AllMinted, RingAhead

-----------------------------------------------------------------------------
(* The operations.                                                         *)

\* Nothing is minted, and the lines keep their identities.
LEMMA NothingMinted ==
  ASSUME Types, RingInv, UNCHANGED <<minted, held, lastAnswer>>, Minted(lines', minted)
  PROVE  MintsWell
BY Numbers DEF MintsWell, RingInv, AllMinted

LEMMA SilentMinted ==
  ASSUME Types, RingInv, SetAudioInactive
  PROVE  minted' = minted /\ Minted(lines', minted)
<1>1. lines \in AtMostOne BY DEF Types
<1>2. Minted(lines, minted) BY DEF RingInv, AllMinted
<1>3. lines' = lines \/ lines' = [lines EXCEPT ![1].dir = "inactive"]
  BY DEF SetAudioInactive
<1>4. Minted([lines EXCEPT ![1].dir = "inactive"], minted) BY <1>1, <1>2, RedirectedMinted
<1> QED BY <1>2, <1>3, <1>4 DEF SetAudioInactive

LEMMA OutputMinted ==
  ASSUME Types, RingInv, EnsureOutputTrack(lines)
  PROVE  /\ minted' \in Nat /\ minted <= minted'
         /\ Minted(lines', minted) /\ Minted(lines', minted')
<1>1. lines \in AtMostOne /\ minted \in Nat BY DEF Types
<1>2. Minted(lines, minted) BY DEF RingInv, AllMinted
<1>3. minted' \in Nat /\ minted <= minted' BY <1>1 DEF EnsureOutputTrack, New
<1>4. Minted(lines', minted)
  <2>1. lines' = lines
        \/ lines' = [lines EXCEPT ![1].dir = "sendrecv", ![1].track = local']
    BY DEF EnsureOutputTrack
  <2>2. Minted([lines EXCEPT ![1].dir = "sendrecv", ![1].track = local'], minted)
    BY <1>1, <1>2, RedirectedMinted
  <2> QED BY <1>2, <2>1, <2>2
<1>5. Minted(lines', minted') BY <1>1, <1>3, <1>4 DEF Minted
<1> QED BY <1>3, <1>4, <1>5

\* The identity described is a minted one.
LEMMA IdentityMinted ==
  ASSUME Types, RingInv, lines # <<>>, NEW mid
  PROVE  Identity(lines, mid) \in 0 .. minted
<1>1. lines \in AtMostOne BY DEF Types
<1>2. First(lines, {mid}) = 1 /\ DOMAIN lines = {1} BY <1>1, FirstIsOne, OneOf
<1> QED BY <1>2 DEF Identity, RingInv, AllMinted, Minted

LEMMA ApplyOfferRing ==
  ASSUME Types, RingInv, ApplyOffer
  PROVE  RingGoal
<1> DEFINE op == Head(chain)
           mine == IF op.do = "offer" THEN Attached(lines, New) ELSE lines
           next == [op EXCEPT !.do = IF op.do = "offer" THEN "answerOffer"
                                     ELSE "answerRestart"]
<1>1. chain # <<>> /\ op \in Op /\ op.do \in {"offer", "restart"} /\ op = chain[1]
      /\ 1 \in DOMAIN chain
  BY FirstOp DEF ApplyOffer, Running
<1>2. op.m.mid = 1 BY <1>1 DEF Op, OfferOp, OtherOp, OtherDo, Offer
<1>3. lines \in AtMostOne /\ minted \in Nat /\ Minted(lines, minted)
  BY DEF Types, RingInv, AllMinted
<1>4. New \in Nat /\ minted <= New BY <1>3 DEF New
<1>5. minted' = IF op.do = "offer" THEN New ELSE minted BY DEF ApplyOffer
<1>6. mine \in AtMostOne /\ Minted(mine, minted')
  BY <1>3, <1>4, <1>5, AttachedOne, AttachedMinted
<1>7. UNCHANGED <<held, lastAnswer, down, client>> BY DEF ApplyOffer
<1>8. lines' = mine \/ lines' = RemoteOffer(mine, 1) BY <1>2 DEF ApplyOffer
<1>9. minted' \in Nat /\ minted <= minted' BY <1>3, <1>4, <1>5
<1>10. Complete("") \/ Become(next) BY DEF ApplyOffer
<1>11. next.do # "ringSend" /\ next.ssrc = op.ssrc
  BY <1>1 DEF Op, OfferOp, OtherOp
<1> HIDE DEF mine, op, next
<1>12. Minted(lines', minted') BY <1>6, <1>8, <1>9, RemoteOfferMinted
<1>13. MintsWell
  <2>1. held.ssrc \in 0 .. minted /\ lastAnswer.ssrc \in 0 .. minted
    BY DEF RingInv, AllMinted
  <2> QED BY <1>3, <1>7, <1>9, <1>12, <2>1 DEF MintsWell
<1>14. QueuesWell
  <2>1. CASE Complete("") BY <1>1, <2>1, CompleteQueues, NoRingQueues
  <2>2. CASE Become(next)
    <3>1. op.ssrc \in 0 .. minted BY <1>1 DEF RingInv, AllMinted
    <3> QED BY <1>1, <1>11, <2>2, <3>1, BecomeQueues DEF QueuesWell
  <2> QED BY <1>10, <2>1, <2>2
<1> QED BY <1>7, <1>13, <1>14, RingAside

LEMMA RecoverRing ==
  ASSUME Types, RingInv, Recover
  PROVE  RingGoal
<1> DEFINE op == Head(chain)
<1>1. chain # <<>> /\ op \in Op /\ op.do \in OfferDo
  BY FirstOp DEF Recover, Running, OfferDo
<1>2. op.m.mid = 1 BY <1>1 DEF Op, OfferOp, OtherOp, OtherDo, OfferDo, Offer
<1>3. lines \in AtMostOne /\ minted \in Nat /\ Minted(lines, minted)
  BY DEF Types, RingInv, AllMinted
<1>4. lines' = Repaired(lines, New, 1) /\ minted' = New BY <1>2 DEF Recover
<1>5. New \in Nat /\ minted <= New BY <1>3 DEF New
<1>6. Minted(lines', minted') BY <1>3, <1>4, <1>5, RepairedMinted
<1>7. UNCHANGED <<held, lastAnswer, down, client, chain>> BY DEF Recover, sdps
<1>8. MintsWell
  <2>1. held.ssrc \in 0 .. minted /\ lastAnswer.ssrc \in 0 .. minted
    BY DEF RingInv, AllMinted
  <2> QED BY <1>3, <1>4, <1>5, <1>6, <1>7, <2>1 DEF MintsWell
<1> QED BY <1>7, <1>8, SameQueues, RingAside

LEMMA AnswerOfferRing ==
  ASSUME Types, LineThere, RingInv, AnswerOffer
  PROVE  RingGoal
<1> DEFINE op == Head(chain)
           sdp == [n |-> op.m.n, call |-> op.m.call, ssrc |-> Identity(lines, op.m.mid)]
<1>1. chain # <<>> /\ op.do = "answerOffer" /\ 1 \in DOMAIN chain /\ op = chain[1]
  BY FirstOp DEF AnswerOffer, Running
<1>2. lines # <<>> BY <1>1 DEF LineThere
<1>3. sdp.ssrc \in 0 .. minted BY <1>2, IdentityMinted
<1>4. held' = sdp /\ lastAnswer' = sdp /\ Complete(op.then) /\ EnsureOutputTrack(lines)
  BY DEF AnswerOffer, Hold, Finish
<1>5. UNCHANGED <<down, client>> BY DEF AnswerOffer
<1> HIDE DEF op, sdp
<1>6. MintsWell
  <2>1. minted' \in Nat /\ minted <= minted' /\ Minted(lines', minted')
    BY <1>4, OutputMinted
  <2> QED BY <1>3, <1>4, <2>1, Numbers DEF MintsWell
<1> QED BY <1>1, <1>4, <1>5, <1>6, CompleteQueues, NoRingQueues, RingAside

LEMMA AnswerRestartRing ==
  ASSUME Types, LineThere, RingInv, AnswerRestart
  PROVE  RingGoal
<1> DEFINE op == Head(chain)
           ssrc == Identity(lines, op.m.mid)
           m == Message("answer", op.m.n, callId, ssrc)
<1>1. chain # <<>> /\ op.do = "answerRestart" /\ 1 \in DOMAIN chain /\ op = chain[1]
  BY FirstOp DEF AnswerRestart, Running
<1>2. lines # <<>> BY <1>1 DEF LineThere
<1>3. ssrc \in 0 .. minted BY <1>2, IdentityMinted
<1>4. lastAnswer'.ssrc = ssrc /\ Send(m) /\ Complete(op.then)
  BY DEF AnswerRestart, Finish
<1>5. UNCHANGED <<lines, minted, held, client>> BY DEF AnswerRestart, audio
<1>6. m.kind # "ring" /\ m.ssrc = ssrc BY DEF Message
<1> HIDE DEF op, ssrc, m
<1>7. MintsWell BY <1>3, <1>4, <1>5, Numbers DEF MintsWell, RingInv, AllMinted
<1> QED BY <1>1, <1>3, <1>4, <1>5, <1>6, <1>7, CompleteQueues, RingSaid

\* The ring takes the newest identity there is.
LEMMA RingRing ==
  ASSUME Types, RingInv, Ring
  PROVE  RingGoal
<1> DEFINE op == Head(chain)
           next == [op EXCEPT !.do = "ringSend", !.ssrc = New]
<1>1. chain # <<>> /\ op \in Op BY FirstOp DEF Ring, Running
<1>2. next.do = "ringSend" /\ next.ssrc = New BY <1>1 DEF Op, OfferOp, OtherOp
<1>3. lines \in AtMostOne /\ minted \in Nat /\ Minted(lines, minted)
  BY DEF Types, RingInv, AllMinted
<1>4. New \in Nat /\ minted < New /\ minted' = New BY <1>3 DEF New, Ring
<1>5. lines' = LocalOffer(Attached(lines, New)) /\ Become(next) BY DEF Ring
<1>6. Minted(lines', minted')
  BY <1>3, <1>4, <1>5, AttachedOne, AttachedMinted, LocalOfferMinted
<1>7. UNCHANGED <<held, lastAnswer, down, client>> BY DEF Ring
<1> HIDE DEF op, next
<1>8. /\ DOMAIN chain' = DOMAIN chain /\ chain'[1] = next
      /\ \A k \in DOMAIN chain \ {1} :
           chain'[k].ssrc \in 0 .. minted /\ chain'[k].do # "ringSend"
  BY <1>1, <1>5, BecomeQueues
<1>9. Heard' = Heard BY <1>7 DEF Heard
<1>10. 0 .. minted \subseteq 0 .. minted' /\ New \in 0 .. minted' BY <1>3, <1>4
<1>11. AllMinted'
  <2>1. \A k \in DOMAIN chain' : chain'[k].ssrc \in 0 .. minted'
    BY <1>2, <1>8, <1>10
  <2> QED BY <1>6, <1>7, <1>9, <1>10, <2>1 DEF RingInv, AllMinted
<1>12. RingAhead'
  <2>1. \A s \in Heard : s < New BY <1>3, <1>4 DEF RingInv, AllMinted
  <2> QED BY <1>2, <1>8, <1>9, <2>1 DEF RingAhead
<1>13. RingOrder' /\ RingNew' BY <1>7 DEF RingInv, RingOrder, RingNew
<1> QED BY <1>11, <1>12, <1>13 DEF RingGoal

LEMMA RingSendRing ==
  ASSUME Types, RingInv, RingSend
  PROVE  RingGoal
<1> DEFINE op == Head(chain)
           m == Message("ring", op.m.n, callId, op.ssrc)
<1>1. chain # <<>> /\ op.do = "ringSend" /\ op = chain[1] /\ 1 \in DOMAIN chain
  BY FirstOp DEF RingSend, Running
<1>2. m.ssrc = op.ssrc BY DEF Message
<1>3. Send(m) /\ Complete(op.then) BY DEF RingSend, Finish
<1>4. UNCHANGED <<lines, minted, held, lastAnswer, client>> BY DEF RingSend, audio, sdps
<1>5. (\A s \in Heard : s < op.ssrc) /\ op.ssrc \in 0 .. minted
  BY <1>1 DEF RingInv, RingAhead, AllMinted
<1> HIDE DEF op, m
<1>6. QueuesNoRing BY <1>1, <1>3, CompleteQueues
<1>7. /\ DOMAIN down' = 1 .. Len(down) + 1
      /\ \A i \in 1 .. Len(down) : down'[i] = down[i]
      /\ down'[Len(down) + 1] = m
  BY <1>3, Behind
<1>8. DOMAIN down = 1 .. Len(down) /\ Len(down) \in Nat BY Numbers
<1>9. AllMinted'
  <2>1. Heard \subseteq 0 .. minted BY DEF RingInv, AllMinted
  <2>2. \A i \in DOMAIN down' : down'[i].ssrc \in 0 .. minted
    BY <1>2, <1>5, <1>7, <1>8, <2>1 DEF Heard
  <2>3. Heard' \subseteq 0 .. minted BY <1>4, <2>1, <2>2 DEF Heard
  <2> QED BY <1>4, <1>6, <2>3 DEF RingInv, AllMinted, QueuesNoRing
<1>10. RingAhead' BY <1>6 DEF RingAhead, QueuesNoRing
<1>11. RingOrder'
  <2> SUFFICES ASSUME NEW j \in DOMAIN down', down'[j].kind = "ring"
               PROVE  /\ client.told.ssrc < down'[j].ssrc
                      /\ client.ring.ssrc < down'[j].ssrc
                      /\ \A i \in 1 .. j - 1 : down'[i].ssrc < down'[j].ssrc
    BY <1>4 DEF RingOrder
  <2>1. CASE j = Len(down) + 1
    <3>1. down'[j].ssrc = op.ssrc BY <1>2, <1>7, <2>1
    <3>2. \A i \in 1 .. j - 1 : i \in DOMAIN down /\ down'[i] = down[i]
      BY <1>7, <1>8, <2>1
    <3> QED BY <1>5, <3>1, <3>2 DEF Heard
  <2>2. CASE j # Len(down) + 1
    <3>1. j \in DOMAIN down /\ down'[j] = down[j] BY <1>7, <1>8, <2>2
    <3>2. \A i \in 1 .. j - 1 : down'[i] = down[i] BY <1>7, <1>8, <3>1
    <3> QED BY <3>1, <3>2 DEF RingInv, RingOrder
  <2> QED BY <2>1, <2>2
<1>12. RingNew' BY <1>4 DEF RingInv, RingNew
<1> QED BY <1>9, <1>10, <1>11, <1>12 DEF RingGoal

\* What the end of an operation says is no ring.
LEMMA EndRing ==
  ASSUME Types, RingInv, chain # <<>>, NEW then, Finish(then), MintsWell,
         UNCHANGED client,
         \/ UNCHANGED down
         \/ \E m : m.kind # "ring" /\ m.ssrc \in 0 .. minted /\ Send(m)
  PROVE  RingGoal
<1>1. QueuesNoRing BY CompleteQueues DEF Finish
<1> QED BY <1>1, NoRingQueues, RingAside, RingSaid

LEMMA ApplyAnswerRing ==
  ASSUME Types, RingInv, ApplyAnswer
  PROVE  RingGoal
<1>1. chain # <<>> BY DEF ApplyAnswer, Running
<1>2. PICK then : Finish(then) BY DEF ApplyAnswer
<1>3. UNCHANGED <<lines, minted, held, lastAnswer, down, client>>
  BY DEF ApplyAnswer, audio
<1>4. MintsWell BY <1>3, NothingMinted DEF RingInv, AllMinted
<1> QED BY <1>1, <1>2, <1>3, <1>4, EndRing

LEMMA FlushRing ==
  ASSUME Types, RingInv, Flush
  PROVE  RingGoal
<1> DEFINE sdp == IF held # NoSdp THEN held ELSE lastAnswer
           m == Message("answer", sdp.n, callId, sdp.ssrc)
<1>1. chain # <<>> BY DEF Flush, Running
<1>2. Send(m) /\ held' = NoSdp /\ Finish(Head(chain).then) BY DEF Flush
<1>3. UNCHANGED <<lines, minted, lastAnswer, client>> BY DEF Flush, audio
<1>4. m.kind # "ring" /\ m.ssrc = sdp.ssrc BY DEF Message
<1>5. sdp.ssrc \in 0 .. minted BY DEF RingInv, AllMinted
<1>6. held'.ssrc \in 0 .. minted BY <1>2, Numbers DEF NoSdp
<1> HIDE DEF sdp, m
<1>7. MintsWell BY <1>3, <1>6, Numbers DEF MintsWell, RingInv, AllMinted
<1> QED BY <1>1, <1>2, <1>3, <1>4, <1>5, <1>7, EndRing

LEMMA AnswerEndRing ==
  ASSUME Types, RingInv, chain # <<>>, NEW m, NEW then, AnswerEnd(m, then),
         UNCHANGED <<held, lastAnswer, client>>
  PROVE  RingGoal
<1>1. CASE OursOpen
  <2>1. Finish("") /\ UNCHANGED <<lines, minted, down>> BY <1>1 DEF AnswerEnd, audio
  <2>2. MintsWell BY <2>1, NothingMinted DEF RingInv, AllMinted
  <2> QED BY <2>1, <2>2, EndRing
<1>2. CASE ~ OursOpen
  <2> DEFINE x == Message("endAnswer", m.n, callId', 0)
  <2>1. SetAudioInactive /\ Finish(then) /\ Send(x) BY <1>2 DEF AnswerEnd
  <2>2. MintsWell BY <2>1, SilentMinted, NothingMinted
  <2>3. x.kind # "ring" /\ x.ssrc \in 0 .. minted BY Numbers DEF Message
  <2> QED BY <2>1, <2>2, <2>3, EndRing
<1> QED BY <1>1, <1>2

LEMMA AckEndRing ==
  ASSUME Types, RingInv, AckEnd
  PROVE  RingGoal
<1>1. chain # <<>> /\ UNCHANGED <<held, lastAnswer, client>> BY DEF AckEnd, Running
<1>2. CASE Head(chain).m.kind = "bye"
  <2>1. Finish("connected") /\ UNCHANGED <<lines, minted, down>>
    BY <1>2 DEF AckEnd, audio
  <2>2. MintsWell BY <1>1, <2>1, NothingMinted DEF RingInv, AllMinted
  <2> QED BY <1>1, <2>1, <2>2, EndRing
<1>3. CASE Head(chain).m.kind # "bye"
  <2>1. AnswerEnd(Head(chain).m, "connected") BY <1>3 DEF AckEnd
  <2> QED BY <1>1, <2>1, AnswerEndRing
<1> QED BY <1>2, <1>3

LEMMA EndOfferRing ==
  ASSUME Types, RingInv, EndOffer
  PROVE  RingGoal
<1> DEFINE x == Message("endOffer", 0, callId, 0)
<1>1. chain # <<>> /\ UNCHANGED <<held, lastAnswer, client>>
  BY DEF EndOffer, Running, sdps
<1>2. SetAudioInactive /\ Finish(Head(chain).then) /\ Send(x) BY DEF EndOffer
<1>3. MintsWell BY <1>1, <1>2, SilentMinted, NothingMinted
<1>4. x.kind # "ring" /\ x.ssrc \in 0 .. minted BY Numbers DEF Message
<1> QED BY <1>1, <1>2, <1>3, <1>4, EndRing

LEMMA EndRemoteRing ==
  ASSUME Types, RingInv, EndRemote
  PROVE  RingGoal
<1> DEFINE op == Head(chain)
           x == Message("end", 0, callId', 0)
<1>1. chain # <<>> /\ UNCHANGED <<held, lastAnswer, client>> BY DEF EndRemote, Running
<1>2. x.kind # "ring" /\ x.ssrc \in 0 .. minted BY Numbers DEF Message
<1>3. \/ Finish(op.then) /\ Send(x) /\ UNCHANGED audio
      \/ \E then : Finish(then) /\ UNCHANGED <<audio, down>>
      \/ AnswerEnd(op.m, op.then)
  BY DEF EndRemote
<1> HIDE DEF x
<1>4. CASE UNCHANGED audio
  <2>1. UNCHANGED <<lines, minted>> BY <1>4 DEF audio
  <2>2. MintsWell BY <1>1, <2>1, NothingMinted DEF RingInv, AllMinted
  <2> QED BY <1>1, <1>2, <1>3, <2>2, AnswerEndRing, EndRing
<1>5. CASE AnswerEnd(op.m, op.then) BY <1>1, <1>5, AnswerEndRing
<1> QED BY <1>3, <1>4, <1>5

-----------------------------------------------------------------------------
(* What comes in, what is intended, and the client.                        *)

LEMMA DeliverRing ==
  ASSUME Types, RingInv, Deliver
  PROVE  RingGoal
<1> DEFINE m == Head(up)
<1>1. UNCHANGED <<lines, minted, held, lastAnswer, down, client>>
  BY DEF Deliver, audio, sdps
<1>2. \/ UNCHANGED chain \/ chain' = Aged(chain)
      \/ \E do \in {"offer", "restart", "answer", "endRemote"} : \E then :
           Enqueue(Operation(do, m, then, FALSE))
  <2>1. OnOffer(m) \/ OnAnswer(m) \/ OnEnd(m) BY DEF Deliver
  <2> HIDE DEF m
  <2>2. CASE OnOffer(m) BY <2>2 DEF OnOffer, Ingress
  <2>3. CASE OnAnswer(m) BY <2>3 DEF OnAnswer, Ingress
  <2>4. CASE OnEnd(m) BY <2>4 DEF OnEnd, Ingress
  <2> QED BY <2>1, <2>2, <2>3, <2>4
<1> HIDE DEF m
<1>3. QueuesWell BY <1>2, SameQueues, JoinQueues
<1>4. MintsWell BY <1>1, NothingMinted DEF RingInv, AllMinted
<1> QED BY <1>1, <1>3, <1>4, RingAside

LEMMA IntendRings ==
  ASSUME Types, RingInv, IntendRing \/ IntendAnswer \/ IntendAckEnd \/ IntendEnd
  PROVE  RingGoal
<1>1. PICK do, m, now, then : do # "ringSend" /\ Intent(do, m, now, then)
  BY DEF IntendRing, IntendAnswer, IntendAckEnd, IntendEnd
<1>2. UNCHANGED <<lines, minted, held, lastAnswer, down, client>>
  BY <1>1 DEF Intent, audio, sdps
<1>3. QueuesWell BY <1>1, JoinQueues DEF Intent
<1>4. MintsWell BY <1>2, NothingMinted DEF RingInv, AllMinted
<1> QED BY <1>2, <1>3, <1>4, RingAside

LEMMA MediaRing ==
  ASSUME Types, RingInv, Bridge \/ Unbridge \/ Unbridged
  PROVE  RingGoal
<1>1. UNCHANGED <<chain, held, lastAnswer, down, client>>
  BY DEF Bridge, Unbridge, Unbridged, sdps
<1>2. lines \in AtMostOne /\ Minted(lines, minted) BY DEF Types, RingInv, AllMinted
<1>3. minted' \in Nat /\ minted <= minted' /\ Minted(lines', minted')
  <2>1. CASE Bridge BY <2>1, OutputMinted DEF Bridge
  <2>2. CASE Unbridge
    <3>1. lines' = [lines EXCEPT ![1].dir = "inactive"] /\ minted' = minted
      BY <2>2 DEF Unbridge
    <3>2. Minted([lines EXCEPT ![1].dir = "inactive"], minted) BY <1>2, RedirectedMinted
    <3> QED BY <3>1, <3>2, Numbers
  <2>3. CASE Unbridged BY <1>2, <2>3, Numbers DEF Unbridged
  <2> QED BY <2>1, <2>2, <2>3
<1>4. MintsWell BY <1>1, <1>3, Numbers DEF MintsWell, RingInv, AllMinted
<1> QED BY <1>1, <1>4, SameQueues, RingAside

\* What the client says, offers and declines; what it knows it knew.
LEMMA SpeakRing ==
  ASSUME Types, RingInv,
         (\E mid \in Mids : ClientOffers(mid)) \/ ClientHangsUp \/ ClientDeclines
  PROVE  RingGoal
<1>1. UNCHANGED <<lines, minted, held, lastAnswer, down>>
  BY DEF ClientOffers, ClientHangsUp, ClientDeclines, Utter, server, audio, sdps
<1>2. client'.told = client.told /\ client'.ring \in {client.ring, NoSdp}
  BY DEF ClientOffers, ClientHangsUp, ClientDeclines, Types, ClientState
<1>3. QueuesWell
  <2>1. CASE ClientDeclines BY <2>1, JoinQueues DEF ClientDeclines
  <2>2. CASE ~ ClientDeclines
    <3>1. UNCHANGED chain BY <2>2 DEF ClientOffers, ClientHangsUp, Utter, server
    <3> QED BY <3>1, SameQueues
  <2> QED BY <2>1, <2>2
<1>4. MintsWell BY <1>1, NothingMinted DEF RingInv, AllMinted
<1> QED BY <1>1, <1>2, <1>3, <1>4, RingAside

\* The ring becomes what the client was last told.
LEMMA PicksUpRing ==
  ASSUME Types, RingInv, ClientPicksUp
  PROVE  RingGoal
<1>1. UNCHANGED <<lines, minted, held, lastAnswer, down, chain>>
  BY DEF ClientPicksUp, Utter, server, audio, sdps
<1>2. client'.told = client.ring /\ client'.ring = NoSdp
  BY DEF ClientPicksUp, Types, ClientState
<1>3. NoSdp.ssrc = 0 BY DEF NoSdp
<1>4. Heard' \subseteq Heard BY <1>1, <1>2, <1>3 DEF Heard
<1>5. AllMinted' BY <1>1, <1>4 DEF RingInv, AllMinted
<1>6. RingAhead' BY <1>1, <1>4 DEF RingInv, RingAhead
<1>7. RingOrder'
  <2> SUFFICES ASSUME NEW j \in DOMAIN down, down[j].kind = "ring"
               PROVE  client.ring.ssrc < down[j].ssrc /\ 0 < down[j].ssrc
    BY <1>1, <1>2, <1>3 DEF RingInv, RingOrder
  <2>1. client.ring.ssrc < down[j].ssrc BY DEF RingInv, RingOrder
  <2> QED BY <2>1, Numbers
<1>8. RingNew' BY <1>2 DEF RingNew
<1> QED BY <1>5, <1>6, <1>7, <1>8 DEF RingGoal

\* The first of what the server said is heard.
LEMMA HearsRing ==
  ASSUME Types, RingInv, ClientHears
  PROVE  RingGoal
<1> DEFINE m == Head(down)
           sdp == [n |-> m.n, call |-> m.call, ssrc |-> m.ssrc]
           idle == [client EXCEPT !.open = NoMessage, !.ring = NoSdp, !.inCall = FALSE]
<1>1. UNCHANGED <<lines, minted, held, lastAnswer, chain>>
  BY DEF ClientHears, server, audio, sdps
<1>2. down \in Seq(Told) /\ down # <<>> /\ down' = Tail(down) /\ client \in ClientState
  BY DEF ClientHears, Types
<1>3. /\ m = down[1] /\ Len(down') = Len(down) - 1
      /\ \A i \in 1 .. Len(down') : down'[i] = down[i + 1]
      /\ down' \in Seq(Told)
  BY <1>2, HeadTailProperties
<1>4. DOMAIN down' = 1 .. Len(down) - 1 /\ DOMAIN down = 1 .. Len(down)
      /\ Len(down) \in Nat /\ 1 \in DOMAIN down
  BY <1>2, <1>3, LenProperties, EmptySeq
<1>5. \A i \in DOMAIN down' : i + 1 \in DOMAIN down /\ i + 1 # 1 /\ down'[i] = down[i + 1]
  BY <1>3, <1>4, PlaceBehind
<1>6. NoSdp.ssrc = 0 /\ sdp.ssrc = down[1].ssrc BY <1>3 DEF NoSdp
\* What it knows of calls: nothing new, a ring that was sent, or an answer.
<1>7. \/ client'.told = client.told /\ client'.ring \in {client.ring, NoSdp}
      \/ client'.told = client.told /\ client'.ring = sdp /\ down[1].kind = "ring"
      \/ client'.told = sdp /\ client'.ring = NoSdp
  <2>1. \/ client' = [idle EXCEPT !.ring = sdp] /\ m.kind = "ring"
        \/ client' \in {[idle EXCEPT !.inCall = TRUE, !.told = sdp], idle,
                        [client EXCEPT !.open = NoMessage], client}
    BY DEF ClientHears
  <2> HIDE DEF sdp, m
  <2> QED BY <1>2, <1>3, <2>1 DEF ClientState
<1> HIDE DEF m, sdp, idle
<1>8. /\ client'.told.ssrc \in {client.told.ssrc, down[1].ssrc}
      /\ client'.ring.ssrc \in {0, client.ring.ssrc, down[1].ssrc}
  BY <1>6, <1>7
<1>9. Heard' \subseteq Heard BY <1>4, <1>5, <1>8 DEF Heard
<1>10. AllMinted' BY <1>1, <1>9 DEF RingInv, AllMinted
<1>11. RingAhead' BY <1>1, <1>9 DEF RingInv, RingAhead
<1>12. RingOrder'
  <2> SUFFICES ASSUME NEW j \in DOMAIN down', down'[j].kind = "ring"
               PROVE  /\ client'.told.ssrc < down'[j].ssrc
                      /\ client'.ring.ssrc < down'[j].ssrc
                      /\ \A i \in 1 .. j - 1 : down'[i].ssrc < down'[j].ssrc
    BY DEF RingOrder
  <2>1. j + 1 \in DOMAIN down /\ down'[j] = down[j + 1] /\ j \in 1 .. Len(down) - 1
    BY <1>4, <1>5
  <2>2. /\ client.told.ssrc < down[j + 1].ssrc /\ client.ring.ssrc < down[j + 1].ssrc
        /\ \A i \in 1 .. j + 1 - 1 : down[i].ssrc < down[j + 1].ssrc
    BY <2>1 DEF RingInv, RingOrder
  <2>3. 1 \in 1 .. j + 1 - 1 BY <1>4, <2>1
  <2>4. down[1].ssrc < down[j + 1].ssrc BY <2>2, <2>3
  <2>5. 0 < down[j + 1].ssrc BY <2>1, <2>2, Numbers
  <2>6. \A i \in 1 .. j - 1 : down'[i].ssrc < down'[j].ssrc
    <3> SUFFICES ASSUME NEW i \in 1 .. j - 1 PROVE down'[i].ssrc < down'[j].ssrc
      OBVIOUS
    <3>1. i \in DOMAIN down' /\ i + 1 \in 1 .. j + 1 - 1 BY <1>4, <2>1
    <3> QED BY <1>5, <2>1, <2>2, <3>1
  <2> QED BY <1>8, <2>1, <2>2, <2>4, <2>5, <2>6
<1>13. RingNew'
  <2>1. CASE client'.ring = NoSdp BY <2>1 DEF RingNew
  <2>2. CASE client'.told = client.told /\ client'.ring = client.ring
    BY <2>2 DEF RingInv, RingNew
  <2>3. CASE client'.told = client.told /\ client'.ring = sdp /\ down[1].kind = "ring"
    BY <1>4, <1>6, <2>3 DEF RingInv, RingOrder, RingNew
  <2> QED BY <1>7, <2>1, <2>2, <2>3
<1> QED BY <1>10, <1>11, <1>12, <1>13 DEF RingGoal

-----------------------------------------------------------------------------
LEMMA InitRing == Init => RingInv
<1> SUFFICES ASSUME Init PROVE RingInv OBVIOUS
<1>1. DOMAIN chain = {} /\ DOMAIN down = {} /\ DOMAIN lines = {} BY DEF Init
<1>2. /\ client.told = NoSdp /\ client.ring = NoSdp /\ held = NoSdp /\ lastAnswer = NoSdp
      /\ minted = 0 /\ NoSdp.ssrc = 0
  BY DEF Init, NoSdp
<1>3. Heard = {0} BY <1>1, <1>2 DEF Heard
<1> QED BY <1>1, <1>2, <1>3 DEF RingInv, AllMinted, Minted, RingAhead, RingOrder, RingNew

LEMMA NextRing ==
  ASSUME LineInv, RingInv, [Next]_vars
  PROVE  RingInv'
<1>1. Types /\ LineThere BY DEF LineInv
<1>2. CASE Run
  BY <1>1, <1>2, ApplyOfferRing, RecoverRing, AnswerOfferRing, AnswerRestartRing, RingRing,
     RingSendRing, ApplyAnswerRing, FlushRing, AckEndRing, EndOfferRing, EndRemoteRing
  DEF Run, RingGoal, RingInv
<1>3. CASE Deliver BY <1>1, <1>3, DeliverRing DEF RingGoal, RingInv
<1>4. CASE Coordinate
  BY <1>1, <1>4, IntendRings, MediaRing DEF Coordinate, RingGoal, RingInv
<1>5. CASE Client
  BY <1>1, <1>5, SpeakRing, PicksUpRing, HearsRing DEF Client, RingGoal, RingInv
<1>6. CASE UNCHANGED vars
  BY <1>6 DEF vars, leg, audio, sdps, count, RingInv, AllMinted, Minted, RingAhead,
              RingOrder, RingNew, Heard
<1> QED BY <1>2, <1>3, <1>4, <1>5, <1>6 DEF Next

\* A call that rings the client comes under an identity of its own, whatever was
\* offered, restarted, repaired, refused or crossed before it
\* (WebRtcNegotiation._sendDataChannelRing: a fresh track and identity, minted
\* before the offer is made): the first half of FreshIdentity.
THEOREM RingsAreFresh ==
  ASSUME OneMid
  PROVE  Spec => []RingIsFresh
<1>1. LineInv /\ RingInv => RingIsFresh
  <2> SUFFICES ASSUME LineInv, RingInv PROVE RingIsFresh OBVIOUS
  <2>1. Types BY DEF LineInv
  <2>2. client.ring # NoSdp => client.ring.ssrc # client.told.ssrc
    BY <2>1, Numbers DEF RingInv, RingNew
  <2>3. \A i \in DOMAIN down :
          down[i].kind = "ring" => down[i].ssrc \notin {client.told.ssrc, client.ring.ssrc}
    BY <2>1, Numbers DEF RingInv, RingOrder
  <2> QED BY <2>2, <2>3 DEF RingIsFresh
<1>2. LineInv /\ RingInv /\ [Next]_vars => (LineInv /\ RingInv)' BY NextLine, NextRing
<1> QED BY <1>1, <1>2, InitLine, InitRing, PTL DEF Spec
===============================================================================
