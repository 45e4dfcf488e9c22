----------------------------- MODULE WebSocket -----------------------------
(***************************************************************************)
(* One connection of WebSocketConnection (nwc_nostr.py) to a relay, from   *)
(* the relay's answer to the upgrade until it closes, as the daemon uses   *)
(* it: the relay thread subscribes and then reads messages, answers pings  *)
(* and sends replies; other threads send notifications on it.  A frame is  *)
(* two units of the byte stream, its header and its payload, and a read or *)
(* a write may end between them.                                           *)
(*                                                                         *)
(* The relay is external.  It frames its messages as RFC 6455 asks, in one *)
(* frame or in several with control frames in between, and it takes what   *)
(* was sent whenever it likes.  A send that has waited 20 seconds for room *)
(* raises, with what it has written so far left in the stream.             *)
(***************************************************************************)
EXTENDS Naturals, Sequences, SequencesExt

CONSTANTS Notifier,   \* threads that send notifications
          MaxFrame,   \* bound on the frames the relay sends
          MaxNote,    \* bound on the notifications of a thread
          Room        \* units that fit between the daemon and the relay

ASSUME WebSocketAssumption == MaxFrame \in Nat /\ MaxNote \in Nat /\ Room \in Nat \ {0}

VARIABLES
  accepted,   \* the relay has answered the upgrade
  closed,     \* _closed
  frames,     \* kinds of the frames the relay has sent
  in,         \* units on their way to the daemon
  worker,     \* the relay thread: [pc, frame]
  fragments,  \* frames of the message that is being read
  messages,   \* messages recv_message has returned: sequences of frames
  sending,    \* the send lock's holder: [thread, frame, unit]
  notes,      \* notifications each thread has sent or given up
  out,        \* units on their way to the relay
  parsed,     \* what the relay has read of the frame it is at, or the last one
  leftover,   \* history: connect() read beyond the relay's answer
  halfway     \* history: a send gave up inside a frame and was passed over

readVars == <<accepted, frames, in, fragments, messages, leftover>>
sendVars == <<sending, notes, out, halfway>>
socketVars == <<readVars, sendVars, closed, worker, parsed>>

At(pc, frame) == [pc |-> pc, frame |-> frame]
Unit(frame, half) == [frame |-> frame, half |-> half]
Halves(frame) == <<Unit(frame, 1), Unit(frame, 2)>>
NoSend == [thread |-> "nobody", frame |-> <<"none", 0>>, half |-> 1]

SocketInit ==
  /\ accepted = FALSE /\ closed = FALSE
  /\ frames = <<>> /\ in = <<>>
  /\ worker = At("connect", 0)
  /\ fragments = <<>> /\ messages = <<>>
  /\ sending = NoSend
  /\ notes = [t \in Notifier |-> 0]
  /\ out = <<>> /\ parsed = <<>>
  /\ leftover = FALSE /\ halfway = FALSE

-----------------------------------------------------------------------------
(* The relay.                                                              *)

\* A message is "text", or "first", any number of "more", and "last".
InMessage == \E i \in DOMAIN frames :
               /\ frames[i] = "first"
               /\ \A j \in DOMAIN frames : j > i => frames[j] # "last"
Allowed == {"ping", "pong", "close"}
             \cup IF InMessage THEN {"more", "last"} ELSE {"text", "first"}

RelayAccepts == /\ ~accepted
                /\ accepted' = TRUE
                /\ in' = <<Unit(0, 2)>>
                /\ UNCHANGED <<sendVars, closed, frames, worker, fragments, messages,
                               parsed, leftover>>

RelaySends == /\ accepted
              /\ Len(frames) < MaxFrame
              /\ ~Contains(frames, "close")
              /\ \E kind \in Allowed : frames' = Append(frames, kind)
              /\ in' = in \o Halves(Len(frames'))
              /\ UNCHANGED <<sendVars, accepted, closed, worker, fragments, messages,
                             parsed, leftover>>

\* A unit completes the frame whose header the relay has read, or begins one.
RelayReads ==
  /\ out # <<>>
  /\ out' = Tail(out)
  /\ parsed' = IF Len(parsed) = 1 THEN Append(parsed, Head(out)) ELSE <<Head(out)>>
  /\ UNCHANGED <<readVars, closed, worker, sending, notes, halfway>>

-----------------------------------------------------------------------------
(* Reading.                                                                *)

Close == closed' = TRUE /\ worker' = At("closed", 0)
Work(pc, frame) == worker' = At(pc, frame) /\ UNCHANGED closed

\* connect: recv returns what has come so far, and what follows the end of the
\* relay's headers is dropped.
FinishUpgrade ==
  /\ worker.pc = "connect"
  /\ \E k \in 1..Len(in) :
       /\ in' = SubSeq(in, k + 1, Len(in))
       /\ leftover' = (k > 1)
  /\ Work("info", 0)
  /\ UNCHANGED <<sendVars, accepted, frames, fragments, messages, parsed>>

ReadHeader ==
  /\ worker.pc = "read"
  /\ in # <<>> /\ Head(in).half = 1
  /\ in' = Tail(in)
  /\ Work("payload", Head(in).frame)
  /\ UNCHANGED <<sendVars, accepted, frames, fragments, messages, parsed, leftover>>

\* Payload taken for a header: it is too long, or stands for some message.
ReadGarbage ==
  /\ worker.pc = "read"
  /\ in # <<>> /\ Head(in).half = 2
  /\ in' = Tail(in)
  /\ \/ Close /\ UNCHANGED messages
     \/ /\ messages' = Append(messages, <<Head(in).frame>>)
        /\ UNCHANGED <<closed, worker>>
  /\ UNCHANGED <<sendVars, accepted, frames, fragments, parsed, leftover>>

\* Mutant: a control frame between two fragments starts the message anew.
PayloadForgetting(n) ==
  CASE frames[n] \in {"text", "last"} -> /\ messages' = Append(messages, Append(fragments, n))
                                         /\ fragments' = <<>>
                                         /\ Work("answer", n)
    [] frames[n] \in {"first", "more"} -> /\ fragments' = Append(fragments, n)
                                          /\ Work("read", 0)
                                          /\ UNCHANGED messages
    [] OTHER -> /\ IF frames[n] = "close" THEN Close
                   ELSE IF frames[n] = "ping" THEN Work("pong", n) ELSE Work("read", 0)
                /\ fragments' = <<>>
                /\ UNCHANGED messages

\* What recv_message does with frame n.
Payload(n) ==
  CASE frames[n] \in {"text", "last"} -> /\ messages' = Append(messages, Append(fragments, n))
                                         /\ fragments' = <<>>
                                         /\ Work("answer", n)
    [] frames[n] \in {"first", "more"} -> /\ fragments' = Append(fragments, n)
                                          /\ Work("read", 0)
                                          /\ UNCHANGED messages
    [] OTHER -> /\ IF frames[n] = "close" THEN Close
                   ELSE IF frames[n] = "ping" THEN Work("pong", n) ELSE Work("read", 0)
                /\ UNCHANGED <<fragments, messages>>

ReadPayload ==
  /\ worker.pc = "payload"
  /\ in # <<>>
  /\ in' = Tail(in)
  /\ Payload(worker.frame)
  /\ UNCHANGED <<sendVars, accepted, frames, parsed, leftover>>

\* A message that is no request gets no reply.
Answer == /\ worker.pc = "answer"
           /\ \/ Work("reply", worker.frame)
              \/ Work("read", 0)
           /\ UNCHANGED <<readVars, sendVars, parsed>>

\* Nothing comes for 20 seconds, or the relay is gone: recv raises.
LoseConnection ==
  /\ worker.pc \in {"connect", "read", "payload"}
  /\ in = <<>>
  /\ Close
  /\ UNCHANGED <<readVars, sendVars, parsed>>

-----------------------------------------------------------------------------
(* Sending.                                                                *)

\* The frame a thread wants to send.
Wants(t) == IF t = "worker"
            THEN <<worker.pc, worker.frame>>
            ELSE <<t, notes[t] + 1>>
Waiting(t) == IF t = "worker"
              THEN worker.pc \in {"info", "req", "pong", "reply"}
              ELSE worker.pc # "connect" /\ notes[t] < MaxNote

Sent(t) == IF t = "worker"
           THEN Work(IF worker.pc = "info" THEN "req" ELSE "read", 0) /\ UNCHANGED notes
           ELSE notes' = [notes EXCEPT ![t] = @ + 1] /\ UNCHANGED <<closed, worker>>

\* The exception: info events and notifications pass it over, any other send
\* ends the relay thread's loop, which closes the connection.
Raised(t) == IF t = "worker" /\ worker.pc # "info"
             THEN Close /\ UNCHANGED notes
             ELSE Sent(t)

\* Mutant: sendall without the lock.
AcquireAnyway(t) ==
  /\ Waiting(t) /\ ~closed
  /\ sending.thread # t
  /\ sending' = [thread |-> t, frame |-> Wants(t), half |-> 1]
  /\ UNCHANGED <<readVars, closed, worker, notes, out, parsed, halfway>>

Acquire(t) ==
  /\ Waiting(t) /\ ~closed
  /\ sending = NoSend
  /\ sending' = [thread |-> t, frame |-> Wants(t), half |-> 1]
  /\ UNCHANGED <<readVars, closed, worker, notes, out, parsed, halfway>>

\* EOFError on a connection that is closed.
SendOnClosed(t) ==
  /\ t # "worker" /\ Waiting(t) /\ closed
  /\ sending.thread # t
  /\ Raised(t)
  /\ UNCHANGED <<readVars, sending, out, parsed, halfway>>

Put ==
  /\ sending # NoSend /\ ~closed
  /\ Len(out) < Room
  /\ out' = Append(out, Unit(sending.frame, sending.half))
  /\ IF sending.half = 1
     THEN /\ sending' = [sending EXCEPT !.half = 2]
          /\ UNCHANGED <<closed, worker, notes>>
     ELSE sending' = NoSend /\ Sent(sending.thread)
  /\ UNCHANGED <<readVars, parsed, halfway>>

\* Mutant: the socket has no timeout.
GiveUpOnClosed ==
  /\ sending # NoSend
  /\ closed
  /\ sending' = NoSend
  /\ Raised(sending.thread)
  /\ UNCHANGED <<readVars, out, parsed, halfway>>

\* There was no room for 20 seconds, or the socket was closed.
GiveUp ==
  /\ sending # NoSend
  /\ closed \/ Len(out) = Room
  /\ sending' = NoSend
  /\ Raised(sending.thread)
  /\ halfway' = (halfway \/ (~closed /\ ~closed' /\ sending.half = 2))
  /\ UNCHANGED <<readVars, out, parsed>>

-----------------------------------------------------------------------------
Sender == Notifier \cup {"worker"}
Receive == \/ FinishUpgrade \/ ReadHeader \/ ReadGarbage \/ ReadPayload
           \/ Answer \/ LoseConnection
Send(t) == Acquire(t) \/ SendOnClosed(t)

SocketNext ==
  \/ RelayAccepts \/ RelaySends \/ RelayReads
  \/ Receive \/ Put \/ GiveUp
  \/ \E t \in Sender : Send(t)

SocketSpec == SocketInit /\ [][SocketNext]_socketVars

\* The daemon's threads run; the relay owes nothing.
FairSocketSpec ==
  /\ SocketSpec
  /\ WF_socketVars(Receive) /\ WF_socketVars(Put \/ GiveUp)
  /\ \A t \in Sender : WF_socketVars(Send(t))

-----------------------------------------------------------------------------
IsData(i) == frames[i] \in {"text", "first", "more", "last"}
EndsMessage(i) == frames[i] \in {"text", "last"}
Ascending(s) == \A i, j \in DOMAIN s : i < j => s[i] < s[j]

\* What RFC 6455 calls a message, given the frame the message before it ended
\* with: the data frames from there to the next that ends a message, in order.
IsMessage(m, before) ==
  /\ Ascending(m)
  /\ ToSet(m) = {i \in DOMAIN frames : IsData(i) /\ before < i /\ i <= Last(m)}
  /\ \A i \in ToSet(m) : EndsMessage(i) <=> i = Last(m)

EndBefore(k) == IF k = 1 THEN 0 ELSE Last(messages[k - 1])

\* The messages that were returned are the ones the relay sent, whole, each
\* once and from the first on, whatever control frames came between their
\* fragments; unless connect() swallowed the beginning of the stream.
MessagesAreThose ==
  leftover \/ \A k \in DOMAIN messages : IsMessage(messages[k], EndBefore(k))

\* Every frame the relay reads is one that a thread sent, whole, although the
\* threads share the socket; unless a send gave up inside a frame and the
\* connection was kept.
FramesAreWhole ==
  halfway \/ \A k \in DOMAIN parsed : parsed[k] = Unit(parsed[1].frame, k)

\* No thread waits for ever to send, although the relay may never read again.
SendersMoveOn == \A t \in Sender : Waiting(t) ~> (closed \/ ~Waiting(t))
=============================================================================
